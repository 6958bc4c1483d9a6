\* Lists of minimums and a percentage as the documents describe them; all three
\* invariants fail (-continue).
CONSTANTS
  u1 = u1
  u2 = u2
  uxion = uxion
  frozen = frozen
  Users <- MCUsers
  Authority = gov
  FeeCollector = fee_collector
  Distribution = distribution
  MintDenom = uxion
  Denoms <- OneDenom
  Genesis <- OneGenesis
  SendDisabled = {}
  Amounts = {0, 1, 2}
  MinAmounts = {0, 2}
  Percentages = {0, 1, 6000, 10000, 10001}
  Provisions = {0, 2}
  MaxOutputs = 2
  MaxVolume = 3
  MaxHeight = 2
SPECIFICATION Spec
INVARIANTS EmptyMinimumsAdmitSends ZeroMinimumsProposable PercentageLimited
CHECK_DEADLOCK FALSE
