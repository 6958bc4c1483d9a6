\* Two denominations, one of which the bank does not let users send. A send
\* of 2 pays no fee, a fee of 1 that was rounded up or, at 100%, everything, so
\* that nothing is left to deliver; a proposal of 10001 is refused, a genesis file
\* with it is not.
CONSTANTS
  u1 = u1
  u2 = u2
  uxion = uxion
  frozen = frozen
  Users <- MCUsers
  Authority = gov
  FeeCollector = fee_collector
  Distribution = distribution
  MintDenom = uxion
  Denoms <- TwoDenoms
  Genesis <- TwoGenesis
  SendDisabled = {frozen}
  Amounts = {0, 2}
  MinAmounts = {0, 2}
  Percentages = {0, 1, 10000, 10001}
  Provisions = {1}
  MaxOutputs = 2
  MaxVolume = 4
  MaxHeight = 2
SPECIFICATION Spec
SYMMETRY MCSymmetry
INVARIANTS TypeOK RewardsAreProvisions IssuanceNetOfFees SendsAgree
PROPERTY SplittingEvadesNoFee
CHECK_DEADLOCK FALSE
