\* Grants, fees, revocations and expirations over five blocks.
CONSTANTS
  treasury = treasury
  stranger = stranger
  c1 = c1
  c2 = c2
  Unlimited = unlimited
  Never = never
  NoPeriod = noperiod
  Refused = refused
  None = none
  Inconsistent = inconsistent
  Txs <- MCTxs
  Msgs <- MCMsgs
  Grantees <- MCGrantees
  Contracts <- MCContracts
  Proposals <- MCProposals
  Leaves <- MCLeaves
  maxMultiAnyAllowanceDepth = 1
  MaxNesting = 4
  MaxTime = 5
SPECIFICATION Spec
INVARIANTS NothingLost ExpiryKept
PROPERTY RefinesFlat
CHECK_DEADLOCK FALSE
