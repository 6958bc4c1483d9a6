\* After re-index the query for a grantee may fail for good.
CONSTANTS
  g1 = g1
  g2 = g2
  f1 = f1
  Keys <- MCKeys
  IsFeeGrant <- MCIsFeeGrant
  Values = {v1, v2}
  None = none
  MaxChange = 2
  MaxBlocks = 3
  MaxCrashes = 2
  MaxReIndexes = 1
SPECIFICATION Spec
INVARIANT GranteeServed
CHECK_DEADLOCK FALSE
