\* Two blocks, two crashes or failed writes, re-index.
CONSTANTS
  g1 = g1
  g2 = g2
  f1 = f1
  Keys <- MCKeys
  IsFeeGrant <- MCIsFeeGrant
  Values = {v1, v2}
  None = none
  MaxChange = 2
  MaxBlocks = 2
  MaxCrashes = 2
  MaxReIndexes = 1
SPECIFICATION Spec
SYMMETRY MCSymmetry
INVARIANTS Mirrors ReIndexServes QueryTruthful
CHECK_DEADLOCK FALSE
