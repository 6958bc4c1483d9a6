\* Every query, pages of two.
CONSTANTS
  a = a
  b = b
  c = c
  t1 = t1
  t2 = t2
  N = 6
  GroupOf <- MCGroupOf
  TagOf <- MCTagOf
  LengthOf <- MCLengthOf
  Any = any
  Requests <- Sound
  Limit = 2
  MaxAudiencePage = 2
  NoRequest = norequest
SPECIFICATION PagesFairSpec
INVARIANTS PagesSound PagesComplete
PROPERTY PagesEnd
CHECK_DEADLOCK FALSE
