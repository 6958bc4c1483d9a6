\* GranteeGrants from page to page, and Grants with a kind of message; all
\* three invariants fail (-continue).
CONSTANTS
  a = a
  b = b
  c = c
  t1 = t1
  t2 = t2
  N = 6
  GroupOf <- MCGroupOf
  TagOf <- MCTagOf
  LengthOf <- MCLengthOf
  Any = any
  Requests <- Documented
  Limit = 2
  MaxAudiencePage = 2
  NoRequest = norequest
SPECIFICATION PagesSpec
INVARIANTS GranteePagesComplete NextKeysFit GrantsMatchType
CHECK_DEADLOCK FALSE
