\* A key whose type does not fit its algorithm, an audience and the claim on its
\* name in two hands, and an export of a registry with claims: all three fail (-continue).
CONSTANTS
  u1 = u1
  u2 = u2
  app = app
  web = web
  Users <- MCUsers
  Nobody = nobody
  Auds <- MCAuds
  NoAud = noAud
  Keys <- MismatchedKeys
  NoKey = noKey
  Subjects <- MCSubjects
  Tokens <- MCTokens
  Half = 4
  DefaultOffset = 1
  OffsetInputs <- MCOffsetInputs
  GenesisFiles <- NoAudience
  Versions = {3}
  MaxTime = 0
  MaxRestarts = 1
SPECIFICATION Spec
INVARIANT StoredKeysVerify
PROPERTIES ClaimKept RoundTrip
CHECK_DEADLOCK FALSE
