\* Every message, parameter change and upgrade, across an export.
CONSTANTS
  u1 = u1
  u2 = u2
  app = app
  web = web
  Users <- MCUsers
  Nobody = nobody
  Auds <- MCAuds
  NoAud = noAud
  Keys <- MCKeys
  NoKey = noKey
  Subjects <- MCSubjects
  Tokens <- MCTokens
  Half = 4
  DefaultOffset = 1
  OffsetInputs <- MCOffsetInputs
  GenesisFiles <- MCGenesisFiles
  Versions = {1, 2, 3}
  MaxTime = 3
  MaxRestarts = 1
SPECIFICATION Spec
INVARIANTS ClaimFollowsAudience TokensInTime ExportImportable
PROPERTIES AdminDecides NamesFreed ClaimedFirst
CHECK_DEADLOCK FALSE
