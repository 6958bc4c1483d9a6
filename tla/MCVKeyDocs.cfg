\* Ids that a chain gives out, a genesis file without keys and one export
\* included, and a chain of version 1 that is upgraded: all fail (-continue).
CONSTANTS
  u1 = u1
  zkEmail = zkEmail
  other = other
  circom = circom
  large = large
  gnarkKey = gnarkKey
  Users <- MCUsers
  Authority = gov
  Names <- MCNames
  DefaultName = zkEmail
  KeyBytes <- MCKeyBytes
  DefaultKey = circom
  ParsesAs <- MCParsesAs
  SizeOf <- MCSizeOf
  Unset = unset
  ParamInputs <- FewParams
  DefaultParams <- MCDefaultParams
  MaxAllowedVKeySizeBytes = 3
  MaxAllowedProofOrInputSizeBytes = 2
  Word = 16
  GenesisFiles <- MCGenesisFiles
  Versions = {1, 3}
  MaxId = 4
  MaxRestarts = 1
SPECIFICATION Spec
INVARIANTS IdsUnique IdsUsable NameAndIdAgree RoundTrip
CHECK_DEADLOCK FALSE
