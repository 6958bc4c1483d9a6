\* Chains of both ages, with an upgrade, an export and every message.
CONSTANTS
  u1 = u1
  zkEmail = zkEmail
  other = other
  circom = circom
  large = large
  gnarkKey = gnarkKey
  Users <- MCUsers
  Authority = gov
  Names <- MCNames
  DefaultName = zkEmail
  KeyBytes <- MCKeyBytes
  DefaultKey = circom
  ParsesAs <- MCParsesAs
  SizeOf <- MCSizeOf
  Unset = unset
  ParamInputs <- MCParamInputs
  DefaultParams <- MCDefaultParams
  MaxAllowedVKeySizeBytes = 3
  MaxAllowedProofOrInputSizeBytes = 2
  Word = 16
  GenesisFiles <- MCGenesisFiles
  Versions = {1, 3}
  MaxId = 4
  MaxRestarts = 1
SPECIFICATION Spec
INVARIANTS IndexExact IdsNotReused RestartFaithful ParamsServe
PROPERTY OwnershipKept
CHECK_DEADLOCK FALSE
