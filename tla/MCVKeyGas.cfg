\* A chunk size next to the largest 64-bit value.
CONSTANTS
  u1 = u1
  zkEmail = zkEmail
  other = other
  circom = circom
  large = large
  gnarkKey = gnarkKey
  Users <- MCUsers
  Authority = gov
  Names <- MCNames
  DefaultName = zkEmail
  KeyBytes <- MCKeyBytes
  DefaultKey = circom
  ParsesAs <- MCParsesAs
  SizeOf <- MCSizeOf
  Unset = unset
  ParamInputs <- HugeChunks
  DefaultParams <- MCDefaultParams
  MaxAllowedVKeySizeBytes = 3
  MaxAllowedProofOrInputSizeBytes = 2
  Word = 16
  GenesisFiles <- DefaultGenesis
  Versions = {3}
  MaxId = 3
  MaxRestarts = 0
SPECIFICATION Spec
INVARIANT UploadsCharged
CHECK_DEADLOCK FALSE
