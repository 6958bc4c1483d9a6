\* A chain that starts from the default genesis, exported at any time.
CONSTANTS
  u1 = u1
  zkEmail = zkEmail
  other = other
  circom = circom
  large = large
  gnarkKey = gnarkKey
  Users <- MCUsers
  Authority = gov
  Names <- MCNames
  DefaultName = zkEmail
  KeyBytes <- MCKeyBytes
  DefaultKey = circom
  ParsesAs <- MCParsesAs
  SizeOf <- MCSizeOf
  Unset = unset
  ParamInputs <- FewParams
  DefaultParams <- MCDefaultParams
  MaxAllowedVKeySizeBytes = 3
  MaxAllowedProofOrInputSizeBytes = 2
  Word = 16
  GenesisFiles <- DefaultGenesis
  Versions = {3}
  MaxId = 4
  MaxRestarts = 1
SPECIFICATION Spec
INVARIANT ExportImports
CHECK_DEADLOCK FALSE
