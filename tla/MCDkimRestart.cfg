\* A revoked key after an export and import.
CONSTANTS
  u1 = u1
  d1 = d1
  d2 = d2
  s1 = s1
  s2 = s2
  k1 = k1
  k2 = k2
  weak = weak
  pkix = pkix
  pkcs1 = pkcs1
  Users <- MCUsers
  Authority = gov
  Nobody = nobody
  Slots <- MCSlots
  RsaKeys <- MCRsaKeys
  Encodings <- MCEncodings
  SizeOf <- MCSizeOf
  StrongKeys <- MCStrongKeys
  HashOf <- MCHashOf
  Batches <- MCBatches
  ValidateBasicMaxPubKeySizeBytes = 3
  Unset = unset
  DefaultParams <- MCDefaultParams
  ParamInputs <- MCParamInputs
  GenesisFiles <- MCGenesisFiles
  Versions = {2}
  MaxRestarts = 1
SPECIFICATION Spec
INVARIANT RevocationSurvives
CHECK_DEADLOCK FALSE
