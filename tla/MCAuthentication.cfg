\* Messages to both modules, upgrades and an export, beside the queries.
CONSTANTS
  u1 = u1
  d1 = d1
  s1 = s1
  s2 = s2
  k1 = k1
  k2 = k2
  pkix = pkix
  zkEmail = zkEmail
  other = other
  circuit = circuit
  gnarkKey = gnarkKey
  honkKey = honkKey
  Users <- MCUsers
  Authority = gov
  Nobody = nobody
  Slots <- MCSlots
  RsaKeys <- MCRsaKeys
  Encodings = {pkix}
  DkimSizeOf <- MCSizeOf
  StrongKeys <- MCRsaKeys
  Batches <- MCBatches
  ValidateBasicMaxPubKeySizeBytes = 1
  Unset = unset
  DkimDefaultParams <- MCDefaultParams
  DkimParamInputs <- MCParamInputs
  DkimGenesisFiles <- MCGenesisFiles
  DkimVersions = {1, 2}
  MaxRestarts = 1
  Names <- MCNames
  DefaultName = zkEmail
  KeyBytes <- MCKeyBytes
  DefaultKey = circuit
  ParsesAs <- MCParsesAs
  SizeOf <- MCZkSizeOf
  ParamInputs <- MCZkParamInputs
  DefaultParams <- MCZkDefaultParams
  MaxAllowedVKeySizeBytes = 1
  MaxAllowedProofOrInputSizeBytes = 6
  Word = 16
  GenesisFiles <- MCZkGenesisFiles
  Versions = {1, 3}
  MaxId = 3
  Field = 5
  Base = 3
  FieldElementSize = 2
  MaxDKIMProofSizeBytes = 1
  HashOf <- MCHashOf
  DomainText <- MCDomainText
  SubjectOf <- MCSubjectOf
  NoName = noName
  Requests <- MCRequests
  Queries <- MCQueries
SPECIFICATION AuthSpec
VIEW AuthView
CHECK_DEADLOCK FALSE
INVARIANT ProofBinds
PROPERTIES AnswersKept VerdictsKept UpgradeServes
