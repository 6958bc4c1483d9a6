-------------------------- MODULE AudienceRegistry --------------------------
(***************************************************************************)
(* Module x/jwk: the registry of JWT audiences. An account claims the hash *)
(* of a name, creates the audience of that name with a public key, and may *)
(* rekey, rename, hand over or delete it. The queries accept a token of an *)
(* audience by its key and by a clock that runs ahead of the block time.   *)
(* SHA-256 has no collisions here: a claim is kept under the name itself.  *)
(***************************************************************************)
EXTENDS Integers, Sequences, Store

CONSTANTS
  Users,         \* accounts
  Nobody,        \* no account: a step that no account signed
  Auds,          \* names of audiences
  NoAud,         \* an empty new_aud field
  Keys,          \* key payloads that are JSON web keys, records of JWK
  NoKey,         \* an empty key, which only a genesis file may hold
  Subjects,      \* subjects of tokens
  Tokens,        \* compact tokens presented to the queries
  Half,          \* 2^63: offsets are stored as uint64, used as int64
  DefaultOffset, \* TimeOffset of DefaultParams
  OffsetInputs,  \* offsets a genesis file or a parameter change may hold
  GenesisFiles,  \* lists of audiences a genesis file may hold
  Versions,      \* versions of the module the chain may start at
  MaxTime,       \* bound: block time
  MaxRestarts    \* bound: exports that start a new chain

\* What the checks tell apart in a key: its alg and kty fields, whether it
\* holds a private part and whether it is larger than the code allows.
Algs == {"RS", "ES", "EdDSA", "ES256K", "HS", "none"}
Ktys == {"RSA", "EC", "OKP", "oct"}
JWK == [alg : Algs, kty : Ktys, private : BOOLEAN, oversized : BOOLEAN]
Audience == [admin : Users, key : Keys \cup {NoKey}]

ASSUME AccountsAssumption == Nobody \notin Users
ASSUME NamesAssumption == NoAud \notin Auds
ASSUME KeysAssumption == Keys \subseteq JWK /\ NoKey \notin JWK
ASSUME TokensAssumption ==
  Tokens \subseteq [aud : Auds, sub : Subjects, signedWith : Keys, nbf : Nat, exp : Nat]
ASSUME OffsetAssumption ==
  /\ Half \in Nat
  /\ OffsetInputs \subseteq 0..(2 * Half - 1)
  /\ DefaultOffset \in 1..(Half - 1)
ASSUME GenesisAssumption ==
  GenesisFiles \subseteq Seq([aud : Auds, audience : Audience])
ASSUME BoundAssumption ==
  MaxTime \in Nat /\ MaxRestarts \in Nat /\ Versions \subseteq {1, 2, 3}

VARIABLES
  audiences,  \* name -> audience
  claims,     \* name -> signer of the claim on its hash
  TimeOffset, \* the parameter; the other one is a gas price
  version,    \* consensus version of the module
  now,        \* block time
  vetted,     \* history: the file the chain started from passes GenesisState.Validate,
              \* which no start of a chain asks for
  parted,     \* history: audiences whose claim was deleted or not imported
  signer,     \* history: who signed the last message
  restarts    \* history: how often the chain was started from an export

vars == <<audiences, claims, TimeOffset, version, now, vetted, parted, signer, restarts>>
-----------------------------------------------------------------------------
(***************************************************************************)
(* Keys and parameters.                                                    *)
(***************************************************************************)
ValidateJWKKeySize(key) == ~ key.private /\ ~ key.oversized

\* The algorithms of a family need its key type; ES256K has no case.
validateJWKKeyTypeAlgConsistency(key) ==
  /\ key.alg = "RS" => key.kty = "RSA"
  /\ key.alg = "ES" => key.kty = "EC"
  /\ key.alg = "EdDSA" => key.kty = "OKP"

\* Mutant: symmetric algorithms pass.
ValidKey_NoAlgCheck(key) ==
  ValidateJWKKeySize(key) /\ validateJWKKeyTypeAlgConsistency(key)

\* The check of MsgCreateAudience and MsgUpdateAudience.
ValidKey(key) ==
  /\ ValidateJWKKeySize(key)
  /\ key.alg \notin {"HS", "none"}
  /\ validateJWKKeyTypeAlgConsistency(key)

\* The check of a genesis file, which is the same but for its order.
ValidGenesisKey(key) ==
  key # NoKey =>
    /\ key.alg \notin {"HS", "none"}
    /\ ValidateJWKKeySize(key)
    /\ validateJWKKeyTypeAlgConsistency(key)

\* Mutant: any uint64 but 0 passes.
validateTimeOffset_NoMax(offset) == offset # 0

validateTimeOffset(offset) == offset # 0 /\ offset <= Half - 1
-----------------------------------------------------------------------------
(***************************************************************************)
(* The queries ValidateJWT, DecodeJWT and, but for the clock, VerifyJWS.   *)
(***************************************************************************)
\* sdkmath.NewUint(offset).BigInt().Int64()
Int64(offset) == IF offset < Half THEN offset ELSE offset - 2 * Half

Clock == now + Int64(TimeOffset)

\* A key that cannot be parsed, or is of a refused size, serves no query.
StoredKeyServes(aud) ==
  /\ Has(audiences, aud)
  /\ audiences[aud].key # NoKey
  /\ ValidateJWKKeySize(audiences[aud].key)

\* A signature proves nothing under an algorithm the key is not made for.
MadeFor(key) ==
  /\ validateJWKKeyTypeAlgConsistency(key)
  /\ key.alg = "ES256K" => key.kty = "EC"

VerifyJWS(aud, token) ==
  /\ StoredKeyServes(aud)
  /\ token.signedWith = audiences[aud].key
  /\ MadeFor(audiences[aud].key)

ValidateJWT(aud, sub, token) ==
  /\ VerifyJWS(aud, token)
  /\ token.aud = aud
  /\ token.sub = sub
  /\ token.nbf <= Clock
  /\ Clock < token.exp

\* DecodeJWT refuses what ValidateJWT refuses, and answers with all claims of
\* what it accepts.
DecodeJWT(aud, sub, token) ==
  IF ValidateJWT(aud, sub, token)
  THEN {[aud |-> token.aud, sub |-> token.sub, nbf |-> token.nbf, exp |-> token.exp]}
  ELSE {}
-----------------------------------------------------------------------------
(***************************************************************************)
(* Genesis. Claims are neither exported nor imported. GenesisState.Validate*)
(* is what `genesis validate` asks of a file; InitGenesis does not call it *)
(* and refuses a file only for its parameters, which the subspace checks.  *)
(***************************************************************************)
Validate(file, offset) ==
  /\ \A i, j \in DOMAIN file : file[i].aud = file[j].aud => i = j
  /\ \A i \in DOMAIN file : ValidGenesisKey(file[i].audience.key)
  /\ validateTimeOffset(offset)

\* SetAudience overwrites: the last entry of a name stays.
LastFor(file, aud) ==
  CHOOSE i \in DOMAIN file :
    file[i].aud = aud /\ \A j \in DOMAIN file \ {i} : file[j].aud = aud => j < i

ImportedAudiences(file) ==
  [aud \in {file[i].aud : i \in DOMAIN file} |-> file[LastFor(file, aud)].audience]

\* One entry for every name, in the order of the names.
ExportGenesis == [aud \in DOMAIN audiences |-> [aud |-> aud, audience |-> audiences[aud]]]

Init ==
  /\ \E file \in GenesisFiles, offset \in OffsetInputs :
       /\ validateTimeOffset(offset)
       /\ audiences = ImportedAudiences(file)
       /\ TimeOffset = offset
       /\ vetted = Validate(file, offset)
  /\ claims = EmptyStore
  /\ version \in Versions
  /\ now = 0
  /\ parted = DOMAIN audiences
  /\ signer = Nobody
  /\ restarts = 0
-----------------------------------------------------------------------------
(***************************************************************************)
(* Messages.                                                               *)
(***************************************************************************)
CreateAudienceClaim(admin, aud) ==
  /\ ~ Has(claims, aud)
  /\ claims' = Put(claims, aud, admin)
  /\ signer' = admin
  /\ UNCHANGED <<audiences, TimeOffset, version, now, vetted, parted, restarts>>

DeleteAudienceClaim(admin, aud) ==
  /\ Has(claims, aud)
  /\ claims[aud] = admin
  /\ claims' = Drop(claims, aud)
  /\ parted' = IF Has(audiences, aud) THEN parted \cup {aud} ELSE parted
  /\ signer' = admin
  /\ UNCHANGED <<audiences, TimeOffset, version, now, vetted, restarts>>

\* The name is free and the signer holds its claim.
ClaimedBy(aud, admin) == Has(claims, aud) /\ claims[aud] = admin

\* Mutant: the claim is made with the audience.
CreateAudience_ClaimsToo(admin, aud, key) ==
  /\ ValidKey(key)
  /\ ~ Has(audiences, aud)
  /\ Has(claims, aud) => claims[aud] = admin
  /\ audiences' = Put(audiences, aud, [admin |-> admin, key |-> key])
  /\ claims' = Put(claims, aud, admin)
  /\ signer' = admin
  /\ UNCHANGED <<TimeOffset, version, now, vetted, parted, restarts>>

CreateAudience(admin, aud, key) ==
  /\ ValidKey(key)
  /\ ~ Has(audiences, aud)
  /\ ClaimedBy(aud, admin)
  /\ audiences' = Put(audiences, aud, [admin |-> admin, key |-> key])
  /\ signer' = admin
  /\ UNCHANGED <<claims, TimeOffset, version, now, vetted, parted, restarts>>

\* Mutant: the old admin keeps the claim of what it hands over.
TransferClaim_Kept(cs, aud, admin, newAdmin) == cs

TransferClaim(cs, aud, admin, newAdmin) ==
  IF newAdmin # admin THEN Put(cs, aud, newAdmin) ELSE cs

\* Mutant: any account may update an audience.
AdministeredBy_Anyone(aud, admin) == Has(audiences, aud)

AdministeredBy(aud, admin) == Has(audiences, aud) /\ audiences[aud].admin = admin

\* The name stays: a new key, a new admin or both.
Rekey(admin, newAdmin, aud, key) ==
  /\ ValidKey(key)
  /\ AdministeredBy(aud, admin)
  /\ audiences' = Put(audiences, aud, [admin |-> newAdmin, key |-> key])
  /\ claims' = TransferClaim(claims, aud, admin, newAdmin)
  /\ parted' = IF newAdmin # admin THEN parted \ {aud} ELSE parted
  /\ signer' = admin
  /\ UNCHANGED <<TimeOffset, version, now, vetted, restarts>>

\* Mutant: the claim on the old name stays.
Rename_OrphanClaim(admin, newAdmin, aud, newAud, key) ==
  /\ ValidKey(key)
  /\ AdministeredBy(aud, admin)
  /\ ~ Has(audiences, newAud)
  /\ ClaimedBy(newAud, admin)
  /\ audiences' = Put(Drop(audiences, aud), newAud, [admin |-> newAdmin, key |-> key])
  /\ claims' = TransferClaim(claims, newAud, admin, newAdmin)
  /\ parted' = parted \ {aud}
  /\ signer' = admin
  /\ UNCHANGED <<TimeOffset, version, now, vetted, restarts>>

\* The audience moves to a free name that its admin has claimed.
Rename(admin, newAdmin, aud, newAud, key) ==
  /\ ValidKey(key)
  /\ AdministeredBy(aud, admin)
  /\ ~ Has(audiences, newAud)
  /\ ClaimedBy(newAud, admin)
  /\ audiences' = Put(Drop(audiences, aud), newAud, [admin |-> newAdmin, key |-> key])
  /\ claims' = TransferClaim(Drop(claims, aud), newAud, admin, newAdmin)
  /\ parted' = parted \ {aud}
  /\ signer' = admin
  /\ UNCHANGED <<TimeOffset, version, now, vetted, restarts>>

UpdateAudience(admin, newAdmin, aud, newAud, key) ==
  \/ newAud = NoAud /\ Rekey(admin, newAdmin, aud, key)
  \/ newAud # NoAud /\ Rename(admin, newAdmin, aud, newAud, key)

DeleteAudience(admin, aud) ==
  /\ AdministeredBy(aud, admin)
  /\ audiences' = Drop(audiences, aud)
  /\ claims' = Drop(claims, aud)
  /\ parted' = parted \ {aud}
  /\ signer' = admin
  /\ UNCHANGED <<TimeOffset, version, now, vetted, restarts>>
-----------------------------------------------------------------------------
(***************************************************************************)
(* Steps of the chain: a parameter change that governance decides, the     *)
(* upgrades, which both set the offset, time, and export and import.       *)
(***************************************************************************)
ChangeTimeOffset(offset) ==
  /\ validateTimeOffset(offset)
  /\ TimeOffset' = offset
  /\ signer' = Nobody
  /\ UNCHANGED <<audiences, claims, version, now, vetted, parted, restarts>>

Migrate ==
  /\ version < 3
  /\ TimeOffset' = DefaultOffset
  /\ version' = version + 1
  /\ signer' = Nobody
  /\ UNCHANGED <<audiences, claims, now, vetted, parted, restarts>>

NextBlock ==
  /\ now < MaxTime
  /\ now' = now + 1
  /\ signer' = Nobody
  /\ UNCHANGED <<audiences, claims, TimeOffset, version, vetted, parted, restarts>>

Restart ==
  /\ version = 3
  /\ restarts < MaxRestarts
  /\ validateTimeOffset(TimeOffset)
  /\ audiences' = ImportedAudiences(ExportGenesis)
  /\ claims' = EmptyStore
  /\ parted' = DOMAIN audiences'
  /\ signer' = Nobody
  /\ restarts' = restarts + 1
  /\ UNCHANGED <<TimeOffset, version, now, vetted>>
-----------------------------------------------------------------------------
Next ==
  \/ \E u \in Users, aud \in Auds :
       \/ CreateAudienceClaim(u, aud)
       \/ DeleteAudienceClaim(u, aud)
       \/ DeleteAudience(u, aud)
       \/ \E key \in Keys : CreateAudience(u, aud, key)
       \/ \E v \in Users, newAud \in Auds \cup {NoAud}, key \in Keys :
            UpdateAudience(u, v, aud, newAud, key)
  \/ \E offset \in OffsetInputs : ChangeTimeOffset(offset)
  \/ Migrate
  \/ NextBlock
  \/ Restart

Spec == Init /\ [][Next]_vars
-----------------------------------------------------------------------------
(***************************************************************************)
(* Properties.                                                             *)
(***************************************************************************)
\* Every variable holds a value of its kind.
TypeOK ==
  /\ DOMAIN audiences \subseteq Auds
  /\ \A aud \in DOMAIN audiences : audiences[aud] \in Audience
  /\ DOMAIN claims \subseteq Auds
  /\ \A aud \in DOMAIN claims : claims[aud] \in Users
  /\ TimeOffset \in 0..(2 * Half - 1)
  /\ version \in {1, 2, 3}
  /\ now \in 0..MaxTime
  /\ vetted \in BOOLEAN
  /\ parted \subseteq DOMAIN audiences
  /\ signer \in Users \cup {Nobody}
  /\ restarts \in 0..MaxRestarts

\* An audience and the claim on its name are in one hand, through every
\* creation, rename and hand-over, unless the holder of the claim deleted it
\* or the audience came from a genesis file (msg_server_audience.go:148-169:
\* "Without this, the old admin retains the claim").
ClaimFollowsAudience ==
  \A aud \in DOMAIN audiences \ parted :
    aud \in DOMAIN claims /\ claims[aud] = audiences[aud].admin

\* An audience is changed, handed over or deleted by a message of its admin
\* and by nothing else, the rename of another audience and an export
\* included (msg_server_audience.go:114-117, 134-136, 187-190).
AdminDecides ==
  [][\A aud \in DOMAIN audiences :
       (aud \notin DOMAIN audiences' \/ audiences'[aud] # audiences[aud])
         => signer' = audiences[aud].admin]_vars

\* The name of an audience that goes away, deleted or renamed, is left free:
\* neither an audience nor a claim holds it (msg_server_audience.go:147-150,
\* 197-199).
NamesFreed ==
  [][\A aud \in DOMAIN audiences \ DOMAIN audiences' : aud \notin DOMAIN claims']_vars

\* A name becomes an audience only for an account that had claimed it, and
\* its claim is then in the hand of its admin (msg_server_audience.go:78-87,
\* 138-146).
ClaimedFirst ==
  [][\A aud \in DOMAIN audiences' \ DOMAIN audiences :
       /\ aud \in DOMAIN claims /\ claims[aud] = signer'
       /\ aud \in DOMAIN claims' /\ claims'[aud] = audiences'[aud].admin]_vars

\* No token is accepted after it expired by block time, or earlier than the
\* offset before its time: the clock is never behind the block time, whatever
\* offset was stored, and the claims that DecodeJWT returns are those that were
\* checked (params.go:71-74, query_validate_jwt.go:105-108,
\* query_decode_jwt.go:75-88).
TokensInTime ==
  \A aud \in Auds, sub \in Subjects, token \in Tokens :
    \A jwt \in DecodeJWT(aud, sub, token) :
      /\ now < jwt.exp /\ jwt.nbf <= now + TimeOffset
      /\ jwt.aud = aud /\ jwt.sub = sub

\* A chain whose first file passed the checks of a genesis file exports, at any
\* time, a file that passes them: the checks of messages and parameter changes
\* imply those (types/genesis.go:27-81). And whatever the first file was, an
\* export can be imported: InitGenesis panics at an offset out of range.
ExportImportable ==
  /\ validateTimeOffset(TimeOffset)
  /\ vetted => Validate(ExportGenesis, TimeOffset)

-----------------------------------------------------------------------------
(***************************************************************************)
(* What the repository's comments and tests say, and the code does not do. *)
(***************************************************************************)
\* msg_server_audience.go:52-55 "Checks if the msg admin is the same as the
\* current owner": a claim is taken from its signer by a message of its own.
ClaimKept ==
  [][\A aud \in DOMAIN claims :
       (aud \notin DOMAIN claims' \/ claims'[aud] # claims[aud])
         => signer' \in {claims[aud], Nobody}]_vars

\* messages_audience.go:106-110 "A mismatch ... would permanently break JWT
\* verification for that audience": no such key is stored.
StoredKeysVerify ==
  \A aud \in DOMAIN audiences : audiences[aud].key # NoKey => MadeFor(audiences[aud].key)

\* genesis_test.go:140 "TestGenesisRoundTrip": an export and an import lead
\* back to the same registry.
RoundTrip == [][restarts' # restarts => audiences' = audiences /\ claims' = claims]_vars
=============================================================================
