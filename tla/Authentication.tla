--------------------------- MODULE Authentication ---------------------------
(***************************************************************************)
(* x/zk and x/dkim together. Authenticate of x/dkim reads public inputs at *)
(* the positions of its parameters, looks the DKIM key of the email up and *)
(* has the proof verified with the key that x/zk stores under the id of    *)
(* those parameters. Anyone may add keys to x/zk, owners change theirs,    *)
(* governance moves the parameters, holders of private keys revoke, and    *)
(* upgrades and exports act on both modules. The queries change no state:  *)
(* they are operators, and the properties compare their answers.           *)
(***************************************************************************)
EXTENDS VKeyRegistry, Integers, Sequences

CONSTANTS
  \* x/dkim: see DkimRegistry.
  Nobody, Slots, RsaKeys, Encodings, DkimSizeOf, StrongKeys, HashOf, Batches,
  ValidateBasicMaxPubKeySizeBytes, DkimDefaultParams, DkimParamInputs, DkimGenesisFiles, DkimVersions,
  \* The queries.
  Field,             \* bn254ScalarPrime
  Base,              \* values of a byte; two bytes hold a field element here, 32 in the code
  FieldElementSize,  \* of an UltraHonk public input
  MaxDKIMProofSizeBytes,
  DomainText,        \* Domains -> the text of the domain
  SubjectOf,         \* texts -> subjects
  NoName,            \* a query that gives no name
  Requests,          \* requests to Authenticate
  Queries            \* requests to the verification queries of x/zk

VARIABLES DkimPubKeys, RevokedKeys, dkimParams, dkimVersion, checked, revokedFor, signer, shown

Dkim == INSTANCE DkimRegistry WITH
          SizeOf <- DkimSizeOf, ParamInputs <- DkimParamInputs, DefaultParams <- DkimDefaultParams,
          GenesisFiles <- DkimGenesisFiles, Versions <- DkimVersions,
          Params <- dkimParams, version <- dkimVersion

LOCAL Seqs == INSTANCE SequencesExt

Accounts == Users \cup {Authority}

\* A public input is a string: decimal, hexadecimal, or no number at all.
Input == [form : {"decimal", "hex", "other"}, val : Int]
Proof == [system : Limits, circuit : KeyBytes, statement : Seq(Nat), size : Nat]
Text == Seq(Nat)
Request ==
  [proof : Proof, inputs : Seq(Input), emailHash : Input, txBytes : Text, hosts : SUBSET Text]
Query ==
  [system : Limits, name : Names \cup {NoName}, id : Nat, proof : Proof, inputs : Seq(Input)]

\* The assumptions of DkimRegistry.
ASSUME DkimAssumption ==
  /\ Nobody \notin Accounts \cup RsaKeys
  /\ DkimParamInputs \subseteq Dkim!ParamsType /\ Unset \notin Dkim!ParamsType
  /\ DkimDefaultParams \in Dkim!ParamsType /\ Dkim!ValidParams(DkimDefaultParams)
  /\ \A batch \in Batches : batch \in Seq(Dkim!Listed)
  /\ \A file \in DkimGenesisFiles :
       /\ file \in Seq(Dkim!Listed)
       /\ \A i \in DOMAIN file : file[i].key.hash = HashOf[file[i].key.rsa]
  /\ DkimVersions \subseteq {1, 2}
ASSUME FieldAssumption ==
  /\ Field \in Nat \ {0, 1} /\ Base \in Nat \ {0, 1} /\ Field <= Base * Base
  /\ FieldElementSize \in Nat \ {0} /\ MaxDKIMProofSizeBytes \in Nat
  /\ HashOf \in [RsaKeys -> 0..(Field - 1)]
ASSUME QueriesAssumption ==
  /\ NoName \notin Names
  /\ Requests \subseteq Request /\ Queries \subseteq Query

dkimVars == <<DkimPubKeys, RevokedKeys, dkimParams, dkimVersion, checked, revokedFor>>
zkVars == <<VKeys, NextVKeyID, VKeyNameIndex, Params, version, vetted, migrated, removed>>
allVars == <<vars, dkimVars, signer, shown>>
-----------------------------------------------------------------------------
(***************************************************************************)
(* Verification in x/zk.                                                   *)
(***************************************************************************)
GetVKeyByID(id) == IF Has(VKeys, id) THEN {VKeys[id]} ELSE {}

\* GetCircomVKeyByID, GetCircomVKeyByName: the bytes are parsed as a Circom
\* key whatever proof system was stored with them.
CircomKeys(found) == {vkey.key : vkey \in {v \in found : "groth16" \in ParsesAs[v.key]}}

Canonical(input) == input.form # "other" /\ input.val \in 0..(Field - 1)

\* The pairing check knows an input modulo the field.
VerifyProof(proof, key, inputs) ==
  /\ proof.circuit = key
  /\ proof.statement = [i \in DOMAIN inputs |-> inputs[i].val % Field]

\* Mutant: inputs are not checked, and the library reduces them.
Verify_NotCanonical(proof, key, inputs) ==
  /\ \A i \in DOMAIN inputs : inputs[i].form # "other"
  /\ VerifyProof(proof, key, inputs)

Verify(proof, key, inputs) ==
  /\ \A i \in DOMAIN inputs : Canonical(inputs[i])
  /\ VerifyProof(proof, key, inputs)

\* Mutant: the id goes first.
Resolve_ByIdFirst(q) ==
  IF q.id # 0 THEN GetVKeyByID(q.id)
  ELSE IF q.name # NoName THEN GetVKeyByName(q.name) ELSE {}

\* By name when the query gives one, else by an id other than 0.
Resolve(q) ==
  IF q.name # NoName THEN GetVKeyByName(q.name)
  ELSE IF q.id # 0 THEN GetVKeyByID(q.id) ELSE {}

WithinLimits(q, system) ==
  /\ q.proof.size \in 1..GetParams.limit[system]
  /\ Len(q.inputs) <= GetParams.limit[system]

ProofVerify(q) ==
  /\ WithinLimits(q, "groth16")
  /\ q.proof.system = "groth16"
  /\ \E key \in CircomKeys(Resolve(q)) : Verify(q.proof, key, q.inputs)

\* The inputs are bytes: they are handed on as they are.
VerifyBytes(q, system) ==
  \E vkey \in Resolve(q) :
    /\ vkey.system = system
    /\ system \in ParsesAs[vkey.key]
    /\ q.proof.system = system
    /\ VerifyProof(q.proof, vkey.key, q.inputs)

ProofVerifyUltraHonk(q) ==
  /\ WithinLimits(q, "ultrahonk")
  /\ Len(q.inputs) % FieldElementSize = 0
  /\ VerifyBytes(q, "ultrahonk")

ProofVerifyGnark(q) == WithinLimits(q, "gnark") /\ VerifyBytes(q, "gnark")

Verified(q) ==
  \/ q.system = "groth16" /\ ProofVerify(q)
  \/ q.system = "ultrahonk" /\ ProofVerifyUltraHonk(q)
  \/ q.system = "gnark" /\ ProofVerifyGnark(q)
-----------------------------------------------------------------------------
(***************************************************************************)
(* Authenticate of x/dkim.                                                 *)
(***************************************************************************)
\* ToLittleEndianWithLeadingZerosTrimming, of a field element.
LittleEndian(v) == IF v < Base THEN <<v>> ELSE <<v % Base, v \div Base>>

TrimRight(bytes) ==
  CHOOSE text \in {SubSeq(bytes, 1, n) : n \in 0..Len(bytes)} :
    /\ \A i \in (Len(text) + 1)..Len(bytes) : bytes[i] = 0
    /\ text = <<>> \/ text[Len(text)] # 0

\* ConvertStringArrayToBigInt reads decimal numbers only.
Readable(list) == \A i \in DOMAIN list : list[i].form = "decimal"

\* ConvertBigIntArrayToString: the bytes of each input, one after another.
TextOf(list) ==
  TrimRight(Seqs!FlattenSeq([i \in DOMAIN list |-> LittleEndian(list[i].val % Field)]))

Magnitude(v) == IF v < 0 THEN -v ELSE v

\* DkimPubKeys: an empty domain asks for the keys of every domain, and the
\* hash 0, of which big.Int makes no bytes, for keys of any hash.
FindsDkimPubKey(domain, hash) ==
  \E slot \in DOMAIN DkimPubKeys :
    /\ domain # <<>> => DomainText[slot[1]] = domain
    /\ hash # 0 => DkimPubKeys[slot].hash = hash

(***************************************************************************)
(* A subject is a list of pieces: plain text, MIME words in UTF-8 and      *)
(* base64, other MIME words, and text with a MIME marker that is no word.  *)
(* A piece holds reply and forward prefixes, the tag and other words.      *)
(***************************************************************************)
decodeMIMESubject(subject) ==
  LET encoded == SelectSeq(subject, LAMBDA piece : piece.mime \in {"utf8_base64", "other"})
  IN  IF encoded = <<>> THEN subject ELSE encoded

ValidateForcedSubject(subject) ==
  LET pieces == decodeMIMESubject(subject)
      words == Seqs!FlattenSeq([i \in DOMAIN pieces |-> pieces[i].words])
  IN  /\ \A i \in DOMAIN pieces : pieces[i].mime \in {"plain", "utf8_base64"}
      /\ \E i \in DOMAIN words : words[i] = "tag" /\ \A j \in 1..(i - 1) : words[j] = "prefix"

\* What is read of a request at given positions, if its list is long enough. A
\* position that nobody checked may lie outside of it: the query then panics.
Reading(req, x) ==
  LET Slice(r) == SubSeq(req.inputs, x.range[r].start + 1, x.range[r].end)
      hash == req.inputs[x.dkimHash + 1]
  IN  IF /\ Len(req.inputs) >= x.minLength
         /\ Dkim!InputsInRange(x, Len(req.inputs))
         /\ hash.form = "decimal"
         /\ \A r \in Dkim!Ranges : Readable(Slice(r))
      THEN {[emailHash |-> req.inputs[x.emailHash + 1], dkimHash |-> Magnitude(hash.val),
             text |-> [r \in Dkim!Ranges |-> TextOf(Slice(r))],
             forced |-> ValidateForcedSubject(SubjectOf[TextOf(Slice("email_subject"))])]}
      ELSE {}

\* The positions that parameters in force may hold.
Positions == {p.indices : p \in DkimParamInputs \cup {DkimDefaultParams}}

\* A constant, so that TLC computes it once.
Readings ==
  [req \in Requests |-> [x \in Positions |-> Reading(req, x)]]

\* The answer with given parameters and given verification keys.
AuthenticateWith(req, p, circuits) ==
  /\ req.proof.size <= MaxDKIMProofSizeBytes
  /\ \E read \in Readings[req][p.indices] :
       /\ req.emailHash = read.emailHash
       /\ req.txBytes = read.text["tx_bytes"]
       /\ FindsDkimPubKey(read.text["dkim_domain"], read.dkimHash)
       /\ read.text["email_host"] \in req.hosts \ {<<>>}
       /\ read.forced
  /\ req.proof.system = "groth16"
  /\ \E key \in circuits : Verify(req.proof, key, req.inputs)

\* The parameters are read without their defaults.
Authenticate(req) ==
  dkimParams # Unset /\ AuthenticateWith(req, dkimParams, CircomKeys(GetVKeyByID(dkimParams.vkey)))
-----------------------------------------------------------------------------
(***************************************************************************)
(* Steps. A message of one module leaves the other as it is.               *)
(***************************************************************************)
AuthInit == Init /\ Dkim!Init

\* An upgrade runs the migrations of every module that is behind.
Upgrade ==
  /\ dkimVersion = 1 \/ version = 1
  /\ \/ Dkim!Migrate
     \/ dkimVersion = 2 /\ UNCHANGED dkimVars
  /\ \/ Migrate
     \/ version = 3 /\ UNCHANGED zkVars
  /\ signer' = Nobody
  /\ shown' = Nobody
  /\ UNCHANGED restarts

\* The whole chain is exported and started again.
RestartAll == Restart /\ Dkim!Restart

ZkSigned(from) ==
  /\ signer' = from
  /\ shown' = Nobody
  /\ UNCHANGED dkimVars

AuthNext ==
  \/ \E u \in Accounts, batch \in Batches : Dkim!AddDkimPubKeys(u, batch) /\ UNCHANGED zkVars
  \/ \E u \in Accounts, slot \in Slots : Dkim!RemoveDkimPubKey(u, slot) /\ UNCHANGED zkVars
  \/ \E u \in Accounts, domain \in Dkim!Domains, rsa \in RsaKeys :
       Dkim!RevokeDkimPubKey(u, domain, rsa) /\ UNCHANGED zkVars
  \/ \E u \in Accounts, p \in DkimParamInputs : Dkim!UpdateParams(u, p) /\ UNCHANGED zkVars
  \/ \E u \in Accounts, name \in Names, key \in KeyBytes, system \in ProofSystems :
       AddVKey(u, name, key, system) /\ ZkSigned(u)
  \/ \E u \in Accounts, name \in Names, key \in KeyBytes, system \in ProofSystems :
       UpdateVKey(u, name, key, system) /\ ZkSigned(u)
  \/ \E u \in Accounts, name \in Names : RemoveVKey(u, name) /\ ZkSigned(u)
  \/ \E u \in Accounts, p \in ParamInputs : UpdateParams(u, p) /\ ZkSigned(u)
  \/ Upgrade
  \/ RestartAll

AuthSpec == AuthInit /\ [][AuthNext]_allVars
-----------------------------------------------------------------------------
(***************************************************************************)
(* Properties. The present version of both modules answers the queries.    *)
(***************************************************************************)
Serving == dkimVersion = 2 /\ version = 3

\* Who may decide about the key behind an id: its owner, or, while the id was
\* never given out, whoever adds the key that gets it. Two cases stand apart,
\* which VKeyRegistry states (IdsNotReused): the id that the migration filled
\* without moving the sequence, and ids given out again after a restart.
MayChangeKey(id, who) ==
  \/ Has(VKeys, id) /\ who = OwnerOf(VKeys[id])
  \/ ~ Has(VKeys, id) /\ (id \notin removed \/ restarts > 0)
  \/ Overwritten(id) /\ NextVKeyID <= id

\* The key behind an id may be another after a step: of who decides about it, or
\* of an export that does not keep it.
KeyMayChange(id) ==
  \/ MayChangeKey(id, signer')
  \/ restarts' # restarts /\ ~ ExportKeeps(id)

\* One proof authenticates one message of one account: whatever form the
\* public inputs take, two requests with the same proof carry the same
\* transaction and the same email hash (keeper.go:224-237,
\* query_server.go:228-243).
ProofBinds ==
  Serving =>
    \A r1, r2 \in {req \in Requests : Authenticate(req)} :
      r1.proof = r2.proof =>
        r1.txBytes = r2.txBytes /\ r1.emailHash.val = r2.emailHash.val

\* Whether a request authenticates is changed by governance, by who holds the
\* private key it was signed with, and by who owns the verification key that
\* the parameters name; by no other account, however many keys it adds to
\* x/zk or revokes, and by no export but one that loses that verification key
\* (query_server.go:252-264, 330, x/zk/keeper/keeper.go:118-150). A request
\* that gives the hash 0 stands on any key of its domain (query_server.go:140).
AnswersKept ==
  [][Serving /\ signer' # Authority => \A req \in Requests :
       \/ Authenticate(req)' = Authenticate(req)
       \/ KeyMayChange(dkimParams.vkey)
       \/ /\ shown' # Nobody
          /\ req.inputs[dkimParams.indices.dkimHash + 1].val \in {0, HashOf[shown']}]_allVars

\* The same for the verification queries of x/zk: what a proof is answered
\* with, under a name or an id, changes by governance or by the owner of the
\* key, as the first key of that name or id is added, or by an export that
\* loses the key (x/zk/keeper/query_server.go:33-330, keeper.go:118-150, 383-428).
VerdictsKept ==
  [][Serving /\ signer' # Authority => \A q \in Queries :
       \/ Verified(q)' = Verified(q)
       \/ q.name = NoName /\ KeyMayChange(q.id)
       \/ q.name # NoName /\ ~ Has(VKeyNameIndex, q.name)
       \/ q.name # NoName /\ KeyMayChange(VKeyNameIndex[q.name])]_allVars

\* An upgrade of both modules leaves a chain that authenticates: whatever the
\* old stores held, a proof made for the new default key and the new default
\* positions is accepted where the parameters name the default key's id
\* (x/dkim/migrations/v2/migrate.go, x/zk/migrations/v2/migrate.go).
UpgradeServes ==
  [][dkimVersion' # dkimVersion /\ version' # version =>
       /\ dkimParams' # Unset
       /\ dkimParams'.vkey = 1 =>
            \A req \in Requests :
              AuthenticateWith(req, DkimDefaultParams, {DefaultKey})' => Authenticate(req)']_allVars
=============================================================================
