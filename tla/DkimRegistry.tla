---------------------------- MODULE DkimRegistry ----------------------------
(***************************************************************************)
(* Module x/dkim: the registry of DKIM public keys by domain and selector. *)
(* Governance adds and removes keys; whoever shows the private key revokes *)
(* the key of a domain, without governance and for good. Authenticate      *)
(* looks a key up by domain and Poseidon hash and reads public inputs at   *)
(* positions that the parameters give.                                     *)
(***************************************************************************)
EXTENDS Integers, Sequences, Store

CONSTANTS
  Users,         \* accounts
  Authority,     \* the keeper's authority, the gov module's address
  Nobody,        \* no account, no private key: a step of the chain
  Slots,         \* pairs <<domain, selector>>
  RsaKeys,       \* RSA public keys: a modulus and an exponent
  Encodings,     \* PKIX and PKCS#1, two encodings of the same key
  SizeOf,        \* the length of an encoded key
  StrongKeys,    \* keys of at least DefaultMinRSAKeyBits bits
  HashOf,        \* the Poseidon hash of the low bits of a key's modulus
  Batches,       \* lists of records an MsgAddDkimPubKeys may hold
  ValidateBasicMaxPubKeySizeBytes,
  Unset,         \* parameters never stored
  DefaultParams,
  ParamInputs,   \* parameters a genesis file or a proposal may hold
  GenesisFiles,  \* lists of records a genesis file may hold
  Versions,      \* versions of the module the chain may start at
  MaxRestarts    \* bound: exports that start a new chain

Ranges == {"dkim_domain", "tx_bytes", "email_host", "email_subject"}

Domains == {slot[1] : slot \in Slots}
DkimPubKey == [rsa : RsaKeys, encoding : Encodings, hash : Nat]
Listed == [slot : Slots, key : DkimPubKey]
Indices ==
  [minLength : Nat, emailHash : Nat, dkimHash : Nat,
   range : [Ranges -> [start : Nat, end : Nat]]]
ParamsType == [vkey : Nat, maxSize : Nat, indices : Indices]

ASSUME AccountsAssumption ==
  Authority \notin Users /\ Nobody \notin Users \cup {Authority} /\ Nobody \notin RsaKeys
ASSUME KeysAssumption ==
  /\ SizeOf \in [RsaKeys \X Encodings -> Nat \ {0}]
  /\ HashOf \in [RsaKeys -> Nat]
  /\ ValidateBasicMaxPubKeySizeBytes \in Nat
ASSUME ParamsAssumption ==
  ParamInputs \subseteq ParamsType /\ DefaultParams \in ParamsType /\ Unset \notin ParamsType
ASSUME BatchesAssumption == \A batch \in Batches : batch \in Seq(Listed)
\* The hashes of a genesis file are computed by who writes it: the code
\* stores them as they are.
ASSUME GenesisAssumption ==
  \A file \in GenesisFiles :
    /\ file \in Seq(Listed)
    /\ \A i \in DOMAIN file : file[i].key.hash = HashOf[file[i].key.rsa]
ASSUME BoundAssumption == MaxRestarts \in Nat /\ Versions \subseteq {1, 2}

VARIABLES
  DkimPubKeys,  \* slot -> key
  RevokedKeys,  \* canonical forms of the revoked keys
  Params,       \* the stored parameters, or Unset
  version,      \* consensus version of the module
  checked,      \* history: the parameters in force passed a check
  revokedFor,   \* history: pairs of a domain and a key revoked for it
  signer,       \* history: who signed the last message
  shown,        \* history: the private key the last message showed
  restarts      \* history: how often the chain was started from an export

vars == <<DkimPubKeys, RevokedKeys, Params, version, checked, revokedFor, signer, shown, restarts>>
-----------------------------------------------------------------------------
(***************************************************************************)
(* Parameters.                                                             *)
(***************************************************************************)
\* Mutant: a range may end one past the inputs.
ValidIndices_OffByOne(x) ==
  /\ x.minLength > 0
  /\ \A r \in Ranges : x.range[r].start < x.range[r].end /\ x.range[r].end <= x.minLength + 1
  /\ x.emailHash < x.minLength
  /\ x.dkimHash < x.minLength

ValidIndices(x) ==
  /\ x.minLength > 0
  /\ \A r \in Ranges : x.range[r].start < x.range[r].end /\ x.range[r].end <= x.minLength
  /\ x.emailHash < x.minLength
  /\ x.dkimHash < x.minLength

ValidParams(p) == p.maxSize > 0 /\ p.vkey > 0 /\ ValidIndices(p.indices)

ASSUME DefaultsAssumption == ValidParams(DefaultParams)

GetParams == IF Params = Unset THEN DefaultParams ELSE Params

\* A genesis file may leave the size limit out.
WithDefaultSize(p) == IF p.maxSize = 0 THEN [p EXCEPT !.maxSize = DefaultParams.maxSize] ELSE p
-----------------------------------------------------------------------------
(***************************************************************************)
(* Keys.                                                                   *)
(***************************************************************************)
DecodesWithin(key, max) == SizeOf[<<key.rsa, key.encoding>>] <= max

\* A canonical key is the key itself, whatever its encoding.
AddAccepted(batch) ==
  \A i \in DOMAIN batch :
    /\ DecodesWithin(batch[i].key, ValidateBasicMaxPubKeySizeBytes)
    /\ DecodesWithin(batch[i].key, GetParams.maxSize)
    /\ batch[i].key.rsa \in StrongKeys
    /\ batch[i].key.rsa \notin RevokedKeys

\* ComputePoseidonHash leaves out the exponent and the high bits of a long
\* modulus, so two keys may have one hash. A canonical key has all of it.
WithPoseidonHash(key) == [key EXCEPT !.hash = HashOf[key.rsa]]

SlotsOf(list) == {list[i].slot : i \in DOMAIN list}
LastFor(list, slot) ==
  CHOOSE i \in DOMAIN list :
    list[i].slot = slot /\ \A j \in DOMAIN list : list[j].slot = slot => j <= i

\* SaveDkimPubKeys: the records are stored in order, each over what is there.
SaveDkimPubKeys(store, list) ==
  [slot \in DOMAIN store \cup SlotsOf(list) |->
     IF slot \in SlotsOf(list) THEN list[LastFor(list, slot)].key ELSE store[slot]]

InDomain(domain) == {slot \in DOMAIN DkimPubKeys : slot[1] = domain}
Holding(domain, rsa) == {slot \in InDomain(domain) : DkimPubKeys[slot].rsa = rsa}

\* The keys Authenticate finds by the domain and the hash among the public
\* inputs: a hash of 0 is an empty filter. x/zk verifies the proof itself.
AuthenticateFinds(domain, hash) ==
  {slot \in InDomain(domain) : hash # 0 => DkimPubKeys[slot].hash = hash}

\* Every access of Authenticate to a number of public inputs.
InputsInRange(x, n) ==
  /\ x.emailHash < n
  /\ x.dkimHash < n
  /\ \A r \in Ranges : x.range[r].start <= x.range[r].end /\ x.range[r].end <= n
-----------------------------------------------------------------------------
(***************************************************************************)
(* Genesis. AppModule.InitGenesis stores the parameters and the records of *)
(* the file as they are, and leaves its list of revoked keys.              *)
(***************************************************************************)
\* What a file is checked for by whoever calls the check.
Validate(file, p) ==
  /\ ValidParams(WithDefaultSize(p))
  /\ \A i \in DOMAIN file : DecodesWithin(file[i].key, WithDefaultSize(p).maxSize)

\* Version 1 stored no positions.
NoIndices ==
  [minLength |-> 0, emailHash |-> 0, dkimHash |-> 0,
   range |-> [r \in Ranges |-> [start |-> 0, end |-> 0]]]

Init ==
  /\ version \in Versions
  /\ \E file \in GenesisFiles, p \in ParamInputs :
       /\ DkimPubKeys = SaveDkimPubKeys(EmptyStore, file)
       /\ \/ version = 2 /\ Params = p
          \/ version = 1 /\ Params \in {[p EXCEPT !.indices = NoIndices], Unset}
       /\ checked = (version = 2 /\ Validate(file, p))
  /\ RevokedKeys = {}
  /\ revokedFor = {}
  /\ signer = Nobody
  /\ shown = Nobody
  /\ restarts = 0
-----------------------------------------------------------------------------
(***************************************************************************)
(* Messages.                                                               *)
(***************************************************************************)
AddDkimPubKeys(from, batch) ==
  /\ from = Authority
  /\ AddAccepted(batch)
  /\ DkimPubKeys' =
       SaveDkimPubKeys(DkimPubKeys,
         [i \in DOMAIN batch |-> [batch[i] EXCEPT !.key = WithPoseidonHash(batch[i].key)]])
  /\ signer' = from
  /\ shown' = Nobody
  /\ UNCHANGED <<RevokedKeys, Params, version, checked, revokedFor, restarts>>

\* Removing what is not there is no error.
RemoveDkimPubKey(from, slot) ==
  /\ from = Authority
  /\ DkimPubKeys' = Drop(DkimPubKeys, slot)
  /\ signer' = from
  /\ shown' = Nobody
  /\ UNCHANGED <<RevokedKeys, Params, version, checked, revokedFor, restarts>>

\* The handler fails on the first key of the domain that it cannot decode
\* under the limit now in force, and then nothing is revoked.
RevokeSucceeds(domain) ==
  \A slot \in InDomain(domain) : DecodesWithin(DkimPubKeys[slot], GetParams.maxSize)

\* Mutant: the first match ends the search.
RevokeDkimPubKey_FirstOnly(from, domain, rsa) ==
  /\ RevokeSucceeds(domain)
  /\ Holding(domain, rsa) # {}
  /\ DkimPubKeys' = Drop(DkimPubKeys, CHOOSE slot \in Holding(domain, rsa) : TRUE)
  /\ RevokedKeys' = RevokedKeys \cup {rsa}
  /\ revokedFor' = revokedFor \cup {<<domain, rsa>>}
  /\ signer' = from
  /\ shown' = rsa
  /\ UNCHANGED <<Params, version, checked, restarts>>

\* Mutant: all the keys of the domain go.
RevokeDkimPubKey_Domain(from, domain, rsa) ==
  /\ RevokeSucceeds(domain)
  /\ Holding(domain, rsa) # {}
  /\ DkimPubKeys' = DropAll(DkimPubKeys, InDomain(domain))
  /\ RevokedKeys' = RevokedKeys \cup {rsa}
  /\ revokedFor' = revokedFor \cup {<<domain, rsa>>}
  /\ signer' = from
  /\ shown' = rsa
  /\ UNCHANGED <<Params, version, checked, restarts>>

\* A key that the domain does not hold is not revoked and is no error.
RevokeDkimPubKey(from, domain, rsa) ==
  /\ RevokeSucceeds(domain)
  /\ Holding(domain, rsa) # {}
  /\ DkimPubKeys' = DropAll(DkimPubKeys, Holding(domain, rsa))
  /\ RevokedKeys' = RevokedKeys \cup {rsa}
  /\ revokedFor' = revokedFor \cup {<<domain, rsa>>}
  /\ signer' = from
  /\ shown' = rsa
  /\ UNCHANGED <<Params, version, checked, restarts>>

\* A size limit of 0, for which the handler has a default, does not get past
\* ValidateBasic.
UpdateParams(from, p) ==
  /\ from = Authority
  /\ ValidParams(p)
  /\ Params' = p
  /\ checked' = TRUE
  /\ signer' = from
  /\ shown' = Nobody
  /\ UNCHANGED <<DkimPubKeys, RevokedKeys, version, revokedFor, restarts>>
-----------------------------------------------------------------------------
Migrate ==
  /\ version = 1
  /\ Params' = IF Params = Unset THEN DefaultParams
               ELSE [Params EXCEPT !.indices = DefaultParams.indices]
  /\ version' = 2
  /\ checked' = TRUE
  /\ signer' = Nobody
  /\ shown' = Nobody
  /\ UNCHANGED <<DkimPubKeys, RevokedKeys, revokedFor, restarts>>

\* The state is exported, and a new chain starts from the file. ExportGenesis
\* writes the revoked keys; InitGenesis does not read them.
Restart ==
  /\ version = 2
  /\ restarts < MaxRestarts
  /\ RevokedKeys' = {}
  /\ Params' = GetParams
  /\ signer' = Nobody
  /\ shown' = Nobody
  /\ restarts' = restarts + 1
  /\ UNCHANGED <<DkimPubKeys, version, checked, revokedFor>>
-----------------------------------------------------------------------------
Accounts == Users \cup {Authority}

Next ==
  \/ \E u \in Accounts, batch \in Batches : AddDkimPubKeys(u, batch)
  \/ \E u \in Accounts, slot \in Slots : RemoveDkimPubKey(u, slot)
  \/ \E u \in Accounts, domain \in Domains, rsa \in RsaKeys : RevokeDkimPubKey(u, domain, rsa)
  \/ \E u \in Accounts, p \in ParamInputs : UpdateParams(u, p)
  \/ Migrate
  \/ Restart

Spec == Init /\ [][Next]_vars
-----------------------------------------------------------------------------
(***************************************************************************)
(* Properties.                                                             *)
(***************************************************************************)
\* Every variable holds a value of its kind, and a chain of the present
\* version has parameters of its own, which Authenticate reads without the
\* defaults (query_server.go:204-207).
TypeOK ==
  /\ DOMAIN DkimPubKeys \subseteq Slots
  /\ \A slot \in DOMAIN DkimPubKeys : DkimPubKeys[slot] \in DkimPubKey
  /\ RevokedKeys \subseteq RsaKeys
  /\ Params \in ParamsType \cup {Unset}
  /\ version \in {1, 2}
  /\ version = 2 => Params # Unset
  /\ checked \in BOOLEAN
  /\ revokedFor \subseteq Domains \X RsaKeys
  /\ signer \in Accounts \cup {Nobody}
  /\ shown \in RsaKeys \cup {Nobody}
  /\ restarts \in 0..MaxRestarts

\* Once a key was revoked for a domain, the domain holds it no more while the
\* chain runs: not under another selector, and not added in another encoding.
\* A proof made with it finds a key of that domain only where the domain has
\* another key of the same hash (msg_server.go:58-62, 139-159,
\* poseidon.go:186). A restart is the exception: see RevocationSurvives.
RevokedStaysOut ==
  restarts = 0 =>
    \A pair \in revokedFor :
      /\ pair[2] \in RevokedKeys
      /\ \A slot \in AuthenticateFinds(pair[1], HashOf[pair[2]]) :
           /\ DkimPubKeys[slot].rsa # pair[2]
           /\ HashOf[pair[2]] # 0 => HashOf[DkimPubKeys[slot].rsa] = HashOf[pair[2]]

\* Every stored key is found by the hash of its modulus, whatever hash the
\* message carried, so a proof of an email signed with it can be checked
\* (msg_server.go:65-72).
HashExact == \A slot \in DOMAIN DkimPubKeys : DkimPubKeys[slot].hash = HashOf[DkimPubKeys[slot].rsa]

\* No list of public inputs that is long enough makes Authenticate read past
\* its end, once a message or an upgrade has set the parameters, or when the
\* genesis file would have passed GenesisState.Validate, which no start of a
\* chain asks for (params.go:97-144, module.go:115, query_server.go:224-249).
InputsSafe ==
  version = 2 /\ checked =>
    \A n \in Params.indices.minLength..(Params.indices.minLength + 1) :
      InputsInRange(Params.indices, n)

\* A key goes, or another takes its place, by a decision of governance or by
\* a message that showed its own private key (msg_server.go:48, 83, 148).
OwnersAndGovernance ==
  [][\A slot \in DOMAIN DkimPubKeys :
       (slot \notin DOMAIN DkimPubKeys' \/ DkimPubKeys'[slot] # DkimPubKeys[slot])
         => signer' = Authority \/ shown' = DkimPubKeys[slot].rsa]_vars
-----------------------------------------------------------------------------
(***************************************************************************)
(* What the repository's documents and tests say, and the code does not do.*)
(***************************************************************************)
\* genesis.proto:17 "revoked_pubkeys stores the list of revoked DKIM public
\* keys", and genesis_test.go:201 "init with revoked pubkeys stored".
RevocationSurvives == \A pair \in revokedFor : pair[2] \in RevokedKeys

\* tx.proto:24 "RevokeDkimPubKey defines a message to remove a DKIM public
\* key without governance": who has the private key of a stored key can.
RevocationWorks == \A slot \in DOMAIN DkimPubKeys : RevokeSucceeds(slot[1])

\* params.go:149 "max_pubkey_size_bytes must be positive": a limit of 0 is in
\* force nowhere.
LimitPositive == GetParams.maxSize > 0

\* params.go:99 "min_length must be positive": on a chain that was not
\* upgraded a genesis file without positions leaves 0, and Authenticate then
\* reads the first of no public inputs.
LengthPositive == version = 2 => GetParams.indices.minLength > 0
=============================================================================
