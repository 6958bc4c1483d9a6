---------------------------- MODULE VKeyRegistry ----------------------------
(***************************************************************************)
(* Module x/zk: the registry of verification keys. Any account may add a   *)
(* key under a free name and alone may update or remove it; a key is found *)
(* by its numeric id or, through an index, by its name. The registry is    *)
(* exported to a genesis file and imported from one, and a chain that      *)
(* started at version 1 of the module is migrated in place.                *)
(***************************************************************************)
EXTENDS Naturals, Sequences, Store

CONSTANTS
  Users,         \* accounts that sign messages
  Authority,     \* the keeper's authority, the gov module's address
  Names,         \* names of keys
  DefaultName,   \* "Zk Email", the name of the default key
  KeyBytes,      \* key payloads
  DefaultKey,    \* CreateDefaultVKeyBytes()
  ParsesAs,      \* external: the proof systems a payload is a key of
  SizeOf,        \* the length of a payload
  Unset,         \* an empty authority, or parameters never stored
  ParamInputs,   \* parameters a genesis file or a proposal may hold
  DefaultParams,
  MaxAllowedVKeySizeBytes,
  MaxAllowedProofOrInputSizeBytes,
  Word,          \* 2^64
  GenesisFiles,  \* lists of keys a genesis file may hold
  Versions,      \* versions of the module the chain may start at
  MaxId,         \* bound: ids given out
  MaxRestarts    \* bound: exports that start a new chain

ProofSystems == {"unspecified", "groth16", "gnark", "ultrahonk"}

\* The fields of Params that limit proofs and public inputs, one for each
\* proof system: the code treats the two fields of a system alike.
Limits == {"groth16", "gnark", "ultrahonk"}

Owners == Users \cup {Authority, Unset}
VKey == [name : Names, key : KeyBytes, authority : Owners, system : ProofSystems]
VKeyWithID == [id : 0..(MaxId - 1), vkey : VKey]
ParamsType ==
  [maxVkeySize : Nat, chunkSize : Nat, chunkGas : Nat, limit : [Limits -> Nat]]

ASSUME OwnersAssumption == Authority \notin Users /\ Unset \notin Users \cup {Authority}
ASSUME KeysAssumption ==
  /\ DefaultName \in Names
  /\ DefaultKey \in KeyBytes
  /\ ParsesAs \in [KeyBytes -> SUBSET {"groth16", "gnark", "ultrahonk"}]
  /\ "groth16" \in ParsesAs[DefaultKey]
  /\ SizeOf \in [KeyBytes -> Nat]
ASSUME ParamsAssumption ==
  /\ ParamInputs \subseteq ParamsType
  /\ DefaultParams \in ParamsType
  /\ Unset \notin ParamsType
ASSUME LimitsAssumption ==
  /\ MaxAllowedVKeySizeBytes \in Nat
  /\ MaxAllowedProofOrInputSizeBytes \in Nat
  /\ Word \in Nat \ {0}
  /\ DefaultParams.maxVkeySize \in 1..MaxAllowedVKeySizeBytes
  /\ DefaultParams.chunkSize > 0 /\ DefaultParams.chunkGas > 0
  /\ \A l \in Limits : DefaultParams.limit[l] \in 1..MaxAllowedProofOrInputSizeBytes
ASSUME GenesisAssumption ==
  \A file \in GenesisFiles : file \in Seq(VKeyWithID)
ASSUME BoundAssumption ==
  MaxId \in Nat \ {0, 1} /\ MaxRestarts \in Nat /\ Versions \subseteq {1, 3}

VARIABLES
  VKeys,          \* id -> key
  NextVKeyID,     \* the id the next key gets
  VKeyNameIndex,  \* name -> id
  Params,         \* the stored parameters, or Unset
  version,        \* consensus version of the module
  vetted,         \* history: the file the chain started from passes GenesisState.Validate,
                  \* which no start of a chain asks for
  migrated,       \* history: the chain came here by the migrations
  removed,        \* history: ids whose key was removed, on this chain or before
  restarts        \* history: how often the chain was started from an export

vars == <<VKeys, NextVKeyID, VKeyNameIndex, Params, version, vetted, migrated, removed, restarts>>
-----------------------------------------------------------------------------
(***************************************************************************)
(* Parameters.                                                             *)
(***************************************************************************)

\* A limit of 0 was never set.
WithMaxLimitDefaults(p) ==
  [p EXCEPT !.limit = [l \in Limits |-> IF @[l] = 0 THEN DefaultParams.limit[l] ELSE @[l]]]

ValidParams(p) ==
  /\ p.maxVkeySize \in 1..MaxAllowedVKeySizeBytes
  /\ p.chunkSize > 0
  /\ p.chunkGas > 0
  /\ \A l \in Limits : p.limit[l] \in 1..MaxAllowedProofOrInputSizeBytes

\* Mutant: the limits are returned as they are stored.
GetParams_Raw == IF Params = Unset THEN DefaultParams ELSE Params

GetParams == IF Params = Unset THEN DefaultParams ELSE WithMaxLimitDefaults(Params)

\* GasCostForSize in 64-bit arithmetic. The cost is the gas of the chunks
\* started, and an error when that overflows.
Chunks(p, size) == ((size + p.chunkSize - 1) % Word) \div p.chunkSize

GasCostDefined(p, size) ==
  /\ ValidParams(p)
  /\ size > 0
  /\ size <= p.maxVkeySize
  /\ LET chunks == Chunks(p, size)
         cost == (chunks * p.chunkGas) % Word
     IN  chunks # 0 => cost \div chunks = p.chunkGas

GasCostForSize(p, size) == (Chunks(p, size) * p.chunkGas) % Word
-----------------------------------------------------------------------------
(***************************************************************************)
(* Keys.                                                                   *)
(***************************************************************************)
OrGroth16(system) == IF system = "unspecified" THEN "groth16" ELSE system

ValidateVKeyForProofSystem(key, maxSize, system) ==
  /\ maxSize > 0 => SizeOf[key] <= maxSize
  /\ OrGroth16(system) \in ParsesAs[key]

\* ValidateVKeyBytes: a Circom key, whatever proof system the entry names.
ValidateVKeyBytes(key, maxSize) ==
  /\ maxSize > 0 => SizeOf[key] <= maxSize
  /\ "groth16" \in ParsesAs[key]

OwnerOf(vkey) == IF vkey.authority = Unset THEN Authority ELSE vkey.authority
WithOwner(vkey) == [vkey EXCEPT !.authority = OwnerOf(vkey)]

\* How a verification query finds its key: by name when it gives one, else
\* by an id other than 0.
ReachableById(id) == id # 0 /\ Has(VKeys, id)
GetVKeyByName(name) ==
  IF Has(VKeyNameIndex, name) /\ Has(VKeys, VKeyNameIndex[name])
  THEN {VKeys[VKeyNameIndex[name]]} ELSE {}

DefaultVKey ==
  [name |-> DefaultName, key |-> DefaultKey, authority |-> Unset, system |-> "unspecified"]
-----------------------------------------------------------------------------
(***************************************************************************)
(* Genesis. A file is a list of entries, and parameters that may be absent *)
(* altogether or without the newer limits.                                 *)
(***************************************************************************)
NoParams == [maxVkeySize |-> 0, chunkSize |-> 0, chunkGas |-> 0, limit |-> [l \in Limits |-> 0]]
OrDefaults(p) == IF p = NoParams THEN DefaultParams ELSE p
GenesisParams(p) == WithMaxLimitDefaults(OrDefaults(p))

\* What a file is checked for by whoever calls the check.
Validate(file, p) ==
  /\ ValidParams(GenesisParams(p))
  /\ \A i, j \in DOMAIN file : i # j =>
       file[i].id # file[j].id /\ file[i].vkey.name # file[j].vkey.name
  /\ \A i \in DOMAIN file :
       ValidateVKeyForProofSystem(file[i].vkey.key, GenesisParams(p).maxVkeySize, file[i].vkey.system)

\* What InitGenesis panics without.
InitGenesisSucceeds(file, p) ==
  /\ ValidParams(GenesisParams(p))
  /\ \A i \in DOMAIN file : ValidateVKeyBytes(file[i].vkey.key, GenesisParams(p).maxVkeySize)

\* InitGenesis sets one entry after another: the last one of an id, and the
\* last one of a name, stay.
IdsOf(file) == {file[i].id : i \in DOMAIN file}
NamesOf(file) == {file[i].vkey.name : i \in DOMAIN file}
LastIn(places) == CHOOSE i \in places : \A j \in places : j <= i
EntryOf(file, id) == LastIn({i \in DOMAIN file : file[i].id = id})
EntryNamed(file, name) == LastIn({i \in DOMAIN file : file[i].vkey.name = name})

\* Mutant: every imported key goes to the authority.
ImportedVKeys_ToAuthority(file) ==
  [id \in IdsOf(file) |-> [file[EntryOf(file, id)].vkey EXCEPT !.authority = Authority]]

ImportedVKeys(file) ==
  [id \in IdsOf(file) |-> WithOwner(file[EntryOf(file, id)].vkey)]

ImportedIndex(file) ==
  [name \in NamesOf(file) |-> file[EntryNamed(file, name)].id]

\* The sequence ends one above the highest id of the file.
ImportedNext(file) ==
  CHOOSE n \in 0..MaxId :
    /\ \A id \in IdsOf(file) : id < n
    /\ n = 0 \/ n - 1 \in IdsOf(file)

\* ExportGenesis lists the keys in the order of their ids, takes the id it
\* writes from the name index, and panics when the name is not there.
ExportSucceeds == \A id \in DOMAIN VKeys : Has(VKeyNameIndex, VKeys[id].name)
ExportGenesis ==
  [id \in DOMAIN VKeys |-> [id |-> VKeyNameIndex[VKeys[id].name], vkey |-> VKeys[id]]]

Importable ==
  /\ ExportSucceeds
  /\ InitGenesisSucceeds(ExportGenesis, GetParams)

Init ==
  /\ version \in Versions
  /\ \E file \in GenesisFiles, p \in ParamInputs :
       /\ InitGenesisSucceeds(file, p)
       /\ VKeys = ImportedVKeys(file)
       /\ NextVKeyID = ImportedNext(file)
       /\ VKeyNameIndex = ImportedIndex(file)
       /\ \/ version = 3 /\ Params = GenesisParams(p)
          \/ version = 1 /\ Params \in {OrDefaults(p), Unset}  \* stored before the limits were added
       /\ vetted = Validate(file, p)
  /\ migrated = FALSE
  /\ removed = {}
  /\ restarts = 0
-----------------------------------------------------------------------------
(***************************************************************************)
(* Messages.                                                               *)
(***************************************************************************)
UploadAccepted(key, system) ==
  /\ ValidateVKeyForProofSystem(key, MaxAllowedVKeySizeBytes, system)
  /\ GasCostDefined(GetParams, SizeOf[key])
  /\ ValidateVKeyForProofSystem(key, GetParams.maxVkeySize, OrGroth16(system))

AddVKey(authority, name, key, system) ==
  /\ ~ Has(VKeyNameIndex, name)
  /\ UploadAccepted(key, system)
  /\ NextVKeyID < MaxId
  /\ VKeys' = Put(VKeys, NextVKeyID,
                  [name |-> name, key |-> key, authority |-> authority, system |-> OrGroth16(system)])
  /\ VKeyNameIndex' = Put(VKeyNameIndex, name, NextVKeyID)
  /\ NextVKeyID' = NextVKeyID + 1
  /\ UNCHANGED <<Params, version, vetted, migrated, removed, restarts>>

\* The key a message of its owner names.
OwnedBy(authority, name) ==
  /\ Has(VKeyNameIndex, name)
  /\ Has(VKeys, VKeyNameIndex[name])
  /\ OwnerOf(VKeys[VKeyNameIndex[name]]) = authority

\* Mutant: whoever updates a key becomes its owner.
UpdateVKey_AnyOwner(authority, name, key, system) ==
  /\ Has(VKeyNameIndex, name)
  /\ Has(VKeys, VKeyNameIndex[name])
  /\ UploadAccepted(key, system)
  /\ VKeys' = Put(VKeys, VKeyNameIndex[name],
                  [name |-> name, key |-> key, authority |-> authority, system |-> OrGroth16(system)])
  /\ UNCHANGED <<NextVKeyID, VKeyNameIndex, Params, version, vetted, migrated, removed, restarts>>

UpdateVKey(authority, name, key, system) ==
  /\ OwnedBy(authority, name)
  /\ UploadAccepted(key, system)
  /\ VKeys' = Put(VKeys, VKeyNameIndex[name],
                  [name |-> name, key |-> key, authority |-> authority, system |-> OrGroth16(system)])
  /\ UNCHANGED <<NextVKeyID, VKeyNameIndex, Params, version, vetted, migrated, removed, restarts>>

\* Mutant: the name stays in the index.
RemoveVKey_KeepName(authority, name) ==
  /\ OwnedBy(authority, name)
  /\ VKeys' = Drop(VKeys, VKeyNameIndex[name])
  /\ removed' = removed \cup {VKeyNameIndex[name]}
  /\ UNCHANGED <<NextVKeyID, VKeyNameIndex, Params, version, vetted, migrated, restarts>>

\* Mutant: the id is given back.
RemoveVKey_IdReturned(authority, name) ==
  /\ OwnedBy(authority, name)
  /\ VKeys' = Drop(VKeys, VKeyNameIndex[name])
  /\ VKeyNameIndex' = Drop(VKeyNameIndex, name)
  /\ removed' = removed \cup {VKeyNameIndex[name]}
  /\ NextVKeyID' = IF VKeyNameIndex[name] + 1 = NextVKeyID THEN NextVKeyID - 1 ELSE NextVKeyID
  /\ UNCHANGED <<Params, version, vetted, migrated, restarts>>

RemoveVKey(authority, name) ==
  /\ OwnedBy(authority, name)
  /\ VKeys' = Drop(VKeys, VKeyNameIndex[name])
  /\ VKeyNameIndex' = Drop(VKeyNameIndex, name)
  /\ removed' = removed \cup {VKeyNameIndex[name]}
  /\ UNCHANGED <<NextVKeyID, Params, version, vetted, migrated, restarts>>

SetParams(p) ==
  /\ ValidParams(WithMaxLimitDefaults(p))
  /\ Params' = WithMaxLimitDefaults(p)

UpdateParams(signer, p) ==
  /\ signer = Authority
  /\ SetParams(p)
  /\ UNCHANGED <<VKeys, NextVKeyID, VKeyNameIndex, version, vetted, migrated, removed, restarts>>

(***************************************************************************)
(* Migrate1to2 stores the default key under id 1 and leaves the name index *)
(* as it is; Migrate2to3 sets the limits of the first two proof systems    *)
(* where they are 0. An upgrade runs both.                                 *)
(***************************************************************************)
Migrate2to3(p) ==
  IF p = Unset THEN Unset
  ELSE [p EXCEPT !.limit = [l \in Limits |-> IF l # "gnark" /\ @[l] = 0
                                             THEN DefaultParams.limit[l] ELSE @[l]]]

\* Mutant: a key that is there is left as it is.
Migrate_KeepExisting ==
  /\ version = 1
  /\ VKeys' = IF Has(VKeys, 1) THEN VKeys ELSE Put(VKeys, 1, DefaultVKey)
  /\ Params' = Migrate2to3(Params)
  /\ version' = 3
  /\ migrated' = TRUE
  /\ UNCHANGED <<NextVKeyID, VKeyNameIndex, vetted, removed, restarts>>

Migrate ==
  /\ version = 1
  /\ VKeys' = Put(VKeys, 1, DefaultVKey)
  /\ Params' = Migrate2to3(Params)
  /\ version' = 3
  /\ migrated' = TRUE
  /\ UNCHANGED <<NextVKeyID, VKeyNameIndex, vetted, removed, restarts>>

(***************************************************************************)
(* The state is exported, and a new chain starts from the file.            *)
(***************************************************************************)
Restart ==
  /\ version = 3
  /\ restarts < MaxRestarts
  /\ Importable
  /\ VKeys' = ImportedVKeys(ExportGenesis)
  /\ NextVKeyID' = ImportedNext(ExportGenesis)
  /\ VKeyNameIndex' = ImportedIndex(ExportGenesis)
  /\ Params' = GetParams
  /\ vetted' = Validate(ExportGenesis, GetParams)
  /\ restarts' = restarts + 1
  /\ UNCHANGED <<version, migrated, removed>>
-----------------------------------------------------------------------------
Next ==
  \/ \E u \in Users \cup {Authority}, name \in Names, key \in KeyBytes, system \in ProofSystems :
       AddVKey(u, name, key, system)
  \/ \E u \in Users \cup {Authority}, name \in Names, key \in KeyBytes, system \in ProofSystems :
       UpdateVKey(u, name, key, system)
  \/ \E u \in Users \cup {Authority}, name \in Names : RemoveVKey(u, name)
  \/ \E u \in Users \cup {Authority}, p \in ParamInputs : UpdateParams(u, p)
  \/ Migrate
  \/ Restart

Spec == Init /\ [][Next]_vars
-----------------------------------------------------------------------------
(***************************************************************************)
(* Properties.                                                             *)
(***************************************************************************)
\* The key stored under an id by the migration (migrations/v2/migrate.go:28),
\* the one entry the name index need not agree with.
Overwritten(id) == migrated /\ id = 1

\* Every variable holds a value of its kind, and every key but the migrated
\* one has an owner of its own (keeper.go:123-126).
TypeOK ==
  /\ DOMAIN VKeys \subseteq 0..(MaxId - 1)
  /\ \A id \in DOMAIN VKeys : VKeys[id] \in VKey /\ (VKeys[id].authority = Unset => Overwritten(id))
  /\ NextVKeyID \in 0..MaxId
  /\ DOMAIN VKeyNameIndex \subseteq Names
  /\ \A name \in DOMAIN VKeyNameIndex : VKeyNameIndex[name] \in 0..(MaxId - 1)
  /\ Params \in ParamsType \cup {Unset}
  /\ version \in {1, 3}
  /\ vetted \in BOOLEAN
  /\ migrated \in BOOLEAN
  /\ removed \subseteq 0..(MaxId - 1)
  /\ restarts \in 0..MaxRestarts

\* The name index and the keys agree: a name leads to a stored key of that
\* name and a stored key is found under its name, so a key can be updated
\* and removed for as long as it exists (keeper.go:372-379, 521-531). A file
\* with an id or a name twice, which Validate would have refused, is the one
\* start from which that fails (genesis.go:40-56).
IndexExact == vetted =>
  /\ \A name \in DOMAIN VKeyNameIndex :
       /\ VKeyNameIndex[name] \in DOMAIN VKeys
       /\ ~ Overwritten(VKeyNameIndex[name]) => VKeys[VKeyNameIndex[name]].name = name
  /\ \A id \in DOMAIN VKeys : ~ Overwritten(id) =>
       VKeys[id].name \in DOMAIN VKeyNameIndex /\ VKeyNameIndex[VKeys[id].name] = id
  /\ \A m, n \in DOMAIN VKeyNameIndex : VKeyNameIndex[m] = VKeyNameIndex[n] => m = n

\* The id of a removed key is given to no other key while the chain runs
\* (keeper.go:357, 497-534): who stored an id, as x/dkim does in its
\* parameters, never finds another key behind it.
IdsNotReused ==
  /\ \A id \in DOMAIN VKeys : id < NextVKeyID \/ Overwritten(id)
  /\ restarts = 0 =>
       \A id \in removed : id < NextVKeyID /\ (id \in DOMAIN VKeys => Overwritten(id))

\* The migration stored the default key under id 1 while the index has its
\* name elsewhere, or nowhere.
InPlace(id) == Has(VKeyNameIndex, VKeys[id].name) /\ VKeyNameIndex[VKeys[id].name] = id
Displaced == migrated /\ Has(VKeys, 1) /\ ~ InPlace(1)

\* An id that the export of a vetted chain writes for its key and for no
\* other: any, but for a displaced default key and the key it is taken for.
ExportKeeps(id) ==
  /\ vetted
  /\ Displaced => id # 1 /\ (Has(VKeyNameIndex, VKeys[1].name) => id # VKeyNameIndex[VKeys[1].name])

\* A key belongs to the account that added it for as long as it exists:
\* nobody else's message, no export and no import moves it. The exceptions are
\* id 1 of a migrated chain, and what its default key is exported over when the
\* index has that name under another id (keeper.go:452-459, 482-488, 118-136).
OwnershipKept ==
  [][\A id \in DOMAIN VKeys \cap DOMAIN VKeys' :
       \/ OwnerOf(VKeys'[id]) = OwnerOf(VKeys[id])
       \/ migrated' /\ id = 1
       \/ restarts' # restarts /\ ~ ExportKeeps(id)]_vars

\* The bytes of a stored key are a key of the proof system stored with them,
\* which is all that the verification queries look at before they hand the
\* bytes to a parser of that system (query_server.go:185-191, 306-312). What a
\* file that was not vetted brings in is a Circom key, whatever it is called
\* (keeper.go:119).
KeysParse ==
  \A id \in DOMAIN VKeys :
    \/ OrGroth16(VKeys[id].system) \in ParsesAs[VKeys[id].key]
    \/ ~ vetted /\ "groth16" \in ParsesAs[VKeys[id].key]

\* The parameters in force are valid on every path that leads to them, old
\* stores without the newer fields and half-filled by the migration included:
\* an invalid value would refuse every upload and every proof
\* (keeper.go:186-197, params.go:178-181, migrations/v3/migrate.go:31-48).
ParamsServe == ValidParams(GetParams)

\* An export that can be imported leads to the same keys under the same ids,
\* of the same owners, and to the same index: of a vetted chain, and but for a
\* displaced default key and the key it is taken for. A vetted registry of
\* Circom keys that fit the size limit, and without a displaced key, can always
\* be imported, and stays vetted (keeper.go:100-183).
RestartFaithful ==
  LET imported == ImportedVKeys(ExportGenesis)
  IN  /\ Importable =>
           /\ \A id \in DOMAIN VKeys : ExportKeeps(id) =>
                /\ Has(imported, id)
                /\ imported[id] = WithOwner(VKeys[id])
           /\ vetted /\ ~ Displaced =>
                DOMAIN imported = DOMAIN VKeys /\ ImportedIndex(ExportGenesis) = VKeyNameIndex
      /\ (/\ vetted /\ ~ Displaced
          /\ \A id \in DOMAIN VKeys : ValidateVKeyBytes(VKeys[id].key, GetParams.maxVkeySize))
         => Importable /\ Validate(ExportGenesis, GetParams)

-----------------------------------------------------------------------------
(***************************************************************************)
(* What the repository's documents and tests say, and the code does not do.*)
(***************************************************************************)

\* keeper_test.go:961 "export then import genesis roundtrip": what was
\* exported can be imported.
ExportImports == version = 3 => Importable

\* The same, of what is imported: the keys that were exported.
RoundTrip ==
  version = 3 /\ Importable =>
    \A id \in DOMAIN VKeys :
      /\ Has(ImportedVKeys(ExportGenesis), id)
      /\ OwnerOf(ImportedVKeys(ExportGenesis)[id]) = OwnerOf(VKeys[id])

\* tx.proto:53 "id is the unique numeric identifier assigned to the vkey":
\* an id never stands for a second key.
IdsUnique == \A id \in removed : ~ (id \in DOMAIN VKeys)

\* query.proto:89 "vkey_id is the ID of the verification key to use": the id
\* of a key can be used to find it.
IdsUsable == \A id \in DOMAIN VKeys : ReachableById(id)

\* params.proto:36 "upload_chunk_gas defines the gas cost per upload chunk",
\* and params.go:193 "Check for overflow": no upload that is accepted is free.
\* The addition that rounds up is not checked and wraps to 0 chunks.
UploadsCharged ==
  \A key \in KeyBytes :
    GasCostDefined(GetParams, SizeOf[key]) => GasCostForSize(GetParams, SizeOf[key]) > 0

\* keeper_test.go:1616 "Verify both ID and name access return the same vkey".
NameAndIdAgree == \A id \in DOMAIN VKeys : GetVKeyByName(VKeys[id].name) = {VKeys[id]}
=============================================================================
