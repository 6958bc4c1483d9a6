------------------------ MODULE AuthenticationProofs ------------------------
(***************************************************************************)
(* What x/zk keeps for any number of users, names, keys and ids, on chains *)
(* of both ages and across any number of exports and imports; and what the *)
(* queries of x/zk and x/dkim answer with both modules together. The first *)
(* part is about the specification of x/zk alone (Spec), the second about  *)
(* both modules (AuthSpec).                                                *)
(***************************************************************************)
EXTENDS Authentication, WellFoundedInduction, TLAPS

\* Every non-empty set of naturals has a least element.
LEMMA LeastNatural ==
  ASSUME NEW T \in SUBSET Nat, T # {}
  PROVE  \E x \in T : \A y \in T : x <= y
<1>1. PICK x \in T : \A y \in T : ~ (<<y, x>> \in OpToRel(<, Nat))
  BY NatLessThanWellFounded, WFMin, Zenon
<1>2. \A y \in T : ~ (y < x)
  BY <1>1 DEF OpToRel
<1> QED
  BY <1>2

\* The last of some places of a list.
LEMMA LastInExists ==
  ASSUME NEW M \in Nat, NEW T \in SUBSET (0..M), T # {}
  PROVE  LastIn(T) \in T /\ \A j \in T : j <= LastIn(T)
<1> DEFINE D == {M - i : i \in T}
           Greatest(i) == \A j \in T : j <= i
<1>1. D \in SUBSET Nat /\ D # {}
  <2>1. \A i \in 0..M : M - i \in Nat
    OBVIOUS
  <2> QED
    BY <2>1
<1>2. PICK x \in D : \A y \in D : x <= y
  BY <1>1, LeastNatural
<1>3. PICK i \in T : x = M - i
  BY <1>2
<1>4. Greatest(i)
  <2> SUFFICES ASSUME NEW j \in T PROVE j <= i
    OBVIOUS
  <2>1. M - i <= M - j
    BY <1>2, <1>3
  <2>2. i \in 0..M /\ j \in 0..M
    OBVIOUS
  <2> QED
    BY <2>1, <2>2
<1>5. LastIn(T) = CHOOSE n \in T : Greatest(n)
  BY DEF LastIn
<1> HIDE DEF Greatest
<1>6. LastIn(T) \in T /\ Greatest(LastIn(T))
  BY <1>4, <1>5
<1> QED
  BY <1>6 DEF Greatest

\* A list of entries of the right kind, and one with no id and no name twice.
IsFile(file) ==
  /\ \E M \in Nat : DOMAIN file \subseteq 0..M
  /\ \A i \in DOMAIN file : file[i] \in VKeyWithID

Unique(file) ==
  \A i, j \in DOMAIN file : i # j =>
    file[i].id # file[j].id /\ file[i].vkey.name # file[j].vkey.name

\* An index and the keys it is about, without the exception that the
\* migration makes, and the sequence above both.
Exact(keys, index, next) ==
  /\ \A name \in DOMAIN index : index[name] \in DOMAIN keys /\ keys[index[name]].name = name
  /\ \A id \in DOMAIN keys : keys[id].name \in DOMAIN index /\ index[keys[id].name] = id
  /\ \A m, n \in DOMAIN index : index[m] = index[n] => m = n
  /\ next \in 0..MaxId
  /\ \A id \in DOMAIN keys : id < next

\* The sequence that InitGenesis leaves is above every imported id, and at
\* most one above the highest (keeper.go:138-149).
LEMMA ImportedNextAbove ==
  ASSUME NEW file, IsFile(file)
  PROVE  /\ ImportedNext(file) \in 0..MaxId
         /\ \A id \in IdsOf(file) : id < ImportedNext(file)
<1> DEFINE T == {n \in 0..MaxId : \A id \in IdsOf(file) : id < n}
           Good(n) == /\ \A id \in IdsOf(file) : id < n
                      /\ n = 0 \/ n - 1 \in IdsOf(file)
<1>1. MaxId \in Nat
  BY BoundAssumption
<1>2. IdsOf(file) \subseteq 0..(MaxId - 1)
  BY DEF IsFile, IdsOf, VKeyWithID
<1>3. MaxId \in T /\ T \subseteq Nat
  BY <1>1, <1>2
<1>4. PICK x \in T : \A y \in T : x <= y
  BY <1>3, LeastNatural
<1>5. x # 0 => x - 1 \in IdsOf(file)
  <2> SUFFICES ASSUME x # 0 PROVE x - 1 \in IdsOf(file)
    OBVIOUS
  <2>1. x - 1 \in 0..MaxId /\ x - 1 \notin T
    BY <1>1, <1>4
  <2>2. PICK id \in IdsOf(file) : ~ (id < x - 1)
    BY <2>1
  <2>3. id < x /\ id \in Nat /\ x \in Nat
    BY <1>2, <1>3
  <2> QED
    BY <2>2, <2>3
<1>6. \E n \in 0..MaxId : Good(n)
  BY <1>4, <1>5
<1>7. ImportedNext(file) = CHOOSE n \in 0..MaxId : Good(n)
  BY DEF ImportedNext
<1> HIDE DEF Good
<1>8. ImportedNext(file) \in 0..MaxId /\ Good(ImportedNext(file))
  BY <1>6, <1>7
<1> QED
  BY <1>8 DEF Good

\* The ids and the names that InitGenesis stores are those of the file.
LEMMA ImportedDomains ==
  ASSUME NEW file, IsFile(file)
  PROVE  /\ DOMAIN ImportedVKeys(file) = IdsOf(file) /\ IdsOf(file) \subseteq 0..(MaxId - 1)
         /\ DOMAIN ImportedIndex(file) = NamesOf(file) /\ NamesOf(file) \subseteq Names
BY DEF IsFile, VKeyWithID, IdsOf, ImportedVKeys, NamesOf, ImportedIndex, VKey

\* Whatever the file, what InitGenesis stores under an id is the last entry of
\* that id, with an owner.
LEMMA ImportedKey ==
  ASSUME NEW file, IsFile(file), NEW id \in IdsOf(file)
  PROVE  \E i \in DOMAIN file :
           /\ i = EntryOf(file, id) /\ file[i].id = id
           /\ ImportedVKeys(file)[id] = WithOwner(file[i].vkey)
           /\ ImportedVKeys(file)[id] \in VKey /\ ImportedVKeys(file)[id].authority # Unset
           /\ ImportedVKeys(file)[id].name = file[i].vkey.name
           /\ ImportedVKeys(file)[id].key = file[i].vkey.key
           /\ ImportedVKeys(file)[id].system = file[i].vkey.system
<1> DEFINE T == {i \in DOMAIN file : file[i].id = id}
           i == EntryOf(file, id)
           vkey == file[i].vkey
<1>1. PICK M \in Nat : DOMAIN file \subseteq 0..M
  BY DEF IsFile
<1>2. T \in SUBSET (0..M) /\ T # {}
  BY <1>1 DEF IdsOf
<1>3. LastIn(T) \in T
  BY <1>2, LastInExists
<1>4. i \in DOMAIN file /\ file[i].id = id
  BY <1>3 DEF EntryOf
<1>5. vkey \in VKey
  BY <1>4 DEF IsFile, VKeyWithID
<1>6. OwnerOf(vkey) \in Owners /\ OwnerOf(vkey) # Unset
  BY <1>5, OwnersAssumption DEF OwnerOf, VKey, Owners
<1>7. ImportedVKeys(file)[id] = WithOwner(vkey)
  BY DEF ImportedVKeys
<1> HIDE DEF vkey
<1>8. /\ ImportedVKeys(file)[id] \in VKey /\ ImportedVKeys(file)[id].authority # Unset
      /\ ImportedVKeys(file)[id].name = vkey.name
      /\ ImportedVKeys(file)[id].key = vkey.key
      /\ ImportedVKeys(file)[id].system = vkey.system
  BY <1>5, <1>6, <1>7 DEF VKey, WithOwner
<1> HIDE DEF i
<1> QED
  BY <1>4, <1>7, <1>8 DEF vkey, i

\* And a name leads to the id of the last entry of that name.
LEMMA ImportedName ==
  ASSUME NEW file, IsFile(file), NEW name \in NamesOf(file)
  PROVE  \E i \in DOMAIN file :
           /\ i = EntryNamed(file, name) /\ file[i].vkey.name = name
           /\ ImportedIndex(file)[name] = file[i].id
           /\ ImportedIndex(file)[name] \in IdsOf(file)
<1> DEFINE T == {i \in DOMAIN file : file[i].vkey.name = name}
           i == EntryNamed(file, name)
<1>1. PICK M \in Nat : DOMAIN file \subseteq 0..M
  BY DEF IsFile
<1>2. T \in SUBSET (0..M) /\ T # {}
  BY <1>1 DEF NamesOf
<1>3. LastIn(T) \in T
  BY <1>2, LastInExists
<1>4. i \in DOMAIN file /\ file[i].vkey.name = name
  BY <1>3 DEF EntryNamed
<1>5. ImportedIndex(file)[name] = file[i].id
  BY DEF ImportedIndex
<1> HIDE DEF i
<1>6. ImportedIndex(file)[name] \in IdsOf(file)
  BY <1>4, <1>5 DEF IdsOf
<1> QED
  BY <1>4, <1>5, <1>6 DEF i

\* An entry whose id, or whose name, no other entry has.
LEMMA ImportedEntry ==
  ASSUME NEW file, IsFile(file), NEW i \in DOMAIN file
  PROVE  /\ file[i].id \in IdsOf(file) /\ file[i].vkey.name \in NamesOf(file)
         /\ (\A j \in DOMAIN file : file[j].id = file[i].id => j = i)
              => /\ EntryOf(file, file[i].id) = i
                 /\ ImportedVKeys(file)[file[i].id] = WithOwner(file[i].vkey)
         /\ (\A j \in DOMAIN file : file[j].vkey.name = file[i].vkey.name => j = i)
              => ImportedIndex(file)[file[i].vkey.name] = file[i].id
<1>1. file[i].id \in IdsOf(file) /\ file[i].vkey.name \in NamesOf(file)
  BY DEF IdsOf, NamesOf
<1>2. ASSUME \A j \in DOMAIN file : file[j].id = file[i].id => j = i
      PROVE  /\ EntryOf(file, file[i].id) = i
             /\ ImportedVKeys(file)[file[i].id] = WithOwner(file[i].vkey)
  BY <1>1, <1>2, ImportedKey
<1>3. ASSUME \A j \in DOMAIN file : file[j].vkey.name = file[i].vkey.name => j = i
      PROVE  ImportedIndex(file)[file[i].vkey.name] = file[i].id
  BY <1>1, <1>3, ImportedName
<1> QED
  BY <1>1, <1>2, <1>3

\* InitGenesis of a file that Validate accepts leaves index, keys and sequence
\* in agreement (keeper.go:117-149).
LEMMA ImportedExact ==
  ASSUME NEW file, IsFile(file), Unique(file)
  PROVE  Exact(ImportedVKeys(file), ImportedIndex(file), ImportedNext(file))
<1> DEFINE keys == ImportedVKeys(file)
           index == ImportedIndex(file)
<1>0. /\ \A id \in IdsOf(file) : \E i \in DOMAIN file : id = file[i].id
      /\ \A name \in NamesOf(file) : \E i \in DOMAIN file : name = file[i].vkey.name
  BY DEF IdsOf, NamesOf
<1>1. DOMAIN keys = IdsOf(file) /\ DOMAIN index = NamesOf(file)
  BY ImportedDomains
<1>2. ASSUME NEW i \in DOMAIN file
      PROVE  /\ file[i].id \in IdsOf(file) /\ file[i].vkey.name \in NamesOf(file)
             /\ keys[file[i].id].name = file[i].vkey.name
             /\ index[file[i].vkey.name] = file[i].id
  <2>1. \A j \in DOMAIN file : /\ file[j].id = file[i].id => j = i
                               /\ file[j].vkey.name = file[i].vkey.name => j = i
    BY DEF Unique
  <2>2. /\ file[i].id \in IdsOf(file) /\ file[i].vkey.name \in NamesOf(file)
        /\ EntryOf(file, file[i].id) = i
        /\ index[file[i].vkey.name] = file[i].id
    BY <2>1, ImportedEntry
  <2>3. keys[file[i].id].name = file[i].vkey.name
    BY <2>2, ImportedKey
  <2> QED
    BY <2>2, <2>3
<1> HIDE DEF keys, index
<1>3. \A name \in DOMAIN index : index[name] \in DOMAIN keys /\ keys[index[name]].name = name
  BY <1>0, <1>1, <1>2
<1>4. \A id \in DOMAIN keys : keys[id].name \in DOMAIN index /\ index[keys[id].name] = id
  BY <1>0, <1>1, <1>2
<1>5. \A m, n \in DOMAIN index : index[m] = index[n] => m = n
  BY <1>3
<1> QED
  BY <1>1, <1>3, <1>4, <1>5, ImportedNextAbove DEF Exact, keys, index

\* What InitGenesis lets in is a Circom key, and what Validate lets in a key of
\* its proof system.
LEMMA ImportedParses ==
  ASSUME NEW file, NEW p, IsFile(file), InitGenesisSucceeds(file, p), NEW id \in IdsOf(file)
  PROVE  LET vkey == ImportedVKeys(file)[id]
         IN  /\ "groth16" \in ParsesAs[vkey.key]
             /\ Validate(file, p) => OrGroth16(vkey.system) \in ParsesAs[vkey.key]
<1>1. PICK i \in DOMAIN file : /\ ImportedVKeys(file)[id].key = file[i].vkey.key
                               /\ ImportedVKeys(file)[id].system = file[i].vkey.system
  BY ImportedKey
<1> QED
  BY <1>1 DEF InitGenesisSucceeds, ValidateVKeyBytes, Validate, ValidateVKeyForProofSystem
-----------------------------------------------------------------------------
\* Every name leads to an id the sequence has passed: an id that is given
\* out is no other name's. With it the registry's invariants are inductive.
IndexBelow == \A name \in DOMAIN VKeyNameIndex : VKeyNameIndex[name] < NextVKeyID

Inv == TypeOK /\ IndexExact /\ IndexBelow /\ IdsNotReused /\ KeysParse /\ ParamsServe

\* Filling in defaults once is filling them in for good, and what Migrate2to3
\* fills in is filled in by GetParams as well.
LEMMA BackfillStable ==
  ASSUME NEW p \in ParamsType
  PROVE  /\ WithMaxLimitDefaults(p) \in ParamsType
         /\ WithMaxLimitDefaults(WithMaxLimitDefaults(p)) = WithMaxLimitDefaults(p)
         /\ \A L \in SUBSET Limits :
              LET q == [p EXCEPT !.limit =
                          [l \in Limits |-> IF l \in L /\ @[l] = 0 THEN DefaultParams.limit[l] ELSE @[l]]]
              IN  q \in ParamsType /\ WithMaxLimitDefaults(q) = WithMaxLimitDefaults(p)
<1>1. DefaultParams.limit \in [Limits -> Nat] /\ \A l \in Limits : DefaultParams.limit[l] # 0
  BY ParamsAssumption, LimitsAssumption DEF ParamsType
<1>2. \A L \in SUBSET Limits :
        LET f == [l \in Limits |-> IF l \in L /\ p.limit[l] = 0 THEN DefaultParams.limit[l] ELSE p.limit[l]]
        IN  /\ f \in [Limits -> Nat]
            /\ [l \in Limits |-> IF f[l] = 0 THEN DefaultParams.limit[l] ELSE f[l]]
                 = [l \in Limits |-> IF p.limit[l] = 0 THEN DefaultParams.limit[l] ELSE p.limit[l]]
  BY <1>1 DEF ParamsType
<1>3. \A L \in SUBSET Limits :
        LET q == [p EXCEPT !.limit =
                    [l \in Limits |-> IF l \in L /\ @[l] = 0 THEN DefaultParams.limit[l] ELSE @[l]]]
        IN  q \in ParamsType /\ WithMaxLimitDefaults(q) = WithMaxLimitDefaults(p)
  BY <1>2 DEF ParamsType, WithMaxLimitDefaults
<1>4. WithMaxLimitDefaults(p) = [p EXCEPT !.limit =
        [l \in Limits |-> IF l \in Limits /\ @[l] = 0 THEN DefaultParams.limit[l] ELSE @[l]]]
  BY DEF WithMaxLimitDefaults, ParamsType
<1> QED
  BY <1>3, <1>4

\* The parameters in force have their limits filled in.
LEMMA GetParamsType ==
  ASSUME TypeOK
  PROVE  GetParams \in ParamsType /\ WithMaxLimitDefaults(GetParams) = GetParams
<1>1. CASE Params = Unset
  <2>1. \A l \in Limits : DefaultParams.limit[l] # 0
    BY LimitsAssumption
  <2>2. WithMaxLimitDefaults(DefaultParams) = DefaultParams
    BY <2>1, ParamsAssumption DEF WithMaxLimitDefaults, ParamsType
  <2> QED
    BY <1>1, <2>2, ParamsAssumption DEF GetParams
<1>2. CASE Params # Unset
  BY <1>2, BackfillStable DEF TypeOK, GetParams
<1> QED
  BY <1>1, <1>2

\* An accepted upload is a key of the proof system that is stored with it.
LEMMA UploadParses ==
  ASSUME NEW key \in KeyBytes, NEW system \in ProofSystems, UploadAccepted(key, system)
  PROVE  OrGroth16(OrGroth16(system)) \in ParsesAs[key] /\ OrGroth16(system) \in ProofSystems
BY DEF UploadAccepted, ValidateVKeyForProofSystem, OrGroth16, ProofSystems
-----------------------------------------------------------------------------
\* A genesis file, of version 3 or of version 1.
LEMMA InitInv == Init => Inv
<1> SUFFICES ASSUME Init PROVE Inv
  OBVIOUS
<1>1. PICK file \in GenesisFiles, p \in ParamInputs :
        /\ InitGenesisSucceeds(file, p)
        /\ VKeys = ImportedVKeys(file)
        /\ NextVKeyID = ImportedNext(file)
        /\ VKeyNameIndex = ImportedIndex(file)
        /\ Params \in {GenesisParams(p), OrDefaults(p), Unset}
        /\ vetted = Validate(file, p)
  BY DEF Init
<1>2. IsFile(file)
  <2>1. file \in Seq(VKeyWithID)
    BY GenesisAssumption
  <2>2. Len(file) \in Nat /\ DOMAIN file \subseteq 0..Len(file)
    BY <2>1
  <2>3. \A i \in DOMAIN file : file[i] \in VKeyWithID
    BY <2>1
  <2> QED
    BY <2>2, <2>3 DEF IsFile
<1>3. /\ DOMAIN VKeys = IdsOf(file) /\ IdsOf(file) \subseteq 0..(MaxId - 1)
      /\ \A id \in DOMAIN VKeys : VKeys[id] \in VKey /\ VKeys[id].authority # Unset
      /\ DOMAIN VKeyNameIndex \subseteq Names
      /\ \A name \in DOMAIN VKeyNameIndex : VKeyNameIndex[name] \in IdsOf(file)
      /\ NextVKeyID \in 0..MaxId /\ \A id \in IdsOf(file) : id < NextVKeyID
  <2>1. \A id \in IdsOf(file) :
          ImportedVKeys(file)[id] \in VKey /\ ImportedVKeys(file)[id].authority # Unset
    BY <1>2, ImportedKey
  <2>2. \A name \in NamesOf(file) : ImportedIndex(file)[name] \in IdsOf(file)
    BY <1>2, ImportedName
  <2> QED
    BY <1>1, <1>2, <2>1, <2>2, ImportedDomains, ImportedNextAbove
<1>4. version \in {1, 3} /\ migrated = FALSE /\ removed = {} /\ restarts = 0
  BY BoundAssumption DEF Init
<1>5. /\ OrDefaults(p) \in ParamsType /\ GenesisParams(p) \in ParamsType
      /\ WithMaxLimitDefaults(OrDefaults(p)) = GenesisParams(p)
      /\ WithMaxLimitDefaults(GenesisParams(p)) = GenesisParams(p)
  BY ParamsAssumption, BackfillStable DEF OrDefaults, GenesisParams
<1>6. TypeOK
  <2>1. Params \in ParamsType \cup {Unset}
    BY <1>1, <1>5
  <2>2. restarts \in 0..MaxRestarts /\ removed \subseteq 0..(MaxId - 1)
    BY <1>4, BoundAssumption
  <2>3. migrated \in BOOLEAN /\ vetted \in BOOLEAN
    BY <1>1, <1>4 DEF Validate
  <2> QED
    BY <1>3, <1>4, <2>1, <2>2, <2>3 DEF TypeOK
<1>7. IndexExact
  <2> SUFFICES ASSUME vetted PROVE IndexExact
    BY DEF IndexExact
  <2>1. Unique(file)
    BY <1>1 DEF Validate, Unique
  <2>2. Exact(VKeys, VKeyNameIndex, NextVKeyID)
    BY <1>1, <1>2, <2>1, ImportedExact
  <2> QED
    BY <2>2, <1>4 DEF Exact, IndexExact
<1>8. IndexBelow /\ IdsNotReused
  BY <1>3, <1>4 DEF IndexBelow, IdsNotReused
<1>9. KeysParse
  BY <1>1, <1>2, <1>3, ImportedParses DEF KeysParse
<1>10. ParamsServe
  <2>1. ValidParams(GenesisParams(p))
    BY <1>1 DEF InitGenesisSucceeds
  <2>2. ValidParams(DefaultParams)
    BY LimitsAssumption DEF ValidParams
  <2> QED
    BY <1>1, <1>5, <2>1, <2>2 DEF ParamsServe, GetParams
<1> QED
  BY <1>6, <1>7, <1>8, <1>9, <1>10 DEF Inv

\* A new key gets a free name and an id that no key has or had.
LEMMA AddVKeyInv ==
  ASSUME Inv, NEW u \in Users \cup {Authority}, NEW name \in Names, NEW key \in KeyBytes,
         NEW system \in ProofSystems, AddVKey(u, name, key, system)
  PROVE  Inv'
<1> DEFINE vkey == [name |-> name, key |-> key, authority |-> u, system |-> OrGroth16(system)]
           id == NextVKeyID
<1>0. id \in Nat /\ id < MaxId /\ MaxId \in Nat
  BY BoundAssumption DEF Inv, TypeOK, AddVKey
<1>1. /\ DOMAIN VKeys' = DOMAIN VKeys \cup {id}
      /\ VKeys'[id] = vkey
      /\ \A x \in DOMAIN VKeys : x # id => VKeys'[x] = VKeys[x]
  BY DEF AddVKey, Put
<1>2. /\ DOMAIN VKeyNameIndex' = DOMAIN VKeyNameIndex \cup {name}
      /\ VKeyNameIndex'[name] = id
      /\ name \notin DOMAIN VKeyNameIndex
      /\ \A n \in DOMAIN VKeyNameIndex : VKeyNameIndex'[n] = VKeyNameIndex[n]
  BY DEF AddVKey, Put, Has
<1>3. NextVKeyID' = id + 1 /\ UNCHANGED <<Params, version, vetted, migrated, removed, restarts>>
  BY DEF AddVKey
<1>4. vkey \in VKey /\ vkey.authority # Unset /\ OrGroth16(vkey.system) \in ParsesAs[vkey.key]
  BY UploadParses, OwnersAssumption DEF AddVKey, VKey, Owners
<1>5. \A x \in DOMAIN VKeys : x = id => Overwritten(x)
  BY <1>0 DEF Inv, TypeOK, IdsNotReused
<1>6. \A n \in DOMAIN VKeyNameIndex : VKeyNameIndex[n] < id /\ VKeyNameIndex[n] # id
  BY <1>0 DEF Inv, TypeOK, IndexBelow
<1> HIDE DEF vkey
<1>7. TypeOK'
  BY <1>0, <1>1, <1>2, <1>3, <1>4 DEF Inv, TypeOK, Overwritten
<1>8. IndexExact'
  <2> SUFFICES ASSUME vetted PROVE IndexExact'
    BY <1>3 DEF IndexExact
  <2>1. \A n \in DOMAIN VKeyNameIndex' :
          /\ VKeyNameIndex'[n] \in DOMAIN VKeys'
          /\ ~ (migrated /\ VKeyNameIndex'[n] = 1) => VKeys'[VKeyNameIndex'[n]].name = n
    BY <1>1, <1>2, <1>3, <1>6 DEF Inv, IndexExact, Overwritten, vkey
  <2>2. \A x \in DOMAIN VKeys' : ~ (migrated /\ x = 1) =>
          VKeys'[x].name \in DOMAIN VKeyNameIndex' /\ VKeyNameIndex'[VKeys'[x].name] = x
    BY <1>1, <1>2, <1>3, <1>6 DEF Inv, IndexExact, Overwritten, vkey
  <2>3. \A m, n \in DOMAIN VKeyNameIndex' : VKeyNameIndex'[m] = VKeyNameIndex'[n] => m = n
    BY <1>2, <1>6 DEF Inv, IndexExact
  <2> QED
    BY <2>1, <2>2, <2>3, <1>3 DEF IndexExact, Overwritten
<1>9. IndexBelow'
  BY <1>0, <1>2, <1>3, <1>6 DEF Inv, TypeOK, IndexBelow
<1>10. IdsNotReused'
  <2>1. \A x \in DOMAIN VKeys : x \in Nat
    BY DEF Inv, TypeOK
  <2>2. \A x \in removed : x \in Nat
    BY DEF Inv, TypeOK
  <2> QED
    BY <1>0, <1>1, <1>3, <1>5, <2>1, <2>2 DEF Inv, IdsNotReused, Overwritten
<1>11. KeysParse' /\ ParamsServe'
  BY <1>1, <1>3, <1>4 DEF Inv, KeysParse, ParamsServe, GetParams
<1> QED
  BY <1>7, <1>8, <1>9, <1>10, <1>11 DEF Inv

\* An update writes the key under the id and the name it had.
LEMMA UpdateVKeyInv ==
  ASSUME Inv, NEW u \in Users \cup {Authority}, NEW name \in Names, NEW key \in KeyBytes,
         NEW system \in ProofSystems, UpdateVKey(u, name, key, system)
  PROVE  Inv'
<1> DEFINE vkey == [name |-> name, key |-> key, authority |-> u, system |-> OrGroth16(system)]
           id == VKeyNameIndex[name]
<1>1. name \in DOMAIN VKeyNameIndex /\ id \in DOMAIN VKeys
  BY DEF UpdateVKey, OwnedBy, Has
<1>2. /\ DOMAIN VKeys' = DOMAIN VKeys
      /\ VKeys'[id] = vkey
      /\ \A x \in DOMAIN VKeys : x # id => VKeys'[x] = VKeys[x]
  BY <1>1 DEF UpdateVKey, Put
<1>3. UNCHANGED <<NextVKeyID, VKeyNameIndex, Params, version, vetted, migrated, removed, restarts>>
  BY DEF UpdateVKey
<1>4. vkey \in VKey /\ vkey.authority # Unset /\ OrGroth16(vkey.system) \in ParsesAs[vkey.key]
  BY UploadParses, OwnersAssumption DEF UpdateVKey, VKey, Owners
<1>5. vkey.name = name
  OBVIOUS
<1> HIDE DEF vkey
<1>6. TypeOK'
  BY <1>2, <1>3, <1>4 DEF Inv, TypeOK, Overwritten
<1>7. IndexExact'
  <2> SUFFICES ASSUME vetted PROVE IndexExact'
    BY <1>3 DEF IndexExact
  <2>1. \A n \in DOMAIN VKeyNameIndex :
          ~ (migrated /\ VKeyNameIndex[n] = 1) => VKeys'[VKeyNameIndex[n]].name = n
    BY <1>1, <1>2, <1>5 DEF Inv, IndexExact, Overwritten
  <2>2. \A x \in DOMAIN VKeys : ~ (migrated /\ x = 1) =>
          VKeys'[x].name \in DOMAIN VKeyNameIndex /\ VKeyNameIndex[VKeys'[x].name] = x
    BY <1>1, <1>2, <1>5 DEF Inv, IndexExact, Overwritten
  <2> QED
    BY <1>2, <1>3, <2>1, <2>2 DEF Inv, IndexExact, Overwritten
<1>8. IndexBelow' /\ IdsNotReused'
  BY <1>2, <1>3 DEF Inv, IndexBelow, IdsNotReused, Overwritten
<1>9. KeysParse' /\ ParamsServe'
  BY <1>2, <1>3, <1>4 DEF Inv, KeysParse, ParamsServe, GetParams
<1> QED
  BY <1>6, <1>7, <1>8, <1>9 DEF Inv

\* A key goes together with its name, and its id is retired.
LEMMA RemoveVKeyInv ==
  ASSUME Inv, NEW u \in Users \cup {Authority}, NEW name \in Names, RemoveVKey(u, name)
  PROVE  Inv'
<1> DEFINE id == VKeyNameIndex[name]
<1>1. name \in DOMAIN VKeyNameIndex /\ id \in DOMAIN VKeys /\ id < NextVKeyID
  BY DEF RemoveVKey, OwnedBy, Has, Inv, IndexBelow
<1>2. DOMAIN VKeys' = DOMAIN VKeys \ {id} /\ \A x \in DOMAIN VKeys' : VKeys'[x] = VKeys[x]
  BY DEF RemoveVKey, Drop
<1>3. /\ DOMAIN VKeyNameIndex' = DOMAIN VKeyNameIndex \ {name}
      /\ \A n \in DOMAIN VKeyNameIndex' : VKeyNameIndex'[n] = VKeyNameIndex[n]
  BY DEF RemoveVKey, Drop
<1>4. /\ removed' = removed \cup {id}
      /\ UNCHANGED <<NextVKeyID, Params, version, vetted, migrated, restarts>>
  BY DEF RemoveVKey
<1>6. TypeOK'
  BY <1>1, <1>2, <1>3, <1>4 DEF Inv, TypeOK, Overwritten
<1>7. IndexExact'
  <2> SUFFICES ASSUME vetted PROVE IndexExact'
    BY <1>4 DEF IndexExact
  <2>1. \A n \in DOMAIN VKeyNameIndex' : VKeyNameIndex[n] # id
    BY <1>1, <1>3 DEF Inv, IndexExact
  <2>2. \A x \in DOMAIN VKeys' : ~ (migrated /\ x = 1) => VKeys'[x].name # name
    BY <1>1, <1>2 DEF Inv, IndexExact, Overwritten
  <2> QED
    BY <1>2, <1>3, <1>4, <2>1, <2>2 DEF Inv, IndexExact, Overwritten
<1>8. IndexBelow' /\ IdsNotReused'
  BY <1>1, <1>2, <1>3, <1>4 DEF Inv, IndexBelow, IdsNotReused, Overwritten
<1>9. KeysParse' /\ ParamsServe'
  BY <1>2, <1>4 DEF Inv, KeysParse, ParamsServe, GetParams
<1> QED
  BY <1>6, <1>7, <1>8, <1>9 DEF Inv

\* Governance stores parameters that are valid with their defaults.
LEMMA UpdateParamsInv ==
  ASSUME Inv, NEW u, NEW p \in ParamInputs, UpdateParams(u, p)
  PROVE  Inv'
<1>1. p \in ParamsType
  BY ParamsAssumption
<1>2. Params' = WithMaxLimitDefaults(p) /\ Params' \in ParamsType /\ WithMaxLimitDefaults(Params') = Params'
  BY <1>1, BackfillStable DEF UpdateParams, SetParams
<1>3. Params' # Unset
  BY <1>2, ParamsAssumption
<1>4. ParamsServe'
  BY <1>2, <1>3 DEF UpdateParams, SetParams, ParamsServe, GetParams
<1>5. UNCHANGED <<VKeys, NextVKeyID, VKeyNameIndex, version, vetted, migrated, removed, restarts>>
  BY DEF UpdateParams, SetParams
<1>6. TypeOK'
  BY <1>2, <1>5 DEF Inv, TypeOK, Overwritten
<1>7. IndexExact' /\ IndexBelow' /\ IdsNotReused' /\ KeysParse'
  BY <1>5 DEF Inv, IndexExact, IndexBelow, IdsNotReused, KeysParse, Overwritten
<1> QED
  BY <1>4, <1>6, <1>7 DEF Inv

\* The migrations write a key under id 1, the one exception of the index.
LEMMA MigrateInv ==
  ASSUME Inv, Migrate
  PROVE  Inv'
<1>1. /\ DOMAIN VKeys' = DOMAIN VKeys \cup {1}
      /\ VKeys'[1] = DefaultVKey
      /\ \A x \in DOMAIN VKeys : x # 1 => VKeys'[x] = VKeys[x]
  BY DEF Migrate, Migrate2to3, Put
<1>2. migrated' = TRUE /\ version' = 3 /\ UNCHANGED <<NextVKeyID, VKeyNameIndex, vetted, removed, restarts>>
  BY DEF Migrate, Migrate2to3
<1>3. /\ DefaultVKey \in VKey
      /\ OrGroth16(DefaultVKey.system) \in ParsesAs[DefaultVKey.key]
  BY KeysAssumption DEF DefaultVKey, VKey, Owners, ProofSystems, OrGroth16
<1>4. 1 \in 0..(MaxId - 1)
  BY BoundAssumption
<1>5. Params' \in ParamsType \cup {Unset} /\ GetParams' = GetParams
  <2>1. CASE Params = Unset
    BY <2>1 DEF Migrate, Migrate2to3, GetParams
  <2>2. CASE Params # Unset
    <3>1. Params \in ParamsType
      BY <2>2 DEF Inv, TypeOK
    <3>2. Limits \ {"gnark"} \in SUBSET Limits
      OBVIOUS
    <3>3. Params' = [Params EXCEPT !.limit =
            [l \in Limits |-> IF l \in Limits \ {"gnark"} /\ @[l] = 0
                              THEN DefaultParams.limit[l] ELSE @[l]]]
      BY <2>2, <3>1 DEF Migrate, Migrate2to3, ParamsType
    <3>4. Params' \in ParamsType /\ WithMaxLimitDefaults(Params') = WithMaxLimitDefaults(Params)
      BY <3>1, <3>2, <3>3, BackfillStable
    <3> QED
      BY <2>2, <3>4, ParamsAssumption DEF GetParams
  <2> QED
    BY <2>1, <2>2
<1>6. TypeOK'
  <2>1. \A x \in DOMAIN VKeys' : VKeys'[x] \in VKey /\ (VKeys'[x].authority = Unset => Overwritten(x)')
    BY <1>1, <1>2, <1>3 DEF Inv, TypeOK, Overwritten
  <2> QED
    BY <1>1, <1>2, <1>4, <1>5, <2>1 DEF Inv, TypeOK
<1>7. IndexExact'
  BY <1>1, <1>2 DEF Inv, IndexExact, Overwritten
<1>8. IndexBelow' /\ IdsNotReused'
  BY <1>1, <1>2 DEF Inv, IndexBelow, IdsNotReused, Overwritten
<1>9. KeysParse' /\ ParamsServe'
  BY <1>1, <1>2, <1>3, <1>5 DEF Inv, KeysParse, ParamsServe
<1> QED
  BY <1>6, <1>7, <1>8, <1>9 DEF Inv

\* What an export is: every key, under the id of its name.
LEMMA ExportIsFile ==
  ASSUME Inv, ExportSucceeds
  PROVE  /\ IsFile(ExportGenesis)
         /\ DOMAIN ExportGenesis = DOMAIN VKeys
         /\ \A id \in DOMAIN VKeys : /\ VKeys[id].name \in DOMAIN VKeyNameIndex
                                     /\ ExportGenesis[id].vkey = VKeys[id]
                                     /\ ExportGenesis[id].id = VKeyNameIndex[VKeys[id].name]
<1>1. \A id \in DOMAIN VKeys : VKeys[id].name \in DOMAIN VKeyNameIndex
  BY DEF ExportSucceeds, Has
<1>2. /\ DOMAIN ExportGenesis = DOMAIN VKeys
      /\ \A id \in DOMAIN VKeys : /\ ExportGenesis[id].vkey = VKeys[id]
                                  /\ ExportGenesis[id].id = VKeyNameIndex[VKeys[id].name]
  BY DEF ExportGenesis
<1>3. \A id \in DOMAIN ExportGenesis : ExportGenesis[id] \in VKeyWithID
  BY <1>1 DEF Inv, TypeOK, ExportGenesis, VKeyWithID
<1>4. MaxId - 1 \in Nat /\ DOMAIN ExportGenesis \subseteq 0..(MaxId - 1)
  BY <1>2, BoundAssumption DEF Inv, TypeOK
<1> QED
  BY <1>1, <1>2, <1>3, <1>4 DEF IsFile

\* The export of a vetted chain writes no other key under an id that it keeps,
\* and no key under one that is not in use.
LEMMA KeptEntry ==
  ASSUME Inv, ExportSucceeds, NEW id, ExportKeeps(id)
  PROVE  /\ id \in DOMAIN VKeys =>
              /\ VKeyNameIndex[VKeys[id].name] = id
              /\ \A j \in DOMAIN VKeys : /\ VKeyNameIndex[VKeys[j].name] = id => j = id
                                         /\ VKeys[j].name = VKeys[id].name => j = id
         /\ id \notin DOMAIN VKeys => \A j \in DOMAIN VKeys : VKeyNameIndex[VKeys[j].name] # id
<1>1. vetted /\ IndexExact
  BY DEF ExportKeeps, Inv
<1>2. \A j \in DOMAIN VKeys : VKeys[j].name \in DOMAIN VKeyNameIndex
  BY DEF ExportSucceeds, Has
<1>3. \A j \in DOMAIN VKeys : j # 1 => VKeyNameIndex[VKeys[j].name] = j
  BY <1>1 DEF IndexExact, Overwritten
<1>4. ~ migrated => \A j \in DOMAIN VKeys : VKeyNameIndex[VKeys[j].name] = j
  BY <1>1 DEF IndexExact, Overwritten
<1>5. 1 \in DOMAIN VKeys /\ VKeyNameIndex[VKeys[1].name] # 1
        => id # 1 /\ id # VKeyNameIndex[VKeys[1].name]
  BY <1>2, <1>4 DEF ExportKeeps, Displaced, InPlace, Has
<1>6. \A j \in DOMAIN VKeys : VKeyNameIndex[VKeys[j].name] \in DOMAIN VKeys
  BY <1>1, <1>2 DEF IndexExact
<1> QED
  BY <1>2, <1>3, <1>5, <1>6

\* A key under an id that the export keeps is imported as it is, under its
\* name, and no key is imported under one that is not in use.
LEMMA ImportKeeps ==
  ASSUME Inv, ExportSucceeds, NEW id, ExportKeeps(id)
  PROVE  /\ id \in DOMAIN VKeys =>
              /\ id \in DOMAIN ImportedVKeys(ExportGenesis)
              /\ ImportedVKeys(ExportGenesis)[id] = WithOwner(VKeys[id])
              /\ VKeyNameIndex[VKeys[id].name] = id
              /\ VKeys[id].name \in DOMAIN ImportedIndex(ExportGenesis)
              /\ ImportedIndex(ExportGenesis)[VKeys[id].name] = id
         /\ id \notin DOMAIN VKeys => id \notin DOMAIN ImportedVKeys(ExportGenesis)
<1> DEFINE file == ExportGenesis
<1>1. /\ IsFile(file) /\ DOMAIN file = DOMAIN VKeys
      /\ \A j \in DOMAIN VKeys : /\ file[j].vkey = VKeys[j]
                                 /\ file[j].id = VKeyNameIndex[VKeys[j].name]
  BY ExportIsFile
<1> HIDE DEF file
<1>2. DOMAIN ImportedVKeys(file) = IdsOf(file) /\ DOMAIN ImportedIndex(file) = NamesOf(file)
  BY <1>1, ImportedDomains
<1>3. ASSUME id \in DOMAIN VKeys
      PROVE  /\ id \in DOMAIN ImportedVKeys(file)
             /\ ImportedVKeys(file)[id] = WithOwner(VKeys[id])
             /\ VKeyNameIndex[VKeys[id].name] = id
             /\ VKeys[id].name \in DOMAIN ImportedIndex(file)
             /\ ImportedIndex(file)[VKeys[id].name] = id
  <2>1. /\ file[id].id = id /\ file[id].vkey = VKeys[id]
        /\ \A j \in DOMAIN file : file[j].id = file[id].id => j = id
        /\ \A j \in DOMAIN file : file[j].vkey.name = file[id].vkey.name => j = id
    BY <1>1, <1>3, KeptEntry
  <2> QED
    BY <1>1, <1>2, <1>3, <2>1, ImportedEntry, KeptEntry
<1>4. ASSUME id \notin DOMAIN VKeys PROVE id \notin IdsOf(file)
  BY <1>1, <1>4, KeptEntry DEF IdsOf
<1> QED
  BY <1>2, <1>3, <1>4 DEF file

\* Without a displaced key the export of a vetted chain has every key once,
\* under its own id.
LEMMA ExportInPlace ==
  ASSUME Inv, ExportSucceeds, vetted, ~ Displaced
  PROVE  /\ \A id \in DOMAIN VKeys : ExportGenesis[id].id = id
         /\ Unique(ExportGenesis)
         /\ DOMAIN ImportedVKeys(ExportGenesis) = DOMAIN VKeys
<1>1. \A id : ExportKeeps(id)
  BY DEF ExportKeeps
<1>2. \A id \in DOMAIN VKeys :
        /\ ExportGenesis[id].id = id /\ ExportGenesis[id].vkey = VKeys[id]
        /\ \A j \in DOMAIN VKeys : VKeys[j].name = VKeys[id].name => j = id
  BY <1>1, KeptEntry, ExportIsFile
<1>3. DOMAIN ExportGenesis = DOMAIN VKeys
  BY ExportIsFile
<1>4. Unique(ExportGenesis)
  BY <1>2, <1>3 DEF Unique
<1>5. DOMAIN ImportedVKeys(ExportGenesis) = IdsOf(ExportGenesis)
  BY ExportIsFile, ImportedDomains
<1>6. IdsOf(ExportGenesis) = DOMAIN VKeys
  BY <1>2, <1>3 DEF IdsOf
<1> QED
  BY <1>2, <1>4, <1>5, <1>6

\* The parameters in force are exported and imported as they are.
LEMMA GenesisParamsInForce ==
  ASSUME TypeOK, ParamsServe
  PROVE  GenesisParams(GetParams) = GetParams /\ ValidParams(GetParams)
<1>1. GetParams \in ParamsType /\ WithMaxLimitDefaults(GetParams) = GetParams
  BY GetParamsType
<1>2. ValidParams(GetParams)
  BY DEF ParamsServe
<1>3. GetParams.chunkSize > 0 /\ NoParams.chunkSize = 0
  BY <1>2 DEF ValidParams, NoParams
<1>4. GetParams # NoParams
  BY <1>3
<1> QED
  BY <1>1, <1>2, <1>4 DEF GenesisParams, OrDefaults

\* A registry that was imported is as exact as one of a genesis file.
LEMMA RestartInv ==
  ASSUME Inv, Restart
  PROVE  Inv'
<1> DEFINE file == ExportGenesis
<1>1. ExportSucceeds /\ InitGenesisSucceeds(file, GetParams) /\ IsFile(file)
  BY ExportIsFile DEF Restart, Importable
<1>2. /\ VKeys' = ImportedVKeys(file)
      /\ VKeyNameIndex' = ImportedIndex(file)
      /\ NextVKeyID' = ImportedNext(file)
      /\ Params' = GetParams
      /\ vetted' = Validate(file, GetParams)
      /\ restarts' = restarts + 1 /\ restarts < MaxRestarts
      /\ UNCHANGED <<version, migrated, removed>>
  BY DEF Restart
<1> HIDE DEF file
<1>3. /\ DOMAIN VKeys' = IdsOf(file) /\ IdsOf(file) \subseteq 0..(MaxId - 1)
      /\ \A id \in DOMAIN VKeys' : VKeys'[id] \in VKey /\ VKeys'[id].authority # Unset
      /\ DOMAIN VKeyNameIndex' \subseteq Names
      /\ \A name \in DOMAIN VKeyNameIndex' : VKeyNameIndex'[name] \in IdsOf(file)
      /\ NextVKeyID' \in 0..MaxId /\ \A id \in IdsOf(file) : id < NextVKeyID'
  <2>1. \A id \in IdsOf(file) :
          ImportedVKeys(file)[id] \in VKey /\ ImportedVKeys(file)[id].authority # Unset
    BY <1>1, ImportedKey
  <2>2. \A name \in NamesOf(file) : ImportedIndex(file)[name] \in IdsOf(file)
    BY <1>1, ImportedName
  <2> QED
    BY <1>1, <1>2, <2>1, <2>2, ImportedDomains, ImportedNextAbove
<1>4. GetParams \in ParamsType /\ WithMaxLimitDefaults(GetParams) = GetParams
  BY GetParamsType DEF Inv
<1>5. TypeOK'
  <2>1. restarts' \in 0..MaxRestarts
    BY <1>2, BoundAssumption DEF Inv, TypeOK
  <2>2. vetted' \in BOOLEAN
    BY <1>2 DEF Validate
  <2> QED
    BY <1>2, <1>3, <1>4, <2>1, <2>2 DEF Inv, TypeOK
<1>6. IndexExact'
  <2> SUFFICES ASSUME vetted' PROVE IndexExact'
    BY DEF IndexExact
  <2>1. Unique(file)
    BY <1>2 DEF Validate, Unique
  <2>2. Exact(VKeys', VKeyNameIndex', NextVKeyID')
    BY <1>1, <1>2, <2>1, ImportedExact
  <2> QED
    BY <2>2 DEF Exact, IndexExact
<1>7. IndexBelow' /\ IdsNotReused'
  <2>1. restarts' # 0
    BY <1>2 DEF Inv, TypeOK
  <2> QED
    BY <1>3, <2>1 DEF IndexBelow, IdsNotReused
<1>8. KeysParse'
  BY <1>1, <1>2, <1>3, ImportedParses DEF KeysParse
<1>9. ParamsServe'
  <2>1. Params' # Unset /\ WithMaxLimitDefaults(Params') = Params'
    BY <1>2, <1>4, ParamsAssumption
  <2>2. GetParams' = Params'
    BY <2>1 DEF GetParams
  <2>3. GetParams' = GetParams
    BY <1>2, <2>2
  <2> QED
    BY <2>3 DEF Inv, ParamsServe
<1> QED
  BY <1>5, <1>6, <1>7, <1>8, <1>9 DEF Inv

\* Every step of x/zk, one action after another.
LEMMA NextInv == Inv /\ [Next]_vars => Inv'
<1> SUFFICES ASSUME Inv, [Next]_vars PROVE Inv'
  OBVIOUS
<1>1. CASE UNCHANGED vars
  BY <1>1 DEF vars, Inv, TypeOK, IndexExact, IndexBelow, IdsNotReused, KeysParse, ParamsServe,
     Overwritten, GetParams
<1>2. CASE Next
  BY <1>2, AddVKeyInv, UpdateVKeyInv, RemoveVKeyInv, UpdateParamsInv, MigrateInv, RestartInv DEF Next
<1> QED
  BY <1>1, <1>2

\* The invariant of x/zk.
LEMMA Invariance == Spec => []Inv
BY InitInv, NextInv, PTL DEF Spec

\* Every step that leaves a key under its id leaves it to its owner.
LEMMA StepKeepsOwners ==
  ASSUME Inv, Next, NEW id \in DOMAIN VKeys \cap DOMAIN VKeys', ~ (migrated' /\ id = 1),
         ~ (restarts' # restarts /\ ~ ExportKeeps(id))
  PROVE  OwnerOf(VKeys'[id]) = OwnerOf(VKeys[id])
<1>0. VKeys[id] \in VKey
  BY DEF Inv, TypeOK
<1>1. CASE \E u \in Users \cup {Authority}, name \in Names, key \in KeyBytes, system \in ProofSystems :
             AddVKey(u, name, key, system)
  <2>1. migrated' = migrated /\ (id # NextVKeyID => VKeys'[id] = VKeys[id])
    BY <1>1 DEF AddVKey, Put
  <2>2. id # NextVKeyID
    BY <2>1 DEF Inv, TypeOK, IdsNotReused, Overwritten
  <2> QED
    BY <2>1, <2>2
<1>2. CASE \E u \in Users \cup {Authority}, name \in Names, key \in KeyBytes, system \in ProofSystems :
             UpdateVKey(u, name, key, system)
  <2>1. PICK u \in Users \cup {Authority}, name \in Names, key \in KeyBytes, system \in ProofSystems :
          UpdateVKey(u, name, key, system)
    BY <1>2
  <2>2. CASE id = VKeyNameIndex[name]
    <3>1. VKeys'[id].authority = u /\ OwnerOf(VKeys[id]) = u
      BY <2>1, <2>2 DEF UpdateVKey, Put, OwnedBy
    <3>2. u # Unset
      BY OwnersAssumption
    <3> QED
      BY <3>1, <3>2 DEF OwnerOf
  <2>3. CASE id # VKeyNameIndex[name]
    BY <2>1, <2>3 DEF UpdateVKey, Put
  <2> QED
    BY <2>2, <2>3
<1>3. CASE \E u \in Users \cup {Authority}, name \in Names : RemoveVKey(u, name)
  BY <1>3 DEF RemoveVKey, Drop
<1>4. CASE \E u \in Users \cup {Authority}, p \in ParamInputs : UpdateParams(u, p)
  BY <1>4 DEF UpdateParams, SetParams
<1>5. CASE Migrate
  BY <1>5 DEF Migrate, Migrate2to3, Put
<1>6. CASE Restart
  <2>0. ExportKeeps(id) /\ ExportSucceeds
    BY <1>6 DEF Restart, Importable, Inv, TypeOK
  <2>1. VKeys'[id] = WithOwner(VKeys[id])
    BY <1>6, <2>0, ImportKeeps DEF Restart
  <2>2. VKeys'[id].authority = OwnerOf(VKeys[id])
    BY <2>1, <1>0 DEF VKey, WithOwner
  <2>3. OwnerOf(VKeys[id]) # Unset
    BY OwnersAssumption DEF OwnerOf
  <2> QED
    BY <2>2, <2>3 DEF OwnerOf
<1> QED
  BY <1>1, <1>2, <1>3, <1>4, <1>5, <1>6 DEF Next

\* The name index is a function and no more: two of them with the same
\* entries are the same.
IndexIsFunction == VKeyNameIndex = [name \in DOMAIN VKeyNameIndex |-> VKeyNameIndex[name]]

\* So are the indexes that messages and imports leave.
LEMMA IndexFunctional == Spec => []IndexIsFunction
<1>1. Init => IndexIsFunction
  BY DEF Init, IndexIsFunction, ImportedIndex
<1>2. IndexIsFunction /\ [Next]_vars => IndexIsFunction'
  BY DEF IndexIsFunction, Next, vars, AddVKey, UpdateVKey, RemoveVKey, UpdateParams, SetParams,
         Migrate, Restart, Put, Drop, ImportedIndex
<1> QED
  BY <1>1, <1>2, PTL DEF Spec

\* The index a new chain starts with is the index of the old one.
LEMMA ImportedIndexIsIndex ==
  ASSUME Inv, IndexIsFunction, ExportSucceeds, vetted, ~ Displaced
  PROVE  ImportedIndex(ExportGenesis) = VKeyNameIndex
<1> DEFINE file == ExportGenesis
<1>1. \A id \in DOMAIN VKeys :
        /\ VKeyNameIndex[VKeys[id].name] = id
        /\ VKeys[id].name \in DOMAIN ImportedIndex(file)
        /\ ImportedIndex(file)[VKeys[id].name] = id
  BY ImportKeeps DEF ExportKeeps
<1>2. \A id \in DOMAIN VKeys : VKeys[id].name \in DOMAIN VKeyNameIndex
  BY ExportIsFile
<1>3. \A name \in DOMAIN VKeyNameIndex :
        /\ VKeyNameIndex[name] \in DOMAIN VKeys
        /\ VKeys[VKeyNameIndex[name]].name = name
  BY <1>1, <1>2 DEF Inv, IndexExact
<1>4. DOMAIN ImportedIndex(file) = {file[i].vkey.name : i \in DOMAIN file}
  BY DEF ImportedIndex, NamesOf
<1>5. ImportedIndex(file) = [name \in DOMAIN ImportedIndex(file) |-> ImportedIndex(file)[name]]
  BY DEF ImportedIndex
<1>6. DOMAIN file = DOMAIN VKeys /\ \A id \in DOMAIN VKeys : file[id].vkey = VKeys[id]
  BY ExportIsFile
<1> HIDE DEF file
<1>7. DOMAIN ImportedIndex(file) = DOMAIN VKeyNameIndex
  <2>1. \A name \in DOMAIN ImportedIndex(file) : name \in DOMAIN VKeyNameIndex
    BY <1>2, <1>4, <1>6
  <2>2. \A name \in DOMAIN VKeyNameIndex : name \in DOMAIN ImportedIndex(file)
    BY <1>1, <1>3
  <2> QED
    BY <2>1, <2>2
<1>8. \A name \in DOMAIN VKeyNameIndex : ImportedIndex(file)[name] = VKeyNameIndex[name]
  BY <1>1, <1>3
<1> QED
  BY <1>5, <1>7, <1>8 DEF file, IndexIsFunction

\* Without a displaced key, Circom keys that fit the limit can be exported and
\* imported, and the export passes Validate.
LEMMA CircomImportable ==
  ASSUME Inv, vetted, ~ Displaced,
         \A id \in DOMAIN VKeys : ValidateVKeyBytes(VKeys[id].key, GetParams.maxVkeySize)
  PROVE  Importable /\ Validate(ExportGenesis, GetParams)
<1> DEFINE file == ExportGenesis
<1>1. \A id \in DOMAIN VKeys : VKeys[id].name \in DOMAIN VKeyNameIndex
  <2>1. \A id \in DOMAIN VKeys : id # 1 \/ ~ migrated => VKeys[id].name \in DOMAIN VKeyNameIndex
    BY DEF Inv, IndexExact, Overwritten
  <2>2. migrated /\ 1 \in DOMAIN VKeys => VKeys[1].name \in DOMAIN VKeyNameIndex
    BY DEF Displaced, InPlace, Has
  <2> QED
    BY <2>1, <2>2
<1>2. ExportSucceeds
  BY <1>1 DEF ExportSucceeds, Has
<1>3. DOMAIN file = DOMAIN VKeys /\ \A id \in DOMAIN VKeys : file[id].vkey = VKeys[id]
  BY <1>2, ExportIsFile
<1>4. Unique(file)
  BY <1>2, ExportInPlace
<1>5. GenesisParams(GetParams) = GetParams /\ ValidParams(GetParams)
  BY GenesisParamsInForce DEF Inv
<1>6. \A id \in DOMAIN VKeys : OrGroth16(VKeys[id].system) \in ParsesAs[VKeys[id].key]
  BY DEF Inv, KeysParse
<1> HIDE DEF file
<1>7. Validate(file, GetParams)
  BY <1>3, <1>4, <1>5, <1>6 DEF Validate, Unique, ValidateVKeyForProofSystem, ValidateVKeyBytes
<1>8. InitGenesisSucceeds(file, GetParams)
  BY <1>3, <1>5 DEF InitGenesisSucceeds
<1> QED
  BY <1>2, <1>7, <1>8 DEF Importable, file
-----------------------------------------------------------------------------
\* The stores of x/zk keep the shape of keeper.go:27-40, and every key but
\* the migrated one has an owner of its own.
THEOREM TypeCorrect == Spec => []TypeOK
BY Invariance, PTL DEF Inv

\* Names and keys stay in agreement through every message, upgrade, export
\* and import, on a chain whose genesis file passes Validate
\* (keeper.go:100-150, 326-382, 496-534).
THEOREM IndexStaysExact == Spec => []IndexExact
BY Invariance, PTL DEF Inv

\* An id never comes to stand for a second key while a chain runs
\* (keeper.go:357): the sequence is above every id in use or retired.
THEOREM IdsStayRetired == Spec => []IdsNotReused
BY Invariance, PTL DEF Inv

\* Stored bytes are a key of the proof system stored with them, or, where the
\* file was not vetted, a Circom key (keeper.go:119, 352, 475, genesis.go:67).
THEOREM StoredKeysParse == Spec => []KeysParse
BY Invariance, PTL DEF Inv

\* The parameters in force are valid, whatever the store was left with by an
\* older version (keeper.go:186-209, migrations/v3/migrate.go).
THEOREM ParamsAlwaysServe == Spec => []ParamsServe
BY Invariance, PTL DEF Inv

\* Nobody but its owner changes a key, and no step changes the owner but the
\* migration of id 1 and the export over which a displaced default key, or a
\* file that was not vetted, puts another (keeper.go:452-459, 482-488, 118-136).
THEOREM OwnersKeepKeys == Spec => OwnershipKept
<1>1. Inv /\ [Next]_vars
        => [\A id \in DOMAIN VKeys \cap DOMAIN VKeys' :
              \/ OwnerOf(VKeys'[id]) = OwnerOf(VKeys[id])
              \/ migrated' /\ id = 1
              \/ restarts' # restarts /\ ~ ExportKeeps(id)]_vars
  BY StepKeepsOwners
<1> QED
  BY <1>1, Invariance, PTL DEF Spec, OwnershipKept

\* What is imported from an export is what was exported, but for a displaced
\* default key and the key it is taken for; and a vetted registry of Circom
\* keys within the limit, without a displaced key, can always be imported
\* (keeper.go:100-183).
THEOREM RestartsAreFaithful == Spec => []RestartFaithful
<1>1. Inv /\ IndexIsFunction => RestartFaithful
  <2> SUFFICES ASSUME Inv, IndexIsFunction PROVE RestartFaithful
    OBVIOUS
  <2>1. ASSUME Importable, NEW id \in DOMAIN VKeys, ExportKeeps(id)
        PROVE  /\ id \in DOMAIN ImportedVKeys(ExportGenesis)
               /\ ImportedVKeys(ExportGenesis)[id] = WithOwner(VKeys[id])
    BY <2>1, ImportKeeps DEF Importable
  <2>2. ASSUME Importable, vetted, ~ Displaced
        PROVE  /\ DOMAIN ImportedVKeys(ExportGenesis) = DOMAIN VKeys
               /\ ImportedIndex(ExportGenesis) = VKeyNameIndex
    BY <2>2, ExportInPlace, ImportedIndexIsIndex DEF Importable
  <2> QED
    BY <2>1, <2>2, CircomImportable DEF RestartFaithful, Has
<1> QED
  BY <1>1, Invariance, IndexFunctional, PTL
-----------------------------------------------------------------------------
(***************************************************************************)
(* x/zk with x/dkim. A step of both is a step of x/zk or leaves it as it   *)
(* is, so that what holds of x/zk alone holds here.                        *)
(***************************************************************************)
LEMMA ZkStep == [AuthNext]_allVars => [Next]_vars
<1> SUFFICES ASSUME AuthNext PROVE [Next]_vars
  BY DEF allVars
<1>1. CASE \E u \in Accounts, batch \in Batches : Dkim!AddDkimPubKeys(u, batch) /\ UNCHANGED zkVars
  BY <1>1 DEF Dkim!AddDkimPubKeys, zkVars, vars
<1>2. CASE \E u \in Accounts, slot \in Slots : Dkim!RemoveDkimPubKey(u, slot) /\ UNCHANGED zkVars
  BY <1>2 DEF Dkim!RemoveDkimPubKey, zkVars, vars
<1>3. CASE \E u \in Accounts, domain \in Dkim!Domains, rsa \in RsaKeys :
             Dkim!RevokeDkimPubKey(u, domain, rsa) /\ UNCHANGED zkVars
  BY <1>3 DEF Dkim!RevokeDkimPubKey, zkVars, vars
<1>4. CASE \E u \in Accounts, p \in DkimParamInputs : Dkim!UpdateParams(u, p) /\ UNCHANGED zkVars
  BY <1>4 DEF Dkim!UpdateParams, zkVars, vars
<1>5. CASE Upgrade
  BY <1>5 DEF Upgrade, Next, zkVars, vars
<1> QED
  BY <1>1, <1>2, <1>3, <1>4, <1>5 DEF AuthNext, Next, RestartAll, Accounts

\* The invariant of x/zk with x/dkim beside it.
LEMMA ZkInvariance == AuthSpec => [](Inv /\ IndexIsFunction)
<1>1. AuthInit => Init
  BY DEF AuthInit
<1>2. AuthSpec => Spec
  BY <1>1, ZkStep, PTL DEF AuthSpec, Spec
<1> QED
  BY <1>2, Invariance, IndexFunctional, PTL

-----------------------------------------------------------------------------
\* What the queries need of x/dkim: stored hashes are those of the keys, and
\* the positions are some that a file or a message may hold.
DkimOK ==
  /\ \A slot \in DOMAIN DkimPubKeys :
       DkimPubKeys[slot].rsa \in RsaKeys /\ DkimPubKeys[slot].hash = HashOf[DkimPubKeys[slot].rsa]
  /\ dkimVersion \in {1, 2}
  /\ dkimParams \in Dkim!ParamsType \cup {Unset}
  /\ dkimVersion = 2 => dkimParams # Unset /\ dkimParams.indices \in Positions

\* The last record for a slot: a list that names a slot has one.
LEMMA LastForExists ==
  ASSUME NEW list \in Seq(Dkim!Listed), NEW slot \in Dkim!SlotsOf(list)
  PROVE  Dkim!LastFor(list, slot) \in DOMAIN list /\ list[Dkim!LastFor(list, slot)].slot = slot
<1> DEFINE T == {n \in Nat : \E i \in DOMAIN list : n = Len(list) - i /\ list[i].slot = slot}
           Last(i) == list[i].slot = slot /\ \A j \in DOMAIN list : list[j].slot = slot => j <= i
<1>1. Len(list) \in Nat /\ DOMAIN list = 1..Len(list)
  OBVIOUS
<1>2. PICK i \in DOMAIN list : list[i].slot = slot
  BY DEF Dkim!SlotsOf
<1>3. T \in SUBSET Nat /\ Len(list) - i \in T
  BY <1>1, <1>2
<1>4. PICK x \in T : \A y \in T : x <= y
  BY <1>3, LeastNatural
<1>5. PICK k \in DOMAIN list : x = Len(list) - k /\ list[k].slot = slot
  BY <1>4
<1>6. ASSUME NEW j \in DOMAIN list, list[j].slot = slot PROVE j <= k
  <2>1. Len(list) - j \in T
    BY <1>1, <1>6
  <2>2. Len(list) - k <= Len(list) - j
    BY <2>1, <1>4, <1>5
  <2> QED
    BY <2>2, <1>1
<1>7. Last(k)
  BY <1>5, <1>6
<1>8. Dkim!LastFor(list, slot) = CHOOSE n \in DOMAIN list : Last(n)
  BY DEF Dkim!LastFor
<1> HIDE DEF Last
<1>9. Dkim!LastFor(list, slot) \in DOMAIN list /\ Last(Dkim!LastFor(list, slot))
  BY <1>7, <1>8
<1> QED
  BY <1>9 DEF Last

\* Keys with hashes of their own.
Hashed(store) ==
  \A slot \in DOMAIN store : store[slot].rsa \in RsaKeys /\ store[slot].hash = HashOf[store[slot].rsa]

\* SaveDkimPubKeys of hashed records into a hashed store.
LEMMA SavedHashed ==
  ASSUME NEW store, Hashed(store), NEW list \in Seq(Dkim!Listed),
         \A i \in DOMAIN list : list[i].key.hash = HashOf[list[i].key.rsa]
  PROVE  Hashed(Dkim!SaveDkimPubKeys(store, list))
<1>1. ASSUME NEW slot \in Dkim!SlotsOf(list)
      PROVE  /\ list[Dkim!LastFor(list, slot)].key.rsa \in RsaKeys
             /\ list[Dkim!LastFor(list, slot)].key.hash = HashOf[list[Dkim!LastFor(list, slot)].key.rsa]
  <2> DEFINE i == Dkim!LastFor(list, slot)
  <2>1. i \in DOMAIN list
    BY LastForExists
  <2> HIDE DEF i
  <2>2. list[i] \in Dkim!Listed
    BY <2>1
  <2> QED
    BY <2>1, <2>2 DEF Dkim!Listed, Dkim!DkimPubKey, i
<1> QED
  BY <1>1 DEF Hashed, Dkim!SaveDkimPubKeys

\* What a file or a message may hold, checked or not.
LEMMA InputPositions ==
  ASSUME NEW p \in DkimParamInputs
  PROVE  p \in Dkim!ParamsType /\ p # Unset /\ p.indices \in Positions
BY DkimAssumption DEF Positions

\* Parameters whose positions are replaced.
LEMMA Repositioned ==
  ASSUME NEW p \in Dkim!ParamsType, NEW x \in Dkim!Indices
  PROVE  /\ [p EXCEPT !.indices = x] \in Dkim!ParamsType
         /\ [p EXCEPT !.indices = x].indices = x
         /\ [p EXCEPT !.indices = x] # Unset
<1>1. /\ [p EXCEPT !.indices = x] \in Dkim!ParamsType
      /\ [p EXCEPT !.indices = x].indices = x
  BY DEF Dkim!ParamsType
<1> QED
  BY <1>1, DkimAssumption

\* A genesis file of x/dkim, of version 2 or of version 1.
LEMMA DkimInit == AuthInit => DkimOK
<1> SUFFICES ASSUME AuthInit PROVE DkimOK
  OBVIOUS
<1>1. PICK file \in DkimGenesisFiles, p \in DkimParamInputs :
        /\ DkimPubKeys = Dkim!SaveDkimPubKeys(Dkim!EmptyStore, file)
        /\ \/ dkimVersion = 2 /\ dkimParams = p
           \/ dkimVersion = 1 /\ dkimParams \in {[p EXCEPT !.indices = Dkim!NoIndices], Unset}
  BY DEF AuthInit, Dkim!Init
<1>2. Hashed(DkimPubKeys)
  <2>1. Hashed(Dkim!EmptyStore)
    BY DEF Hashed, Dkim!EmptyStore
  <2> QED
    BY <1>1, <2>1, SavedHashed, DkimAssumption
<1>3. p \in Dkim!ParamsType /\ p # Unset /\ p.indices \in Positions
  BY InputPositions
<1>4. Dkim!NoIndices \in Dkim!Indices
  BY DEF Dkim!NoIndices, Dkim!Indices
<1>5. dkimParams \in Dkim!ParamsType \cup {Unset}
  BY <1>1, <1>3, <1>4, Repositioned
<1> QED
  BY <1>1, <1>2, <1>3, <1>5 DEF DkimOK, Hashed

\* What a migration of x/dkim leaves (migrate.go:20-45).
LEMMA MigratedParams ==
  ASSUME DkimOK, Dkim!Migrate
  PROVE  /\ dkimParams' \in Dkim!ParamsType /\ dkimParams' # Unset
         /\ dkimParams'.indices = DkimDefaultParams.indices
         /\ DkimDefaultParams.indices \in Positions
<1>1. /\ DkimDefaultParams \in Dkim!ParamsType /\ DkimDefaultParams.indices \in Dkim!Indices
      /\ DkimDefaultParams # Unset /\ DkimDefaultParams.indices \in Positions
  BY DkimAssumption DEF Dkim!ParamsType, Dkim!ValidParams, Positions
<1>2. CASE dkimParams = Unset
  BY <1>1, <1>2 DEF Dkim!Migrate
<1>3. CASE dkimParams # Unset
  <2>1. dkimParams \in Dkim!ParamsType
    BY <1>3 DEF DkimOK
  <2>2. dkimParams' = [dkimParams EXCEPT !.indices = DkimDefaultParams.indices]
    BY <1>3 DEF Dkim!Migrate
  <2> QED
    BY <1>1, <2>1, <2>2, Repositioned
<1> QED
  BY <1>2, <1>3

\* Governance, revocation, migration and import, one after another.
LEMMA DkimStep == DkimOK /\ [AuthNext]_allVars => DkimOK'
<1> SUFFICES ASSUME DkimOK, [AuthNext]_allVars PROVE DkimOK'
  OBVIOUS
<1>0. Hashed(DkimPubKeys)
  BY DEF DkimOK, Hashed
<1>1. CASE UNCHANGED dkimVars
  BY <1>1 DEF dkimVars, DkimOK
<1>2. ASSUME NEW u \in Accounts, NEW batch \in Batches, Dkim!AddDkimPubKeys(u, batch)
      PROVE  DkimOK'
  <2> DEFINE list == [i \in DOMAIN batch |-> [batch[i] EXCEPT !.key = Dkim!WithPoseidonHash(batch[i].key)]]
  <2>1. batch \in Seq(Dkim!Listed)
    BY DkimAssumption
  <2>2. ASSUME NEW i \in DOMAIN batch
        PROVE  list[i] \in Dkim!Listed /\ list[i].key.hash = HashOf[list[i].key.rsa]
    <3>1. batch[i] \in Dkim!Listed /\ HashOf \in [RsaKeys -> Nat]
      BY <2>1, FieldAssumption
    <3> QED
      BY <3>1 DEF Dkim!Listed, Dkim!DkimPubKey, Dkim!WithPoseidonHash
  <2>3. list \in Seq(Dkim!Listed) /\ DOMAIN list = DOMAIN batch
    <3>1. Len(batch) \in Nat /\ DOMAIN batch = 1..Len(batch)
      BY <2>1
    <3>2. list \in [1..Len(batch) -> Dkim!Listed]
      BY <2>2, <3>1
    <3> QED
      BY <3>1, <3>2
  <2>4. DkimPubKeys' = Dkim!SaveDkimPubKeys(DkimPubKeys, list)
    BY <1>2 DEF Dkim!AddDkimPubKeys
  <2> HIDE DEF list
  <2>5. Hashed(DkimPubKeys')
    BY <1>0, <2>2, <2>3, <2>4, SavedHashed
  <2> QED
    BY <1>2, <2>5 DEF DkimOK, Hashed, Dkim!AddDkimPubKeys
<1>3. ASSUME NEW u \in Accounts, NEW slot \in Slots, Dkim!RemoveDkimPubKey(u, slot)
      PROVE  DkimOK'
  BY <1>3 DEF DkimOK, Dkim!RemoveDkimPubKey, Dkim!Drop
<1>4. ASSUME NEW u \in Accounts, NEW domain \in Dkim!Domains, NEW rsa \in RsaKeys,
             Dkim!RevokeDkimPubKey(u, domain, rsa)
      PROVE  DkimOK'
  BY <1>4 DEF DkimOK, Dkim!RevokeDkimPubKey, Dkim!DropAll
<1>5. ASSUME NEW u \in Accounts, NEW p \in DkimParamInputs, Dkim!UpdateParams(u, p)
      PROVE  DkimOK'
  BY <1>5, InputPositions DEF DkimOK, Dkim!UpdateParams
<1>6. CASE Dkim!Migrate
  BY <1>6, MigratedParams DEF DkimOK, Dkim!Migrate
<1>7. CASE Dkim!Restart
  BY <1>7 DEF DkimOK, Dkim!Restart, Dkim!GetParams
<1> QED
  BY <1>1, <1>2, <1>3, <1>4, <1>5, <1>6, <1>7
  DEF AuthNext, Upgrade, RestartAll, ZkSigned, allVars, dkimVars

\* The invariant of both modules.
LEMMA AuthInvariance == AuthSpec => [](Inv /\ IndexIsFunction /\ DkimOK)
BY ZkInvariance, DkimInit, DkimStep, PTL DEF AuthSpec

-----------------------------------------------------------------------------
(***************************************************************************)
(* One proof, one message.                                                 *)
(***************************************************************************)
\* Two lists of inputs with the same values, whatever their form.
SameValues(a, b) == DOMAIN a = DOMAIN b /\ \A i \in DOMAIN a : a[i].val = b[i].val

\* A proof that verifies for two lists of inputs, whatever the keys, has
\* verified for the same values.
LEMMA VerifyBinds ==
  ASSUME NEW proof, NEW k1, NEW k2, NEW a \in Seq(Input), NEW b \in Seq(Input),
         Verify(proof, k1, a), Verify(proof, k2, b)
  PROVE  SameValues(a, b)
<1> DEFINE f == [i \in DOMAIN a |-> a[i].val % Field]
           g == [i \in DOMAIN b |-> b[i].val % Field]
<1>1. f = g
  BY DEF Verify, VerifyProof
<1>2. DOMAIN f = DOMAIN a /\ DOMAIN g = DOMAIN b
  OBVIOUS
<1>3. DOMAIN a = DOMAIN b
  BY <1>1, <1>2
<1>4. ASSUME NEW i \in DOMAIN a PROVE a[i].val = b[i].val
  <2>1. a[i].val \in 0..(Field - 1) /\ b[i].val \in 0..(Field - 1)
    BY <1>3 DEF Verify, Canonical
  <2>2. \A v \in 0..(Field - 1) : v % Field = v
    BY FieldAssumption
  <2>3. f[i] = a[i].val % Field /\ g[i] = b[i].val % Field
    BY <1>3
  <2> QED
    BY <1>1, <2>1, <2>2, <2>3
<1> QED
  BY <1>3, <1>4 DEF SameValues

\* The text of inputs is a matter of their values.
LEMMA TextsOfValues ==
  ASSUME NEW a, NEW b, SameValues(a, b)
  PROVE  TextOf(a) = TextOf(b)
<1>1. [i \in DOMAIN a |-> LittleEndian(a[i].val % Field)] = [i \in DOMAIN b |-> LittleEndian(b[i].val % Field)]
  BY DEF SameValues
<1> QED
  BY <1>1 DEF TextOf

\* What Authenticate has read of a request that it accepts.
LEMMA Accepted ==
  ASSUME DkimOK, dkimVersion = 2, NEW req \in Requests, Authenticate(req)
  PROVE  LET x == dkimParams.indices
         IN  /\ x \in Positions /\ Dkim!InputsInRange(x, Len(req.inputs))
             /\ req.emailHash = req.inputs[x.emailHash + 1]
             /\ req.txBytes = TextOf(SubSeq(req.inputs, x.range["tx_bytes"].start + 1, x.range["tx_bytes"].end))
             /\ \E key : Verify(req.proof, key, req.inputs)
<1> DEFINE x == dkimParams.indices
<1>1. x \in Positions
  BY DEF DkimOK
<1>2. PICK read \in Readings[req][x] :
        req.emailHash = read.emailHash /\ req.txBytes = read.text["tx_bytes"]
  BY DEF Authenticate, AuthenticateWith
<1>3. Readings[req][x] = Reading(req, x)
  BY <1>1 DEF Readings
<1> HIDE DEF x
<1>4. /\ Dkim!InputsInRange(x, Len(req.inputs))
      /\ read.emailHash = req.inputs[x.emailHash + 1]
      /\ read.text["tx_bytes"] = TextOf(SubSeq(req.inputs, x.range["tx_bytes"].start + 1, x.range["tx_bytes"].end))
  BY <1>2, <1>3 DEF Reading, Dkim!Ranges
<1>5. \E key : Verify(req.proof, key, req.inputs)
  BY DEF Authenticate, AuthenticateWith
<1> QED
  BY <1>1, <1>2, <1>4, <1>5 DEF x

\* A part of two lists with the same values.
LEMMA SlicesOfValues ==
  ASSUME NEW a \in Seq(Input), NEW b \in Seq(Input), SameValues(a, b),
         NEW m \in Nat, NEW n \in Nat, m <= n, n <= Len(a)
  PROVE  SameValues(SubSeq(a, m + 1, n), SubSeq(b, m + 1, n))
<1>1. Len(a) \in Nat /\ Len(b) = Len(a) /\ DOMAIN a = 1..Len(a)
  BY DEF SameValues
<1> DEFINE s == SubSeq(a, m + 1, n)
           t == SubSeq(b, m + 1, n)
<1>2. s = [i \in 1..(n - m) |-> a[i + m]] /\ t = [i \in 1..(n - m) |-> b[i + m]]
  BY <1>1
<1> HIDE DEF s, t
<1>3. \A i \in 1..(n - m) : i + m \in DOMAIN a
  BY <1>1
<1>4. SameValues(s, t)
  BY <1>2, <1>3 DEF SameValues
<1> QED
  BY <1>4 DEF s, t

\* One proof authenticates one message of one account, for fields, inputs and
\* positions of any size: the proof fixes the inputs modulo the field, and the
\* check of their canonical form the inputs themselves (keeper.go:224-237).
THEOREM ProofsBind == AuthSpec => []ProofBinds
<1>1. DkimOK => ProofBinds
  <2> SUFFICES ASSUME DkimOK, Serving, NEW r1 \in Requests, NEW r2 \in Requests,
                      Authenticate(r1), Authenticate(r2), r1.proof = r2.proof
               PROVE  r1.txBytes = r2.txBytes /\ r1.emailHash.val = r2.emailHash.val
    BY DEF ProofBinds
  <2> DEFINE x == dkimParams.indices
             m == x.range["tx_bytes"].start
             n == x.range["tx_bytes"].end
  <2>1. /\ x \in Positions /\ Dkim!InputsInRange(x, Len(r1.inputs))
        /\ r1.emailHash = r1.inputs[x.emailHash + 1]
        /\ r1.txBytes = TextOf(SubSeq(r1.inputs, m + 1, n))
        /\ \E key : Verify(r1.proof, key, r1.inputs)
    BY Accepted DEF Serving
  <2>2. /\ r2.emailHash = r2.inputs[x.emailHash + 1]
        /\ r2.txBytes = TextOf(SubSeq(r2.inputs, m + 1, n))
        /\ \E key : Verify(r2.proof, key, r2.inputs)
    BY Accepted DEF Serving
  <2>3. r1.inputs \in Seq(Input) /\ r2.inputs \in Seq(Input)
    BY QueriesAssumption DEF Request
  <2>4. SameValues(r1.inputs, r2.inputs)
    BY <2>1, <2>2, <2>3, VerifyBinds
  <2>5. /\ x.emailHash \in Nat /\ x.emailHash < Len(r1.inputs)
        /\ m \in Nat /\ n \in Nat /\ m <= n /\ n <= Len(r1.inputs)
    <3>1. x \in Dkim!Indices
      BY <2>1, DkimAssumption DEF Positions, Dkim!ParamsType
    <3>2. Dkim!InputsInRange(x, Len(r1.inputs))
      BY <2>1
    <3> HIDE DEF x
    <3> QED
      BY <3>1, <3>2 DEF Dkim!Indices, Dkim!InputsInRange, Dkim!Ranges
  <2> HIDE DEF m, n, x
  <2>6. r1.emailHash.val = r2.emailHash.val
    <3>1. x.emailHash + 1 \in DOMAIN r1.inputs
      BY <2>3, <2>5
    <3> QED
      BY <2>1, <2>2, <2>4, <3>1 DEF SameValues
  <2>7. r1.txBytes = r2.txBytes
    <3>1. SameValues(SubSeq(r1.inputs, m + 1, n), SubSeq(r2.inputs, m + 1, n))
      BY <2>3, <2>4, <2>5, SlicesOfValues
    <3> QED
      BY <2>1, <2>2, <3>1, TextsOfValues
  <2> QED
    BY <2>6, <2>7
<1> QED
  BY <1>1, AuthInvariance, PTL

\* An upgrade of both modules leaves a chain that accepts what was proved for
\* the defaults, whatever the old stores held.
THEOREM UpgradesServe == AuthSpec => UpgradeServes
<1> DEFINE Served ==
      dkimVersion' # dkimVersion /\ version' # version =>
        /\ dkimParams' # Unset
        /\ dkimParams'.vkey = 1 =>
             \A req \in Requests :
               AuthenticateWith(req, DkimDefaultParams, {DefaultKey})' => Authenticate(req)'
<1>1. DkimOK /\ AuthNext => Served
  <2> SUFFICES ASSUME DkimOK, AuthNext, dkimVersion' # dkimVersion, version' # version
               PROVE  /\ dkimParams' # Unset
                      /\ dkimParams'.vkey = 1 =>
                           \A req \in Requests :
                             AuthenticateWith(req, DkimDefaultParams, {DefaultKey})' => Authenticate(req)'
    OBVIOUS
  <2>1. Dkim!Migrate /\ Migrate
    BY DEF AuthNext, ZkSigned, dkimVars, zkVars, RestartAll, Upgrade, Dkim!AddDkimPubKeys,
           Dkim!RemoveDkimPubKey, Dkim!RevokeDkimPubKey, Dkim!UpdateParams, Restart
  <2>2. dkimParams' # Unset /\ dkimParams'.indices = DkimDefaultParams.indices
    BY <2>1, MigratedParams
  <2>3. 1 \in DOMAIN VKeys' /\ VKeys'[1] = DefaultVKey
    BY <2>1 DEF Migrate, Put
  <2>4. DefaultKey \in CircomKeys(GetVKeyByID(1))'
    BY <2>3, KeysAssumption DEF CircomKeys, GetVKeyByID, Has, DefaultVKey
  <2>5. ASSUME NEW req \in Requests, dkimParams'.vkey = 1,
               AuthenticateWith(req, DkimDefaultParams, {DefaultKey})'
        PROVE  Authenticate(req)'
    BY <2>2, <2>4, <2>5 DEF Authenticate, AuthenticateWith
  <2> QED
    BY <2>2, <2>5
<1> HIDE DEF Served
<1>2. DkimOK /\ [AuthNext]_allVars => [Served]_allVars
  BY <1>1
<1>3. UpgradeServes <=> [][Served]_allVars
  BY DEF UpgradeServes, Served
<1> QED
  BY <1>2, <1>3, AuthInvariance, PTL DEF AuthSpec
-----------------------------------------------------------------------------
(***************************************************************************)
(* Who changes an answer.                                                  *)
(***************************************************************************)
\* The key behind an id is the same for a query after a step: it is there or
\* not, and the bytes and the proof system are those it had.
SameKey(id) ==
  /\ id \in DOMAIN VKeys' <=> id \in DOMAIN VKeys
  /\ id \in DOMAIN VKeys => VKeys'[id].key = VKeys[id].key /\ VKeys'[id].system = VKeys[id].system

\* A message about a key.
KeyMessage(u) ==
  \/ \E name \in Names, key \in KeyBytes, system \in ProofSystems : AddVKey(u, name, key, system)
  \/ \E name \in Names, key \in KeyBytes, system \in ProofSystems : UpdateVKey(u, name, key, system)
  \/ \E name \in Names : RemoveVKey(u, name)

\* A message of an account that may not change a key does not change it.
LEMMA MessageKeepsKey ==
  ASSUME Inv, NEW id \in Nat, NEW u, ~ MayChangeKey(id, u), KeyMessage(u)
  PROVE  SameKey(id)
<1>1. CASE \E name \in Names, key \in KeyBytes, system \in ProofSystems : AddVKey(u, name, key, system)
  <2>1. id # NextVKeyID
    BY DEF MayChangeKey, Has, Inv, TypeOK, IdsNotReused
  <2> QED
    BY <1>1, <2>1 DEF AddVKey, Put, SameKey
<1>2. CASE \E name \in Names, key \in KeyBytes, system \in ProofSystems : UpdateVKey(u, name, key, system)
  <2>1. PICK name \in Names, key \in KeyBytes, system \in ProofSystems : UpdateVKey(u, name, key, system)
    BY <1>2
  <2>2. id # VKeyNameIndex[name] /\ Has(VKeys, VKeyNameIndex[name])
    BY <2>1 DEF UpdateVKey, OwnedBy, MayChangeKey
  <2> QED
    BY <2>1, <2>2 DEF UpdateVKey, Put, SameKey, Has
<1>3. CASE \E name \in Names : RemoveVKey(u, name)
  <2>1. PICK name \in Names : RemoveVKey(u, name)
    BY <1>3
  <2>2. id # VKeyNameIndex[name]
    BY <2>1 DEF RemoveVKey, OwnedBy, MayChangeKey
  <2> QED
    BY <2>1, <2>2 DEF RemoveVKey, Drop, SameKey
<1> QED
  BY <1>1, <1>2, <1>3 DEF KeyMessage

\* No export and import changes a key under an id that the export keeps.
LEMMA RestartKeepsKey ==
  ASSUME Inv, Restart, NEW id, ExportKeeps(id)
  PROVE  SameKey(id)
<1>1. ExportSucceeds /\ VKeys' = ImportedVKeys(ExportGenesis)
  BY DEF Restart, Importable
<1>2. CASE id \in DOMAIN VKeys
  <2>1. id \in DOMAIN VKeys' /\ VKeys'[id] = WithOwner(VKeys[id])
    BY <1>1, <1>2, ImportKeeps
  <2>2. VKeys[id] \in VKey
    BY <1>2 DEF Inv, TypeOK
  <2>3. VKeys'[id].key = VKeys[id].key /\ VKeys'[id].system = VKeys[id].system
    BY <2>1, <2>2 DEF WithOwner, VKey
  <2> QED
    BY <1>2, <2>1, <2>3 DEF SameKey
<1>3. CASE id \notin DOMAIN VKeys
  BY <1>1, <1>3, ImportKeeps DEF SameKey
<1> QED
  BY <1>2, <1>3

\* A name of such an id leads to it as before.
LEMMA RestartKeepsName ==
  ASSUME Inv, Restart, NEW name \in DOMAIN VKeyNameIndex, ExportKeeps(VKeyNameIndex[name])
  PROVE  name \in DOMAIN VKeyNameIndex' /\ VKeyNameIndex'[name] = VKeyNameIndex[name]
<1> DEFINE id == VKeyNameIndex[name]
<1>1. ExportSucceeds /\ VKeyNameIndex' = ImportedIndex(ExportGenesis)
  BY DEF Restart, Importable
<1>2. id \in DOMAIN VKeys
  BY DEF ExportKeeps, Inv, IndexExact
<1>3. /\ VKeyNameIndex[VKeys[id].name] = id
      /\ VKeys[id].name \in DOMAIN ImportedIndex(ExportGenesis)
      /\ ImportedIndex(ExportGenesis)[VKeys[id].name] = id
  BY <1>1, <1>2, ImportKeeps
<1>4. VKeys[id].name \in DOMAIN VKeyNameIndex
  BY <1>1, <1>2, ExportIsFile
<1>5. VKeys[id].name = name
  BY <1>3, <1>4 DEF ExportKeeps, Inv, IndexExact
<1> QED
  BY <1>1, <1>3, <1>5

\* The parameters in force are the same.
LEMMA RestartKeepsParams ==
  ASSUME Inv, Restart
  PROVE  GetParams' = GetParams
<1>1. GetParams \in ParamsType /\ WithMaxLimitDefaults(GetParams) = GetParams /\ Params' = GetParams
  BY GetParamsType DEF Inv, Restart
<1>2. GetParams' = WithMaxLimitDefaults(Params')
  BY <1>1, ParamsAssumption DEF GetParams, WithMaxLimitDefaults
<1> QED
  BY <1>1, <1>2

\* The steps that are not governance's, on a chain of the present version.
LEMMA ServingSteps ==
  ASSUME Serving, AuthNext, signer' # Authority
  PROVE  \/ \E u \in Accounts, domain \in Dkim!Domains, rsa \in RsaKeys :
              Dkim!RevokeDkimPubKey(u, domain, rsa) /\ UNCHANGED zkVars
         \/ KeyMessage(signer') /\ UNCHANGED <<dkimVars, Params>> /\ shown' = Nobody
         \/ RestartAll
<1>1. CASE \E u \in Accounts, batch \in Batches : Dkim!AddDkimPubKeys(u, batch)
  BY <1>1 DEF Dkim!AddDkimPubKeys
<1>2. CASE \E u \in Accounts, slot \in Slots : Dkim!RemoveDkimPubKey(u, slot)
  BY <1>2 DEF Dkim!RemoveDkimPubKey
<1>3. CASE \E u \in Accounts, p \in DkimParamInputs : Dkim!UpdateParams(u, p)
  BY <1>3 DEF Dkim!UpdateParams
<1>4. CASE \E u \in Accounts, name \in Names, key \in KeyBytes, system \in ProofSystems :
             AddVKey(u, name, key, system) /\ ZkSigned(u)
  BY <1>4 DEF AddVKey, ZkSigned, KeyMessage
<1>5. CASE \E u \in Accounts, name \in Names, key \in KeyBytes, system \in ProofSystems :
             UpdateVKey(u, name, key, system) /\ ZkSigned(u)
  BY <1>5 DEF UpdateVKey, ZkSigned, KeyMessage
<1>6. CASE \E u \in Accounts, name \in Names : RemoveVKey(u, name) /\ ZkSigned(u)
  BY <1>6 DEF RemoveVKey, ZkSigned, KeyMessage
<1>7. CASE \E u \in Accounts, p \in ParamInputs : UpdateParams(u, p) /\ ZkSigned(u)
  BY <1>7 DEF UpdateParams, ZkSigned
<1>8. CASE Upgrade
  BY <1>8 DEF Upgrade, Serving
<1> QED
  BY <1>1, <1>2, <1>3, <1>4, <1>5, <1>6, <1>7, <1>8 DEF AuthNext

\* A revocation takes from Authenticate what was signed with the key shown, and
\* what gave no hash.
LEMMA RevocationKeepsAnswer ==
  ASSUME DkimOK, Serving, NEW u, NEW domain, NEW rsa \in RsaKeys,
         Dkim!RevokeDkimPubKey(u, domain, rsa), UNCHANGED zkVars, NEW req \in Requests,
         req.inputs[dkimParams.indices.dkimHash + 1].val \notin {0, HashOf[rsa]}
  PROVE  Authenticate(req)' <=> Authenticate(req)
<1> DEFINE x == dkimParams.indices
           circuits == CircomKeys(GetVKeyByID(dkimParams.vkey))
<1>1. /\ dkimParams' = dkimParams
      /\ CircomKeys(GetVKeyByID(dkimParams.vkey))' = circuits
  BY DEF Dkim!RevokeDkimPubKey, zkVars, CircomKeys, GetVKeyByID
<1>2. /\ DOMAIN DkimPubKeys' \subseteq DOMAIN DkimPubKeys
      /\ \A slot \in DOMAIN DkimPubKeys' : DkimPubKeys'[slot] = DkimPubKeys[slot]
      /\ \A slot \in DOMAIN DkimPubKeys : DkimPubKeys[slot].rsa # rsa => slot \in DOMAIN DkimPubKeys'
  BY DEF Dkim!RevokeDkimPubKey, Dkim!DropAll, Dkim!Holding, Dkim!InDomain
<1>3. \A d, h : FindsDkimPubKey(d, h)' => FindsDkimPubKey(d, h)
  BY <1>2 DEF FindsDkimPubKey
<1>4. \A d, h : h \notin {0, HashOf[rsa]} /\ FindsDkimPubKey(d, h) => FindsDkimPubKey(d, h)'
  BY <1>2 DEF FindsDkimPubKey, DkimOK
<1>5. ASSUME Authenticate(req)' PROVE Authenticate(req)
  BY <1>1, <1>3, <1>5 DEF Authenticate, AuthenticateWith
<1>6. ASSUME Authenticate(req) PROVE Authenticate(req)'
  <2>1. x \in Positions /\ dkimParams # Unset
    BY DEF DkimOK, Serving
  <2>2. PICK read \in Readings[req][x] :
          /\ req.emailHash = read.emailHash
          /\ req.txBytes = read.text["tx_bytes"]
          /\ FindsDkimPubKey(read.text["dkim_domain"], read.dkimHash)
          /\ read.text["email_host"] \in req.hosts \ {<<>>}
          /\ read.forced
    BY <1>6 DEF Authenticate, AuthenticateWith
  <2>3. Readings[req][x] = Reading(req, x)
    BY <2>1 DEF Readings
  <2>4. \A i \in DOMAIN req.inputs : Canonical(req.inputs[i])
    BY <1>6 DEF Authenticate, AuthenticateWith, Verify
  <2>5. x.dkimHash \in Nat
    BY <2>1, DkimAssumption DEF Positions, Dkim!ParamsType, Dkim!Indices
  <2>6. req.inputs \in Seq(Input)
    BY QueriesAssumption DEF Request
  <2> HIDE DEF x
  <2>7. /\ x.dkimHash < Len(req.inputs)
        /\ read.dkimHash = Magnitude(req.inputs[x.dkimHash + 1].val)
    BY <2>2, <2>3 DEF Reading, Dkim!InputsInRange
  <2>8. x.dkimHash + 1 \in DOMAIN req.inputs
    BY <2>5, <2>6, <2>7
  <2>9. req.inputs[x.dkimHash + 1].val \in 0..(Field - 1)
    BY <2>4, <2>8 DEF Canonical
  <2>10. read.dkimHash = req.inputs[x.dkimHash + 1].val
    BY <2>7, <2>9, FieldAssumption DEF Magnitude
  <2>11. FindsDkimPubKey(read.text["dkim_domain"], read.dkimHash)'
    BY <1>4, <2>2, <2>10 DEF x
  <2>12. /\ req.proof.size <= MaxDKIMProofSizeBytes
         /\ req.proof.system = "groth16"
         /\ \E key \in circuits : Verify(req.proof, key, req.inputs)
    BY <1>6 DEF Authenticate, AuthenticateWith
  <2>13. AuthenticateWith(req, dkimParams, circuits)'
    BY <1>1, <2>2, <2>11, <2>12 DEF AuthenticateWith, x
  <2> QED
    BY <1>1, <2>1, <2>13 DEF Authenticate
<1> QED
  BY <1>5, <1>6

\* What is authenticated does not depend on who else uses either module: only
\* governance, the holder of the key that signed the email and the owner of
\* the verification key change an answer, and an export that loses the latter
\* (query_server.go:252-264, 330). A request that gives the hash 0 stands on
\* any key of its domain (query_server.go:140).
THEOREM AnswersAreKept == AuthSpec => AnswersKept
<1> DEFINE Shown(req) ==
             /\ shown' # Nobody
             /\ req.inputs[dkimParams.indices.dkimHash + 1].val \in {0, HashOf[shown']}
           Kept ==
             Serving /\ signer' # Authority => \A req \in Requests :
               \/ Authenticate(req)' = Authenticate(req)
               \/ KeyMayChange(dkimParams.vkey)
               \/ Shown(req)
<1>1. Inv /\ DkimOK /\ AuthNext => Kept
  <2> SUFFICES ASSUME Inv, DkimOK, AuthNext, Serving, signer' # Authority,
                      NEW req \in Requests, ~ KeyMayChange(dkimParams.vkey), ~ Shown(req)
               PROVE  Authenticate(req)' = Authenticate(req)
    OBVIOUS
  <2>1. CASE \E u \in Accounts, domain \in Dkim!Domains, rsa \in RsaKeys :
               Dkim!RevokeDkimPubKey(u, domain, rsa) /\ UNCHANGED zkVars
    <3>1. PICK u \in Accounts, domain \in Dkim!Domains, rsa \in RsaKeys :
                 Dkim!RevokeDkimPubKey(u, domain, rsa) /\ UNCHANGED zkVars
      BY <2>1
    <3>2. shown' = rsa /\ rsa # Nobody
      BY <3>1, DkimAssumption DEF Dkim!RevokeDkimPubKey
    <3>3. req.inputs[dkimParams.indices.dkimHash + 1].val \notin {0, HashOf[rsa]}
      BY <3>2
    <3>4. Authenticate(req)' <=> Authenticate(req)
      BY <3>1, <3>3, RevocationKeepsAnswer
    <3> QED
      BY <3>4 DEF Authenticate
  <2>2. ASSUME SameKey(dkimParams.vkey), dkimParams' = dkimParams, DkimPubKeys' = DkimPubKeys
        PROVE  Authenticate(req)' = Authenticate(req)
    <3>1. CircomKeys(GetVKeyByID(dkimParams.vkey))' = CircomKeys(GetVKeyByID(dkimParams.vkey))
      <4> DEFINE id == dkimParams.vkey
      <4>1. id' = id
        BY <2>2
      <4>2. SameKey(id)
        BY <2>2
      <4> QED
        BY <4>1, <4>2 DEF SameKey, CircomKeys, GetVKeyByID, Has
    <3>2. Authenticate(req)' <=> Authenticate(req)
      BY <2>2, <3>1 DEF Authenticate, AuthenticateWith, FindsDkimPubKey
    <3> QED
      BY <3>2 DEF Authenticate
  <2>3. CASE KeyMessage(signer') /\ UNCHANGED <<dkimVars, Params>> /\ shown' = Nobody
    <3>1. dkimParams.vkey \in Nat
      BY DEF DkimOK, Serving, Dkim!ParamsType
    <3>2. SameKey(dkimParams.vkey)
      BY <2>3, <3>1, MessageKeepsKey DEF KeyMayChange
    <3> QED
      BY <2>2, <2>3, <3>2 DEF dkimVars
  <2>4. CASE RestartAll
    <3>1. Restart /\ ExportKeeps(dkimParams.vkey)
      BY <2>4 DEF RestartAll, KeyMayChange, Restart, Inv, TypeOK
    <3>2. SameKey(dkimParams.vkey)
      BY <3>1, RestartKeepsKey
    <3>3. dkimParams' = dkimParams /\ DkimPubKeys' = DkimPubKeys
      BY <2>4 DEF RestartAll, Dkim!Restart, Dkim!GetParams, DkimOK
    <3> QED
      BY <2>2, <3>2, <3>3
  <2> QED
    BY <2>1, <2>3, <2>4, ServingSteps
<1> HIDE DEF Kept, Shown
<1>2. Inv /\ DkimOK /\ [AuthNext]_allVars => [Kept]_allVars
  BY <1>1
<1>3. AnswersKept <=> [][Kept]_allVars
  BY DEF AnswersKept, Kept, Shown
<1> QED
  BY <1>2, <1>3, AuthInvariance, PTL DEF AuthSpec

\* Two lookups that a verification query cannot tell apart.
SameFound(a, b) ==
  /\ \A v \in a : \E w \in b : w.key = v.key /\ w.system = v.system
  /\ \A w \in b : \E v \in a : w.key = v.key /\ w.system = v.system

\* The verdict is a matter of the parameters in force and of what is found.
LEMMA SameVerdict ==
  ASSUME NEW q \in Queries, GetParams' = GetParams, SameFound(Resolve(q)', Resolve(q))
  PROVE  Verified(q)' <=> Verified(q)
<1>1. \A system : WithinLimits(q, system)' <=> WithinLimits(q, system)
  BY DEF WithinLimits
<1>2. \A k : k \in CircomKeys(Resolve(q))' <=> k \in CircomKeys(Resolve(q))
  BY DEF CircomKeys, SameFound
<1>3. \A system : VerifyBytes(q, system)' <=> VerifyBytes(q, system)
  BY DEF VerifyBytes, SameFound
<1> QED
  BY <1>1, <1>2, <1>3 DEF Verified, ProofVerify, ProofVerifyUltraHonk, ProofVerifyGnark

\* What a query by id or by name finds, when the key is the same.
LEMMA SameResolved ==
  ASSUME NEW q \in Queries,
         q.name = NoName => SameKey(q.id),
         q.name # NoName => /\ q.name \in DOMAIN VKeyNameIndex /\ q.name \in DOMAIN VKeyNameIndex'
                            /\ VKeyNameIndex'[q.name] = VKeyNameIndex[q.name]
                            /\ SameKey(VKeyNameIndex[q.name])
  PROVE  SameFound(Resolve(q)', Resolve(q))
<1>1. ASSUME NEW id, SameKey(id)
      PROVE  SameFound(IF id \in DOMAIN VKeys' THEN {VKeys'[id]} ELSE {},
                       IF id \in DOMAIN VKeys THEN {VKeys[id]} ELSE {})
  BY <1>1 DEF SameKey, SameFound
<1>2. SameFound({}, {})
  BY DEF SameFound
<1>3. CASE q.name = NoName /\ q.id # 0
  BY <1>1, <1>3 DEF Resolve, GetVKeyByID, Has
<1>4. CASE q.name = NoName /\ q.id = 0
  BY <1>2, <1>4 DEF Resolve
<1>5. CASE q.name # NoName
  BY <1>1, <1>5 DEF Resolve, GetVKeyByName, Has
<1> QED
  BY <1>3, <1>4, <1>5

\* The answer to a proof, under a name or an id, changes by governance, by
\* the owner of the key, as the first key of that name or id is added, or by an
\* export that loses the key (x/zk/keeper/query_server.go:33-330,
\* keeper.go:118-150, 383-428).
THEOREM VerdictsAreKept == AuthSpec => VerdictsKept
<1> DEFINE Kept ==
      Serving /\ signer' # Authority => \A q \in Queries :
        \/ Verified(q)' = Verified(q)
        \/ q.name = NoName /\ KeyMayChange(q.id)
        \/ q.name # NoName /\ ~ Has(VKeyNameIndex, q.name)
        \/ q.name # NoName /\ KeyMayChange(VKeyNameIndex[q.name])
<1>1. Inv /\ AuthNext => Kept
  <2> SUFFICES ASSUME Inv, AuthNext, Serving, signer' # Authority, NEW q \in Queries,
                      q.name = NoName => ~ KeyMayChange(q.id),
                      q.name # NoName => /\ q.name \in DOMAIN VKeyNameIndex
                                         /\ ~ KeyMayChange(VKeyNameIndex[q.name])
               PROVE  Verified(q)' = Verified(q)
    BY DEF Has
  <2>1. q.id \in Nat
    BY QueriesAssumption DEF Query
  <2>2. q.name # NoName => VKeyNameIndex[q.name] \in Nat
    BY DEF Inv, TypeOK
  <2>3. /\ GetParams' = GetParams
        /\ q.name = NoName => SameKey(q.id)
        /\ q.name # NoName => /\ q.name \in DOMAIN VKeyNameIndex'
                              /\ VKeyNameIndex'[q.name] = VKeyNameIndex[q.name]
                              /\ SameKey(VKeyNameIndex[q.name])
    <3>1. CASE UNCHANGED zkVars
      BY <3>1 DEF zkVars, SameKey, GetParams
    <3>2. CASE KeyMessage(signer') /\ UNCHANGED <<dkimVars, Params>>
      <4>1. GetParams' = GetParams
        BY <3>2 DEF GetParams
      <4>2. q.name = NoName => SameKey(q.id)
        BY <2>1, <3>2, MessageKeepsKey DEF KeyMayChange
      <4>3. ASSUME q.name # NoName
            PROVE  /\ q.name \in DOMAIN VKeyNameIndex'
                   /\ VKeyNameIndex'[q.name] = VKeyNameIndex[q.name]
        <5>1. CASE \E name \in Names, key \in KeyBytes, system \in ProofSystems :
                     AddVKey(signer', name, key, system)
          BY <4>3, <5>1 DEF AddVKey, Put, Has
        <5>2. CASE \E name \in Names, key \in KeyBytes, system \in ProofSystems :
                     UpdateVKey(signer', name, key, system)
          BY <4>3, <5>2 DEF UpdateVKey
        <5>3. CASE \E name \in Names : RemoveVKey(signer', name)
          <6>1. PICK name \in Names : RemoveVKey(signer', name)
            BY <5>3
          <6>2. name # q.name
            BY <4>3, <6>1 DEF RemoveVKey, OwnedBy, KeyMayChange, MayChangeKey
          <6> QED
            BY <4>3, <6>1, <6>2 DEF RemoveVKey, Drop
        <5> QED
          BY <3>2, <5>1, <5>2, <5>3 DEF KeyMessage
      <4>4. q.name # NoName => SameKey(VKeyNameIndex[q.name])
        BY <2>2, <3>2, MessageKeepsKey DEF KeyMayChange
      <4> QED
        BY <4>1, <4>2, <4>3, <4>4
    <3>3. CASE Restart
      <4>1. restarts' # restarts
        BY <3>3 DEF Restart, Inv, TypeOK
      <4>2. GetParams' = GetParams
        BY <3>3, RestartKeepsParams
      <4>3. q.name = NoName => SameKey(q.id)
        BY <3>3, <4>1, RestartKeepsKey DEF KeyMayChange
      <4>4. q.name # NoName => ExportKeeps(VKeyNameIndex[q.name])
        BY <4>1 DEF KeyMayChange
      <4>5. q.name # NoName => SameKey(VKeyNameIndex[q.name])
        BY <3>3, <4>4, RestartKeepsKey
      <4>6. q.name # NoName => /\ q.name \in DOMAIN VKeyNameIndex'
                               /\ VKeyNameIndex'[q.name] = VKeyNameIndex[q.name]
        BY <3>3, <4>4, RestartKeepsName
      <4> QED
        BY <4>2, <4>3, <4>5, <4>6
    <3> QED
      BY <3>1, <3>2, <3>3, ServingSteps DEF RestartAll
  <2>4. Verified(q)' <=> Verified(q)
    BY <2>3, SameResolved, SameVerdict
  <2> QED
    BY <2>4 DEF Verified
<1> HIDE DEF Kept
<1>2. Inv /\ [AuthNext]_allVars => [Kept]_allVars
  BY <1>1
<1>3. VerdictsKept <=> [][Kept]_allVars
  BY DEF VerdictsKept, Kept
<1> QED
  BY <1>2, <1>3, AuthInvariance, PTL DEF AuthSpec
=============================================================================
