------------------------- MODULE DkimRegistryProofs -------------------------
(***************************************************************************)
(* What x/dkim keeps for any number of domains, selectors, keys and batches*)
(* of records, on chains of both ages.                                     *)
(***************************************************************************)
EXTENDS DkimRegistry, WellFoundedInduction, TLAPS

\* Every non-empty set of naturals has a least element.
LEMMA LeastNatural ==
  ASSUME NEW T \in SUBSET Nat, T # {}
  PROVE  \E x \in T : \A y \in T : x <= y
<1>1. PICK x \in T : \A y \in T : ~ (<<y, x>> \in OpToRel(<, Nat))
  BY NatLessThanWellFounded, WFMin, Zenon
<1>2. \A y \in T : ~ (y < x)
  BY <1>1 DEF OpToRel
<1> QED
  BY <1>2

\* RevokedStaysOut is not inductive alone: that a revoked key is not found
\* by its hash but for a key of the same hash follows from the hashes being
\* those of the stored keys, and the positions of InputsSafe are in range
\* because nothing takes the place of checked ones but checked ones.
Inv ==
  /\ TypeOK
  /\ HashExact
  /\ RevokedStaysOut
  /\ version = 2 /\ checked => ValidIndices(Params.indices)

\* The last record for a slot: a list that names a slot has one.
LEMMA LastForExists ==
  ASSUME NEW list \in Seq(Listed), NEW slot \in SlotsOf(list)
  PROVE  LastFor(list, slot) \in DOMAIN list /\ list[LastFor(list, slot)].slot = slot
<1> DEFINE T == {n \in Nat : \E i \in DOMAIN list : n = Len(list) - i /\ list[i].slot = slot}
           Last(i) == list[i].slot = slot /\ \A j \in DOMAIN list : list[j].slot = slot => j <= i
<1>1. Len(list) \in Nat /\ DOMAIN list = 1..Len(list)
  OBVIOUS
<1>2. PICK i \in DOMAIN list : list[i].slot = slot
  BY DEF SlotsOf
<1>3. T \in SUBSET Nat /\ Len(list) - i \in T
  BY <1>1, <1>2
<1>4. PICK x \in T : \A y \in T : x <= y
  BY <1>3, LeastNatural
<1>5. PICK k \in DOMAIN list : x = Len(list) - k /\ list[k].slot = slot
  BY <1>4
<1>6. ASSUME NEW j \in DOMAIN list, list[j].slot = slot PROVE j <= k
  <2>1. Len(list) - j \in T
    BY <1>1, <1>6
  <2>2. Len(list) - k <= Len(list) - j
    BY <2>1, <1>4, <1>5
  <2> QED
    BY <2>2, <1>1
<1>7. Last(k)
  BY <1>5, <1>6
<1>8. LastFor(list, slot) = CHOOSE n \in DOMAIN list : Last(n)
  BY DEF LastFor
<1> HIDE DEF Last
<1>9. LastFor(list, slot) \in DOMAIN list /\ Last(LastFor(list, slot))
  BY <1>7, <1>8
<1> QED
  BY <1>9 DEF Last

\* What is stored after a list was saved is a record of the list for that
\* slot or what was there.
SavedFrom(store, list) ==
  /\ DOMAIN SaveDkimPubKeys(store, list) = DOMAIN store \cup SlotsOf(list)
  /\ SlotsOf(list) \subseteq Slots
  /\ \A slot \in DOMAIN SaveDkimPubKeys(store, list) :
       \/ slot \in DOMAIN store /\ SaveDkimPubKeys(store, list)[slot] = store[slot]
       \/ \E i \in DOMAIN list : /\ list[i].slot = slot
                                 /\ SaveDkimPubKeys(store, list)[slot] = list[i].key

\* SaveDkimPubKeys saves a list (msg_server.go:28-44).
LEMMA SavedKeys ==
  ASSUME NEW store, NEW list \in Seq(Listed)
  PROVE  SavedFrom(store, list)
<1>1. SlotsOf(list) \subseteq Slots
  <2>1. \A i \in DOMAIN list : list[i] \in Listed
    OBVIOUS
  <2>2. \A i \in DOMAIN list : list[i].slot \in Slots
    BY <2>1 DEF Listed
  <2> QED
    BY <2>2 DEF SlotsOf
<1>2. DOMAIN SaveDkimPubKeys(store, list) = DOMAIN store \cup SlotsOf(list)
  BY DEF SaveDkimPubKeys
<1>3. ASSUME NEW slot \in SlotsOf(list)
      PROVE  \E i \in DOMAIN list : /\ list[i].slot = slot
                                    /\ SaveDkimPubKeys(store, list)[slot] = list[i].key
  BY <1>3, LastForExists DEF SaveDkimPubKeys
<1>4. ASSUME NEW slot \in DOMAIN store, slot \notin SlotsOf(list)
      PROVE  SaveDkimPubKeys(store, list)[slot] = store[slot]
  BY <1>4 DEF SaveDkimPubKeys
<1> QED
  BY <1>1, <1>2, <1>3, <1>4 DEF SavedFrom

\* Parameters that Validate accepts keep valid indices when the size limit is
\* filled in.
LEMMA DefaultSizeKeepsIndices ==
  ASSUME NEW p \in ParamsType, ValidParams(WithDefaultSize(p))
  PROVE  ValidIndices(p.indices)
<1>1. WithDefaultSize(p).indices = p.indices
  BY DEF WithDefaultSize, ParamsType
<1> QED
  BY <1>1 DEF ValidParams

\* A genesis file leaves a registry that satisfies the invariant.
LEMMA InitEstablishes == Init => Inv
<1> SUFFICES ASSUME Init PROVE Inv
  OBVIOUS
<1>1. PICK file \in GenesisFiles, p \in ParamInputs :
        /\ DkimPubKeys = SaveDkimPubKeys(EmptyStore, file)
        /\ \/ version = 2 /\ Params = p
           \/ version = 1 /\ Params \in {[p EXCEPT !.indices = NoIndices], Unset}
        /\ checked = (version = 2 /\ Validate(file, p))
  BY DEF Init
<1>2. /\ p \in ParamsType /\ p # Unset
      /\ Validate(file, p) => ValidIndices(p.indices)
      /\ [p EXCEPT !.indices = NoIndices] \in ParamsType
  <2>1. NoIndices \in Indices
    BY DEF NoIndices, Indices
  <2> QED
    BY <1>1, <2>1, ParamsAssumption, DefaultSizeKeepsIndices DEF Validate, ParamsType
<1>3. file \in Seq(Listed) /\ \A i \in DOMAIN file : file[i].key.hash = HashOf[file[i].key.rsa]
  BY GenesisAssumption
<1>4. /\ DOMAIN DkimPubKeys \subseteq Slots
      /\ \A slot \in DOMAIN DkimPubKeys : \E i \in DOMAIN file : DkimPubKeys[slot] = file[i].key
  <2>1. DOMAIN EmptyStore = {}
    BY DEF EmptyStore
  <2>2. SavedFrom(EmptyStore, file)
    BY <1>3, SavedKeys
  <2> QED
    BY <1>1, <2>1, <2>2 DEF SavedFrom
<1>5. \A i \in DOMAIN file : file[i].key \in DkimPubKey
  <2>1. \A i \in DOMAIN file : file[i] \in Listed
    BY <1>3
  <2> QED
    BY <2>1 DEF Listed
<1>6. /\ \A slot \in DOMAIN DkimPubKeys : DkimPubKeys[slot] \in DkimPubKey
      /\ HashExact
  BY <1>3, <1>4, <1>5 DEF HashExact
<1>7. TypeOK
  BY <1>1, <1>2, <1>4, <1>6, BoundAssumption DEF Init, TypeOK
<1>8. RevokedStaysOut
  BY DEF Init, RevokedStaysOut
<1>9. ASSUME version = 2, checked PROVE ValidIndices(Params.indices)
  <2>1. Params = p
    BY <1>1, <1>9
  <2>2. checked = (version = 2 /\ Validate(file, p))
    BY <1>1
  <2>3. Validate(file, p)
    BY <2>2, <1>9, Zenon
  <2> QED
    BY <2>1, <2>3, <1>2
<1> QED
  BY <1>6, <1>7, <1>8, <1>9 DEF Inv

\* A registry of fewer keys keeps hashes exact and revoked keys out.
LEMMA FewerKeys ==
  ASSUME Inv, RevokedKeys \subseteq RevokedKeys', revokedFor' = revokedFor, restarts' = restarts,
         DOMAIN DkimPubKeys' \subseteq DOMAIN DkimPubKeys,
         \A slot \in DOMAIN DkimPubKeys' : DkimPubKeys'[slot] = DkimPubKeys[slot]
  PROVE  /\ HashExact'
         /\ RevokedStaysOut'
         /\ DOMAIN DkimPubKeys' \subseteq Slots
         /\ \A slot \in DOMAIN DkimPubKeys' : DkimPubKeys'[slot] \in DkimPubKey
<1>1. HashExact'
  BY DEF Inv, HashExact
<1>2. RevokedStaysOut'
  BY DEF Inv, RevokedStaysOut, AuthenticateFinds, InDomain
<1> QED
  BY <1>1, <1>2 DEF Inv, TypeOK

\* Added keys are not revoked ones, and are stored with their own hash.
LEMMA AddStep ==
  ASSUME Inv, NEW u \in Accounts, NEW batch \in Batches, AddDkimPubKeys(u, batch)
  PROVE  Inv'
<1> DEFINE list == [i \in DOMAIN batch |-> [batch[i] EXCEPT !.key = WithPoseidonHash(batch[i].key)]]
<1>1. batch \in Seq(Listed)
  BY BatchesAssumption
<1>2. /\ DOMAIN batch = 1..Len(batch)
      /\ Len(batch) \in Nat
      /\ \A i \in DOMAIN batch : batch[i] \in Listed
  BY <1>1
<1>3. ASSUME NEW i \in DOMAIN batch
      PROVE  /\ list[i] \in Listed
             /\ list[i].key.rsa = batch[i].key.rsa
             /\ list[i].key.hash = HashOf[list[i].key.rsa]
             /\ list[i].key \in DkimPubKey
  <2>1. batch[i] \in Listed
    BY <1>2
  <2>2. /\ list[i].slot = batch[i].slot
        /\ list[i].key = WithPoseidonHash(batch[i].key)
        /\ list[i] = [batch[i] EXCEPT !.key = WithPoseidonHash(batch[i].key)]
    BY <2>1 DEF Listed
  <2>3. /\ WithPoseidonHash(batch[i].key) \in DkimPubKey
        /\ WithPoseidonHash(batch[i].key).rsa = batch[i].key.rsa
        /\ WithPoseidonHash(batch[i].key).hash = HashOf[batch[i].key.rsa]
    BY <2>1, KeysAssumption DEF Listed, WithPoseidonHash, DkimPubKey
  <2> QED
    BY <2>1, <2>2, <2>3 DEF Listed
<1>4. list \in Seq(Listed) /\ DOMAIN list = DOMAIN batch
  <2>1. list \in [1..Len(batch) -> Listed]
    BY <1>2, <1>3
  <2> QED
    BY <1>2, <2>1
<1>5. DkimPubKeys' = SaveDkimPubKeys(DkimPubKeys, list)
  BY DEF AddDkimPubKeys
<1> HIDE DEF list
<1>6. /\ DOMAIN DkimPubKeys' = DOMAIN DkimPubKeys \cup SlotsOf(list)
      /\ SlotsOf(list) \subseteq Slots
      /\ \A slot \in DOMAIN DkimPubKeys' :
           \/ slot \in DOMAIN DkimPubKeys /\ DkimPubKeys'[slot] = DkimPubKeys[slot]
           \/ \E i \in DOMAIN batch : DkimPubKeys'[slot] = list[i].key
  <2>1. SavedFrom(DkimPubKeys, list)
    BY <1>4, SavedKeys
  <2> QED
    BY <1>4, <1>5, <2>1 DEF SavedFrom
<1>7. DOMAIN DkimPubKeys' \subseteq Slots
  BY <1>6 DEF Inv, TypeOK
<1>8. \A slot \in DOMAIN DkimPubKeys' : DkimPubKeys'[slot] \in DkimPubKey
  BY <1>3, <1>6 DEF Inv, TypeOK
<1>9. HashExact'
  BY <1>3, <1>6 DEF Inv, HashExact
<1>10. \A i \in DOMAIN batch : list[i].key.rsa \notin RevokedKeys
  BY <1>3 DEF AddDkimPubKeys, AddAccepted
<1>11. RevokedStaysOut'
  <2> SUFFICES ASSUME restarts = 0, NEW pair \in revokedFor, NEW slot \in DOMAIN DkimPubKeys',
                      slot[1] = pair[1], HashOf[pair[2]] # 0 => DkimPubKeys'[slot].hash = HashOf[pair[2]]
               PROVE  /\ DkimPubKeys'[slot].rsa # pair[2]
                      /\ HashOf[pair[2]] # 0 => HashOf[DkimPubKeys'[slot].rsa] = HashOf[pair[2]]
    BY DEF AddDkimPubKeys, Inv, RevokedStaysOut, AuthenticateFinds, InDomain
  <2>1. /\ pair[2] \in RevokedKeys
        /\ slot \in DOMAIN DkimPubKeys /\ DkimPubKeys'[slot] = DkimPubKeys[slot] =>
             DkimPubKeys[slot].rsa # pair[2]
    BY DEF Inv, RevokedStaysOut, AuthenticateFinds, InDomain
  <2>2. DkimPubKeys'[slot].rsa # pair[2]
    BY <2>1, <1>3, <1>6, <1>10
  <2> QED
    BY <2>2, <1>9 DEF HashExact
<1> QED
  BY <1>7, <1>8, <1>9, <1>11 DEF AddDkimPubKeys, Inv, TypeOK

\* A revocation takes every selector of the domain that holds the key.
LEMMA RevokeStep ==
  ASSUME Inv, NEW u \in Accounts, NEW domain \in Domains, NEW rsa \in RsaKeys,
         RevokeDkimPubKey(u, domain, rsa)
  PROVE  Inv'
<1>1. /\ DOMAIN DkimPubKeys' = DOMAIN DkimPubKeys \ Holding(domain, rsa)
      /\ \A slot \in DOMAIN DkimPubKeys' : DkimPubKeys'[slot] = DkimPubKeys[slot]
  BY DEF RevokeDkimPubKey, DropAll
<1>2. HashExact'
  BY <1>1 DEF Inv, HashExact
<1>3. RevokedStaysOut'
  <2> SUFFICES ASSUME restarts = 0, NEW pair \in revokedFor', NEW slot \in DOMAIN DkimPubKeys',
                      slot[1] = pair[1], HashOf[pair[2]] # 0 => DkimPubKeys'[slot].hash = HashOf[pair[2]]
               PROVE  DkimPubKeys'[slot].rsa # pair[2]
    <3>1. \A pair \in revokedFor' : restarts = 0 => pair[2] \in RevokedKeys'
      BY DEF RevokeDkimPubKey, Inv, RevokedStaysOut
    <3>2. \A slot \in DOMAIN DkimPubKeys' : DkimPubKeys'[slot].hash = HashOf[DkimPubKeys'[slot].rsa]
      BY <1>2 DEF HashExact
    <3>3. restarts' = restarts
      BY DEF RevokeDkimPubKey
    <3> QED
      BY <3>1, <3>2, <3>3 DEF RevokedStaysOut, AuthenticateFinds, InDomain
  <2>1. CASE pair \in revokedFor
    BY <1>1, <2>1 DEF Inv, RevokedStaysOut, AuthenticateFinds, InDomain
  <2>2. CASE pair = <<domain, rsa>>
    <3>1. slot \in InDomain(domain) /\ slot \notin Holding(domain, rsa)
      BY <1>1, <2>2 DEF InDomain
    <3> QED
      BY <1>1, <2>2, <3>1 DEF Holding
  <2> QED
    BY <2>1, <2>2 DEF RevokeDkimPubKey
<1>4. TypeOK'
  BY <1>1 DEF RevokeDkimPubKey, Inv, TypeOK
<1> QED
  BY <1>2, <1>3, <1>4 DEF RevokeDkimPubKey, Inv

\* Every step keeps the invariant.
LEMMA NextPreserves == Inv /\ [Next]_vars => Inv'
<1> SUFFICES ASSUME Inv, [Next]_vars PROVE Inv'
  OBVIOUS
<1>1. CASE \E u \in Accounts, batch \in Batches : AddDkimPubKeys(u, batch)
  BY <1>1, AddStep
<1>2. CASE \E u \in Accounts, slot \in Slots : RemoveDkimPubKey(u, slot)
  <2>1. PICK u \in Accounts, slot \in Slots : RemoveDkimPubKey(u, slot)
    BY <1>2
  <2>2. /\ DOMAIN DkimPubKeys' \subseteq DOMAIN DkimPubKeys
        /\ \A s \in DOMAIN DkimPubKeys' : DkimPubKeys'[s] = DkimPubKeys[s]
    BY <2>1 DEF RemoveDkimPubKey, Drop
  <2>3. RevokedKeys' = RevokedKeys /\ revokedFor' = revokedFor /\ restarts' = restarts
    BY <2>1 DEF RemoveDkimPubKey
  <2>4. /\ HashExact'
        /\ RevokedStaysOut'
        /\ DOMAIN DkimPubKeys' \subseteq Slots
        /\ \A s \in DOMAIN DkimPubKeys' : DkimPubKeys'[s] \in DkimPubKey
    BY <2>2, <2>3, FewerKeys
  <2> QED
    BY <2>1, <2>4 DEF RemoveDkimPubKey, Inv, TypeOK
<1>3. CASE \E u \in Accounts, domain \in Domains, rsa \in RsaKeys : RevokeDkimPubKey(u, domain, rsa)
  BY <1>3, RevokeStep
<1>4. CASE \E u \in Accounts, p \in ParamInputs : UpdateParams(u, p)
  <2>1. PICK u \in Accounts, p \in ParamInputs : UpdateParams(u, p)
    BY <1>4
  <2>2. p \in ParamsType /\ p # Unset /\ ValidIndices(p.indices) /\ Params' = p
    BY <2>1, ParamsAssumption DEF UpdateParams, ValidParams
  <2>3. HashExact' /\ RevokedStaysOut'
    BY <2>1 DEF UpdateParams, Inv, HashExact, RevokedStaysOut, AuthenticateFinds, InDomain
  <2> QED
    BY <2>1, <2>2, <2>3 DEF UpdateParams, Inv, TypeOK
<1>5. CASE Migrate
  <2>1. /\ Params' \in ParamsType
        /\ Params' # Unset
        /\ ValidIndices(Params'.indices)
    BY <1>5, ParamsAssumption, DefaultsAssumption DEF Migrate, Inv, TypeOK, ValidParams, ParamsType
  <2>2. HashExact' /\ RevokedStaysOut'
    BY <1>5 DEF Migrate, Inv, HashExact, RevokedStaysOut, AuthenticateFinds, InDomain
  <2> QED
    BY <1>5, <2>1, <2>2 DEF Migrate, Inv, TypeOK
<1>6. CASE Restart
  <2>1. Params' = Params /\ restarts' # 0 /\ restarts' \in 0..MaxRestarts
    BY <1>6, BoundAssumption DEF Restart, GetParams, Inv, TypeOK
  <2>2. HashExact' /\ RevokedStaysOut'
    BY <1>6, <2>1 DEF Restart, Inv, HashExact, RevokedStaysOut
  <2> QED
    BY <1>6, <2>1, <2>2 DEF Restart, Inv, TypeOK
<1>7. CASE UNCHANGED vars
  BY <1>7 DEF vars, Inv, TypeOK, HashExact, RevokedStaysOut, AuthenticateFinds, InDomain, Accounts
<1> QED
  BY <1>1, <1>2, <1>3, <1>4, <1>5, <1>6, <1>7 DEF Next

\* The invariant of the registry.
LEMMA InvHolds == Spec => []Inv
  BY InitEstablishes, NextPreserves, PTL DEF Spec

\* Every variable keeps to its kind, and a chain of the present version has
\* parameters of its own.
THEOREM TypeCorrect == Spec => []TypeOK
<1>1. Inv => TypeOK
  BY DEF Inv
<1> QED
  BY <1>1, InvHolds, PTL

\* A domain never holds a key again that was revoked for it, under any selector
\* and in any encoding, until the chain is exported; what a proof made with
\* it still finds is another key of the same hash.
THEOREM RevocationHolds == Spec => []RevokedStaysOut
<1>1. Inv => RevokedStaysOut
  BY DEF Inv
<1> QED
  BY <1>1, InvHolds, PTL

\* Every stored key is found by the hash of its modulus.
THEOREM HashesExact == Spec => []HashExact
<1>1. Inv => HashExact
  BY DEF Inv
<1> QED
  BY <1>1, InvHolds, PTL

\* Authenticate reads no public input past the end of a list that is long
\* enough, at positions that were checked.
THEOREM InputsAreSafe == Spec => []InputsSafe
<1>1. Inv => InputsSafe
  <2> SUFFICES ASSUME Inv, version = 2, checked,
                      NEW n \in Params.indices.minLength..(Params.indices.minLength + 1)
               PROVE  InputsInRange(Params.indices, n)
    BY DEF InputsSafe
  <2>1. Params.indices \in Indices /\ ValidIndices(Params.indices)
    BY DEF Inv, TypeOK, ParamsType
  <2>2. /\ Params.indices.minLength \in Nat /\ n \in Nat /\ n >= Params.indices.minLength
        /\ Params.indices.emailHash \in Nat /\ Params.indices.dkimHash \in Nat
        /\ \A r \in Ranges : /\ Params.indices.range[r].start \in Nat
                             /\ Params.indices.range[r].end \in Nat
    BY <2>1 DEF Indices
  <2> QED
    BY <2>1, <2>2 DEF ValidIndices, InputsInRange
<1> QED
  BY <1>1, InvHolds, PTL

\* A key goes or is replaced by governance or by who shows its private key.
THEOREM OwnersDecide == Spec => OwnersAndGovernance
<1> DEFINE Kept == \A slot \in DOMAIN DkimPubKeys :
                     (slot \notin DOMAIN DkimPubKeys' \/ DkimPubKeys'[slot] # DkimPubKeys[slot])
                       => signer' = Authority \/ shown' = DkimPubKeys[slot].rsa
<1>1. Next => Kept
  <2> SUFFICES ASSUME Next PROVE Kept
    OBVIOUS
  <2>1. CASE \E u \in Accounts, batch \in Batches : AddDkimPubKeys(u, batch)
    <3>1. PICK u \in Accounts, batch \in Batches : AddDkimPubKeys(u, batch)
      BY <2>1
    <3>2. signer' = Authority
      BY <3>1 DEF AddDkimPubKeys
    <3> QED
      BY <3>2
  <2>2. CASE \E u \in Accounts, slot \in Slots : RemoveDkimPubKey(u, slot)
    <3>1. PICK u \in Accounts, slot \in Slots : RemoveDkimPubKey(u, slot)
      BY <2>2
    <3>2. signer' = Authority
      BY <3>1 DEF RemoveDkimPubKey
    <3> QED
      BY <3>2
  <2>3. CASE \E u \in Accounts, domain \in Domains, rsa \in RsaKeys : RevokeDkimPubKey(u, domain, rsa)
    BY <2>3 DEF RevokeDkimPubKey, DropAll, Holding
  <2>4. CASE (\E u \in Accounts, p \in ParamInputs : UpdateParams(u, p)) \/ Migrate \/ Restart
    BY <2>4 DEF UpdateParams, Migrate, Restart
  <2> QED
    BY <2>1, <2>2, <2>3, <2>4 DEF Next
<1> HIDE DEF Kept
<1>2. [Next]_vars => [Kept]_vars
  BY <1>1
<1>3. OwnersAndGovernance <=> [][Kept]_vars
  BY DEF OwnersAndGovernance, Kept
<1> QED
  BY <1>2, <1>3, PTL DEF Spec
=============================================================================
