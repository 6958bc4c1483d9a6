----------------------- MODULE AudienceRegistryProofs -----------------------
(***************************************************************************)
(* What x/jwk keeps for any number of accounts, names and keys, across any *)
(* number of upgrades, exports and imports.                                *)
(***************************************************************************)
EXTENDS AudienceRegistry, WellFoundedInduction, TLAPS

\* The inductive invariant. The offset has to be in the range of an int64 at
\* every step and, on a chain that started from a checked file, the stored keys
\* acceptable to a genesis file, which is what ExportImportable says.
Inv == TypeOK /\ ClaimFollowsAudience /\ ExportImportable

\* The registry's part of ExportImportable, key by key.
KeysImportable(store) == \A aud \in DOMAIN store : ValidGenesisKey(store[aud].key)

\* The checks of a genesis file, for its keys and for its parameters.
LEMMA ExportImportableByParts ==
  ExportImportable <=> (vetted => KeysImportable(audiences)) /\ validateTimeOffset(TimeOffset)
BY DEF ExportImportable, Validate, ExportGenesis, KeysImportable

\* The same of the next state.
LEMMA ExportImportableNext ==
  ExportImportable' <=> (vetted' => KeysImportable(audiences')) /\ validateTimeOffset(TimeOffset')
BY DEF ExportImportable, Validate, ExportGenesis, KeysImportable

\* Every non-empty set of naturals has a least element.
LEMMA LeastNatural ==
  ASSUME NEW T \in SUBSET Nat, T # {}
  PROVE  \E x \in T : \A y \in T : x <= y
<1>1. PICK x \in T : \A y \in T : ~ (<<y, x>> \in OpToRel(<, Nat))
  BY NatLessThanWellFounded, WFMin, Zenon
<1>2. \A y \in T : ~ (y < x)
  BY <1>1 DEF OpToRel
<1> QED
  BY <1>2

\* A name that a file lists has a last entry there.
LEMMA LastForExists ==
  ASSUME NEW file \in Seq([aud : Auds, audience : Audience]),
         NEW k \in DOMAIN file
  PROVE  LastFor(file, file[k].aud) \in DOMAIN file
<1> DEFINE aud == file[k].aud
           T == {n \in Nat : \E i \in DOMAIN file : n = Len(file) - i /\ file[i].aud = aud}
           Last(i) == file[i].aud = aud /\ \A j \in DOMAIN file \ {i} : file[j].aud = aud => j < i
<1>1. Len(file) \in Nat /\ DOMAIN file = 1..Len(file)
  OBVIOUS
<1>2. T \in SUBSET Nat /\ Len(file) - k \in T
  BY <1>1
<1>3. PICK x \in T : \A y \in T : x <= y
  BY <1>2, LeastNatural
<1>4. PICK i \in DOMAIN file : x = Len(file) - i /\ file[i].aud = aud
  BY <1>3
<1>5. ASSUME NEW j \in DOMAIN file \ {i}, file[j].aud = aud PROVE j < i
  <2>1. Len(file) - j \in T
    BY <1>1, <1>5
  <2>2. Len(file) - i <= Len(file) - j
    BY <2>1, <1>3, <1>4
  <2> QED
    BY <2>2, <1>1
<1>6. Last(i)
  BY <1>4, <1>5
<1>7. LastFor(file, aud) = CHOOSE n \in DOMAIN file : Last(n)
  BY DEF LastFor
<1> HIDE DEF Last
<1> QED
  BY <1>6, <1>7

\* InitGenesis stores what the file lists (genesis.go:10-18).
LEMMA ImportedContents ==
  ASSUME NEW file \in Seq([aud : Auds, audience : Audience]), NEW offset
  PROVE  /\ DOMAIN ImportedAudiences(file) \subseteq Auds
         /\ \A aud \in DOMAIN ImportedAudiences(file) : ImportedAudiences(file)[aud] \in Audience
         /\ Validate(file, offset) => KeysImportable(ImportedAudiences(file))
<1> DEFINE store == ImportedAudiences(file)
<1>0. \A i \in DOMAIN file : file[i].aud \in Auds /\ file[i].audience \in Audience
  <2> DEFINE Entries == [aud : Auds, audience : Audience]
  <2>1. file \in Seq(Entries)
    OBVIOUS
  <2> HIDE DEF Entries
  <2>2. \A i \in DOMAIN file : file[i] \in Entries
    BY <2>1
  <2> QED
    BY <2>2 DEF Entries
<1>1. /\ DOMAIN store \subseteq Auds
      /\ \A aud \in DOMAIN store : \E i \in DOMAIN file : store[aud] = file[i].audience
  BY <1>0, LastForExists DEF ImportedAudiences
<1>2. Validate(file, offset) => \A i \in DOMAIN file : ValidGenesisKey(file[i].audience.key)
  BY DEF Validate
<1> HIDE DEF store
<1>3. \A aud \in DOMAIN store : store[aud] \in Audience
  BY <1>0, <1>1
<1>4. Validate(file, offset) => KeysImportable(store)
  BY <1>1, <1>2 DEF KeysImportable
<1> QED
  BY <1>1, <1>3, <1>4 DEF store

\* A genesis file made from a registry leads back to its audiences.
LEMMA ImportIsExport ==
  /\ DOMAIN ImportedAudiences(ExportGenesis) = DOMAIN audiences
  /\ \A aud \in DOMAIN audiences : ImportedAudiences(ExportGenesis)[aud] = audiences[aud]
<1> DEFINE file == ExportGenesis
<1>1. DOMAIN file = DOMAIN audiences
  BY DEF ExportGenesis
<1>2. \A aud \in DOMAIN audiences : file[aud].aud = aud /\ file[aud].audience = audiences[aud]
  BY DEF ExportGenesis
<1>3. \A aud \in DOMAIN audiences : LastFor(file, aud) = aud
  <2> SUFFICES ASSUME NEW aud \in DOMAIN audiences PROVE LastFor(file, aud) = aud
    OBVIOUS
  <2> DEFINE Last(i) == file[i].aud = aud /\ \A j \in DOMAIN file \ {i} : file[j].aud = aud => j < i
  <2>1. Last(aud)
    BY <1>1, <1>2
  <2>2. \A i \in DOMAIN file : Last(i) => i = aud
    BY <1>1, <1>2
  <2>3. LastFor(file, aud) = CHOOSE i \in DOMAIN file : Last(i)
    BY DEF LastFor
  <2> HIDE DEF Last, file
  <2> QED
    BY <1>1, <2>1, <2>2, <2>3
<1>4. {file[i].aud : i \in DOMAIN file} = DOMAIN audiences
  BY <1>1, <1>2
<1> HIDE DEF file
<1>5. /\ DOMAIN ImportedAudiences(file) = DOMAIN audiences
      /\ \A aud \in DOMAIN audiences : ImportedAudiences(file)[aud] = audiences[aud]
  BY <1>2, <1>3, <1>4 DEF ImportedAudiences
<1> QED
  BY <1>5 DEF file

\* A key that a message may store is one that a genesis file may hold
\* (messages_audience.go:135-172, types/genesis.go:45-75).
LEMMA MessageKeysImportable ==
  ASSUME NEW key \in Keys, ValidKey(key)
  PROVE  ValidGenesisKey(key)
BY DEF ValidKey, ValidGenesisKey

\* A genesis file, checked or not, whose offset is in range.
LEMMA InitEstablishes == Init => Inv
<1> SUFFICES ASSUME Init PROVE Inv
  OBVIOUS
<1>1. PICK file \in GenesisFiles, offset \in OffsetInputs :
        /\ validateTimeOffset(offset) /\ audiences = ImportedAudiences(file)
        /\ TimeOffset = offset /\ vetted = Validate(file, offset)
  BY DEF Init
<1>2. /\ DOMAIN audiences \subseteq Auds
      /\ \A aud \in DOMAIN audiences : audiences[aud] \in Audience
      /\ vetted => KeysImportable(audiences)
  BY <1>1, GenesisAssumption, ImportedContents
<1>0. vetted \in BOOLEAN
  BY <1>1 DEF Validate
<1>3. TypeOK
  BY <1>0, <1>1, <1>2, OffsetAssumption, BoundAssumption DEF Init, TypeOK, EmptyStore
<1>4. ClaimFollowsAudience
  BY DEF Init, ClaimFollowsAudience
<1>5. ExportImportable
  BY <1>1, <1>2, ExportImportableByParts
<1> QED
  BY <1>3, <1>4, <1>5 DEF Inv

\* The admin's name, key and new admin of a message that stores an audience
\* keep the kinds of things and the importable keys.
LEMMA PutKeeps ==
  ASSUME Inv, NEW store, DOMAIN store \subseteq DOMAIN audiences,
         \A aud \in DOMAIN store : store[aud] = audiences[aud],
         NEW name \in Auds, NEW u \in Users, NEW key \in Keys, ValidKey(key),
         audiences' = Put(store, name, [admin |-> u, key |-> key])
  PROVE  /\ DOMAIN audiences' = DOMAIN store \cup {name}
         /\ audiences'[name] = [admin |-> u, key |-> key]
         /\ \A aud \in DOMAIN store \ {name} : audiences'[aud] = audiences[aud]
         /\ DOMAIN audiences' \subseteq Auds
         /\ \A aud \in DOMAIN audiences' : audiences'[aud] \in Audience
         /\ vetted => KeysImportable(audiences')
<1>1. /\ DOMAIN audiences' = DOMAIN store \cup {name}
      /\ audiences'[name] = [admin |-> u, key |-> key]
      /\ \A aud \in DOMAIN store \ {name} : audiences'[aud] = audiences[aud]
  BY DEF Put
<1>2. [admin |-> u, key |-> key] \in Audience
  BY DEF Audience
<1>3. /\ DOMAIN audiences \subseteq Auds
      /\ \A aud \in DOMAIN audiences : audiences[aud] \in Audience
      /\ vetted => KeysImportable(audiences)
  BY ExportImportableByParts DEF Inv, TypeOK
<1>4. /\ DOMAIN audiences' \subseteq Auds
      /\ \A aud \in DOMAIN audiences' : audiences'[aud] \in Audience
  BY <1>1, <1>2, <1>3
<1>5. ValidGenesisKey(key)
  BY MessageKeysImportable
<1>6. vetted => \A aud \in DOMAIN audiences' : ValidGenesisKey(audiences'[aud].key)
  <2> SUFFICES ASSUME vetted, NEW aud \in DOMAIN audiences' PROVE ValidGenesisKey(audiences'[aud].key)
    OBVIOUS
  <2>1. CASE aud = name
    BY <1>1, <1>5, <2>1
  <2>2. CASE aud # name
    <3>1. audiences'[aud] = audiences[aud] /\ aud \in DOMAIN audiences
      BY <1>1, <2>2
    <3>2. ValidGenesisKey(audiences[aud].key)
      BY <1>3, <3>1 DEF KeysImportable
    <3> QED
      BY <3>1, <3>2
  <2> QED
    BY <2>1, <2>2
<1> QED
  BY <1>1, <1>4, <1>6 DEF KeysImportable

\* A claim is free to make, and goes only by who holds it.
LEMMA ClaimStep ==
  ASSUME Inv, NEW u \in Users, NEW aud \in Auds,
         CreateAudienceClaim(u, aud) \/ DeleteAudienceClaim(u, aud)
  PROVE  Inv'
<1>1. /\ TypeOK /\ ClaimFollowsAudience
      /\ (vetted => KeysImportable(audiences)) /\ validateTimeOffset(TimeOffset)
  BY ExportImportableByParts DEF Inv
<1>2. ExportImportable'
  BY <1>1, ExportImportableNext DEF CreateAudienceClaim, DeleteAudienceClaim
<1>3. CASE CreateAudienceClaim(u, aud)
  <2>1. /\ DOMAIN claims' = DOMAIN claims \cup {aud}
        /\ claims'[aud] = u
        /\ \A a \in DOMAIN claims : claims'[a] = claims[a]
    BY <1>3 DEF CreateAudienceClaim, Put, Has
  <2>2. TypeOK'
    BY <1>1, <1>3, <2>1 DEF CreateAudienceClaim, TypeOK
  <2>3. ClaimFollowsAudience'
    BY <1>1, <1>3, <2>1 DEF CreateAudienceClaim, ClaimFollowsAudience
  <2> QED
    BY <1>2, <2>2, <2>3 DEF Inv
<1>4. CASE DeleteAudienceClaim(u, aud)
  <2>1. /\ DOMAIN claims' = DOMAIN claims \ {aud}
        /\ \A a \in DOMAIN claims' : claims'[a] = claims[a]
    BY <1>4 DEF DeleteAudienceClaim, Drop
  <2>2. TypeOK'
    BY <1>1, <1>4, <2>1 DEF DeleteAudienceClaim, TypeOK, Has
  <2>3. ClaimFollowsAudience'
    BY <1>1, <1>4, <2>1 DEF DeleteAudienceClaim, ClaimFollowsAudience, Has
  <2> QED
    BY <1>2, <2>2, <2>3 DEF Inv
<1> QED
  BY <1>3, <1>4

\* A new audience takes a name that its admin has claimed.
LEMMA CreateStep ==
  ASSUME Inv, NEW u \in Users, NEW aud \in Auds, NEW key \in Keys, CreateAudience(u, aud, key)
  PROVE  Inv'
<1>1. TypeOK /\ ClaimFollowsAudience /\ validateTimeOffset(TimeOffset)
  BY ExportImportableByParts DEF Inv
<1>2. /\ DOMAIN audiences' = DOMAIN audiences \cup {aud}
      /\ audiences'[aud] = [admin |-> u, key |-> key]
      /\ \A a \in DOMAIN audiences \ {aud} : audiences'[a] = audiences[a]
      /\ DOMAIN audiences' \subseteq Auds
      /\ \A a \in DOMAIN audiences' : audiences'[a] \in Audience
      /\ vetted => KeysImportable(audiences')
  BY PutKeeps DEF CreateAudience
<1>3. ExportImportable'
  BY <1>1, <1>2, ExportImportableNext DEF CreateAudience
<1>4. TypeOK'
  BY <1>1, <1>2 DEF CreateAudience, TypeOK
<1>5. ClaimFollowsAudience'
  BY <1>1, <1>2 DEF CreateAudience, ClaimFollowsAudience, ClaimedBy, Has
<1> QED
  BY <1>3, <1>4, <1>5 DEF Inv

\* An update under the old name: a new key, a hand-over, and the claim with it.
LEMMA RekeyStep ==
  ASSUME Inv, NEW u \in Users, NEW v \in Users, NEW aud \in Auds, NEW key \in Keys,
         Rekey(u, v, aud, key)
  PROVE  Inv'
<1>1. TypeOK /\ ClaimFollowsAudience /\ validateTimeOffset(TimeOffset)
  BY ExportImportableByParts DEF Inv
<1>2. /\ DOMAIN audiences' = DOMAIN audiences \cup {aud}
      /\ audiences'[aud] = [admin |-> v, key |-> key]
      /\ \A a \in DOMAIN audiences \ {aud} : audiences'[a] = audiences[a]
      /\ DOMAIN audiences' \subseteq Auds
      /\ \A a \in DOMAIN audiences' : audiences'[a] \in Audience
      /\ vetted => KeysImportable(audiences')
  BY PutKeeps DEF Rekey
<1>3. ExportImportable'
  BY <1>1, <1>2, ExportImportableNext DEF Rekey
<1>4. CASE u = v
  <2>1. claims' = claims /\ parted' = parted
    BY <1>4 DEF Rekey, TransferClaim
  <2>2. TypeOK'
    BY <1>1, <1>2, <2>1 DEF Rekey, TypeOK
  <2>3. ClaimFollowsAudience'
    BY <1>1, <1>2, <1>4, <2>1 DEF Rekey, ClaimFollowsAudience, AdministeredBy, Has
  <2> QED
    BY <1>3, <2>2, <2>3 DEF Inv
<1>5. CASE u # v
  <2>1. /\ DOMAIN claims' = DOMAIN claims \cup {aud}
        /\ claims'[aud] = v
        /\ \A a \in DOMAIN claims \ {aud} : claims'[a] = claims[a]
        /\ parted' = parted \ {aud}
    BY <1>5 DEF Rekey, TransferClaim, Put
  <2>2. TypeOK'
    BY <1>1, <1>2, <2>1 DEF Rekey, TypeOK
  <2>3. ClaimFollowsAudience'
    BY <1>1, <1>2, <2>1 DEF ClaimFollowsAudience
  <2> QED
    BY <1>3, <2>2, <2>3 DEF Inv
<1> QED
  BY <1>4, <1>5

\* An update to another name: its claim is needed, and the old name is freed.
LEMMA RenameStep ==
  ASSUME Inv, NEW u \in Users, NEW v \in Users, NEW aud \in Auds, NEW newAud \in Auds,
         NEW key \in Keys, Rename(u, v, aud, newAud, key)
  PROVE  Inv'
<1>1. TypeOK /\ ClaimFollowsAudience /\ validateTimeOffset(TimeOffset)
  BY ExportImportableByParts DEF Inv
<1>2. newAud # aud /\ newAud \notin DOMAIN audiences
  BY DEF Rename, AdministeredBy, Has
<1>3. /\ DOMAIN Drop(audiences, aud) = DOMAIN audiences \ {aud}
      /\ \A a \in DOMAIN Drop(audiences, aud) : Drop(audiences, aud)[a] = audiences[a]
  BY DEF Drop
<1>4. /\ DOMAIN audiences' = (DOMAIN audiences \ {aud}) \cup {newAud}
      /\ audiences'[newAud] = [admin |-> v, key |-> key]
      /\ \A a \in DOMAIN audiences \ {aud, newAud} : audiences'[a] = audiences[a]
      /\ DOMAIN audiences' \subseteq Auds
      /\ \A a \in DOMAIN audiences' : audiences'[a] \in Audience
      /\ vetted => KeysImportable(audiences')
  <2> DEFINE rest == Drop(audiences, aud)
  <2>1. audiences' = Put(rest, newAud, [admin |-> v, key |-> key]) /\ ValidKey(key)
    BY DEF Rename
  <2>2. DOMAIN rest \subseteq DOMAIN audiences
    BY <1>3
  <2> HIDE DEF rest
  <2>3. /\ DOMAIN audiences' = DOMAIN rest \cup {newAud}
        /\ audiences'[newAud] = [admin |-> v, key |-> key]
        /\ \A a \in DOMAIN rest \ {newAud} : audiences'[a] = audiences[a]
        /\ DOMAIN audiences' \subseteq Auds
        /\ \A a \in DOMAIN audiences' : audiences'[a] \in Audience
        /\ vetted => KeysImportable(audiences')
    <3>1. \A a \in DOMAIN rest : rest[a] = audiences[a]
      BY <1>3 DEF rest
    <3> QED
      BY <2>1, <2>2, <3>1, PutKeeps
  <2> QED
    BY <2>3, <1>3 DEF rest
<1>5. ExportImportable'
  BY <1>1, <1>4, ExportImportableNext DEF Rename
<1>6. /\ DOMAIN claims' \subseteq DOMAIN claims
      /\ DOMAIN claims \ {aud} \subseteq DOMAIN claims'
      /\ newAud \in DOMAIN claims' /\ claims'[newAud] = v
      /\ \A a \in DOMAIN claims' \ {newAud} : claims'[a] = claims[a]
  BY <1>2 DEF Rename, TransferClaim, Put, Drop, ClaimedBy, Has
<1>7. parted' = parted \ {aud}
  BY DEF Rename
<1>8. TypeOK'
  BY <1>1, <1>4, <1>6, <1>7 DEF Rename, TypeOK
<1>9. ClaimFollowsAudience'
  BY <1>1, <1>2, <1>4, <1>6, <1>7 DEF ClaimFollowsAudience
<1> QED
  BY <1>5, <1>8, <1>9 DEF Inv

\* An audience goes together with the claim on its name.
LEMMA DeleteStep ==
  ASSUME Inv, NEW u \in Users, NEW aud \in Auds, DeleteAudience(u, aud)
  PROVE  Inv'
<1>1. /\ TypeOK /\ ClaimFollowsAudience
      /\ (vetted => KeysImportable(audiences)) /\ validateTimeOffset(TimeOffset)
  BY ExportImportableByParts DEF Inv
<1>2. /\ DOMAIN audiences' = DOMAIN audiences \ {aud}
      /\ \A a \in DOMAIN audiences' : audiences'[a] = audiences[a]
      /\ DOMAIN claims' = DOMAIN claims \ {aud}
      /\ \A a \in DOMAIN claims' : claims'[a] = claims[a]
  BY DEF DeleteAudience, Drop
<1>3. vetted => KeysImportable(audiences')
  BY <1>1, <1>2 DEF KeysImportable
<1>4. ExportImportable'
  BY <1>1, <1>3, ExportImportableNext DEF DeleteAudience
<1>5. TypeOK'
  BY <1>1, <1>2 DEF DeleteAudience, TypeOK
<1>6. ClaimFollowsAudience'
  BY <1>1, <1>2 DEF DeleteAudience, ClaimFollowsAudience
<1> QED
  BY <1>4, <1>5, <1>6 DEF Inv

\* Governance, upgrades and time leave audiences and claims alone.
LEMMA ChainStep ==
  ASSUME Inv,
         (\E offset \in OffsetInputs : ChangeTimeOffset(offset)) \/ Migrate \/ NextBlock
  PROVE  Inv'
<1>1. /\ TypeOK /\ ClaimFollowsAudience
      /\ (vetted => KeysImportable(audiences)) /\ validateTimeOffset(TimeOffset)
  BY ExportImportableByParts DEF Inv
<1>2. UNCHANGED <<audiences, claims, vetted, parted, restarts>> /\ signer' = Nobody
  BY DEF ChangeTimeOffset, Migrate, NextBlock
<1>3. TimeOffset' \in 0..(2 * Half - 1) /\ validateTimeOffset(TimeOffset')
  BY <1>1, OffsetAssumption DEF ChangeTimeOffset, Migrate, NextBlock, TypeOK, validateTimeOffset
<1>4. version' \in {1, 2, 3} /\ now' \in 0..MaxTime
  BY <1>1, BoundAssumption DEF ChangeTimeOffset, Migrate, NextBlock, TypeOK
<1>5. TypeOK'
  BY <1>1, <1>2, <1>3, <1>4 DEF TypeOK
<1>6. ClaimFollowsAudience'
  BY <1>1, <1>2 DEF ClaimFollowsAudience
<1>7. ExportImportable'
  BY <1>1, <1>2, <1>3, ExportImportableNext
<1> QED
  BY <1>5, <1>6, <1>7 DEF Inv

\* What is imported is what was exported; claims are gone.
LEMMA RestartStep ==
  ASSUME Inv, Restart
  PROVE  Inv'
<1>1. /\ TypeOK /\ (vetted => KeysImportable(audiences)) /\ validateTimeOffset(TimeOffset)
  BY ExportImportableByParts DEF Inv
<1>2. /\ DOMAIN audiences' = DOMAIN audiences
      /\ \A aud \in DOMAIN audiences : audiences'[aud] = audiences[aud]
  BY ImportIsExport DEF Restart
<1>3. DOMAIN claims' = {} /\ parted' = DOMAIN audiences'
  BY DEF Restart, EmptyStore
<1>4. TypeOK'
  BY <1>1, <1>2, <1>3, BoundAssumption DEF Restart, TypeOK
<1>5. ClaimFollowsAudience'
  BY <1>3 DEF ClaimFollowsAudience
<1>6. vetted => KeysImportable(audiences')
  BY <1>1, <1>2 DEF KeysImportable
<1>7. ExportImportable'
  BY <1>1, <1>6, ExportImportableNext DEF Restart
<1> QED
  BY <1>4, <1>5, <1>7 DEF Inv

\* Every step, one action after another.
LEMMA NextPreserves == Inv /\ [Next]_vars => Inv'
<1> SUFFICES ASSUME Inv, [Next]_vars PROVE Inv'
  OBVIOUS
<1>1. CASE \E u \in Users, aud \in Auds : CreateAudienceClaim(u, aud) \/ DeleteAudienceClaim(u, aud)
  BY <1>1, ClaimStep
<1>2. CASE \E u \in Users, aud \in Auds : DeleteAudience(u, aud)
  BY <1>2, DeleteStep
<1>3. CASE \E u \in Users, aud \in Auds, key \in Keys : CreateAudience(u, aud, key)
  BY <1>3, CreateStep
<1>4. CASE \E u \in Users, aud \in Auds, v \in Users, newAud \in Auds \cup {NoAud}, key \in Keys :
             UpdateAudience(u, v, aud, newAud, key)
  BY <1>4, RekeyStep, RenameStep DEF UpdateAudience
<1>5. CASE (\E offset \in OffsetInputs : ChangeTimeOffset(offset)) \/ Migrate \/ NextBlock
  BY <1>5, ChainStep
<1>6. CASE Restart
  BY <1>6, RestartStep
<1>7. CASE UNCHANGED vars
  <2>1. /\ UNCHANGED <<audiences, claims, TimeOffset, version, now, vetted, parted, signer, restarts>>
        /\ (vetted => KeysImportable(audiences)) /\ validateTimeOffset(TimeOffset)
    BY <1>7, ExportImportableByParts DEF vars, Inv
  <2>2. ExportImportable'
    BY <2>1, ExportImportableNext
  <2> QED
    BY <2>1, <2>2 DEF Inv, TypeOK, ClaimFollowsAudience
<1> QED
  BY <1>1, <1>2, <1>3, <1>4, <1>5, <1>6, <1>7 DEF Next

\* The invariant of x/jwk.
LEMMA InvHolds == Spec => []Inv
BY InitEstablishes, NextPreserves, PTL DEF Spec

\* Every variable of x/jwk keeps its kind.
THEOREM TypeCorrect == Spec => []TypeOK
<1>1. Inv => TypeOK
  BY DEF Inv
<1> QED
  BY <1>1, InvHolds, PTL

\* An audience and the claim on its name stay in one hand unless the claim's
\* holder deletes the claim or the audience comes from a genesis file.
THEOREM ClaimsFollow == Spec => []ClaimFollowsAudience
<1>1. Inv => ClaimFollowsAudience
  BY DEF Inv
<1> QED
  BY <1>1, InvHolds, PTL

\* On a chain that started from a file that passes the checks of a genesis file
\* every registry that can be reached passes them.
THEOREM ExportsImport == Spec => []ExportImportable
<1>1. Inv => ExportImportable
  BY DEF Inv
<1> QED
  BY <1>1, InvHolds, PTL

\* No token is accepted after its expiry by block time.
THEOREM NoLateTokens == Spec => []TokensInTime
<1>1. Inv => TokensInTime
  <2> SUFFICES ASSUME Inv, NEW aud \in Auds, NEW sub \in Subjects, NEW token \in Tokens,
                      NEW jwt \in DecodeJWT(aud, sub, token)
               PROVE  /\ now < jwt.exp /\ jwt.nbf <= now + TimeOffset
                      /\ jwt.aud = aud /\ jwt.sub = sub
    BY DEF TokensInTime
  <2> DEFINE decoded == [aud |-> token.aud, sub |-> token.sub, nbf |-> token.nbf, exp |-> token.exp]
  <2>0. ValidateJWT(aud, sub, token) /\ jwt = decoded
    BY DEF DecodeJWT
  <2>1. TimeOffset \in Nat /\ TimeOffset < Half /\ Half \in Nat /\ now \in Nat
    BY ExportImportableByParts, OffsetAssumption, BoundAssumption DEF Inv, TypeOK, validateTimeOffset
  <2>2. token.exp \in Nat /\ token.nbf \in Nat
    BY TokensAssumption
  <2>3. Clock = now + TimeOffset
    BY <2>1 DEF Clock, Int64
  <2>4. token.nbf <= Clock /\ Clock < token.exp /\ token.aud = aud /\ token.sub = sub
    BY <2>0 DEF ValidateJWT
  <2> QED
    BY <2>0, <2>1, <2>2, <2>3, <2>4
<1> QED
  BY <1>1, InvHolds, PTL

\* An audience changes hands, key or name by a message of its admin alone.
THEOREM AdminsDecide == Spec => AdminDecides
<1> DEFINE Kept == \A aud \in DOMAIN audiences :
                     (aud \notin DOMAIN audiences' \/ audiences'[aud] # audiences[aud])
                       => signer' = audiences[aud].admin
<1>1. Next => Kept
  <2> SUFFICES ASSUME Next PROVE Kept
    OBVIOUS
  <2>1. CASE \E u \in Users, aud \in Auds : CreateAudienceClaim(u, aud) \/ DeleteAudienceClaim(u, aud)
    BY <2>1 DEF CreateAudienceClaim, DeleteAudienceClaim
  <2>2. CASE \E u \in Users, aud \in Auds : DeleteAudience(u, aud)
    BY <2>2 DEF DeleteAudience, AdministeredBy, Drop, Has
  <2>3. CASE \E u \in Users, aud \in Auds, key \in Keys : CreateAudience(u, aud, key)
    BY <2>3 DEF CreateAudience, Put, Has
  <2>4. CASE \E u \in Users, aud \in Auds, v \in Users, newAud \in Auds \cup {NoAud}, key \in Keys :
               UpdateAudience(u, v, aud, newAud, key)
    <3>1. PICK u \in Users, aud \in Auds, v \in Users, newAud \in Auds \cup {NoAud}, key \in Keys :
            UpdateAudience(u, v, aud, newAud, key)
      BY <2>4
    <3>2. CASE Rekey(u, v, aud, key)
      BY <3>2 DEF Rekey, AdministeredBy, Put, Has
    <3>3. CASE Rename(u, v, aud, newAud, key)
      BY <3>3 DEF Rename, AdministeredBy, Put, Drop, Has
    <3> QED
      BY <3>1, <3>2, <3>3 DEF UpdateAudience
  <2>5. CASE (\E offset \in OffsetInputs : ChangeTimeOffset(offset)) \/ Migrate \/ NextBlock
    BY <2>5 DEF ChangeTimeOffset, Migrate, NextBlock
  <2>6. CASE Restart
    BY <2>6, ImportIsExport DEF Restart
  <2> QED
    BY <2>1, <2>2, <2>3, <2>4, <2>5, <2>6 DEF Next
<1> HIDE DEF Kept
<1>2. [Next]_vars => [Kept]_vars
  BY <1>1
<1>3. AdminDecides <=> [][Kept]_vars
  BY DEF AdminDecides, Kept
<1> QED
  BY <1>2, <1>3, PTL DEF Spec

\* The name of an audience that goes away is left without a claim.
THEOREM NamesAreFreed == Spec => NamesFreed
<1> DEFINE Freed == \A aud \in DOMAIN audiences \ DOMAIN audiences' : aud \notin DOMAIN claims'
<1>1. Next => Freed
  <2> SUFFICES ASSUME Next, NEW aud \in DOMAIN audiences \ DOMAIN audiences'
               PROVE  aud \notin DOMAIN claims'
    OBVIOUS
  <2>1. CASE \E u \in Users, a \in Auds : DeleteAudience(u, a)
    BY <2>1 DEF DeleteAudience, Drop
  <2>2. CASE \E u \in Users, a \in Auds, v \in Users, newAud \in Auds \cup {NoAud}, key \in Keys :
               UpdateAudience(u, v, a, newAud, key)
    <3>1. PICK u \in Users, a \in Auds, v \in Users, newAud \in Auds \cup {NoAud}, key \in Keys :
            UpdateAudience(u, v, a, newAud, key)
      BY <2>2
    <3>2. CASE Rekey(u, v, a, key)
      BY <3>2 DEF Rekey, Put
    <3>3. CASE Rename(u, v, a, newAud, key)
      <4>1. aud = a /\ a # newAud
        BY <3>3 DEF Rename, AdministeredBy, Put, Drop, Has
      <4>2. DOMAIN claims' \subseteq (DOMAIN claims \ {a}) \cup {newAud}
        BY <3>3 DEF Rename, TransferClaim, Put, Drop
      <4> QED
        BY <4>1, <4>2
    <3> QED
      BY <3>1, <3>2, <3>3 DEF UpdateAudience
  <2>3. CASE Restart
    BY <2>3 DEF Restart, EmptyStore
  <2> QED
    BY <2>1, <2>2, <2>3
    DEF Next, CreateAudienceClaim, DeleteAudienceClaim, CreateAudience, Put, ChangeTimeOffset,
        Migrate, NextBlock
<1> HIDE DEF Freed
<1>2. [Next]_vars => [Freed]_vars
  BY <1>1
<1>3. NamesFreed <=> [][Freed]_vars
  BY DEF NamesFreed, Freed
<1> QED
  BY <1>2, <1>3, PTL DEF Spec

\* A name becomes an audience only for an account that had claimed it, and
\* the claim is then in the hand of the admin: of creation and rename, the only
\* steps that add a name, and of an export, which adds none.
THEOREM ClaimsComeFirst == Spec => ClaimedFirst
<1> DEFINE First ==
      \A aud \in DOMAIN audiences' \ DOMAIN audiences :
        /\ aud \in DOMAIN claims /\ claims[aud] = signer'
        /\ aud \in DOMAIN claims' /\ claims'[aud] = audiences'[aud].admin
<1>1. Next => First
  <2> SUFFICES ASSUME Next, NEW aud \in DOMAIN audiences' \ DOMAIN audiences
               PROVE  /\ aud \in DOMAIN claims /\ claims[aud] = signer'
                      /\ aud \in DOMAIN claims' /\ claims'[aud] = audiences'[aud].admin
    OBVIOUS
  <2>1. CASE \E u \in Users, a \in Auds, key \in Keys : CreateAudience(u, a, key)
    BY <2>1 DEF CreateAudience, ClaimedBy, Put, Has
  <2>2. CASE \E u \in Users, a \in Auds, v \in Users, newAud \in Auds \cup {NoAud}, key \in Keys :
               UpdateAudience(u, v, a, newAud, key)
    <3>1. PICK u \in Users, a \in Auds, v \in Users, newAud \in Auds \cup {NoAud}, key \in Keys :
            UpdateAudience(u, v, a, newAud, key)
      BY <2>2
    <3>2. CASE Rekey(u, v, a, key)
      BY <3>2 DEF Rekey, AdministeredBy, Put, Has
    <3>3. CASE Rename(u, v, a, newAud, key)
      <4>1. aud = newAud /\ a # newAud
        BY <3>3 DEF Rename, AdministeredBy, Put, Drop, Has
      <4>2. audiences'[aud].admin = v /\ signer' = u
        BY <4>1, <3>3 DEF Rename, Put
      <4>3. aud \in DOMAIN claims /\ claims[aud] = u
        BY <4>1, <3>3 DEF Rename, ClaimedBy, Has
      <4>4. aud \in DOMAIN claims' /\ claims'[aud] = v
        BY <4>1, <4>3, <3>3 DEF Rename, TransferClaim, Put, Drop
      <4> QED
        BY <4>2, <4>3, <4>4
    <3> QED
      BY <3>1, <3>2, <3>3 DEF UpdateAudience
  <2>3. CASE \E u \in Users, a \in Auds : DeleteAudience(u, a)
    BY <2>3 DEF DeleteAudience, Drop
  <2>4. CASE Restart
    BY <2>4 DEF Restart, ImportedAudiences, ExportGenesis
  <2> QED
    BY <2>1, <2>2, <2>3, <2>4
    DEF Next, CreateAudienceClaim, DeleteAudienceClaim, ChangeTimeOffset, Migrate, NextBlock
<1> HIDE DEF First
<1>2. [Next]_vars => [First]_vars
  BY <1>1
<1>3. ClaimedFirst <=> [][First]_vars
  BY DEF ClaimedFirst, First
<1> QED
  BY <1>2, <1>3, PTL DEF Spec
=============================================================================
