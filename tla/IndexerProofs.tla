---------------------------- MODULE IndexerProofs ----------------------------
(***************************************************************************)
(* What the indexer keeps and answers. First GrantIndex: what the index    *)
(* mirrors for any number of keys, values, crashes and queries (Spec).     *)
(* Then GrantPages: what a client that follows the next keys has been      *)
(* given, for collections and pages of any size (PagesSpec).               *)
(***************************************************************************)
EXTENDS GrantIndex, GrantPages, FiniteSetTheorems, WellFoundedInduction, TLAPS

\* Every non-empty set of naturals has a least element.
LEMMA LeastNatural ==
  ASSUME NEW T \in SUBSET Nat, T # {}
  PROVE  \E x \in T : \A y \in T : x <= y
<1>1. PICK x \in T : \A y \in T : ~ (<<y, x>> \in OpToRel(<, Nat))
  BY NatLessThanWellFounded, WFMin, Zenon
<1>2. \A y \in T : ~ (y < x)
  BY <1>1 DEF OpToRel
<1> QED
  BY <1>2

\* The index has key k as the chain has it.
Mirrored(k) == IF chain[k] = None THEN primary[k] = None /\ k \notin refs ELSE Served(k)

\* What is in hand is what the chain holds.
PendingCurrent == \A k \in DOMAIN pending : pending[k] = chain[k]

\* The writes left of one pair: what they will do and what they have done.
IsTodo(k) ==
  \/ /\ chain[k] # None
     /\ \/ todo = <<W("unref", k, None), W("ref", k, None), W("put", k, chain[k])>>
        \/ todo = <<W("ref", k, None), W("put", k, chain[k])>>
        \/ todo = <<W("put", k, chain[k])>> /\ k \in refs
  \/ /\ chain[k] = None
     /\ \/ todo = <<W("unref", k, None), W("put", k, None)>>
        \/ todo = <<W("put", k, None)>> /\ k \notin refs

TodoCurrent == todo = <<>> \/ \E k \in Key \ DOMAIN pending : IsTodo(k)

\* Reference and grant come and go together, but for a key that is being
\* written or of which a change was lost.
Paired == \A k \in Key \ (missed \cup KeysOf(todo)) : primary[k] # None <=> k \in refs

\* Re-index starts from an index that mirrors what was not lost, and so a
\* pair that it gives up is in order all the same.
Unsettled == missed \cup KeysOf(todo) \cup (IF mode = "reindex" THEN {} ELSE DOMAIN pending)
Settled == \A k \in Key \ Unsettled : Mirrored(k)

QueryRecords ==
  [left : SUBSET Authorizations, failed : Authorizations \cup {None},
   got : [Authorizations -> Values \cup {None}], touched : SUBSET Authorizations]

\* A query that runs knows every grant in motion as touched; of the others
\* it has read the grant, or has it to read and the chain has it.
QueryInv ==
  query # None =>
    /\ mode = "up" /\ query \in QueryRecords
    /\ (missed \cup InHand) \cap Authorizations \subseteq query.touched
    /\ query.failed # None => query.failed \in query.touched
    /\ \A k \in Authorizations \ query.touched :
         IF k \in query.left THEN chain[k] # None ELSE query.got[k] = chain[k]

Inv ==
  TypeOK /\ PendingCurrent /\ TodoCurrent /\ Paired /\ Settled /\ ReIndexServes /\ QueryInv
-----------------------------------------------------------------------------
(***************************************************************************)
(* The first of some keys in the order of the stores, and short sequences. *)
(***************************************************************************)
LEMMA FirstIn ==
  ASSUME NEW keys \in SUBSET Key, keys # {}
  PROVE  First(keys) \in keys
<1> DEFINE T == {i \in 1..Len(Keys) : Keys[i] \in keys}
           Good(i) == Keys[i] \in keys /\ \A j \in 1..(i - 1) : Keys[j] \notin keys
<1>1. Len(Keys) \in Nat
  BY GrantsAssumption
<1>2. T # {} /\ T \in SUBSET Nat
  BY DEF Key
<1>3. PICK i \in T : \A j \in T : i <= j
  BY <1>2, LeastNatural
<1>4. i \in 1..Len(Keys) /\ Good(i)
  BY <1>1, <1>3
<1>5. First(keys) = Keys[CHOOSE j \in 1..Len(Keys) : Good(j)]
  BY DEF First
<1> HIDE DEF Good
<1>6. Good(CHOOSE j \in 1..Len(Keys) : Good(j))
  BY <1>4
<1> QED
  BY <1>5, <1>6 DEF Good

\* The writes of one pair are at most three.
LEMMA ShortSequences ==
  ASSUME NEW a, NEW b, NEW c
  PROVE  /\ Head(<<a, b, c>>) = a /\ Tail(<<a, b, c>>) = <<b, c>> /\ Len(<<a, b, c>>) = 3
         /\ Head(<<a, b>>) = a /\ Tail(<<a, b>>) = <<b>> /\ Len(<<a, b>>) = 2
         /\ Head(<<a>>) = a /\ Tail(<<a>>) = <<>> /\ Len(<<a>>) = 1
         /\ <<a, b, c>> # <<>> /\ <<a, b>> # <<>> /\ <<a>> # <<>>
OBVIOUS

\* They are about one key.
LEMMA KeysOfShort ==
  ASSUME NEW k, NEW v
  PROVE  /\ KeysOf(<<>>) = {}
         /\ KeysOf(<<W("put", k, v)>>) = {k}
         /\ KeysOf(<<W("ref", k, None), W("put", k, v)>>) = {k}
         /\ KeysOf(<<W("unref", k, None), W("put", k, v)>>) = {k}
         /\ KeysOf(<<W("unref", k, None), W("ref", k, None), W("put", k, v)>>) = {k}
BY DEF KeysOf, W

\* The writes in hand are those of one key.
LEMMA TodoKey ==
  ASSUME NEW k, IsTodo(k)
  PROVE  todo # <<>> /\ KeysOf(todo) = {k}
<1>1. CASE todo = <<W("unref", k, None), W("ref", k, None), W("put", k, chain[k])>>
  <2>1. todo # <<>>
    BY <1>1, ShortSequences
  <2>2. KeysOf(todo) = {k}
    BY <1>1, KeysOfShort
  <2> QED
    BY <2>1, <2>2
<1>2. CASE todo = <<W("ref", k, None), W("put", k, chain[k])>>
  <2>1. todo # <<>>
    BY <1>2, ShortSequences
  <2>2. KeysOf(todo) = {k}
    BY <1>2, KeysOfShort
  <2> QED
    BY <2>1, <2>2
<1>3. CASE todo = <<W("put", k, chain[k])>> \/ todo = <<W("put", k, None)>>
  <2>1. todo # <<>>
    BY <1>3, ShortSequences
  <2>2. KeysOf(todo) = {k}
    BY <1>3, KeysOfShort
  <2> QED
    BY <2>1, <2>2
<1>4. CASE todo = <<W("unref", k, None), W("put", k, None)>>
  <2>1. todo # <<>>
    BY <1>4, ShortSequences
  <2>2. KeysOf(todo) = {k}
    BY <1>4, KeysOfShort
  <2> QED
    BY <2>1, <2>2
<1> QED
  BY <1>1, <1>2, <1>3, <1>4 DEF IsTodo
-----------------------------------------------------------------------------
\* An indexer that has not been started knows nothing it could be wrong about.
LEMMA InitInv == Init => Inv
<1> SUFFICES ASSUME Init PROVE Inv
  OBVIOUS
<1>1. DOMAIN pending = {} /\ KeysOf(todo) = {}
  BY KeysOfShort DEF Init, Pairs
<1>2. TypeOK
  BY <1>1 DEF Init, TypeOK, Idle
<1> QED
  BY <1>1, <1>2 DEF Init, Inv, PendingCurrent, TodoCurrent, Paired, Settled, Mirrored,
                    ReIndexServes, QueryInv

\* A block is committed. What it changes is in hand afterwards, or missed
\* where the indexer is off.
LEMMA CommitInv ==
  ASSUME Inv, NEW changes \in Changes, Commit(changes)
  PROVE  Inv'
<1> DEFINE D == DOMAIN changes
<1>0. D \subseteq Key /\ changes \in [D -> Values \cup {None}]
  BY DEF Changes
<1>1. /\ mode = "up" /\ mode' = "up" /\ DOMAIN pending = {} /\ todo = <<>> /\ todo' = <<>>
      /\ UNCHANGED <<primary, refs, disk, enabled>>
  BY DEF Commit, Idle, db
<1>2. KeysOf(todo) = {} /\ KeysOf(todo') = {}
  BY <1>1, KeysOfShort
<1>3. /\ DOMAIN pending' = IF enabled THEN D ELSE {}
      /\ \A k \in DOMAIN pending' : pending'[k] = changes[k]
  BY DEF Commit, Pairs
<1>4. /\ chain' \in [Key -> Values \cup {None}]
      /\ \A k \in Key : chain'[k] = IF k \in D THEN changes[k] ELSE chain[k]
  BY <1>0 DEF Commit, Inv, TypeOK
<1>5. missed' = IF enabled THEN missed ELSE missed \cup D
  BY DEF Commit
<1>6. TypeOK'
  BY <1>0, <1>1, <1>2, <1>3, <1>4, <1>5 DEF Commit, Inv, TypeOK, Idle
<1>7. PendingCurrent' /\ TodoCurrent'
  BY <1>0, <1>1, <1>3, <1>4 DEF PendingCurrent, TodoCurrent
<1>8. Paired'
  BY <1>1, <1>2, <1>5 DEF Inv, Paired
<1>9. Settled'
  BY <1>1, <1>2, <1>3, <1>4, <1>5 DEF Inv, Settled, Unsettled, Mirrored, Served, Allowance
<1>10. ReIndexServes'
  BY <1>1, <1>2, <1>3, <1>4 DEF Commit, Inv, ReIndexServes, InHand, Served, Allowance
<1>11. QueryInv'
  <2> SUFFICES ASSUME query' # None
               PROVE  /\ mode' = "up" /\ query' \in QueryRecords
                      /\ (missed' \cup InHand') \cap Authorizations \subseteq query'.touched
                      /\ query'.failed # None => query'.failed \in query'.touched
                      /\ \A k \in Authorizations \ query'.touched :
                           IF k \in query'.left THEN chain'[k] # None ELSE query'.got[k] = chain'[k]
    BY DEF QueryInv
  <2>1. query # None /\ query' = [query EXCEPT !.touched = @ \cup (D \cap Authorizations)]
    BY DEF Commit
  <2>2. query \in QueryRecords
    BY <2>1 DEF Inv, QueryInv
  <2>3. /\ query' \in QueryRecords
        /\ query'.touched = query.touched \cup (D \cap Authorizations)
        /\ query'.left = query.left /\ query'.failed = query.failed /\ query'.got = query.got
    BY <2>1, <2>2 DEF QueryRecords
  <2>4. Authorizations \subseteq Key
    BY DEF Authorizations
  <2> QED
    BY <1>1, <1>2, <1>3, <1>4, <1>5, <2>1, <2>3, <2>4 DEF Inv, QueryInv, InHand
<1> QED
  BY <1>6, <1>7, <1>8, <1>9, <1>10, <1>11 DEF Inv

\* The next pair is taken. It turns into writes of its key, or into none
\* where the grant to delete is not there.
LEMMA ListenCommitInv ==
  ASSUME Inv, ListenCommit
  PROVE  Inv'
<1>1. /\ todo = <<>> /\ DOMAIN pending # {} /\ DOMAIN pending \subseteq Key
      /\ UNCHANGED <<chain, primary, refs, disk, mode, enabled, query, missed, reindexed>>
  BY DEF ListenCommit, Inv, TypeOK, db
<1>2. PICK k \in Key : k = First(DOMAIN pending) /\ k \in DOMAIN pending
  BY <1>1, FirstIn
<1>3. /\ todo' = HandleUpdate([key |-> k, value |-> pending[k]])
      /\ pending' = Pairs(DOMAIN pending \ {k}, pending)
  BY <1>2 DEF ListenCommit
<1>4. /\ DOMAIN pending' = DOMAIN pending \ {k}
      /\ \A j \in DOMAIN pending' : pending'[j] = pending[j]
  BY <1>3 DEF Pairs
<1>5. pending[k] = chain[k]
  BY <1>2 DEF Inv, PendingCurrent
<1>6. \/ todo' = <<>> /\ chain[k] = None /\ primary[k] = None
      \/ IsTodo(k)'
  <2>1. k \in Authorizations \/ k \in FeeAllowances
    BY <1>2 DEF Authorizations
  <2>2. \/ todo' = SafeAuthzHandlerUpdate([key |-> k, value |-> pending[k]])
        \/ todo' = SafeFeeGrantHandlerUpdate([key |-> k, value |-> pending[k]])
    BY <1>3, <2>1 DEF HandleUpdate, Authorizations
  <2> QED
    BY <1>1, <1>5, <2>2 DEF SafeAuthzHandlerUpdate, SafeFeeGrantHandlerUpdate, SetGrant,
          SetAllowance, Remove, IsTodo
<1>7. KeysOf(todo) = {}
  BY <1>1, KeysOfShort
<1>8. \/ KeysOf(todo') = {} /\ chain[k] = None /\ primary[k] = None
      \/ KeysOf(todo') = {k}
  <2>1. IsTodo(k)' => KeysOf(todo') = {k}
    BY KeysOfShort DEF IsTodo
  <2> QED
    BY <1>6, <2>1, KeysOfShort
<1>9. TypeOK'
  BY <1>1, <1>2, <1>4, <1>8 DEF Inv, TypeOK, Idle
<1>10. PendingCurrent' /\ TodoCurrent'
  BY <1>1, <1>2, <1>4, <1>6 DEF Inv, PendingCurrent, TodoCurrent
<1>11. Paired'
  BY <1>1, <1>7, <1>8 DEF Inv, Paired
<1>12. Settled'
  BY <1>1, <1>2, <1>4, <1>7, <1>8
     DEF Inv, Settled, Unsettled, Mirrored, Paired, Served, Allowance
<1>13. ReIndexServes'
  BY <1>1, <1>2, <1>4, <1>7, <1>8 DEF Inv, ReIndexServes, InHand, Served, Allowance
<1>14. QueryInv'
  BY <1>1, <1>2, <1>4, <1>7, <1>8 DEF Inv, QueryInv, InHand
<1> QED
  BY <1>9, <1>10, <1>11, <1>12, <1>13, <1>14 DEF Inv

\* One write. The last one of a pair leaves its key as the chain has it.
LEMMA WriteInv ==
  ASSUME Inv, Write
  PROVE  Inv'
<1>1. /\ todo # <<>> /\ todo' = Tail(todo)
      /\ UNCHANGED <<chain, disk, pending, mode, enabled, query, reindexed>>
  BY DEF Write
<1>2. PICK k \in Key \ DOMAIN pending : IsTodo(k)
  BY <1>1 DEF Inv, TodoCurrent
<1>3. KeysOf(todo) = {k}
  BY <1>2, TodoKey
<1>4. chain[k] \in Values \cup {None} /\ primary \in [Key -> Values \cup {None}]
  BY DEF Inv, TypeOK
<1>5. /\ \A j \in Key \ {k} : primary'[j] = primary[j] /\ (j \in refs' <=> j \in refs)
      /\ primary' \in [Key -> Values \cup {None}] /\ refs' \subseteq Key /\ missed' \subseteq Key
      /\ \/ todo' = <<>> /\ KeysOf(todo') = {} /\ Mirrored(k)' /\ missed' = missed \ {k}
         \/ IsTodo(k)' /\ KeysOf(todo') = {k} /\ missed' = missed
  <2> DEFINE w == Head(todo)
  <2>0. /\ primary' = IF w.op = "put" THEN [primary EXCEPT ![w.key] = w.value] ELSE primary
        /\ refs' = CASE w.op = "ref" -> refs \cup {w.key}
                     [] w.op = "unref" -> refs \ {w.key}
                     [] w.op = "put" -> refs
        /\ missed' = IF Len(todo) = 1 THEN missed \ {w.key} ELSE missed
    BY DEF Write
  <2>00. refs \subseteq Key /\ missed \subseteq Key
    BY DEF Inv, TypeOK
  <2> HIDE DEF w
  <2>1. CASE /\ chain[k] # None
             /\ todo = <<W("unref", k, None), W("ref", k, None), W("put", k, chain[k])>>
    <3>1. /\ w.op = "unref" /\ w.key = k /\ Len(todo) # 1
          /\ todo' = <<W("ref", k, None), W("put", k, chain[k])>>
      BY <1>1, <2>1, ShortSequences DEF w, W
    <3>2. primary' = primary /\ refs' = refs \ {k} /\ missed' = missed
      BY <2>0, <3>1
    <3>3. IsTodo(k)'
      BY <1>1, <2>1, <3>1, <3>2 DEF IsTodo
    <3>4. KeysOf(todo') = {k}
      BY <3>1, KeysOfShort
    <3> QED
      BY <1>4, <2>00, <3>2, <3>3, <3>4
  <2>2. CASE /\ chain[k] # None
             /\ todo = <<W("ref", k, None), W("put", k, chain[k])>>
    <3>1. w.op = "ref" /\ w.key = k /\ Len(todo) # 1 /\ todo' = <<W("put", k, chain[k])>>
      BY <1>1, <2>2, ShortSequences DEF w, W
    <3>2. primary' = primary /\ refs' = refs \cup {k} /\ missed' = missed
      BY <2>0, <3>1
    <3> QED
      BY <1>1, <1>2, <1>4, <2>00, <2>2, <3>1, <3>2, KeysOfShort DEF IsTodo
  <2>3. CASE chain[k] # None /\ todo = <<W("put", k, chain[k])>> /\ k \in refs
    <3>1. w.op = "put" /\ w.key = k /\ w.value = chain[k] /\ Len(todo) = 1 /\ todo' = <<>>
      BY <1>1, <2>3, ShortSequences DEF w, W
    <3>2. primary' = [primary EXCEPT ![k] = chain[k]] /\ refs' = refs /\ missed' = missed \ {k}
      BY <2>0, <3>1
    <3> QED
      BY <1>1, <1>2, <1>4, <2>00, <2>3, <3>1, <3>2, KeysOfShort DEF Mirrored, Served, Allowance
  <2>4. CASE chain[k] = None /\ todo = <<W("unref", k, None), W("put", k, None)>>
    <3>1. w.op = "unref" /\ w.key = k /\ Len(todo) # 1 /\ todo' = <<W("put", k, None)>>
      BY <1>1, <2>4, ShortSequences DEF w, W
    <3>2. primary' = primary /\ refs' = refs \ {k} /\ missed' = missed
      BY <2>0, <3>1
    <3>3. IsTodo(k)'
      BY <1>1, <2>4, <3>1, <3>2 DEF IsTodo
    <3>4. KeysOf(todo') = {k}
      BY <3>1, KeysOfShort
    <3> QED
      BY <1>4, <2>00, <3>2, <3>3, <3>4
  <2>5. CASE chain[k] = None /\ todo = <<W("put", k, None)>> /\ k \notin refs
    <3>1. w.op = "put" /\ w.key = k /\ w.value = None /\ Len(todo) = 1 /\ todo' = <<>>
      BY <1>1, <2>5, ShortSequences DEF w, W
    <3>2. primary' = [primary EXCEPT ![k] = None] /\ refs' = refs /\ missed' = missed \ {k}
      BY <2>0, <3>1
    <3> QED
      BY <1>1, <1>2, <1>4, <2>00, <2>5, <3>1, <3>2, KeysOfShort DEF Mirrored
  <2> QED
    BY <1>2, <2>1, <2>2, <2>3, <2>4, <2>5 DEF IsTodo
<1>6. TypeOK'
  BY <1>1, <1>2, <1>5 DEF Inv, TypeOK, Idle
<1>7. PendingCurrent' /\ TodoCurrent'
  BY <1>1, <1>2, <1>5 DEF Inv, PendingCurrent, TodoCurrent
<1>8. Paired'
  BY <1>1, <1>2, <1>3, <1>5 DEF Inv, Paired, Mirrored, Served, Allowance
<1>9. Settled'
  BY <1>1, <1>2, <1>3, <1>5 DEF Inv, Settled, Unsettled, Mirrored, Served, Allowance
<1>10. ReIndexServes'
  BY <1>1, <1>2, <1>3, <1>5 DEF Inv, ReIndexServes, InHand, Mirrored, Served, Allowance
<1>11. QueryInv'
  BY <1>1, <1>3, <1>5 DEF Inv, QueryInv, InHand
<1> QED
  BY <1>6, <1>7, <1>8, <1>9, <1>10, <1>11 DEF Inv

\* A write fails, and what was in hand of its key is missed.
LEMMA WriteFailsInv ==
  ASSUME Inv, WriteFails
  PROVE  Inv'
<1>1. /\ todo' = <<>> /\ missed' = missed \cup KeysOf(todo) /\ reindexed' = FALSE
      /\ UNCHANGED <<chain, primary, refs, disk, mode, enabled, query>>
      /\ mode # "reindex" => pending' = pending
      /\ DOMAIN pending' \subseteq DOMAIN pending
      /\ \A k \in DOMAIN pending' : pending'[k] = pending[k]
  BY DEF WriteFails, db, Pairs
<1>2. KeysOf(todo') = {}
  BY <1>1, KeysOfShort
<1>3. TypeOK'
  BY <1>1, <1>2 DEF Inv, TypeOK, Idle
<1> QED
  BY <1>1, <1>2, <1>3 DEF Inv, PendingCurrent, TodoCurrent, Paired, Settled, Unsettled,
        Mirrored, Served, Allowance, ReIndexServes, QueryInv, InHand

\* A crash loses what was in hand and what was not on the disk. A key of which
\* neither is true is as it was.
LEMMA CrashInv ==
  ASSUME Inv, Crash
  PROVE  Inv'
<1>1. /\ todo' = <<>> /\ DOMAIN pending' = {} /\ query' = None /\ mode' = "down"
      /\ missed' = missed \cup InHand \cup Unsaved
      /\ reindexed' = (reindexed /\ Idle /\ Unsaved = {})
      /\ primary' = disk.primary /\ refs' = disk.refs
      /\ UNCHANGED <<chain, disk, enabled>>
  BY DEF Crash, Pairs
<1>2. KeysOf(todo') = {}
  BY <1>1, KeysOfShort
<1>3. \A k \in Key \ Unsaved : primary'[k] = primary[k] /\ (k \in refs' <=> k \in refs)
  BY <1>1 DEF Unsaved
<1>4. Unsaved \subseteq Key
  BY DEF Unsaved
<1>5. TypeOK'
  BY <1>1, <1>2, <1>4 DEF Inv, TypeOK, Idle, InHand
<1>6. Idle => InHand = {}
  BY KeysOfShort DEF Idle, InHand
<1>7. Paired' /\ Settled'
  BY <1>1, <1>2, <1>3 DEF Inv, Paired, Settled, Unsettled, Mirrored, Served, Allowance, InHand
<1>8. ReIndexServes'
  BY <1>1, <1>3, <1>6 DEF Inv, ReIndexServes, Served, Allowance
<1> QED
  BY <1>1, <1>5, <1>7, <1>8 DEF Inv, PendingCurrent, TodoCurrent, QueryInv

\* Re-index sets every grant of the chain once more.
LEMMA ReIndexInv ==
  ASSUME Inv, ReIndex
  PROVE  Inv'
<1>1. /\ mode = "down" /\ mode' = "reindex" /\ reindexed' = TRUE
      /\ DOMAIN pending' = {k \in Key : chain[k] # None}
      /\ \A k \in DOMAIN pending' : pending'[k] = chain[k]
      /\ UNCHANGED <<chain, primary, refs, disk, todo, enabled, query, missed>>
  BY DEF ReIndex, db, Pairs
<1>2. DOMAIN pending = {} /\ todo = <<>> /\ KeysOf(todo) = {} /\ query = None
  BY <1>1, KeysOfShort DEF Inv, TypeOK, Idle, QueryInv
<1>3. TypeOK'
  BY <1>1, <1>2 DEF Inv, TypeOK, Idle
<1>4. PendingCurrent' /\ TodoCurrent' /\ Paired' /\ QueryInv'
  BY <1>1, <1>2 DEF Inv, PendingCurrent, TodoCurrent, Paired, QueryInv
<1>5. Settled'
  BY <1>1, <1>2 DEF Inv, Settled, Unsettled, Mirrored, Served, Allowance
<1>6. ReIndexServes'
  BY <1>1 DEF ReIndexServes, InHand
<1> QED
  BY <1>3, <1>4, <1>5, <1>6 DEF Inv

\* A query reads one grant. One that is gone and was not touched would not
\* be mirrored.
LEMMA ReadGrantInv ==
  ASSUME Inv, ReadGrant
  PROVE  Inv'
<1> DEFINE k == First(query.left)
<1>1. /\ query # None /\ query.left # {}
      /\ query' = IF Allowance(k) = None THEN [query EXCEPT !.failed = k]
                  ELSE [query EXCEPT !.got[k] = Allowance(k), !.left = @ \ {k}]
      /\ UNCHANGED <<chain, primary, refs, disk, pending, todo, mode, enabled, missed, reindexed>>
  BY DEF ReadGrant, db
<1>2. query \in QueryRecords /\ query.left \subseteq Key
  BY <1>1 DEF Inv, QueryInv, QueryRecords, Authorizations
<1>3. k \in query.left
  BY <1>1, <1>2, FirstIn
<1> HIDE DEF k
<1>4. k \in Authorizations /\ k \in Key
  BY <1>2, <1>3 DEF QueryRecords
<1>5. k \notin query.touched => chain[k] # None /\ primary[k] = chain[k]
  BY <1>1, <1>3, <1>4 DEF Inv, QueryInv, Settled, Unsettled, Mirrored, Served, Allowance, InHand
<1>6. Allowance(k) = primary[k] /\ primary[k] \in Values \cup {None}
  BY <1>4 DEF Allowance, Inv, TypeOK
<1>7. QueryInv'
  <2>1. CASE Allowance(k) = None
    <3>1. /\ query' \in QueryRecords /\ query'.failed = k /\ query'.left = query.left
          /\ query'.got = query.got /\ query'.touched = query.touched
      BY <1>1, <1>2, <1>4, <2>1 DEF QueryRecords
    <3>2. k \in query.touched
      BY <1>5, <1>6, <2>1
    <3> QED
      BY <1>1, <3>1, <3>2 DEF Inv, QueryInv, InHand
  <2>2. CASE Allowance(k) # None
    <3>1. /\ query' \in QueryRecords /\ query'.failed = query.failed /\ query'.left = query.left \ {k}
          /\ query'.got = [query.got EXCEPT ![k] = primary[k]] /\ query'.touched = query.touched
      BY <1>1, <1>2, <1>4, <1>6, <2>2 DEF QueryRecords
    <3>2. /\ \A j \in Authorizations \ {k} : query'.got[j] = query.got[j]
          /\ query'.got[k] = primary[k]
      BY <1>2, <1>4, <3>1 DEF QueryRecords
    <3> QED
      BY <1>1, <1>5, <3>1, <3>2 DEF Inv, QueryInv, InHand
  <2> QED
    BY <2>1, <2>2
<1>8. TypeOK'
  BY <1>1 DEF Inv, TypeOK, Idle
<1> QED
  BY <1>1, <1>7, <1>8 DEF Inv, PendingCurrent, TodoCurrent, IsTodo, Paired, Settled, Unsettled,
        Mirrored, Served, Allowance, ReIndexServes, InHand

\* A query starts: what is in motion counts as touched, and of everything
\* else the references name what the chain has.
LEMMA GranteeGrantsInv ==
  ASSUME Inv, GranteeGrants
  PROVE  Inv'
<1>1. /\ mode = "up"
      /\ query' = [left |-> refs \cap Authorizations, failed |-> None,
                   got |-> [k \in Authorizations |-> None],
                   touched |-> (missed \cup InHand) \cap Authorizations]
      /\ UNCHANGED <<chain, primary, refs, disk, pending, todo, mode, enabled, missed, reindexed>>
  BY DEF GranteeGrants, db
<1>2. query' \in QueryRecords
  BY <1>1 DEF QueryRecords
<1>3. Authorizations \subseteq Key
  BY DEF Authorizations
<1>4. ASSUME NEW k \in Authorizations, k \notin missed \cup InHand
      PROVE  IF k \in refs THEN chain[k] # None ELSE chain[k] = None
  BY <1>3, <1>4 DEF Inv, Settled, Unsettled, Mirrored, Served, InHand
<1>5. QueryInv'
  BY <1>1, <1>2, <1>4 DEF QueryInv, InHand
<1>6. TypeOK'
  BY <1>1 DEF Inv, TypeOK, Idle
<1> QED
  BY <1>1, <1>5, <1>6 DEF Inv, PendingCurrent, TodoCurrent, IsTodo, Paired, Settled, Unsettled,
        Mirrored, Served, Allowance, ReIndexServes, InHand

\* The node starts or is stopped, re-index ends, a query is answered, or the
\* database is flushed: nothing that the invariant relates moves.
LEMMA QuietInv ==
  ASSUME Inv, Start \/ Close \/ Flush \/ ReIndexEnds \/ Answer \/ UNCHANGED vars
  PROVE  Inv'
<1>1. /\ UNCHANGED <<chain, primary, refs, pending, todo, missed, reindexed>>
      /\ query' \in {query, None}
      /\ \/ mode' = mode
         \/ mode = "down" /\ mode' = "up"
         \/ mode \in {"up", "reindex"} /\ Idle /\ mode' = "down" /\ query' = None
      /\ enabled' \in BOOLEAN
      /\ disk' \in [primary : [Key -> Values \cup {None}], refs : SUBSET Key]
  <2>1. disk' \in {disk, [primary |-> primary, refs |-> refs]}
    BY DEF Start, Close, Flush, ReIndexEnds, Answer, vars
  <2>2. mode = "reindex" => query = None
    BY DEF Inv, QueryInv
  <2> QED
    BY <2>1, <2>2 DEF Start, Close, Flush, ReIndexEnds, Answer, vars, db, Inv, TypeOK
<1>2. mode # mode' => DOMAIN pending = {} /\ todo = <<>>
  BY <1>1 DEF Inv, TypeOK, Idle
<1>3. TypeOK'
  BY <1>1, <1>2 DEF Inv, TypeOK, Idle
<1>4. Settled'
  BY <1>1, <1>2 DEF Inv, Settled, Unsettled, Mirrored, Served, Allowance
<1>5. QueryInv'
  BY <1>1 DEF Inv, QueryInv, InHand
<1> QED
  BY <1>1, <1>3, <1>4, <1>5 DEF Inv, PendingCurrent, TodoCurrent, IsTodo, Paired, ReIndexServes,
        InHand, Served, Allowance

\* Every step, one action after another.
LEMMA StepInv == Inv /\ [Next]_vars => Inv'
<1> SUFFICES ASSUME Inv, [Next]_vars PROVE Inv'
  OBVIOUS
<1>1. CASE \E changes \in Changes : Commit(changes)
  BY <1>1, CommitInv
<1>2. CASE ListenCommit \/ Write \/ WriteFails
  BY <1>2, ListenCommitInv, WriteInv, WriteFailsInv
<1>3. CASE Crash \/ ReIndex \/ GranteeGrants \/ ReadGrant
  BY <1>3, CrashInv, ReIndexInv, GranteeGrantsInv, ReadGrantInv
<1>4. CASE Start \/ Close \/ Flush \/ ReIndexEnds \/ Answer \/ UNCHANGED vars
  BY <1>4, QuietInv
<1> QED
  BY <1>1, <1>2, <1>3, <1>4 DEF Next

\* The invariant of the indexer.
LEMMA Invariance == Spec => []Inv
BY InitInv, StepInv, PTL DEF Spec
-----------------------------------------------------------------------------
\* The state of the node, of its database and of the work in hand keeps its type.
THEOREM TypeCorrect == Spec => []TypeOK
<1>1. Inv => TypeOK
  BY DEF Inv
<1> QED
  BY <1>1, Invariance, PTL

\* The index holds what the chain holds for every grant of which no change
\* was lost or is in hand (safe_handlers.go:17-158).
THEOREM IndexMirrors == Spec => []Mirrors
<1>1. Inv => Mirrors
  BY DEF Inv, Mirrors, Settled, Unsettled, Mirrored, InHand
<1> QED
  BY <1>1, Invariance, PTL

\* Re-index makes the index serve every grant of the chain, and it goes on
\* to until a further change is lost (client/cli/indexer.go:84-125).
THEOREM ReIndexRestores == Spec => []ReIndexServes
<1>1. Inv => ReIndexServes
  BY DEF Inv
<1> QED
  BY <1>1, Invariance, PTL

\* A query that runs beside the listener returns what nothing touched as the
\* chain has it, and fails only at a grant in motion (authz_querier.go:286-375).
THEOREM QueriesTruthful == Spec => []QueryTruthful
<1>1. Inv => QueryTruthful
  BY DEF Inv, QueryInv, QueryTruthful
<1> QED
  BY <1>1, Invariance, PTL
-----------------------------------------------------------------------------
(***************************************************************************)
(* The paged queries.                                                      *)
(***************************************************************************)
\* Whether the page that a key asks for begins at or before an entry: x/dkim
\* compares the longer encoding.
From(name, key, i) ==
  IF name = "DkimPubKeys" THEN NonTerminal(i) >= key ELSE Terminal(i) >= key

\* What the client has lies before its cursor. An entry that it is still to
\* get lies behind it: PagesComplete speaks of the end only.
Before == ~ finished => \A i \in seen : cursor # 0 /\ NonTerminal(i) < cursor
StillToCome ==
  request # NoRequest /\ request.query # "GranteeGrants" =>
    /\ ~ failed
    /\ \A i \in steady : Asked(i) => i \in seen \/ (~ finished /\ From(request.query, cursor, i))
PagesInv ==
  /\ PagesTypeOK
  /\ request = NoRequest => cursor = 0 /\ ~ finished /\ ~ failed /\ seen = {} /\ again = {}
  /\ PagesSound
  /\ Before
  /\ StillToCome

-----------------------------------------------------------------------------
(***************************************************************************)
(* Pages.                                                                  *)
(***************************************************************************)
\* The first entries of a set lie before the others.
LEMMA FirstOfIsFirst ==
  ASSUME NEW S \in SUBSET (1..N), NEW n \in Nat
  PROVE  /\ FirstOf(S, n) \subseteq S
         /\ After(S, FirstOf(S, n)) = S \ FirstOf(S, n)
<1> DEFINE Below(i) == {j \in S : j < i}
<1>1. IsFiniteSet(S)
  <2>1. IsFiniteSet(1..N)
    BY NAssumption, FS_Interval
  <2> QED
    BY <2>1, FS_Subset
<1>2. ASSUME NEW i \in S, NEW j \in FirstOf(S, n), i \notin FirstOf(S, n)
      PROVE  j < i
  <2> SUFFICES ASSUME ~ (j < i) PROVE FALSE
    OBVIOUS
  <2>1. i \in 1..N /\ j \in 1..N /\ j \in S
    BY DEF FirstOf
  <2>2. Below(i) \subseteq Below(j)
    <3> SUFFICES ASSUME NEW k \in S, k < i PROVE k < j
      OBVIOUS
    <3> QED
      BY <2>1, NAssumption
  <2>3. IsFiniteSet(Below(j)) /\ IsFiniteSet(Below(i))
    BY <1>1, FS_Subset
  <2>4. /\ Cardinality(Below(i)) <= Cardinality(Below(j))
        /\ Cardinality(Below(i)) \in Nat /\ Cardinality(Below(j)) \in Nat
    BY <2>2, <2>3, FS_Subset, FS_CardinalityType
  <2>5. Cardinality(Below(j)) < n
    BY DEF FirstOf
  <2>6. Cardinality(Below(i)) < n
    BY <2>4, <2>5
  <2> QED
    BY <2>6, <1>2 DEF FirstOf
<1>3. ASSUME NEW i \in FirstOf(S, n) PROVE i \notin After(S, FirstOf(S, n))
  BY NAssumption DEF After, FirstOf
<1> QED
  BY <1>2, <1>3 DEF FirstOf, After

\* The least entry that is left, of which PageOf makes the next key.
LEMMA LeastIsLeast ==
  ASSUME NEW rest \in SUBSET (1..N), rest # {}
  PROVE  LET m == CHOOSE i \in rest : \A j \in rest : i <= j
         IN  m \in rest /\ \A j \in rest : m <= j
<1> DEFINE Least(m) == \A j \in rest : m <= j
<1>1. \E i \in rest : Least(i)
  BY LeastNatural, NAssumption
<1> HIDE DEF Least
<1>2. (CHOOSE i \in rest : Least(i)) \in rest /\ Least(CHOOSE i \in rest : Least(i))
  BY <1>1
<1> QED
  BY <1>2 DEF Least

\* A page whose next key, if it has one, stands for the least of the entries
\* that are left.
Follows(page, rest, key) ==
  page.next # 0 =>
    \E m \in rest : page.next = key[m] /\ \A j \in rest : m <= j

\* The next key of a page, encoded as a whole key.
LEMMA TerminalPage ==
  ASSUME NEW found, NEW rest \in SUBSET (1..N)
  PROVE  /\ PageOf(found, rest, Terminal).found = found
         /\ PageOf(found, rest, Terminal).next = 0 => rest = {}
         /\ Follows(PageOf(found, rest, Terminal), rest, [i \in 1..N |-> Terminal(i)])
<1> DEFINE m == CHOOSE i \in rest : \A j \in rest : i <= j
           page == PageOf(found, rest, Terminal)
<1>1. rest # {} => m \in rest /\ \A j \in rest : m <= j
  BY LeastIsLeast
<1>2. page.found = found /\ page.next = IF rest = {} THEN 0 ELSE Terminal(m)
  BY DEF PageOf
<1> HIDE DEF m, page
<1>3. rest # {} => Terminal(m) # 0
  <2>1. rest # {} => m \in 1..N
    BY <1>1
  <2>2. \A i \in 1..N : Terminal(i) # 0
    BY NAssumption DEF Terminal
  <2> QED
    BY <2>1, <2>2
<1>4. page.found = found /\ (page.next = 0 => rest = {})
  BY <1>2, <1>3
<1>5. Follows(page, rest, [i \in 1..N |-> Terminal(i)])
  BY <1>1, <1>2 DEF Follows
<1> QED
  BY <1>4, <1>5 DEF page

\* The same, encoded as a part of a longer key.
LEMMA NonTerminalPage ==
  ASSUME NEW found, NEW rest \in SUBSET (1..N)
  PROVE  /\ PageOf(found, rest, NonTerminal).found = found
         /\ PageOf(found, rest, NonTerminal).next = 0 => rest = {}
         /\ Follows(PageOf(found, rest, NonTerminal), rest, [i \in 1..N |-> NonTerminal(i)])
<1> DEFINE m == CHOOSE i \in rest : \A j \in rest : i <= j
           page == PageOf(found, rest, NonTerminal)
<1>1. rest # {} => m \in rest /\ \A j \in rest : m <= j
  BY LeastIsLeast
<1>2. page.found = found /\ page.next = IF rest = {} THEN 0 ELSE NonTerminal(m)
  BY DEF PageOf
<1> HIDE DEF m, page
<1>3. rest # {} => NonTerminal(m) # 0
  <2>1. rest # {} => m \in 1..N
    BY <1>1
  <2>2. \A i \in 1..N : NonTerminal(i) # 0
    BY NAssumption DEF NonTerminal
  <2> QED
    BY <2>1, <2>2
<1>4. page.found = found /\ (page.next = 0 => rest = {})
  BY <1>2, <1>3
<1>5. Follows(page, rest, [i \in 1..N |-> NonTerminal(i)])
  BY <1>1, <1>2 DEF Follows
<1> QED
  BY <1>4, <1>5 DEF page

-----------------------------------------------------------------------------
(***************************************************************************)
(* What every query answers.                                               *)
(***************************************************************************)
\* A page holds entries that were asked for, from the key on.
Fitting(page, req, key) ==
  \A i \in page.found :
    /\ i \in entries /\ InGroup(i, req)
    /\ req.query = "DkimPubKeys" => HasTag(i, req)
    /\ NonTerminal(i) >= key

\* The next key lies behind what the page holds, and no further back than the
\* key it was asked for with.
Advancing(page, key) ==
  page.next # 0 =>
    \E m \in 1..N : /\ page.next \in {Terminal(m), NonTerminal(m)}
                    /\ NonTerminal(m) >= key
                    /\ \A j \in page.found : j < m

\* Nothing that was asked for is left between two pages.
Complete(page, req, key) ==
  \A i \in entries :
    InGroup(i, req) /\ HasTag(i, req) /\ From(req.query, key, i) =>
      i \in page.found \/ (page.next # 0 /\ From(req.query, page.next, i))

\* A page of CollectionPaginate leaves out nothing before its next key.
LEMMA CollectionPages ==
  ASSUME entries \subseteq 1..N, NEW req, req.query # "DkimPubKeys", NEW key \in Nat
  PROVE  /\ Fitting(CollectionPaginate(req, key), req, key)
         /\ Advancing(CollectionPaginate(req, key), key)
         /\ Complete(CollectionPaginate(req, key), req, key)
<1> DEFINE S == {i \in entries : InGroup(i, req) /\ Terminal(i) >= key}
           found == FirstOf(S, Limit)
           rest == After(S, found)
           page == PageOf(found, rest, Terminal)
<1>1. S \in SUBSET (1..N) /\ \A i \in S : i \in entries /\ InGroup(i, req) /\ Terminal(i) >= key
  OBVIOUS
<1>2. \A i \in entries : InGroup(i, req) /\ Terminal(i) >= key => i \in S
  OBVIOUS
<1> HIDE DEF S
<1>3. found \subseteq S /\ rest = S \ found
  BY <1>1, FirstOfIsFirst, NAssumption
<1>4. \A m \in rest : \A j \in found : j < m
  BY DEF After
<1> HIDE DEF found, rest
<1>5. /\ page.found = found /\ (page.next = 0 => rest = {})
      /\ Follows(page, rest, [i \in 1..N |-> Terminal(i)])
  BY <1>1, <1>3, TerminalPage
<1>6. page = CollectionPaginate(req, key)
  BY DEF CollectionPaginate, S, found, rest
<1> HIDE DEF page
<1>7. \A i \in 1..N : Terminal(i) >= key => NonTerminal(i) >= key
  BY NAssumption DEF Terminal, NonTerminal
<1>8. Fitting(page, req, key)
  BY <1>1, <1>3, <1>5, <1>7 DEF Fitting
<1>9. ASSUME page.next # 0
      PROVE  \E m \in rest : page.next = Terminal(m) /\ \A j \in rest : m <= j
  BY <1>1, <1>3, <1>5, <1>9 DEF Follows
<1>10. Advancing(page, key)
  <2> SUFFICES ASSUME page.next # 0
               PROVE  \E m \in 1..N : /\ page.next \in {Terminal(m), NonTerminal(m)}
                                      /\ NonTerminal(m) >= key
                                      /\ \A j \in page.found : j < m
    BY DEF Advancing
  <2>1. PICK m \in rest : page.next = Terminal(m)
    BY <1>9
  <2>2. m \in 1..N /\ NonTerminal(m) >= key
    BY <1>1, <1>3, <1>7
  <2> QED
    BY <2>1, <2>2, <1>4, <1>5
<1>11. ASSUME NEW i \in entries, InGroup(i, req), From(req.query, key, i), i \notin page.found
       PROVE  page.next # 0 /\ From(req.query, page.next, i)
  <2>1. i \in rest
    BY <1>2, <1>3, <1>5, <1>11 DEF From
  <2>2. PICK m \in rest : page.next = Terminal(m) /\ m <= i
    BY <2>1, <1>5, <1>9
  <2>3. Terminal(i) >= Terminal(m)
    BY <2>1, <2>2, <1>1, <1>3, NAssumption DEF Terminal
  <2> QED
    BY <2>1, <2>2, <2>3, <1>5 DEF From
<1>12. Complete(page, req, key)
  BY <1>11 DEF Complete
<1> QED
  BY <1>6, <1>8, <1>10, <1>12

\* The same of the keys of a domain, or of all, that x/dkim filters by hash.
LEMMA DkimPages ==
  ASSUME entries \subseteq 1..N, NEW req, req.query = "DkimPubKeys", NEW key \in Nat
  PROVE  /\ Fitting(DkimPubKeys(req, key), req, key)
         /\ Advancing(DkimPubKeys(req, key), key)
         /\ Complete(DkimPubKeys(req, key), req, key)
<1> DEFINE S == {i \in entries : InGroup(i, req) /\ NonTerminal(i) >= key /\ HasTag(i, req)}
           found == FirstOf(S, Limit)
           rest == After(S, found)
           page == PageOf(found, rest, NonTerminal)
<1>1. /\ S \in SUBSET (1..N)
      /\ \A i \in S : i \in entries /\ InGroup(i, req) /\ NonTerminal(i) >= key /\ HasTag(i, req)
  OBVIOUS
<1>2. \A i \in entries : InGroup(i, req) /\ NonTerminal(i) >= key /\ HasTag(i, req) => i \in S
  OBVIOUS
<1> HIDE DEF S
<1>3. found \subseteq S /\ rest = S \ found
  BY <1>1, FirstOfIsFirst, NAssumption
<1>4. \A m \in rest : \A j \in found : j < m
  BY DEF After
<1> HIDE DEF found, rest
<1>5. /\ page.found = found /\ (page.next = 0 => rest = {})
      /\ Follows(page, rest, [i \in 1..N |-> NonTerminal(i)])
  BY <1>1, <1>3, NonTerminalPage
<1>6. page = DkimPubKeys(req, key)
  BY DEF DkimPubKeys, S, found, rest
<1> HIDE DEF page
<1>7. Fitting(page, req, key)
  BY <1>1, <1>3, <1>5 DEF Fitting
<1>8. ASSUME page.next # 0
      PROVE  \E m \in rest : page.next = NonTerminal(m) /\ \A j \in rest : m <= j
  BY <1>1, <1>3, <1>5, <1>8 DEF Follows
<1>9. Advancing(page, key)
  <2> SUFFICES ASSUME page.next # 0
               PROVE  \E m \in 1..N : /\ page.next \in {Terminal(m), NonTerminal(m)}
                                      /\ NonTerminal(m) >= key
                                      /\ \A j \in page.found : j < m
    BY DEF Advancing
  <2>1. PICK m \in rest : page.next = NonTerminal(m)
    BY <1>8
  <2>2. m \in 1..N /\ NonTerminal(m) >= key
    BY <1>1, <1>3
  <2> QED
    BY <2>1, <2>2, <1>4, <1>5
<1>10. ASSUME NEW i \in entries, InGroup(i, req), HasTag(i, req), From(req.query, key, i),
              i \notin page.found
       PROVE  page.next # 0 /\ From(req.query, page.next, i)
  <2>1. i \in rest
    BY <1>2, <1>3, <1>5, <1>10 DEF From
  <2>2. PICK m \in rest : page.next = NonTerminal(m) /\ m <= i
    BY <2>1, <1>5, <1>8
  <2>3. NonTerminal(i) >= NonTerminal(m)
    BY <2>1, <2>2, <1>1, <1>3, NAssumption DEF NonTerminal
  <2> QED
    BY <2>1, <2>2, <2>3, <1>5 DEF From
<1>11. Complete(page, req, key)
  BY <1>10 DEF Complete
<1> QED
  BY <1>6, <1>7, <1>9, <1>11

\* GranteeGrants skips nothing but leaves off where another grantee follows: its
\* pages fit and advance.
LEMMA GranteePages ==
  ASSUME entries \subseteq 1..N, NEW req, req.query = "GranteeGrants"
  PROVE  Fitting(GranteeGrantsFirst(req), req, 0) /\ Advancing(GranteeGrantsFirst(req), 0)
<1> DEFINE S == {i \in entries : InGroup(i, req)}
           found == FirstOf(S, Limit)
           rest == After(S, found)
           page == PageOf(found, rest, NonTerminal)
<1>1. S \in SUBSET (1..N) /\ \A i \in S : i \in entries /\ InGroup(i, req)
  OBVIOUS
<1> HIDE DEF S
<1>2. found \subseteq S /\ rest = S \ found
  BY <1>1, FirstOfIsFirst, NAssumption
<1>3. \A m \in rest : \A j \in found : j < m
  BY DEF After
<1> HIDE DEF found, rest
<1>4. page.found = found /\ Follows(page, rest, [i \in 1..N |-> NonTerminal(i)])
  BY <1>1, <1>2, NonTerminalPage
<1>5. page = GranteeGrantsFirst(req)
  BY DEF GranteeGrantsFirst, S, found, rest
<1> HIDE DEF page
<1>6. \A i \in 1..N : NonTerminal(i) >= 0
  BY NAssumption DEF NonTerminal
<1>7. Fitting(page, req, 0)
  BY <1>1, <1>2, <1>4, <1>6 DEF Fitting
<1>8. Advancing(page, 0)
  BY <1>1, <1>2, <1>3, <1>4, <1>6 DEF Advancing, Follows
<1> QED
  BY <1>5, <1>7, <1>8

\* A page of GranteeGrants fits and advances; it may leave out its first entry.
LEMMA RawPages ==
  ASSUME entries \subseteq 1..N, NEW req, req.query = "GranteeGrants", NEW key \in Nat
  PROVE  /\ Fitting(GranteeGrantsWithRawIteration(req, key), req, key)
         /\ Advancing(GranteeGrantsWithRawIteration(req, key), key)
<1> DEFINE S == {i \in entries : Terminal(i) >= key}
           own == {i \in S : InGroup(i, req)}
           found == FirstOf(own, Limit)
           rest == IF Cardinality(found) < Limit THEN {} ELSE After(S, found)
           page == PageOf(found, rest, NonTerminal)
<1>1. S \in SUBSET (1..N) /\ \A i \in S : i \in entries /\ Terminal(i) >= key
  OBVIOUS
<1>2. own \in SUBSET (1..N) /\ own \subseteq S /\ \A i \in own : InGroup(i, req)
  OBVIOUS
<1> HIDE DEF S, own
<1>3. found \subseteq own
  BY <1>2, FirstOfIsFirst, NAssumption
<1> HIDE DEF found
<1>4. rest \subseteq S /\ \A m \in rest : \A j \in found : j < m
  BY DEF After
<1> HIDE DEF rest
<1>5. page.found = found /\ Follows(page, rest, [i \in 1..N |-> NonTerminal(i)])
  BY <1>1, <1>4, NonTerminalPage
<1>6. page = GranteeGrantsWithRawIteration(req, key)
  BY DEF GranteeGrantsWithRawIteration, S, own, found, rest
<1> HIDE DEF page
<1>7. \A i \in 1..N : Terminal(i) >= key => NonTerminal(i) >= key
  BY NAssumption DEF Terminal, NonTerminal
<1>8. Fitting(page, req, key)
  BY <1>1, <1>2, <1>3, <1>5, <1>7 DEF Fitting
<1>9. Advancing(page, key)
  <2> SUFFICES ASSUME page.next # 0
               PROVE  \E m \in 1..N : /\ page.next \in {Terminal(m), NonTerminal(m)}
                                      /\ NonTerminal(m) >= key
                                      /\ \A j \in page.found : j < m
    BY DEF Advancing
  <2>1. PICK m \in rest : page.next = [i \in 1..N |-> NonTerminal(i)][m]
    BY <1>5 DEF Follows
  <2>2. m \in 1..N /\ NonTerminal(m) >= key
    BY <1>1, <1>4, <1>7
  <2> QED
    BY <2>1, <2>2, <1>4, <1>5
<1> QED
  BY <1>6, <1>8, <1>9

\* All of them.
LEMMA Answers ==
  ASSUME entries \subseteq 1..N, NEW req \in Requests, NEW key \in Nat
  PROVE  /\ Fitting(PageAnswer(req, key), req, key)
         /\ Advancing(PageAnswer(req, key), key)
         /\ req.query # "GranteeGrants" => Complete(PageAnswer(req, key), req, key)
<1>1. CASE req.query = "GranteeGrants" /\ key = 0
  <2>1. PageAnswer(req, key) = GranteeGrantsFirst(req)
    BY <1>1 DEF PageAnswer
  <2> QED
    BY <2>1, <1>1, GranteePages
<1>2. CASE req.query = "GranteeGrants" /\ key # 0
  <2>1. PageAnswer(req, key) = GranteeGrantsWithRawIteration(req, key)
    BY <1>2 DEF PageAnswer
  <2> QED
    BY <2>1, <1>2, RawPages
<1>3. CASE req.query = "DkimPubKeys"
  <2>1. PageAnswer(req, key) = DkimPubKeys(req, key)
    BY <1>3 DEF PageAnswer
  <2> QED
    BY <2>1, <1>3, DkimPages
<1>4. CASE req.query \notin {"GranteeGrants", "DkimPubKeys"}
  <2>1. req.query \in Queries
    BY RequestsAssumption
  <2>2. PageAnswer(req, key) = CollectionPaginate(req, key)
    BY <1>4, <2>1
    DEF PageAnswer, Queries, Grants, GranterGrants, Allowances, AllowancesByGranter, VKeys, AudienceAll
  <2> QED
    BY <2>2, <1>4, CollectionPages
<1> QED
  BY <1>1, <1>2, <1>3, <1>4

-----------------------------------------------------------------------------
(***************************************************************************)
(* The invariant.                                                          *)
(***************************************************************************)
LEMMA PagesInitInv == PagesInit => PagesInv
BY NAssumption
DEF PagesInit, PagesInv, PagesTypeOK, PagesSound, Before, StillToCome

\* A client asks for its first page.
LEMMA BeginInv ==
  ASSUME PagesInv, NEW req \in Requests, Begin(req)
  PROVE  PagesInv'
<1>1. PagesTypeOK'
  BY DEF PagesInv, PagesTypeOK, Begin
<1>2. seen' = {} /\ again' = {} /\ cursor' = 0 /\ ~ finished' /\ ~ failed'
  BY DEF PagesInv, Begin
<1>3. PagesSound' /\ Before'
  BY <1>2 DEF PagesSound, Before
<1>4. \A i \in 1..N : From(request.query, cursor, i)'
  BY <1>2, NAssumption DEF From, Terminal, NonTerminal
<1>5. StillToCome'
  BY <1>1, <1>2, <1>4 DEF StillToCome, PagesTypeOK
<1> QED
  BY <1>1, <1>2, <1>3, <1>5 DEF PagesInv

\* The next key of a query other than GranteeGrants fits.
LEMMA NextFits ==
  ASSUME NEW req \in Requests, req.query # "GranteeGrants", NEW page, NEW key, Advancing(page, key)
  PROVE  ~ Overflows(req.query, page.next)
<1> SUFFICES ASSUME req.query = "DkimPubKeys", page.next # 0
             PROVE  LengthOf[page.next \div 2] \in 0..1024
  BY DEF Overflows, BufferOf
<1>1. PICK m \in 1..N : page.next \in {Terminal(m), NonTerminal(m)}
  BY DEF Advancing
<1>2. \A i \in Nat : (2 * i) \div 2 = i /\ (2 * i + 1) \div 2 = i
  OBVIOUS
<1>3. page.next \div 2 = m
  BY <1>1, <1>2, NAssumption DEF Terminal, NonTerminal
<1> QED
  BY <1>3, LengthsAssumption

\* A client is given a page, and has or will see what was there all the time.
LEMMA NextPageInv ==
  ASSUME PagesInv, NextPage
  PROVE  PagesInv'
<1> DEFINE page == PageAnswer(request, cursor)
           fails == Overflows(request.query, page.next)
           found == IF fails THEN {} ELSE page.found
<1>1. /\ request # NoRequest /\ request \in Requests /\ ~ finished
      /\ entries \subseteq 1..N /\ steady \subseteq entries
      /\ cursor \in Nat /\ cursor \in 0..(2 * N + 1) /\ seen \subseteq 1..N /\ again = {}
  BY NAssumption DEF PagesInv, PagesTypeOK, PagesSound, NextPage
<1>2. /\ seen' = seen \cup found
      /\ again' = again \cup (seen \cap found)
      /\ cursor' = IF fails THEN cursor ELSE page.next
      /\ finished' = (fails \/ page.next = 0)
      /\ failed' = fails
      /\ UNCHANGED <<entries, request, steady>>
  BY DEF NextPage
<1>3. /\ Fitting(page, request, cursor) /\ Advancing(page, cursor)
      /\ request.query # "GranteeGrants" => Complete(page, request, cursor)
  BY <1>1, Answers
<1>4. request.query # "GranteeGrants" => ~ fails
  BY <1>1, <1>3, NextFits
<1> HIDE DEF page, fails
<1>5. \A i \in found : /\ i \in 1..N /\ InGroup(i, request)
                       /\ request.query = "DkimPubKeys" => HasTag(i, request)
                       /\ i \notin seen
  <2> SUFFICES ASSUME NEW i \in page.found
               PROVE  /\ i \in 1..N /\ InGroup(i, request)
                      /\ request.query = "DkimPubKeys" => HasTag(i, request)
                      /\ i \notin seen
    OBVIOUS
  <2>1. /\ i \in entries /\ InGroup(i, request) /\ NonTerminal(i) >= cursor
        /\ request.query = "DkimPubKeys" => HasTag(i, request)
    BY <1>3 DEF Fitting
  <2>2. i \in seen => NonTerminal(i) < cursor
    BY <1>1 DEF PagesInv, Before
  <2>3. NonTerminal(i) \in Nat
    BY <2>1, <1>1, NAssumption DEF NonTerminal
  <2> QED
    BY <2>1, <2>2, <2>3, <1>1
<1>6. page.next \in 0..(2 * N + 1)
  BY <1>3, NAssumption DEF Advancing, Terminal, NonTerminal
<1>7. PagesTypeOK'
  BY <1>1, <1>2, <1>5, <1>6 DEF PagesTypeOK, PagesInv
<1>8. again' = {}
  BY <1>1, <1>2, <1>5
<1>9. PagesSound'
  BY <1>1, <1>2, <1>5, <1>8 DEF PagesSound, PagesInv, InGroup, HasTag
<1>10. Before'
  <2> SUFFICES ASSUME ~ finished', NEW i \in seen'
               PROVE  cursor' # 0 /\ NonTerminal(i) < cursor'
    BY DEF Before, NonTerminal
  <2>1. ~ fails /\ page.next # 0 /\ cursor' = page.next
    BY <1>2
  <2>2. PICK m \in 1..N : /\ page.next \in {Terminal(m), NonTerminal(m)}
                          /\ NonTerminal(m) >= cursor
                          /\ \A j \in page.found : j < m
    BY <1>3, <2>1 DEF Advancing
  <2>3. i \in 1..N
    BY <1>7 DEF PagesTypeOK
  <2>4. i < m
    <3>1. CASE i \in page.found
      BY <3>1, <2>2
    <3>2. CASE i \in seen
      <4>1. NonTerminal(i) < cursor
        BY <3>2, <1>1 DEF PagesInv, Before
      <4> QED
        BY <4>1, <2>2, <2>3, <1>1, NAssumption DEF NonTerminal
    <3> QED
      BY <1>2, <2>1, <3>1, <3>2
  <2>5. NonTerminal(i) < Terminal(m) /\ NonTerminal(i) < NonTerminal(m)
    BY <2>3, <2>4, NAssumption DEF NonTerminal, Terminal
  <2> QED
    BY <2>1, <2>2, <2>5
<1>11. StillToCome'
  <2> SUFFICES ASSUME request.query # "GranteeGrants"
               PROVE  /\ ~ failed'
                      /\ \A i \in steady : Asked(i) =>
                           i \in seen' \/ (~ finished' /\ From(request.query, cursor', i))
    BY <1>2 DEF StillToCome, Asked, InGroup, HasTag, From, Terminal, NonTerminal
  <2>1. ~ fails /\ ~ failed'
    BY <1>2, <1>4
  <2>2. ASSUME NEW i \in steady, Asked(i), i \notin seen'
        PROVE  page.next # 0 /\ From(request.query, page.next, i)
    <3>1. From(request.query, cursor, i)
      BY <2>2, <1>1, <1>2 DEF PagesInv, StillToCome
    <3> QED
      BY <2>1, <2>2, <3>1, <1>1, <1>2, <1>3 DEF Complete, Asked
  <2> QED
    BY <2>1, <2>2, <1>2
<1>12. request' # NoRequest
  BY <1>1, <1>2
<1> QED
  BY <1>7, <1>9, <1>10, <1>11, <1>12 DEF PagesInv

\* An entry is added while clients page.
LEMMA PutInv ==
  ASSUME PagesInv, NEW i \in 1..N, Put(i)
  PROVE  PagesInv'
BY DEF PagesInv, Put, PagesTypeOK, PagesSound, Before, StillToCome, Asked, InGroup, HasTag, From,
       Terminal, NonTerminal

\* An entry is removed, and is no longer one that was there all the time.
LEMMA DeleteInv ==
  ASSUME PagesInv, NEW i \in 1..N, Delete(i)
  PROVE  PagesInv'
BY DEF PagesInv, Delete, PagesTypeOK, PagesSound, Before, StillToCome, Asked, InGroup, HasTag, From,
       Terminal, NonTerminal

\* The invariant of a client that pages.
LEMMA PagesInvariance == PagesSpec => []PagesInv
<1>1. PagesInv /\ [PagesNext]_pagesVars => PagesInv'
  <2> SUFFICES ASSUME PagesInv, [PagesNext]_pagesVars PROVE PagesInv'
    OBVIOUS
  <2>1. CASE UNCHANGED pagesVars
    BY <2>1 DEF pagesVars, PagesInv, PagesTypeOK, PagesSound, Before, StillToCome, Asked, InGroup, HasTag, From,
                Terminal, NonTerminal
  <2> QED
    BY <2>1, BeginInv, NextPageInv, PutInv, DeleteInv DEF PagesNext
<1> QED
  BY PagesInitInv, <1>1, PTL DEF PagesSpec

-----------------------------------------------------------------------------
\* Positions, cursors and what a client was given stay in range.
THEOREM PagesTypeCorrect == PagesSpec => []PagesTypeOK
<1>1. PagesInv => PagesTypeOK
  BY DEF PagesInv
<1> QED
  BY <1>1, PagesInvariance, PTL

\* No client of a paged query is given an entry twice, or one that it did not
\* ask for, for collections and pages of any size and whatever is added and
\* removed between two pages.
THEOREM PagesAreSound == PagesSpec => []PagesSound
<1>1. PagesInv => PagesSound
  BY DEF PagesInv
<1> QED
  BY <1>1, PagesInvariance, PTL

\* A client of any query but GranteeGrants that comes to the end has every
\* entry that was there all the time, and no page fails.
THEOREM PagesAreComplete == PagesSpec => []PagesComplete
<1>1. PagesInv => PagesComplete
  BY DEF PagesInv, StillToCome, PagesComplete
<1> QED
  BY <1>1, PagesInvariance, PTL
-----------------------------------------------------------------------------
(***************************************************************************)
(* Why a client comes to an end (PagesEnd): there is a bound on the pages  *)
(* still to come that no step raises.                                      *)
(***************************************************************************)
\* The first entries of a set are some, unless it is empty.
LEMMA FirstOfNotEmpty ==
  ASSUME NEW S \in SUBSET (1..N), S # {}
  PROVE  FirstOf(S, Limit) # {}
<1>1. PICK i \in S : \A j \in S : i <= j
  BY LeastNatural, NAssumption
<1>2. {j \in S : j < i} = {}
  <2>1. i \in Int /\ \A j \in S : j \in Int
    BY NAssumption
  <2>2. \A j \in S : ~ (j < i)
    BY <1>1, <2>1
  <2> QED
    BY <2>2
<1>3. Cardinality({j \in S : j < i}) = 0
  BY <1>2, FS_EmptySet
<1>4. Cardinality({j \in S : j < i}) < Limit
  BY <1>3, NAssumption
<1> QED
  BY <1>4 DEF FirstOf

\* A page that returns nothing has no next key, whatever the query: DkimPubKeys
\* filters before it counts, GranteeGrants stops where its page is not full.
LEMMA EmptyPageIsLast ==
  ASSUME entries \subseteq 1..N, NEW req, req.query \in Queries, NEW key \in Nat,
         PageAnswer(req, key).found = {}
  PROVE  PageAnswer(req, key).next = 0
<1> DEFINE A == {i \in entries : InGroup(i, req)}
           B == {i \in entries : InGroup(i, req) /\ Terminal(i) >= key}
           C == {i \in entries : InGroup(i, req) /\ NonTerminal(i) >= key /\ HasTag(i, req)}
           D == {i \in entries : Terminal(i) >= key}
           E == {i \in D : InGroup(i, req)}
<1>1. A \in SUBSET (1..N) /\ B \in SUBSET (1..N) /\ C \in SUBSET (1..N) /\ E \in SUBSET (1..N)
  OBVIOUS
<1> HIDE DEF A, B, C, D, E
<1>2. /\ A # {} => FirstOf(A, Limit) # {}
      /\ B # {} => FirstOf(B, Limit) # {}
      /\ C # {} => FirstOf(C, Limit) # {}
  BY <1>1, FirstOfNotEmpty
<1>3. After({}, {}) = {}
  BY DEF After
<1>4. GranteeGrantsFirst(req).found = {} => GranteeGrantsFirst(req).next = 0
  BY <1>2, <1>3 DEF GranteeGrantsFirst, PageOf, A, FirstOf
<1>5. CollectionPaginate(req, key).found = {} => CollectionPaginate(req, key).next = 0
  BY <1>2, <1>3 DEF CollectionPaginate, PageOf, B, FirstOf
<1>6. DkimPubKeys(req, key).found = {} => DkimPubKeys(req, key).next = 0
  BY <1>2, <1>3 DEF DkimPubKeys, PageOf, C, FirstOf
<1>7. GranteeGrantsWithRawIteration(req, key).found = {} =>
        GranteeGrantsWithRawIteration(req, key).next = 0
  <2>1. Cardinality({}) < Limit
    BY FS_EmptySet, NAssumption
  <2>2. GranteeGrantsWithRawIteration(req, key) =
          PageOf(FirstOf(E, Limit), IF Cardinality(FirstOf(E, Limit)) < Limit THEN {} ELSE After(D, FirstOf(E, Limit)),
                 NonTerminal)
    BY DEF GranteeGrantsWithRawIteration, D, E
  <2> QED
    BY <2>1, <2>2 DEF PageOf
<1> QED
  BY <1>4, <1>5, <1>6, <1>7
  DEF PageAnswer, Queries, Grants, GranterGrants, Allowances, AllowancesByGranter, VKeys, AudienceAll

Remaining == IF finished THEN 0 ELSE 2 * N + 2 - cursor

\* A page brings the end nearer.
LEMMA PageAdvances ==
  ASSUME PagesInv, NextPage
  PROVE  Remaining' < Remaining
<1> DEFINE page == PageAnswer(request, cursor)
           fails == Overflows(request.query, page.next)
<1>1. /\ request # NoRequest /\ request \in Requests /\ ~ finished
      /\ entries \subseteq 1..N /\ cursor \in Nat /\ cursor \in 0..(2 * N + 1)
  BY NAssumption DEF PagesInv, PagesTypeOK, NextPage
<1>2. /\ cursor' = IF fails THEN cursor ELSE page.next
      /\ finished' = (fails \/ page.next = 0)
  BY DEF NextPage
<1>3. Fitting(page, request, cursor) /\ Advancing(page, cursor)
  BY <1>1, Answers
<1>4. page.next # 0 => page.found # {}
  BY <1>1, EmptyPageIsLast, RequestsAssumption
<1> HIDE DEF page, fails
<1>5. Remaining = 2 * N + 2 - cursor /\ Remaining > 0
  BY <1>1, NAssumption DEF Remaining
<1>6. CASE finished'
  <2>1. Remaining' = 0
    BY <1>6 DEF Remaining
  <2> QED
    BY <1>5, <2>1
<1>7. CASE ~ finished'
  <2>1. page.next # 0 /\ cursor' = page.next
    BY <1>2, <1>7
  <2>2. PICK m \in 1..N : page.next \in {Terminal(m), NonTerminal(m)} /\ \A j \in page.found : j < m
    BY <1>3, <2>1 DEF Advancing
  <2>3. PICK i \in page.found : i \in 1..N /\ NonTerminal(i) >= cursor /\ i < m
    BY <1>1, <1>3, <1>4, <2>1, <2>2 DEF Fitting
  <2>4. cursor' > cursor /\ cursor' \in Nat
    BY <1>1, <2>1, <2>2, <2>3, NAssumption DEF Terminal, NonTerminal
  <2>5. Remaining' = 2 * N + 2 - cursor'
    BY <1>7 DEF Remaining
  <2>6. \A a, b, c \in Nat : b > a => 2 * c + 2 - b < 2 * c + 2 - a
    OBVIOUS
  <2>7. cursor \in Nat /\ cursor' \in Nat /\ N \in Nat /\ cursor' > cursor
    BY <1>1, <2>4, NAssumption
  <2> QED
    BY <1>5, <2>5, <2>6, <2>7
<1> QED
  BY <1>6, <1>7

\* A bound on the pages that a client is still to ask for is a natural number,
\* each page lowers it, and no entry that comes or goes between two pages
\* raises it: what PagesEnd rests on, for collections of any size.
PagesRunOut ==
  /\ [](Remaining \in Nat)
  /\ [][Remaining' <= Remaining /\ (NextPage => Remaining' < Remaining)]_pagesVars

\* However entries come and go, a client that follows the next keys of any
\* query has at most 2 * N + 2 pages to ask for.
THEOREM ClientsComeToAnEnd == PagesSpec => PagesRunOut
<1> DEFINE Falls == Remaining' <= Remaining /\ (NextPage => Remaining' < Remaining)
<1>1. PagesInv => Remaining \in Nat
  BY NAssumption DEF PagesInv, PagesTypeOK, Remaining
<1>2. PagesInv /\ [PagesNext]_pagesVars => [Falls]_pagesVars
  <2> SUFFICES ASSUME PagesInv, PagesNext PROVE Falls
    OBVIOUS
  <2>1. Remaining \in Int
    BY <1>1
  <2>2. CASE NextPage
    <3>1. Remaining' < Remaining
      BY <2>2, PageAdvances
    <3>2. PagesInv'
      BY <2>2, NextPageInv
    <3>3. Remaining' \in Int
      BY <3>2, NAssumption DEF PagesInv, PagesTypeOK, Remaining
    <3> QED
      BY <2>1, <3>1, <3>3
  <2>3. CASE ~ NextPage
    <3>1. cursor' = cursor /\ finished' = finished
      BY <2>3 DEF PagesNext, Begin, Put, Delete
    <3>2. Remaining' = Remaining
      BY <3>1 DEF Remaining
    <3> QED
      BY <2>1, <2>3, <3>2
  <2> QED
    BY <2>2, <2>3
<1> HIDE DEF Falls
<1>3. PagesRunOut <=> [](Remaining \in Nat) /\ [][Falls]_pagesVars
  BY DEF PagesRunOut, Falls
<1> QED
  BY <1>1, <1>2, <1>3, PagesInvariance, PTL DEF PagesSpec
=============================================================================
