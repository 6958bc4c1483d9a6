----------------------------- MODULE GrantIndex -----------------------------
(***************************************************************************)
(* The indexer: a database of a node, outside of consensus, that mirrors   *)
(* the authz grants and the fee allowances of the chain. After a block is  *)
(* committed ListenCommit applies its change set, write by write. A write  *)
(* is not synced and reaches the disk some time later, or when the         *)
(* database is closed: a crash loses what was not applied and the last of  *)
(* what was, since a committed block is not replayed.                      *)
(***************************************************************************)
EXTENDS Integers, Sequences, FiniteSets

CONSTANTS
  Keys,          \* granter, grantee and kind of message: a sequence, in the order of the stores
  IsFeeGrant,    \* [ToSet(Keys) -> BOOLEAN]: an allowance of x/feegrant, and not a grant of x/authz
  Values,        \* grants
  None,
  MaxChange,     \* bound: keys that a block changes
  MaxBlocks,     \* bound: blocks
  MaxCrashes,    \* bound: crashes and failed writes
  MaxReIndexes   \* bound: runs of re-index

Key == {Keys[i] : i \in 1..Len(Keys)}

ASSUME GrantsAssumption ==
  /\ Keys \in Seq(Key) /\ IsFeeGrant \in [Key -> BOOLEAN]
  /\ None \notin Values

\* The two indexed maps, which share the database under different prefixes.
FeeAllowances == {k \in Key : IsFeeGrant[k]}
Authorizations == Key \ FeeAllowances

VARIABLES
  chain,       \* the grants in the committed state
  primary,     \* the grants in the database of the indexer
  refs,        \* its references by grantee
  disk,        \* the two as a crash would leave them
  pending,     \* the change set (or re-index): the value of each key that is not applied yet
  todo,        \* writes left of the pair that is being applied
  mode,        \* "up", "down", or "reindex" while that command runs
  enabled,     \* indexer.enabled in the configuration of the running node
  query,       \* a query for the grants of the grantee that is being answered, or None
  missed,      \* keys of which a change was lost (history)
  reindexed,   \* re-index has run to its end and nothing was lost since (history)
  blocks, crashes, reindexes

db == <<primary, refs>>
bounds == <<blocks, crashes, reindexes>>
vars == <<chain, db, disk, pending, todo, mode, enabled, query, missed, reindexed, bounds>>

\* Pairs of keys and values, which are taken in the order of the stores.
Pairs(keys, value) == [k \in keys |-> value[k]]

First(keys) ==
  Keys[CHOOSE i \in 1..Len(Keys) : Keys[i] \in keys /\ \A j \in 1..(i - 1) : Keys[j] \notin keys]

KeysOf(seq) == {seq[i].key : i \in 1..Len(seq)}
-----------------------------------------------------------------------------
(***************************************************************************)
(* The writes of the indexed maps. The authz map takes the old reference   *)
(* away before it writes the new one.                                      *)
(***************************************************************************)
W(op, k, v) == [op |-> op, key |-> k, value |-> v]

SetGrant(k, v) ==
  IF primary[k] # None
  THEN <<W("unref", k, None), W("ref", k, None), W("put", k, v)>>
  ELSE <<W("ref", k, None), W("put", k, v)>>

SetAllowance(k, v) == <<W("ref", k, None), W("put", k, v)>>

Remove(k) == <<W("unref", k, None), W("put", k, None)>>

\* A deletion of what is not in the index is no error.
SafeAuthzHandlerUpdate(pair) ==
  IF pair.value # None THEN SetGrant(pair.key, pair.value)
  ELSE IF primary[pair.key] = None THEN <<>>
  ELSE Remove(pair.key)

SafeFeeGrantHandlerUpdate(pair) ==
  IF pair.value # None THEN SetAllowance(pair.key, pair.value)
  ELSE IF primary[pair.key] = None THEN <<>>
  ELSE Remove(pair.key)

\* Mutant: a deletion is taken for an update of no value.
HandleUpdate_Delete(pair) ==
  CASE pair.value = None -> <<>>
    [] pair.value # None /\ pair.key \in Authorizations -> SafeAuthzHandlerUpdate(pair)
    [] pair.value # None /\ pair.key \in FeeAllowances -> SafeFeeGrantHandlerUpdate(pair)

HandleUpdate(pair) ==
  CASE pair.key \in Authorizations -> SafeAuthzHandlerUpdate(pair)
    [] pair.key \in FeeAllowances -> SafeFeeGrantHandlerUpdate(pair)
-----------------------------------------------------------------------------
(***************************************************************************)
(* What the queriers find: a grant by its key, None when it is not there,  *)
(* and those of a grantee by the references, each of which must lead to a  *)
(* grant or the whole answer is an error.                                  *)
(***************************************************************************)
Allowance(k) == primary[k]
GranteeAnswers(keys) == \A k \in keys \cap refs : Allowance(k) # None
-----------------------------------------------------------------------------
Init ==
  /\ chain = [k \in Key |-> None]
  /\ primary = [k \in Key |-> None] /\ refs = {}
  /\ disk = [primary |-> primary, refs |-> refs]
  /\ pending = Pairs({}, chain) /\ todo = <<>>
  /\ mode = "up" /\ enabled \in BOOLEAN /\ query = None
  /\ missed = {} /\ reindexed = FALSE
  /\ blocks = 0 /\ crashes = 0 /\ reindexes = 0

InHand == DOMAIN pending \cup KeysOf(todo)

Idle == DOMAIN pending = {} /\ todo = <<>>

\* A block is executed and committed: it sets some keys and deletes some, of
\* which some may not be there (set and deleted within the block).
Commit(changes) ==
  /\ mode = "up" /\ Idle
  /\ blocks < MaxBlocks
  /\ chain' = [k \in Key |-> IF k \in DOMAIN changes THEN changes[k] ELSE chain[k]]
  /\ pending' = Pairs(IF enabled THEN DOMAIN changes ELSE {}, changes)
  /\ missed' = IF enabled THEN missed ELSE missed \cup DOMAIN changes
  /\ reindexed' = (reindexed /\ enabled)
  /\ blocks' = blocks + 1
  /\ query' = IF query = None THEN None
              ELSE [query EXCEPT !.touched = @ \cup (DOMAIN changes \cap Authorizations)]
  /\ UNCHANGED <<db, disk, todo, mode, enabled, crashes, reindexes>>

\* ListenCommit (and re-index) takes the next pair.
ListenCommit ==
  /\ todo = <<>> /\ DOMAIN pending # {}
  /\ LET k == First(DOMAIN pending)
     IN /\ todo' = HandleUpdate([key |-> k, value |-> pending[k]])
        /\ pending' = Pairs(DOMAIN pending \ {k}, pending)
  /\ UNCHANGED <<chain, db, disk, mode, enabled, query, missed, reindexed, bounds>>

\* One write, which queries see at once and the disk has later.
Write ==
  /\ todo # <<>>
  /\ LET w == Head(todo)
     IN /\ primary' = IF w.op = "put" THEN [primary EXCEPT ![w.key] = w.value] ELSE primary
        /\ refs' = CASE w.op = "ref" -> refs \cup {w.key}
                     [] w.op = "unref" -> refs \ {w.key}
                     [] w.op = "put" -> refs
        /\ missed' = IF Len(todo) = 1 THEN missed \ {w.key} ELSE missed
  /\ todo' = Tail(todo)
  /\ UNCHANGED <<chain, disk, pending, mode, enabled, query, reindexed, bounds>>

\* A write fails. The listener logs it and goes on with the next pair; re-index
\* gives up the grants of that kind.
WriteFails ==
  /\ todo # <<>>
  /\ crashes < MaxCrashes /\ crashes' = crashes + 1
  /\ todo' = <<>>
  /\ pending' = IF mode = "reindex"
                THEN Pairs({k \in DOMAIN pending : IsFeeGrant[k] # IsFeeGrant[Head(todo).key]}, pending)
                ELSE pending
  /\ missed' = missed \cup KeysOf(todo)
  /\ reindexed' = FALSE
  /\ UNCHANGED <<chain, db, disk, mode, enabled, query, blocks, reindexes>>

\* The database hands what was written to the disk, in the order of the writes
\* and at a time of its own.
Flush ==
  /\ disk' = [primary |-> primary, refs |-> refs]
  /\ UNCHANGED <<chain, db, pending, todo, mode, enabled, query, missed, reindexed, bounds>>

\* Keys whose last writes are not on the disk.
Unsaved ==
  {k \in Key : disk.primary[k] # primary[k] \/ ~ (k \in disk.refs <=> k \in refs)}

\* The process dies, and what is not on the disk is gone.
Crash ==
  /\ mode # "down"
  /\ crashes < MaxCrashes /\ crashes' = crashes + 1
  /\ mode' = "down"
  /\ pending' = Pairs({}, pending) /\ todo' = <<>> /\ query' = None
  /\ primary' = disk.primary /\ refs' = disk.refs
  /\ missed' = missed \cup InHand \cup Unsaved
  /\ reindexed' = (reindexed /\ Idle /\ Unsaved = {})
  /\ UNCHANGED <<chain, disk, enabled, blocks, reindexes>>

\* The node is stopped between two blocks, and closes the database.
Close ==
  /\ mode = "up" /\ Idle
  /\ mode' = "down" /\ query' = None
  /\ disk' = [primary |-> primary, refs |-> refs]
  /\ UNCHANGED <<chain, db, pending, todo, enabled, missed, reindexed, bounds>>

Start ==
  /\ mode = "down"
  /\ mode' = "up" /\ enabled' \in BOOLEAN
  /\ UNCHANGED <<chain, db, disk, pending, todo, query, missed, reindexed, bounds>>

\* The command re-index: every grant of the chain is set once more.
ReIndex ==
  /\ mode = "down"
  /\ reindexes < MaxReIndexes /\ reindexes' = reindexes + 1
  /\ mode' = "reindex"
  /\ pending' = Pairs({k \in Key : chain[k] # None}, chain)
  /\ reindexed' = TRUE
  /\ UNCHANGED <<chain, db, disk, todo, enabled, query, missed, blocks, crashes>>

\* Mutant: the database is not closed, and the process ends all the same.
ReIndexEnds_NotClosed ==
  /\ mode = "reindex" /\ Idle
  /\ mode' = "down"
  /\ primary' = disk.primary /\ refs' = disk.refs
  /\ UNCHANGED <<chain, disk, pending, todo, enabled, query, missed, reindexed, bounds>>

\* The command closes the database at its end.
ReIndexEnds ==
  /\ mode = "reindex" /\ Idle
  /\ mode' = "down"
  /\ disk' = [primary |-> primary, refs |-> refs]
  /\ UNCHANGED <<chain, db, pending, todo, enabled, query, missed, reindexed, bounds>>

\* A client asks for the grants of the grantee. The iterator is a snapshot of the
\* references. touched is history: the grants that were or came to be in motion.
GranteeGrants ==
  /\ mode = "up" /\ query = None
  /\ query' = [left |-> refs \cap Authorizations, failed |-> None,
                got |-> [k \in Authorizations |-> None],
                touched |-> (missed \cup InHand) \cap Authorizations]
  /\ UNCHANGED <<chain, db, disk, pending, todo, mode, enabled, missed, reindexed, bounds>>

\* Mutant: a reference whose grant is gone ends the list instead of the query.
ReadGrant_Ends ==
  /\ query # None /\ query.left # {} /\ query.failed = None
  /\ LET k == First(query.left)
     IN query' = IF Allowance(k) = None
                 THEN [query EXCEPT !.left = {}]
                 ELSE [query EXCEPT !.got[k] = Allowance(k), !.left = @ \ {k}]
  /\ UNCHANGED <<chain, db, disk, pending, todo, mode, enabled, missed, reindexed, bounds>>

\* The grant of the next reference is read from the database as it is now, and one
\* that is not found ends the query.
ReadGrant ==
  /\ query # None /\ query.left # {} /\ query.failed = None
  /\ LET k == First(query.left)
     IN query' = IF Allowance(k) = None
                 THEN [query EXCEPT !.failed = k]
                 ELSE [query EXCEPT !.got[k] = Allowance(k), !.left = @ \ {k}]
  /\ UNCHANGED <<chain, db, disk, pending, todo, mode, enabled, missed, reindexed, bounds>>

Answer ==
  /\ query # None /\ (query.left = {} \/ query.failed # None)
  /\ query' = None
  /\ UNCHANGED <<chain, db, disk, pending, todo, mode, enabled, missed, reindexed, bounds>>

Changes ==
  UNION {[keys -> Values \cup {None}] : keys \in {ks \in SUBSET Key : Cardinality(ks) \in 1..MaxChange}}

Next ==
  \/ \E changes \in Changes : Commit(changes)
  \/ ListenCommit \/ Write \/ WriteFails
  \/ Flush \/ Crash \/ Close \/ Start
  \/ ReIndex \/ ReIndexEnds
  \/ GranteeGrants \/ ReadGrant \/ Answer

Spec == Init /\ [][Next]_vars
-----------------------------------------------------------------------------
\* The state of the node, of its database and of the work in hand.
TypeOK ==
  /\ chain \in [Key -> Values \cup {None}] /\ primary \in [Key -> Values \cup {None}]
  /\ refs \subseteq Key /\ missed \subseteq Key
  /\ disk \in [primary : [Key -> Values \cup {None}], refs : SUBSET Key]
  /\ DOMAIN pending \subseteq Key /\ KeysOf(todo) \subseteq Key
  /\ mode \in {"up", "down", "reindex"} /\ enabled \in BOOLEAN /\ reindexed \in BOOLEAN
  /\ mode = "down" => Idle

Served(k) == Allowance(k) = chain[k] /\ k \in refs

\* The index holds what the chain holds, under the granter and under the
\* grantee, for every grant of which no change was lost or is still in hand;
\* and a later change that is applied in full makes good what was lost before
\* (safe_handlers.go:17-158).
Mirrors ==
  \A k \in Key \ (missed \cup InHand) :
    IF chain[k] = None THEN primary[k] = None /\ k \notin refs ELSE Served(k)

\* Whatever crashes and failed writes have left in the database, re-index makes
\* it serve every grant of the chain, and it goes on to as long as no further
\* change is lost (client/cli/indexer.go:84-125).
ReIndexServes ==
  reindexed => \A k \in Key \ InHand : chain[k] # None => Served(k)

\* A query that reads references and grants at different times while blocks come in
\* returns every grant of the grantee that nothing touched meanwhile as the chain has
\* it, none that the chain does not have, and fails only at one that is in motion or
\* was lost before (authz_querier.go:286-375).
QueryTruthful ==
  query # None =>
    /\ query.failed # None => query.failed \in query.touched
    /\ \A k \in Authorizations \ (query.touched \cup query.left) : query.got[k] = chain[k]

\* After re-index the query for a grantee answers. It need not: a crash between
\* the reference and the grant leaves a reference that nothing removes once the
\* grant is revoked, since a deletion of what is not in the index is skipped and
\* re-index only sets (safe_handlers.go:36-52, feegrant_querier.go:128-131).
GranteeServed ==
  reindexed /\ Idle => GranteeAnswers(Key)
=============================================================================
