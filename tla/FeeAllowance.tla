---------------------------- MODULE FeeAllowance ----------------------------
(***************************************************************************)
(* The fee allowances of x/xion, types/feegrant.go: the nested ones that a *)
(* granter may give to a grantee, and what x/feegrant does with them. The  *)
(* grant of one granter to one grantee; the others are independent of it.  *)
(***************************************************************************)
EXTENDS Allowance

CONSTANTS
  Proposals,                   \* allowances that the granter may sign
  Contracts,
  maxMultiAnyAllowanceDepth,
  None,                        \* no grant, no fee paid
  Inconsistent,                \* the allowances of a list expire at different times
  MaxNesting,                  \* bound: allowances inside each other, as the codec unpacks them
  MaxTime                      \* bound: blocks

VARIABLES
  allowance,    \* the grant, or None
  expiry,       \* its entry in the queue of expirations
  now,          \* time of the block
  granted,      \* the allowance as it was granted (history)
  paid          \* what each leaf has paid since (history)

vars == <<allowance, expiry, now, granted, paid>>
-----------------------------------------------------------------------------
(***************************************************************************)
(* The allowances with up to n others inside each other. What is computed  *)
(* of an allowance by calling the same of those inside is computed level   *)
(* by level here: a definition F_Level(n, inner) is a function on the      *)
(* allowances of level n, where inner is that function on the level below. *)
(***************************************************************************)
Levels == 0..MaxNesting

Around(Inner) ==
  Leaf \cup [kind : {"authz"}, grantee : Grantees, inner : Inner]
       \cup [kind : {"contracts"}, contracts : SUBSET Contracts, inner : Inner]
       \cup [kind : {"multi"}, inner : Seq(Inner)]

Nested[n \in Levels] == IF n = 0 THEN Leaf ELSE Around(Nested[n - 1])

Allowances == Nested[MaxNesting]

Below(levels, n) == IF n = 0 THEN <<>> ELSE levels[n - 1]

Wrapped(a) == IF a.kind = "multi" THEN a.inner ELSE <<a.inner>>

\* Mutant: a list expires with its first allowance.
ExpiresAt_Level_First(n, inner) ==
  [a \in Nested[n] |-> IF a.kind = "leaf" THEN a.expiration ELSE inner[Wrapped(a)[1]]]

ExpiresAt_Level(n, inner) ==
  [a \in Nested[n] |->
    IF a.kind = "leaf" THEN a.expiration
    ELSE LET times == {inner[Wrapped(a)[i]] : i \in 1..Len(Wrapped(a))}
         IN IF times = {} THEN Never
            ELSE IF \E t \in times : times = {t} THEN CHOOSE t \in times : TRUE
            ELSE Inconsistent]

ExpiresAt_UpTo[n \in Levels] == ExpiresAt_Level(n, Below(ExpiresAt_UpTo, n))
ExpiresAt(a) == ExpiresAt_UpTo[MaxNesting][a]

\* Only a list directly inside a list counts as deeper.
Depths == 0..(maxMultiAnyAllowanceDepth + 1)

ValidateBasicDepth_Call(a, depth, expires, inner) ==
  CASE a.kind = "leaf" -> LeafValid(a)
    [] a.kind = "authz" -> inner[<<a.inner, 0>>]
    [] a.kind = "contracts" -> a.contracts # {} /\ inner[<<a.inner, 0>>]
    [] a.kind = "multi" ->
         /\ depth <= maxMultiAnyAllowanceDepth
         /\ a.inner # <<>>
         /\ \A i \in 1..Len(a.inner) : inner[<<a.inner[i], depth + 1>>]
         /\ expires[a] # Inconsistent

ValidateBasicDepth_Level(n, inner) ==
  [call \in Nested[n] \X Depths |-> ValidateBasicDepth_Call(call[1], call[2], ExpiresAt_UpTo[n], inner)]

ValidateBasicDepth[n \in Levels] == ValidateBasicDepth_Level(n, Below(ValidateBasicDepth, n))
ValidateBasic(a) == ValidateBasicDepth[MaxNesting][<<a, 0>>]

(***************************************************************************)
(* Accept: refused, or what becomes of the allowance, whether it is to be  *)
(* removed, and which leaf has paid. An allowance that refuses is not      *)
(* written back: whatever it did to its copy is lost.                      *)
(***************************************************************************)
Refusal == [ok |-> FALSE, remove |-> FALSE, allowance |-> None, leaf |-> None]

LeafAccept(leaf, fee) ==
  LET left == LeafCharged(leaf, fee, now)
  IN IF LeafPays(leaf, fee, now)
     THEN [ok |-> TRUE, remove |-> LeafSpent(left), allowance |-> left, leaf |-> leaf.id]
     ELSE Refusal

\* Mutant: the allowance inside is charged and not written back.
Rewrapped_NotSaved(a, result) ==
  IF result.ok THEN [result EXCEPT !.allowance = a] ELSE Refusal

\* The restriction a around the result of the allowance inside.
Rewrapped(a, result) ==
  IF result.ok THEN [result EXCEPT !.allowance = [a EXCEPT !.inner = result.allowance]] ELSE Refusal

Without(list, i) == SubSeq(list, 1, i - 1) \o SubSeq(list, i + 1, Len(list))

\* Mutant: the whole list goes with the first allowance that is used up.
MultiRewrapped_All(a, i, result) ==
  [result EXCEPT !.allowance = [a EXCEPT !.inner[i] = result.allowance]]

\* The list a after its allowance i has paid.
MultiRewrapped(a, i, result) ==
  LET left == IF result.remove THEN Without(a.inner, i) ELSE [a.inner EXCEPT ![i] = result.allowance]
  IN [result EXCEPT !.allowance = [a EXCEPT !.inner = left], !.remove = left = <<>>]

Accept_Call(a, msgs, fee, inner) ==
  LET sub == AllMsgTypesAuthz(a.grantee, msgs)
      accepting == {i \in 1..Len(a.inner) : inner[<<a.inner[i], msgs>>].ok}
      first == CHOOSE i \in accepting : \A j \in accepting : i <= j
  IN CASE a.kind = "leaf" -> LeafAccept(a, fee)
       [] a.kind = "authz" ->
            IF sub = Refused THEN Refusal ELSE Rewrapped(a, inner[<<a.inner, sub>>])
       [] a.kind = "contracts" ->
            IF AllMsgsValidWasmExecs(a.contracts, msgs) THEN Rewrapped(a, inner[<<a.inner, msgs>>]) ELSE Refusal
       [] a.kind = "multi" ->
            IF accepting = {} THEN Refusal ELSE MultiRewrapped(a, first, inner[<<a.inner[first], msgs>>])

Accept_Level(n, inner, fee) ==
  [call \in Nested[n] \X Msgs |-> Accept_Call(call[1], call[2], fee, inner)]

Accept_UpTo(fee) ==
  LET accept[n \in Levels] == Accept_Level(n, Below(accept, n), fee)
  IN accept

Accept(a, tx) == Accept_UpTo(tx.fee)[MaxNesting][<<a, tx.msgs>>]
-----------------------------------------------------------------------------
Init ==
  /\ allowance = None /\ expiry = None
  /\ now = 0
  /\ granted = None /\ paid = [l \in Leaves |-> 0]

\* MsgGrantAllowance: refused where there is a grant already.
GrantAllowance(a) ==
  /\ allowance = None
  /\ ValidateBasic(a)
  /\ ExpiresAt(a) # Never => ExpiresAt(a) >= now
  /\ allowance' = a /\ granted' = a
  /\ expiry' = ExpiresAt(a)
  /\ paid' = [l \in Leaves |-> 0]
  /\ UNCHANGED now

\* The fee of a transaction is taken from the grant: UseGrantedFees.
UseGrantedFees(tx) ==
  /\ allowance # None
  /\ LET result == Accept(allowance, tx)
     IN /\ result.ok
        /\ allowance' = IF result.remove THEN None ELSE result.allowance
        /\ expiry' = IF result.remove THEN None ELSE expiry
        /\ paid' = [paid EXCEPT ![result.leaf] = @ + tx.fee]
  /\ UNCHANGED <<now, granted>>

RevokeAllowance ==
  /\ allowance # None
  /\ allowance' = None /\ expiry' = None
  /\ UNCHANGED <<now, granted, paid>>

\* The end of a block removes what has expired, up to a number of grants: it
\* may not come to this one yet.
EndBlock ==
  /\ now < MaxTime
  /\ now' = now + 1
  /\ \/ UNCHANGED <<allowance, expiry>>
     \/ /\ expiry \notin {None, Never}
        /\ expiry <= now
        /\ allowance' = None /\ expiry' = None
  /\ UNCHANGED <<granted, paid>>

Next ==
  \/ \E a \in Proposals : GrantAllowance(a)
  \/ \E tx \in Txs : UseGrantedFees(tx)
  \/ RevokeAllowance
  \/ EndBlock

Spec == Init /\ [][Next]_vars
-----------------------------------------------------------------------------
(***************************************************************************)
(* The leaves of an allowance, each with the restrictions around it.       *)
(***************************************************************************)
Scope == [kind : {"authz"}, grantee : Grantees] \cup [kind : {"contracts"}, contracts : SUBSET Contracts]

Restricted(scope, entry) == [leaf |-> entry.leaf, scopes |-> <<scope>> \o entry.scopes]
Behind(scope, entries) == {Restricted(scope, entry) : entry \in entries}

Entries_Level(n, inner) ==
  [a \in Nested[n] |->
    CASE a.kind = "leaf" -> {[leaf |-> a, scopes |-> <<>>]}
      [] a.kind = "authz" -> Behind([kind |-> "authz", grantee |-> a.grantee], inner[a.inner])
      [] a.kind = "contracts" -> Behind([kind |-> "contracts", contracts |-> a.contracts], inner[a.inner])
      [] a.kind = "multi" -> UNION {inner[a.inner[i]] : i \in 1..Len(a.inner)}]

Entries_UpTo[n \in Levels] == Entries_Level(n, Below(Entries_UpTo, n))
Entries(a) == Entries_UpTo[MaxNesting][a]

LeavesOf(a) == {entry.leaf : entry \in Entries(a)}

\* The leaves of a list are numbered in its order.
Numbered_Level(n, inner) ==
  [a \in Nested[n] |->
    a.kind # "leaf" =>
      /\ \A i \in 1..Len(Wrapped(a)) : inner[Wrapped(a)[i]]
      /\ \A i, j \in 1..Len(Wrapped(a)) : i < j =>
           \A l \in Entries_UpTo[n - 1][Wrapped(a)[i]], m \in Entries_UpTo[n - 1][Wrapped(a)[j]] :
             l.leaf.id < m.leaf.id]

Numbered_UpTo[n \in Levels] == Numbered_Level(n, Below(Numbered_UpTo, n))
Numbered(a) == Numbered_UpTo[MaxNesting][a]

ASSUME AllowanceAssumption ==
  /\ MaxNesting \in Nat /\ MaxTime \in Nat /\ maxMultiAnyAllowanceDepth \in Nat
  /\ Inconsistent \notin Int \cup {Never}
  /\ None \notin Allowances \cup Int \cup {Never}
  /\ \A a \in Proposals : a \in Allowances /\ Numbered(a)

Flat == INSTANCE FlatAllowance WITH limits <- IF allowance = None THEN {} ELSE Entries(allowance)

\* A nested allowance is to its granter the list of its leaves: each fee is
\* taken from the first leaf that can pay and whose restrictions all admit the
\* messages, only that leaf changes, and the grant ends with its last leaf or at
\* the time of all of them (Accept, ExpiresAt).
RefinesFlat == Flat!Spec

\* Everything a stored grant holds would be accepted from the granter again:
\* no empty list, no limit of zero, one expiration (Accept against ValidateBasic).
TypeOK ==
  /\ allowance # None => ValidateBasic(allowance)
  /\ now \in 0..MaxTime
  /\ paid \in [Leaves -> Nat]

\* What a leaf has paid and what is left of it are together what was granted,
\* also after leaves before it in a list have been removed; a leaf that has
\* left the list has paid all it had. MultiAnyAllowance.Accept.
NothingLost ==
  granted # None =>
    \A g \in LeavesOf(granted) : g.limit # Unlimited =>
      /\ paid[g.id] <= g.limit
      /\ allowance # None =>
           \/ \E l \in LeavesOf(allowance) : l.id = g.id /\ l.limit + paid[g.id] = g.limit
           \/ paid[g.id] = g.limit /\ \A l \in LeavesOf(allowance) : l.id # g.id

\* The queue entry made when the grant was stored is right for it as long as it
\* stands, whatever has been removed from it (MultiAnyAllowance.ExpiresAt).
ExpiryKept == allowance # None => \A l \in LeavesOf(allowance) : l.expiration = expiry
=============================================================================
