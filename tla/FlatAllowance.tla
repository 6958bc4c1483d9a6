--------------------------- MODULE FlatAllowance ---------------------------
(***************************************************************************)
(* What a fee allowance promises to the one who grants it, however it is   *)
(* nested: it is a list of limits, each with its number and behind         *)
(* restrictions. A fee is taken from the first limit of the list that can  *)
(* pay it and whose restrictions let all the messages through; a limit     *)
(* that is spent leaves the list; and all of it ends at one time, not      *)
(* before.                                                                 *)
(***************************************************************************)
EXTENDS Allowance

VARIABLES
  limits,   \* the limits and their restrictions, outermost first; none when nothing is granted
  now,
  paid      \* what each limit has paid since the grant

CanPay(entry, tx) ==
  Passed(tx.msgs, entry.scopes) # Refused /\ LeafPays(entry.leaf, tx.fee, now)

\* These limits once this one of them has paid.
Charged(entries, entry, fee) ==
  LET left == LeafCharged(entry.leaf, fee, now)
  IN (entries \ {entry}) \cup (IF LeafSpent(left) THEN {} ELSE {[entry EXCEPT !.leaf = left]})

Pay(tx) ==
  \E entry \in limits :
    /\ CanPay(entry, tx)
    /\ \A before \in limits : before.leaf.id < entry.leaf.id => ~CanPay(before, tx)
    /\ limits' = Charged(limits, entry, tx.fee)
    /\ paid' = [paid EXCEPT ![entry.leaf.id] = @ + tx.fee]
    /\ now' = now

Grant ==
  /\ limits = {}
  /\ \A l, m \in limits' : /\ l.leaf.id = m.leaf.id => l = m
                            /\ l.leaf.expiration = m.leaf.expiration
  /\ \A l \in limits' : /\ LeafValid(l.leaf)
                         /\ l.leaf.expiration # Never => l.leaf.expiration >= now
  /\ paid' = [l \in Leaves |-> 0]
  /\ now' = now

Revoke == limits' = {} /\ UNCHANGED <<now, paid>>

EndBlock ==
  /\ now' = now + 1
  /\ paid' = paid
  /\ \/ limits' = limits
     \/ /\ \A l \in limits : l.leaf.expiration # Never /\ l.leaf.expiration <= now
        /\ limits' = {}

Init == limits = {} /\ now \in Nat /\ paid = [l \in Leaves |-> 0]
Next == (\E tx \in Txs : Pay(tx)) \/ Grant \/ Revoke \/ EndBlock
Spec == Init /\ [][Next]_<<limits, now, paid>>
=============================================================================
