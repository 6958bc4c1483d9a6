------------------------------- MODULE Store -------------------------------
(***************************************************************************)
(* A key-value store of the chain (collections.Map, or a prefix of the     *)
(* KVStore): a function whose domain is the set of keys that are present.  *)
(***************************************************************************)

EmptyStore == [k \in {} |-> k]

\* Set: a key that is present is overwritten.
Put(s, k, v) == [x \in DOMAIN s \cup {k} |-> IF x = k THEN v ELSE s[x]]

\* Remove: a key that is absent is no error.
Drop(s, k) == [x \in DOMAIN s \ {k} |-> s[x]]

\* Remove of every key of a set.
DropAll(s, ks) == [x \in DOMAIN s \ ks |-> s[x]]

Has(s, k) == k \in DOMAIN s
=============================================================================
