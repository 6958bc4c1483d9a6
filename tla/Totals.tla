------------------------------- MODULE Totals -------------------------------
(***************************************************************************)
(* Totals of sequences of numbers, as the loops of the code compute them.  *)
(***************************************************************************)
EXTENDS Integers, Sequences

\* The running totals of a sequence of numbers, and its total.
RunningTotal(s) ==
  LET sum[i \in 0..Len(s)] == IF i = 0 THEN 0 ELSE sum[i-1] + s[i]
  IN  sum

Total(s) == RunningTotal(s)[Len(s)]
=============================================================================
