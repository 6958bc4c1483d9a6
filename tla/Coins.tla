------------------------------- MODULE Coins -------------------------------
(***************************************************************************)
(* sdk.Coins as the code of this repository uses it: a sorted list of      *)
(* positive amounts, one per denomination, is the function that gives      *)
(* every denomination its amount, 0 where the list has no entry.           *)
(***************************************************************************)
EXTENDS Totals

CONSTANT Denoms

Coins == [Denoms -> Nat]

ZeroCoins == [d \in Denoms |-> 0]

\* Coins.Add, Coins.Sub and Coins.IsAllGTE
Plus(a, b) == [d \in Denoms |-> a[d] + b[d]]
Minus(a, b) == [d \in Denoms |-> a[d] - b[d]]
Covers(a, b) == \A d \in Denoms : a[d] >= b[d]

\* The total of a sequence of Coins.
TotalCoins(cs) == [d \in Denoms |-> Total([i \in 1..Len(cs) |-> cs[i][d]])]
=============================================================================
