---------------------------- MODULE MCGrantIndex ----------------------------
(* The indexer for TLC: two authz grants and a fee allowance, two values,   *)
(* blocks that change up to two of them.                                    *)
EXTENDS GrantIndex, TLC

CONSTANTS g1, g2, f1

MCKeys == <<g1, g2, f1>>
\* The values are only compared with each other.
MCSymmetry == Permutations(Values)
MCIsFeeGrant == [k \in {g1, g2, f1} |-> k = f1]
=============================================================================
