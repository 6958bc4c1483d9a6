--------------------------- MODULE MCPlatformFee ---------------------------
(* x/xion for TLC: two users; the mint denomination alone, or with one     *)
(* that the bank does not let users send.                                  *)
EXTENDS PlatformFee, TLC

CONSTANTS u1, u2, uxion, frozen

MCUsers == {u1, u2}
MCSymmetry == Permutations(MCUsers)
OneDenom == {uxion}
OneGenesis == uxion :> 3
TwoDenoms == {uxion, frozen}
TwoGenesis == (uxion :> 4) @@ (frozen :> 2)
=============================================================================
