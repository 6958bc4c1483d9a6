----------------------------- MODULE MCFeeGate -----------------------------
(* x/globalfee for TLC: two denominations, a kind of message that may be a  *)
(* bypass message and one that may be too, prices in halves of a coin so    *)
(* that the round-up shows, and fees below, at and above what they ask.     *)
EXTENDS FeeGate, TLC

CONSTANTS send, exec

P(a, b) == [d \in Denoms |-> IF d = BondDenom THEN a ELSE b]
Only(d, a) == [x \in {d} |-> a]
Other == CHOOSE d \in Denoms : d # BondDenom

Tx(msgs, gas, a, b) == [msgs |-> msgs, gas |-> gas, fee |-> P(a, b)]
MCTxs ==
  {Tx({send}, 1, 0, 0), Tx({send}, 3, 0, 0), Tx({send}, 1, 1, 0), Tx({send}, 1, 0, 1),
   Tx({send, exec}, 1, 0, 0), Tx({exec}, 3, 1, 0), Tx({exec}, 3, 2, 0), Tx({exec}, 3, 0, 2)}

MCPriceInputs == {NoPrices, Only(BondDenom, 1), Only(BondDenom, 2), P(0, 1)}
MCLocalInputs == {NoPrices, Only(BondDenom, 1), Only(Other, 1)}
MCBypassInputs == {{send}, {send, exec}}
MCGasInputs == {1, 3}
MCDefaultBypass == {send}

NodeSymmetry == Permutations(Nodes)
=============================================================================
