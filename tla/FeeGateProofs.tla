--------------------------- MODULE FeeGateProofs ---------------------------
(***************************************************************************)
(* What x/globalfee keeps for any number of nodes, denominations and       *)
(* transactions, and whatever prices and lists governance sets.            *)
(***************************************************************************)
EXTENDS FeeGate, TLAPS

\* Every transaction that waits would be admitted again by its node now.
Checked == \A n \in Nodes : \A tx \in mempool[n] : Admits(n, tx)

Inv == TypeOK /\ Checked
-----------------------------------------------------------------------------
\* Rounding up to whole coins never asks for less than the price, and asks
\* for nothing where the price is nothing.
LEMMA RoundedUp ==
  ASSUME NEW q \in Nat, NEW u \in Nat \ {0}
  PROVE  /\ (q + u - 1) \div u \in Nat
         /\ ((q + u - 1) \div u) * u >= q
         /\ q = 0 => (q + u - 1) \div u = 0
OBVIOUS

\* A product grows with its first factor.
LEMMA ProductGrows ==
  ASSUME NEW x \in Nat, NEW y \in Nat, NEW z \in Nat, x <= y
  PROVE  x * z \in Nat /\ y * z \in Nat /\ x * z <= y * z
OBVIOUS

\* A price is a natural number, zero where there is none.
LEMMA AmountType ==
  ASSUME NEW prices, IsPrices(prices), NEW d
  PROVE  AmountOf(prices, d) \in Nat
BY DEF IsPrices, AmountOf

\* The prices of the chain and of the nodes are prices.
LEMMA PricesType ==
  ASSUME TypeOK, NEW n \in Nodes
  PROVE  IsPrices(GetGlobalFee) /\ IsPrices(local[n]) /\ IsPrices(GetMinGasPrice(local[n]))
<1>1. IsPrices(local[n])
  BY ParamsAssumption DEF TypeOK
<1>2. IsPrices(NoPrices)
  BY DEF IsPrices, NoPrices
<1>3. IsPrices([d \in {BondDenom} |-> 0])
  BY DenomAssumption DEF IsPrices
<1> QED
  BY <1>1, <1>2, <1>3, ParamsAssumption DEF TypeOK, GetGlobalFee, GetMinGasPrice

\* Prices that are all zero are no prices: what GetMinGasPrice drops asks
\* for nothing.
LEMMA MinGasPriceAmount ==
  ASSUME NEW prices, IsPrices(prices), NEW d
  PROVE  /\ AmountOf(GetMinGasPrice(prices), d) = AmountOf(prices, d)
         /\ IsZero(GetMinGasPrice(prices)) <=> IsZero(prices)
BY DEF GetMinGasPrice, AmountOf, IsZero, NoPrices, IsPrices

\* The combined prices are no lower than either and zero only where both are.
LEMMA MaxCoinsBounds ==
  ASSUME NEW a, NEW b, IsPrices(a), IsPrices(b)
  PROVE  /\ IsPrices(MaxCoins(a, b))
         /\ \A d : /\ AmountOf(MaxCoins(a, b), d) >= AmountOf(a, d)
                   /\ AmountOf(MaxCoins(a, b), d) >= AmountOf(b, d)
                   /\ AmountOf(MaxCoins(a, b), d) \in {AmountOf(a, d), AmountOf(b, d)}
         /\ IsZero(MaxCoins(a, b)) <=> IsZero(a) /\ IsZero(b)
<1> DEFINE m == MaxCoins(a, b)
<1>1. \A d : AmountOf(a, d) \in Nat /\ AmountOf(b, d) \in Nat
  BY AmountType
<1>2. DOMAIN m = DOMAIN a \cup DOMAIN b
  BY DEF MaxCoins
<1>3. \A d \in DOMAIN m : m[d] = IF AmountOf(b, d) > AmountOf(a, d)
                                 THEN AmountOf(b, d) ELSE AmountOf(a, d)
  BY DEF MaxCoins
<1>4. IsPrices(m)
  <2>1. \A d \in DOMAIN m : m[d] \in Nat
    BY <1>1, <1>3
  <2>2. m = [d \in DOMAIN m |-> m[d]]
    BY DEF MaxCoins
  <2> QED
    BY <1>2, <2>1, <2>2 DEF IsPrices
<1> HIDE DEF m
<1>5. ASSUME NEW d
      PROVE  /\ AmountOf(m, d) >= AmountOf(a, d)
             /\ AmountOf(m, d) >= AmountOf(b, d)
             /\ AmountOf(m, d) \in {AmountOf(a, d), AmountOf(b, d)}
  <2>1. CASE d \in DOMAIN m
    BY <2>1, <1>1, <1>3 DEF AmountOf
  <2>2. CASE d \notin DOMAIN m
    BY <2>2, <1>2 DEF AmountOf
  <2> QED
    BY <2>1, <2>2
<1>6. \A p : IsPrices(p) => (IsZero(p) <=> \A d : AmountOf(p, d) = 0)
  BY DEF IsZero, AmountOf
<1>7. IsZero(m) <=> IsZero(a) /\ IsZero(b)
  BY <1>1, <1>4, <1>5, <1>6
<1> QED
  BY <1>4, <1>5, <1>7 DEF m

\* A coin of the fee that is enough for the checker is worth the gas, and
\* has a price.
LEMMA CoinSuffices ==
  ASSUME NEW tx \in Txs, NEW prices, IsPrices(prices), NEW d \in DenomsOf(tx.fee),
         Required(AmountOf(prices, d), tx.gas) # 0,
         tx.fee[d] >= Required(AmountOf(prices, d), tx.gas)
  PROVE  AmountOf(prices, d) > 0 /\ Covers(tx, d, prices)
<1> DEFINE p == AmountOf(prices, d)
           r == Required(p, tx.gas)
<1>1. p \in Nat /\ tx.gas \in Nat /\ tx.fee[d] \in Nat /\ Unit \in Nat \ {0}
  BY AmountType, TxsAssumption, ParamsAssumption DEF DenomsOf
<1> HIDE DEF p
<1>2. p * tx.gas \in Nat
  BY <1>1, ProductGrows
<1>3. r \in Nat /\ r * Unit >= p * tx.gas /\ (p * tx.gas = 0 => r = 0)
  BY <1>1, <1>2, RoundedUp DEF Required
<1>4. p # 0
  <2>1. p = 0 => p * tx.gas = 0
    BY <1>1
  <2> QED
    BY <1>3, <2>1 DEF p
<1>5. r * Unit \in Nat /\ tx.fee[d] * Unit \in Nat /\ tx.fee[d] * Unit >= r * Unit
  <2>1. r <= tx.fee[d]
    BY <1>1, <1>3 DEF p
  <2> HIDE DEF r
  <2> QED
    BY <1>1, <1>3, <2>1, ProductGrows
<1>6. tx.fee[d] * Unit >= p * tx.gas
  <2> HIDE DEF r
  <2> QED
    BY <1>2, <1>3, <1>5
<1> QED
  BY <1>1, <1>4, <1>6 DEF p, Covers
-----------------------------------------------------------------------------
\* The invariant holds at the start.
LEMMA InitInv == Init => Inv
<1> SUFFICES ASSUME Init PROVE Inv
  OBVIOUS
<1>1. TypeOK
  <2>1. mempool \in [Nodes -> SUBSET Txs]
    BY DEF Init
  <2>2. version \in {1, 2}
    BY ParamsAssumption DEF Init
  <2>3. /\ BypassMinFeeMsgTypes \in BypassInputs \cup {DefaultBypass, Unset}
        /\ MaxTotalBypassMinFeeMsgGasUsage \in Nat \cup {Unset}
        /\ version = 2 => BypassMinFeeMsgTypes # Unset /\ MaxTotalBypassMinFeeMsgGasUsage # Unset
    <3>1. CASE /\ BypassMinFeeMsgTypes \in BypassInputs
               /\ MaxTotalBypassMinFeeMsgGasUsage \in GasInputs
      <4>1. GasInputs \subseteq Nat /\ Unset \notin BypassInputs /\ Unset \notin GasInputs
        BY ParamsAssumption
      <4> QED
        BY <3>1, <4>1
    <3>2. CASE /\ version = 1
               /\ BypassMinFeeMsgTypes = Unset
               /\ MaxTotalBypassMinFeeMsgGasUsage = Unset
      BY <3>2
    <3> QED
      BY <3>1, <3>2 DEF Init
  <2> QED
    BY <2>1, <2>2, <2>3 DEF Init, TypeOK
<1>2. Checked
  BY DEF Init, Checked
<1> QED
  BY <1>1, <1>2 DEF Inv

\* A recheck leaves in the mempools only what the node admits with the
\* parameters that are in force afterwards.
LEMMA RecheckChecks ==
  ASSUME NEW left \in [Nodes -> SUBSET Txs], Recheck(left)
  PROVE  mempool' \in [Nodes -> SUBSET Txs] /\ Checked'
BY DEF Recheck, Checked

\* Every step keeps the invariant: a transaction joins a mempool after a
\* check, and what changes a rule is followed by a recheck or empties the
\* mempool it concerns.
LEMMA StepInv == Inv /\ [Next]_vars => Inv'
<1> SUFFICES ASSUME Inv, [Next]_vars PROVE Inv'
  OBVIOUS
<1> USE DEF Inv
<1>1. ASSUME NEW n \in Nodes, NEW tx \in Txs, CheckTx(n, tx) PROVE Inv'
  <2>1. TypeOK'
    BY <1>1 DEF CheckTx, TypeOK, params
  <2>2. \A m \in Nodes, t \in Txs : Admits(m, t)' <=> Admits(m, t)
    BY <1>1 DEF CheckTx, params, Admits, AnteHandle, ContainsOnlyBypassMinFeeMsgs,
             GetBypassMsgTypes, BypassAccepted, GetMaxTotalBypassMinFeeMsgGasUsage,
             GetGlobalFee, FeeSuffices, PricesAfter, GetTxFeeRequired
  <2>3. \A m \in Nodes : mempool'[m] \subseteq mempool[m] \cup (IF m = n THEN {tx} ELSE {})
    BY <1>1 DEF CheckTx, TypeOK
  <2>4. \A m \in Nodes : mempool[m] \subseteq Txs
    BY DEF TypeOK
  <2>5. Checked'
    BY <1>1, <2>2, <2>3, <2>4 DEF CheckTx, Checked
  <2> QED
    BY <2>1, <2>5
<1>2. ASSUME NEW n \in Nodes, NEW tx \in Txs, DeliverTx(n, tx) PROVE Inv'
  <2>1. Without(tx) \in [Nodes -> SUBSET Txs]
    BY DEF TypeOK, Without
  <2>2. mempool' \in [Nodes -> SUBSET Txs] /\ Checked'
    BY <1>2, <2>1, RecheckChecks DEF DeliverTx
  <2> QED
    BY <1>2, <2>2 DEF DeliverTx, TypeOK, params
<1>3. CASE ChangeParam
  <2>1. mempool' \in [Nodes -> SUBSET Txs] /\ Checked'
    BY <1>3, RecheckChecks DEF ChangeParam, TypeOK
  <2> QED
    BY <1>3, <2>1, ParamsAssumption DEF ChangeParam, TypeOK
<1>4. CASE Migrate
  <2>1. mempool' \in [Nodes -> SUBSET Txs] /\ Checked'
    BY <1>4, RecheckChecks DEF Migrate, TypeOK
  <2> QED
    BY <1>4, <2>1, ParamsAssumption DEF Migrate, TypeOK
<1>5. ASSUME NEW n \in Nodes, Reconfigure(n) PROVE Inv'
  <2>1. TypeOK'
    BY <1>5 DEF Reconfigure, TypeOK, params
  <2>2. \A m \in Nodes \ {n}, t \in Txs : Admits(m, t)' <=> Admits(m, t)
    BY <1>5 DEF Reconfigure, params, Admits, AnteHandle, ContainsOnlyBypassMinFeeMsgs,
             GetBypassMsgTypes, BypassAccepted, GetMaxTotalBypassMinFeeMsgGasUsage,
             GetGlobalFee, FeeSuffices, PricesAfter, GetTxFeeRequired, TypeOK
  <2>3. \A m \in Nodes : mempool'[m] = IF m = n THEN {} ELSE mempool[m]
    BY <1>5 DEF Reconfigure, TypeOK
  <2>4. \A m \in Nodes : mempool[m] \subseteq Txs
    BY DEF TypeOK
  <2>5. Checked'
    BY <2>2, <2>3, <2>4 DEF Checked
  <2> QED
    BY <2>1, <2>5
<1>6. CASE UNCHANGED vars
  <2>1. TypeOK'
    BY <1>6 DEF vars, params, TypeOK
  <2>2. \A m \in Nodes, t \in Txs : Admits(m, t)' <=> Admits(m, t)
    BY <1>6 DEF vars, params, Admits, AnteHandle, ContainsOnlyBypassMinFeeMsgs,
             GetBypassMsgTypes, BypassAccepted, GetMaxTotalBypassMinFeeMsgGasUsage,
             GetGlobalFee, FeeSuffices, PricesAfter, GetTxFeeRequired
  <2>3. \A m \in Nodes : mempool[m] \subseteq Txs
    BY DEF TypeOK
  <2>4. Checked'
    BY <1>6, <2>2, <2>3 DEF vars, Checked
  <2> QED
    BY <2>1, <2>4
<1> QED
  BY <1>1, <1>2, <1>3, <1>4, <1>5, <1>6 DEF Next

\* The invariant of the mempools.
LEMMA Invariance == Spec => []Inv
BY InitInv, StepInv, PTL DEF Spec
-----------------------------------------------------------------------------
\* The parameters are of their types and all stored once the chain is of the
\* present version (module.go InitGenesis, MigrateStore).
THEOREM TypeCorrect == Spec => []TypeOK
<1>1. Inv => TypeOK
  BY DEF Inv
<1> QED
  BY <1>1, Invariance, PTL

\* What waits pays, whatever governance and the upgrade did after it came in
\* (GetTxFeeRequired, MaxCoins and the recheck).
THEOREM WhatWaitsPays == Spec => []MempoolPays
<1>1. Inv => MempoolPays
  <2> SUFFICES ASSUME Inv, NEW n \in Nodes, NEW tx \in mempool[n],
                      ~ (tx.msgs \subseteq GetBypassMsgTypes),
                      ~ (IsZero(local[n]) /\ IsZero(GetGlobalFee))
               PROVE  \E d \in Denoms :
                        /\ AmountOf(local[n], d) + AmountOf(GetGlobalFee, d) > 0
                        /\ Covers(tx, d, local[n]) /\ Covers(tx, d, GetGlobalFee)
    BY DEF MempoolPays
  <2> DEFINE own == local[n]
             min == GetMinGasPrice(own)
             global == GetGlobalFee
             asked == MaxCoins(min, global)
  <2>1. tx \in Txs
    BY DEF Inv, TypeOK
  <2>2. IsPrices(own) /\ IsPrices(min) /\ IsPrices(global)
    BY PricesType DEF Inv
  <2>3. FeeSuffices(tx, asked)
    BY DEF Inv, Checked, Admits, AnteHandle, PricesAfter, GetTxFeeRequired,
           ContainsOnlyBypassMinFeeMsgs
  <2> HIDE DEF own, min, global, asked
  <2>4. /\ IsPrices(asked)
        /\ \A d : /\ AmountOf(asked, d) >= AmountOf(min, d)
                  /\ AmountOf(asked, d) >= AmountOf(global, d)
                  /\ AmountOf(asked, d) \in {AmountOf(min, d), AmountOf(global, d)}
        /\ IsZero(asked) <=> IsZero(min) /\ IsZero(global)
    BY <2>2, MaxCoinsBounds DEF asked
  <2>5. /\ \A d : AmountOf(min, d) = AmountOf(own, d)
        /\ IsZero(min) <=> IsZero(own)
    BY <2>2, MinGasPriceAmount DEF min
  <2>6. ~ IsZero(asked)
    BY <2>4, <2>5 DEF own, global
  <2>7. PICK d \in DenomsOf(tx.fee) :
          /\ Required(AmountOf(asked, d), tx.gas) # 0
          /\ tx.fee[d] >= Required(AmountOf(asked, d), tx.gas)
    BY <2>3, <2>6 DEF FeeSuffices
  <2>8. AmountOf(asked, d) > 0 /\ Covers(tx, d, asked)
    BY <2>1, <2>4, <2>7, CoinSuffices
  <2>9. /\ AmountOf(own, d) \in Nat /\ AmountOf(global, d) \in Nat
        /\ AmountOf(asked, d) \in Nat
    BY <2>2, <2>4, AmountType
  <2>10. d \in Denoms /\ tx.fee[d] \in Nat /\ tx.gas \in Nat /\ Unit \in Nat
    BY <2>1, TxsAssumption, ParamsAssumption DEF DenomsOf
  <2>11. ASSUME NEW p \in Nat, p <= AmountOf(asked, d) PROVE tx.fee[d] * Unit >= p * tx.gas
    <3>1. /\ p * tx.gas \in Nat /\ AmountOf(asked, d) * tx.gas \in Nat
          /\ p * tx.gas <= AmountOf(asked, d) * tx.gas
      BY <2>9, <2>10, <2>11, ProductGrows
    <3>2. tx.fee[d] * Unit >= AmountOf(asked, d) * tx.gas
      BY <2>8 DEF Covers
    <3>3. tx.fee[d] * Unit \in Nat
      BY <2>10
    <3> QED
      BY <3>1, <3>2, <3>3
  <2>12. AmountOf(own, d) + AmountOf(global, d) > 0
    BY <2>4, <2>5, <2>8, <2>9
  <2>13. Covers(tx, d, own) /\ Covers(tx, d, global)
    BY <2>4, <2>5, <2>9, <2>11 DEF Covers
  <2> QED
    BY <2>10, <2>12, <2>13 DEF own, global
<1> QED
  BY <1>1, Invariance, PTL

\* Free are the bypass messages within their gas limit and nothing else
\* (AnteHandle).
THEOREM OnlyBypassIsFree == Spec => []FreeExactlyBypass
<1>1. Inv => FreeExactlyBypass
  <2> SUFFICES ASSUME Inv, NEW n \in Nodes
               PROVE  /\ \A tx \in Txs : FreeOfCharge(tx) /\ DenomsOf(tx.fee) = {} => Admits(n, tx)
                      /\ \A tx \in mempool[n] :
                           /\ DenomsOf(tx.fee) = {}
                           /\ ~(IsZero(local[n]) /\ IsZero(GetGlobalFee))
                           => FreeOfCharge(tx)
    BY DEF FreeExactlyBypass
  <2>1. IsZero(NoPrices)
    BY DEF IsZero, NoPrices
  <2>2. ASSUME NEW tx \in Txs, FreeOfCharge(tx), DenomsOf(tx.fee) = {} PROVE Admits(n, tx)
    BY <2>1, <2>2 DEF FreeOfCharge, Admits, AnteHandle, ContainsOnlyBypassMinFeeMsgs,
                      BypassAccepted, PricesAfter, FeeSuffices
  <2>3. ASSUME NEW tx \in mempool[n], DenomsOf(tx.fee) = {},
               ~(IsZero(local[n]) /\ IsZero(GetGlobalFee))
        PROVE  FreeOfCharge(tx)
    <3>1. Admits(n, tx)
      BY DEF Inv, Checked
    <3>2. ~ IsZero(MaxCoins(GetMinGasPrice(local[n]), GetGlobalFee))
      BY <2>3, PricesType, MaxCoinsBounds, MinGasPriceAmount DEF Inv
    <3>3. ContainsOnlyBypassMinFeeMsgs(tx)
      BY <2>3, <3>1, <3>2 DEF Admits, AnteHandle, PricesAfter, GetTxFeeRequired, FeeSuffices
    <3> QED
      BY <3>1, <3>3 DEF FreeOfCharge, Admits, AnteHandle, ContainsOnlyBypassMinFeeMsgs,
                        BypassAccepted
  <2> QED
    BY <2>2, <2>3
<1> QED
  BY <1>1, Invariance, PTL

\* What waits is not refused when it is executed (AnteHandle in DeliverTx).
THEOREM WhatWaitsExecutes == Spec => []WaitingExecutes
<1>1. Inv => WaitingExecutes
  BY DEF Inv, Checked, WaitingExecutes, Admits, Executes, AnteHandle
<1> QED
  BY <1>1, Invariance, PTL
=============================================================================
