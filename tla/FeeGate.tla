------------------------------ MODULE FeeGate ------------------------------
(***************************************************************************)
(* Module x/globalfee: the decorator that decides what a transaction has   *)
(* to pay for its gas. The chain has minimum gas prices, each node its own *)
(* on top; transactions of some kinds of message pay none of them up to a  *)
(* limit of gas. The decorator only writes prices into the context: the    *)
(* fee checker of the SDK compares the fee with them, and does so in       *)
(* CheckTx alone.                                                          *)
(***************************************************************************)
EXTENDS Integers

CONSTANTS
  Nodes,             \* nodes, each with a mempool
  Denoms,
  BondDenom,         \* the denomination of the staking module
  Unit,              \* prices are in 1/Unit of a coin for each unit of gas
  Txs,               \* transactions: kinds of message, gas, fee
  PriceInputs,       \* minimum gas prices that a genesis file or a proposal may hold
  LocalInputs,       \* minimum gas prices in the configuration of a node
  BypassInputs,      \* lists of bypass messages
  GasInputs,         \* gas limits of bypass transactions
  DefaultBypass,
  DefaultMaxGas,
  Unset,             \* a parameter that was never stored
  Versions           \* versions of the module the chain may start at

\* Prices: some denominations, each with an amount that may be zero.
IsPrices(prices) == DOMAIN prices \subseteq Denoms /\ prices \in [DOMAIN prices -> Nat]

ASSUME DenomAssumption == BondDenom \in Denoms
ASSUME TxsAssumption ==
  \A tx \in Txs : tx.msgs # {} /\ tx.gas \in Nat /\ tx.fee \in [Denoms -> Nat]
ASSUME ParamsAssumption ==
  /\ Unit \in Nat \ {0}
  /\ \A prices \in PriceInputs \cup LocalInputs : IsPrices(prices)
  /\ \A prices \in LocalInputs : \A d \in DOMAIN prices : prices[d] > 0
  /\ GasInputs \subseteq Nat /\ DefaultMaxGas \in Nat
  /\ Unset \notin PriceInputs /\ Unset \notin BypassInputs /\ Unset \notin GasInputs
  /\ Unset # DefaultBypass /\ Unset # DefaultMaxGas
  /\ Versions \subseteq {1, 2}

VARIABLES
  MinimumGasPrices,                 \* parameters, or Unset
  BypassMinFeeMsgTypes,
  MaxTotalBypassMinFeeMsgGasUsage,
  version,                          \* consensus version of the module
  local,                            \* the prices each node is configured with
  mempool                           \* the transactions each node has admitted

params == <<MinimumGasPrices, BypassMinFeeMsgTypes, MaxTotalBypassMinFeeMsgGasUsage>>
vars == <<params, version, local, mempool>>
-----------------------------------------------------------------------------
(***************************************************************************)
(* Prices.                                                                 *)
(***************************************************************************)
IsZero(prices) == \A d \in DOMAIN prices : prices[d] = 0
AmountOf(prices, d) == IF d \in DOMAIN prices THEN prices[d] ELSE 0
NoPrices == [d \in {} |-> 0]

\* Mutant: the node's price wins where there is one.
MaxCoins_First(a, b) ==
  [d \in DOMAIN a \cup DOMAIN b |-> IF d \in DOMAIN a THEN a[d] ELSE b[d]]

MaxCoins(a, b) ==
  [d \in DOMAIN a \cup DOMAIN b |->
     IF AmountOf(b, d) > AmountOf(a, d) THEN AmountOf(b, d) ELSE AmountOf(a, d)]

\* No prices at all stand for a price of zero in the bond denomination.
GetGlobalFee ==
  IF MinimumGasPrices \in {Unset, NoPrices} THEN [d \in {BondDenom} |-> 0] ELSE MinimumGasPrices

GetBypassMsgTypes == IF BypassMinFeeMsgTypes = Unset THEN {} ELSE BypassMinFeeMsgTypes

GetMaxTotalBypassMinFeeMsgGasUsage ==
  IF MaxTotalBypassMinFeeMsgGasUsage = Unset THEN DefaultMaxGas ELSE MaxTotalBypassMinFeeMsgGasUsage

GetMinGasPrice(prices) == IF IsZero(prices) THEN NoPrices ELSE prices
-----------------------------------------------------------------------------
(***************************************************************************)
(* The decorator. The context of CheckTx holds the node's prices, that of  *)
(* DeliverTx none.                                                         *)
(***************************************************************************)
DenomsOf(fee) == {d \in Denoms : fee[d] > 0}

ContainsOnlyBypassMinFeeMsgs(tx) == tx.msgs \subseteq GetBypassMsgTypes

\* Mutant: the gas of a bypass transaction has no limit.
BypassAccepted_AnyGas(tx) ==
  DenomsOf(tx.fee) = {} \/ IsZero(GetGlobalFee) \/ DenomsOf(tx.fee) \subseteq DOMAIN GetGlobalFee

BypassAccepted(tx) ==
  /\ tx.gas <= GetMaxTotalBypassMinFeeMsgGasUsage
  /\ \/ DenomsOf(tx.fee) = {}
     \/ IsZero(GetGlobalFee)
     \/ DenomsOf(tx.fee) \subseteq DOMAIN GetGlobalFee

GetTxFeeRequired(ctx, check) ==
  IF check THEN MaxCoins(GetMinGasPrice(ctx), GetGlobalFee) ELSE GetGlobalFee

\* The prices that the decorator hands to the ones that follow.
PricesAfter(tx, ctx, check) ==
  IF ContainsOnlyBypassMinFeeMsgs(tx)
  THEN IF DenomsOf(tx.fee) = {} THEN NoPrices ELSE ctx
  ELSE GetTxFeeRequired(ctx, check)

\* The fee checker of the SDK: some coin of the fee is at least what its
\* price, if it has one, asks for the gas.
Required(price, gas) == (price * gas + Unit - 1) \div Unit
FeeSuffices(tx, prices) ==
  \/ IsZero(prices)
  \/ \E d \in DenomsOf(tx.fee) :
       /\ Required(AmountOf(prices, d), tx.gas) # 0
       /\ tx.fee[d] >= Required(AmountOf(prices, d), tx.gas)

\* Mutant: bypass transactions are looked at in DeliverTx alone.
AnteHandle_BypassInDeliver(tx, ctx, check) ==
  /\ ContainsOnlyBypassMinFeeMsgs(tx) /\ ~check => BypassAccepted(tx)
  /\ check => FeeSuffices(tx, PricesAfter(tx, ctx, check))

AnteHandle(tx, ctx, check) ==
  /\ ContainsOnlyBypassMinFeeMsgs(tx) => BypassAccepted(tx)
  /\ check => FeeSuffices(tx, PricesAfter(tx, ctx, check))

Admits(n, tx) == AnteHandle(tx, local[n], TRUE)
Executes(tx) == AnteHandle(tx, NoPrices, FALSE)
-----------------------------------------------------------------------------
Init ==
  /\ version \in Versions
  /\ MinimumGasPrices \in PriceInputs
  /\ \/ /\ version = 2
        /\ BypassMinFeeMsgTypes \in BypassInputs
        /\ MaxTotalBypassMinFeeMsgGasUsage \in GasInputs
     \/ /\ version = 1
        /\ BypassMinFeeMsgTypes = Unset
        /\ MaxTotalBypassMinFeeMsgGasUsage = Unset
  /\ local \in [Nodes -> LocalInputs]
  /\ mempool = [n \in Nodes |-> {}]

\* A client or another node sends a transaction.
CheckTx(n, tx) ==
  /\ Admits(n, tx)
  /\ mempool' = [mempool EXCEPT ![n] = @ \cup {tx}]
  /\ UNCHANGED <<params, version, local>>

\* After every block the nodes check again what is left in their mempools,
\* with the parameters that the block has set.
Recheck(left) == mempool' = [n \in Nodes |-> {tx \in left[n] : Admits(n, tx)'}]

Without(tx) == [n \in Nodes |-> mempool[n] \ {tx}]

\* A node proposes a block with a transaction of its mempool; executed or
\* refused there, it leaves every mempool.
DeliverTx(n, tx) ==
  /\ tx \in mempool[n]
  /\ UNCHANGED <<params, version, local>>
  /\ Recheck(Without(tx))

\* A parameter proposal passes: it changes one parameter, whose value the
\* key table validates.
ChangeParam ==
  /\ version = 2
  /\ \/ /\ MinimumGasPrices' \in PriceInputs
        /\ UNCHANGED <<BypassMinFeeMsgTypes, MaxTotalBypassMinFeeMsgGasUsage>>
     \/ /\ BypassMinFeeMsgTypes' \in BypassInputs
        /\ UNCHANGED <<MinimumGasPrices, MaxTotalBypassMinFeeMsgGasUsage>>
     \/ /\ MaxTotalBypassMinFeeMsgGasUsage' \in GasInputs
        /\ UNCHANGED <<MinimumGasPrices, BypassMinFeeMsgTypes>>
  /\ UNCHANGED <<version, local>>
  /\ Recheck(mempool)

\* MigrateStore, in the block of the upgrade. Until that block a node that
\* runs the new program checks transactions with the old store.
Migrate ==
  /\ version = 1
  /\ BypassMinFeeMsgTypes' = DefaultBypass
  /\ MaxTotalBypassMinFeeMsgGasUsage' = DefaultMaxGas
  /\ version' = 2
  /\ UNCHANGED <<MinimumGasPrices, local>>
  /\ Recheck(mempool)

\* A node restarts, perhaps with other prices: its mempool is not kept.
Reconfigure(n) ==
  /\ \E prices \in LocalInputs : local' = [local EXCEPT ![n] = prices]
  /\ mempool' = [mempool EXCEPT ![n] = {}]
  /\ UNCHANGED <<params, version>>

Next ==
  \/ \E n \in Nodes, tx \in Txs : CheckTx(n, tx) \/ DeliverTx(n, tx)
  \/ ChangeParam
  \/ Migrate
  \/ \E n \in Nodes : Reconfigure(n)

Spec == Init /\ [][Next]_vars
-----------------------------------------------------------------------------
\* The parameters, the configuration and the mempools are of their types; a
\* chain of the present version has stored every parameter (module.go InitGenesis, MigrateStore).
TypeOK ==
  /\ MinimumGasPrices \in PriceInputs
  /\ BypassMinFeeMsgTypes \in BypassInputs \cup {DefaultBypass, Unset}
  /\ MaxTotalBypassMinFeeMsgGasUsage \in Nat \cup {Unset}
  /\ version \in {1, 2}
  /\ version = 2 => BypassMinFeeMsgTypes # Unset /\ MaxTotalBypassMinFeeMsgGasUsage # Unset
  /\ local \in [Nodes -> LocalInputs]
  /\ mempool \in [Nodes -> SUBSET Txs]

\* The coin d of the fee is worth the gas at the prices given.
Covers(tx, d, prices) == tx.fee[d] * Unit >= AmountOf(prices, d) * tx.gas

\* Bypass messages alone, within the limit of gas that is in force.
FreeOfCharge(tx) == tx.msgs \subseteq GetBypassMsgTypes /\ tx.gas <= GetMaxTotalBypassMinFeeMsgGasUsage

\* A transaction that waits in a mempool and is not one of bypass messages
\* pays, in one denomination that has a price, what the node asks and what the chain
\* asks (GetTxFeeRequired, MaxCoins), at the prices in force now and not when it came.
MempoolPays ==
  \A n \in Nodes : \A tx \in mempool[n] :
    \/ tx.msgs \subseteq GetBypassMsgTypes
    \/ IsZero(local[n]) /\ IsZero(GetGlobalFee)
    \/ \E d \in Denoms :
         /\ AmountOf(local[n], d) + AmountOf(GetGlobalFee, d) > 0
         /\ Covers(tx, d, local[n]) /\ Covers(tx, d, GetGlobalFee)

\* Free are the bypass messages within their gas limit and nothing else: they
\* are relayed by a node whatever prices it is configured with, and where
\* anything has a price no other transaction waits without a fee, although
\* governance moves the list and the limit meanwhile (AnteHandle).
FreeExactlyBypass ==
  \A n \in Nodes :
    /\ \A tx \in Txs : FreeOfCharge(tx) /\ DenomsOf(tx.fee) = {} => Admits(n, tx)
    /\ \A tx \in mempool[n] :
         DenomsOf(tx.fee) = {} /\ ~(IsZero(local[n]) /\ IsZero(GetGlobalFee)) => FreeOfCharge(tx)

\* What waits in a mempool is not refused when it is executed: a proposal that
\* lowers the gas limit or moves a kind of message is followed by a recheck.
WaitingExecutes == \A n \in Nodes : \A tx \in mempool[n] : Executes(tx)

\* The comment on FeeWithBypassDecorator: the denomination of the fee should
\* be one of the chain's prices. MaxCoins adds the node's own denominations.
FeeInGlobalDenoms ==
  \A n \in Nodes : \A tx \in mempool[n] :
    IsZero(GetGlobalFee) \/ DenomsOf(tx.fee) \subseteq DOMAIN GetGlobalFee

\* The comment on FeeWithBypassDecorator: a transaction of bypass messages is
\* valid even if its fee is lower than normally required. AnteHandle leaves it
\* with the node's prices as soon as it has a fee at all.
BypassBelowMinimum ==
  \A n \in Nodes, tx \in Txs :
    FreeOfCharge(tx) /\ DenomsOf(tx.fee) \subseteq DOMAIN GetGlobalFee => Admits(n, tx)
=============================================================================
