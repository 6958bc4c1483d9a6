---------------------------- MODULE PlatformFee ----------------------------
(***************************************************************************)
(* Module x/xion: the sends that carry a platform fee, the two parameters  *)
(* governance sets for them, and the mint function that runs at the start  *)
(* of every block and balances new issuance against the fees collected.    *)
(*                                                                         *)
(* A message handler is one action: the SDK commits its writes only when   *)
(* it returns no error, so a message that fails leaves the state alone.    *)
(***************************************************************************)
EXTENDS Coins, FiniteSets

CONSTANTS
  Users,          \* accounts that sign messages
  Authority,      \* the address of the gov module, the keeper's authority
  FeeCollector,   \* the fee_collector module account
  Distribution,   \* the distribution module account
  MintDenom,      \* params.MintDenom of x/mint
  SendDisabled,   \* denominations the bank parameters do not let users send
  Genesis,        \* the balance every user starts with
  Amounts,        \* amounts a message may name, per denomination
  MinAmounts,     \* amounts a platform minimum may name
  Percentages,    \* percentages a genesis file or a proposal may name
  Provisions,     \* block provisions the minter may compute
  MaxOutputs,     \* bound: outputs of one MultiSend
  MaxVolume,      \* bound: what one denomination's sends add up to
  MaxHeight       \* bound: blocks

ASSUME AccountsAssumption ==
  /\ IsFiniteSet(Users)
  /\ Authority \notin Users
  /\ FeeCollector \notin Users
  /\ Distribution \notin Users
  /\ FeeCollector # Distribution
ASSUME DenomAssumption == MintDenom \in Denoms
ASSUME InputAssumption ==
  /\ Genesis \in Coins
  /\ Amounts \subseteq Nat
  /\ MinAmounts \subseteq Nat
  /\ Percentages \subseteq Nat
  /\ Provisions \subseteq Nat
ASSUME BoundAssumption == MaxOutputs \in Nat /\ MaxVolume \in Nat /\ MaxHeight \in Nat

\* 100% in basis points.
FullPercentage == 10000

ModuleAccounts == {FeeCollector, Distribution}
Accounts == Users \cup ModuleAccounts

VARIABLES
  platformPercentage,  \* PlatformPercentageKey
  platformMinimums,    \* PlatformMinimumKey: denomination -> least amount
  balance,             \* external: the bank's balances
  supply,              \* external: the bank's total supply
  height,              \* block height
  checked,             \* history: the percentage in force was compared with 100%
  volume,              \* history: total input of the sends executed so far
  collected,           \* history: total credited to the fee collector by them
  txFees,              \* history: total transaction fees deducted so far
  provided             \* history: provisions of the blocks that were allocated

params == <<platformPercentage, platformMinimums, checked>>
bank == <<balance, supply>>
history == <<volume, collected, txFees, provided>>
vars == <<platformPercentage, platformMinimums, balance, supply, height, checked,
          volume, collected, txFees, provided>>

CoinInputs == [Denoms -> Amounts]
IsMinimums(m) == DOMAIN m \subseteq Denoms /\ m \in [DOMAIN m -> Nat]
MinimumInputs == UNION {[D -> MinAmounts] : D \in SUBSET Denoms}

TypeOK ==
  /\ platformPercentage \in Nat
  /\ checked \in BOOLEAN
  /\ checked => platformPercentage <= FullPercentage
  /\ IsMinimums(platformMinimums)
  /\ balance \in [Accounts -> Coins]
  /\ supply \in [Denoms -> Int]
  /\ height \in Nat
  /\ volume \in Coins
  /\ collected \in Coins
  /\ txFees \in Coins
  /\ provided \in Nat
-----------------------------------------------------------------------------
(***************************************************************************)
(* The bank operations the handlers call (external).                       *)
(***************************************************************************)
IsSendEnabledCoins(amt) == \A d \in SendDisabled : amt[d] = 0

BlockedAddr(a) == a \in ModuleAccounts

\* SendCoins, from a state in which the sender can pay.
SendCoins(bal, from, to, amt) ==
  LET debited == [bal EXCEPT ![from] = Minus(@, amt)]
  IN  [debited EXCEPT ![to] = Plus(@, amt)]

\* What the outputs credit to one account.
CreditTo(outputs, a) ==
  [d \in Denoms |->
     Total([i \in 1..Len(outputs) |->
              IF outputs[i].to = a THEN outputs[i].coins[d] ELSE 0])]

\* ValidateInputOutputs: outputs are non-empty and add up to the input.
ValidateInputOutputs(input, outputs) ==
  /\ \A i \in 1..Len(outputs) : outputs[i].coins # ZeroCoins
  /\ TotalCoins([i \in 1..Len(outputs) |-> outputs[i].coins]) = input

InputOutputCoins(bal, from, input, outputs) ==
  LET debited == [bal EXCEPT ![from] = Minus(@, input)]
  IN  [a \in Accounts |-> Plus(debited[a], CreditTo(outputs, a))]
-----------------------------------------------------------------------------
(***************************************************************************)
(* The handlers' own helpers.                                              *)
(***************************************************************************)

\* Every denomination sent is listed, and meets its minimum. An empty list
\* admits nothing.
meetsConfiguredMinimums(amt, mins) ==
  /\ DOMAIN mins # {}
  /\ \A d \in Denoms : amt[d] > 0 => d \in DOMAIN mins /\ amt[d] >= mins[d]

\* Mutant: the quotient is rounded down.
PlatformShare_RoundedDown(amount, percentage) == (amount * percentage) \div FullPercentage

\* Ceiling division. Both branches of the code, the one for amounts whose
\* product fits 64 bits and the one in big integers, compute this.
PlatformShare(amount, percentage) ==
  (amount * percentage + (FullPercentage - 1)) \div FullPercentage

getPlatformCoins(coins, percentage) ==
  [d \in Denoms |-> PlatformShare(coins[d], percentage)]

\* The outputs of a MultiSend after each one's fee is taken off.
throughOutputs(outputs, percentage) ==
  [i \in 1..Len(outputs) |->
     [to |-> outputs[i].to,
      coins |-> Minus(outputs[i].coins, getPlatformCoins(outputs[i].coins, percentage))]]

totalPlatformCoins(outputs, percentage) ==
  TotalCoins([i \in 1..Len(outputs) |-> getPlatformCoins(outputs[i].coins, percentage)])

\* ... and with the fee collector's own output, when there is a fee.
chargedOutputs(outputs, percentage) ==
  LET fee == totalPlatformCoins(outputs, percentage)
  IN  throughOutputs(outputs, percentage)
        \o (IF fee = ZeroCoins THEN << >>
            ELSE <<[to |-> FeeCollector, coins |-> fee]>>)
-----------------------------------------------------------------------------
(***************************************************************************)
(* Genesis. Percentage and minimums of the file are stored as they are,    *)
(* zeros included: GenesisState.Validate, which limits the percentage, is  *)
(* what `genesis validate` asks of a file; InitGenesis does not call it.   *)
(***************************************************************************)
GenesisSupply == [d \in Denoms |-> Cardinality(Users) * Genesis[d]]

ValidGenesis(percentage) == percentage <= FullPercentage

Init ==
  /\ platformPercentage \in Percentages
  /\ checked = ValidGenesis(platformPercentage)
  /\ platformMinimums \in MinimumInputs
  /\ balance = [a \in Accounts |-> IF a \in Users THEN Genesis ELSE ZeroCoins]
  /\ supply = GenesisSupply
  /\ height = 0
  /\ volume = ZeroCoins
  /\ collected = ZeroCoins
  /\ txFees = ZeroCoins
  /\ provided = 0

(***************************************************************************)
(* MsgSend. The fee leaves the sender first, the rest of the amount goes   *)
(* to the recipient.                                                       *)
(***************************************************************************)
SendFee(amt) ==
  IF platformPercentage = 0 THEN ZeroCoins
  ELSE getPlatformCoins(amt, platformPercentage)

\* ValidateBasic: valid coins hold no zero amount, so what is left to refuse is
\* an empty list.
ValidAmount(amt) == amt # ZeroCoins

\* Coins.Sub panics when the fee is more than the amount; the panic fails the
\* message as an error does.
SendAccepted(from, to, amt) ==
  /\ ValidAmount(amt)
  /\ IsSendEnabledCoins(amt)
  /\ ~ BlockedAddr(to)
  /\ meetsConfiguredMinimums(amt, platformMinimums)
  /\ Covers(amt, SendFee(amt))
  /\ Covers(balance[from], amt)

\* Mutant: the fee is taken off the amount and never sent to the collector.
SendResult_FeeKept(from, to, amt) ==
  SendCoins(balance, from, to, Minus(amt, SendFee(amt)))

SendResult(from, to, amt) ==
  LET fee == SendFee(amt)
  IN  SendCoins(SendCoins(balance, from, FeeCollector, fee), from, to, Minus(amt, fee))

Send(from, to, amt) ==
  /\ SendAccepted(from, to, amt)
  /\ \A d \in Denoms : volume[d] + amt[d] <= MaxVolume
  /\ balance' = SendResult(from, to, amt)
  /\ volume' = Plus(volume, amt)
  /\ collected' = Plus(collected, SendFee(amt))
  /\ UNCHANGED <<params, supply, height, txFees, provided>>

(***************************************************************************)
(* MsgMultiSend: one input, whose coins ValidateBasic has compared with    *)
(* the outputs. The minimums are compared with the input alone; the fee is *)
(* taken from each output and sent as one more output.                     *)
(***************************************************************************)
InputOf(outputs) == TotalCoins([i \in 1..Len(outputs) |-> outputs[i].coins])

MultiSendOutputs(outputs) ==
  IF platformPercentage = 0 THEN outputs
  ELSE chargedOutputs(outputs, platformPercentage)

MultiSendFee(outputs) ==
  IF platformPercentage = 0 THEN ZeroCoins
  ELSE totalPlatformCoins(outputs, platformPercentage)

\* Mutant: no minimum is asked of a MultiSend.
MultiSendAccepted_NoMinimum(from, outputs) ==
  LET input == InputOf(outputs)
  IN  /\ outputs # << >>
      /\ ValidateInputOutputs(input, outputs)
      /\ IsSendEnabledCoins(input)
      /\ \A i \in 1..Len(outputs) : ~ BlockedAddr(outputs[i].to)
      /\ \A i \in 1..Len(outputs) : Covers(outputs[i].coins, SendFee(outputs[i].coins))
      /\ ValidateInputOutputs(input, MultiSendOutputs(outputs))
      /\ Covers(balance[from], input)

MultiSendAccepted(from, outputs) ==
  LET input == InputOf(outputs)
  IN  /\ outputs # << >>
      /\ ValidateInputOutputs(input, outputs)
      /\ IsSendEnabledCoins(input)
      /\ meetsConfiguredMinimums(input, platformMinimums)
      /\ \A i \in 1..Len(outputs) : ~ BlockedAddr(outputs[i].to)
      /\ \A i \in 1..Len(outputs) : Covers(outputs[i].coins, SendFee(outputs[i].coins))
      /\ ValidateInputOutputs(input, MultiSendOutputs(outputs))
      /\ Covers(balance[from], input)

MultiSendResult(from, outputs) ==
  InputOutputCoins(balance, from, InputOf(outputs), MultiSendOutputs(outputs))

MultiSend(from, outputs) ==
  /\ MultiSendAccepted(from, outputs)
  /\ \A d \in Denoms : volume[d] + InputOf(outputs)[d] <= MaxVolume
  /\ balance' = MultiSendResult(from, outputs)
  /\ volume' = Plus(volume, InputOf(outputs))
  /\ collected' = Plus(collected, MultiSendFee(outputs))
  /\ UNCHANGED <<params, supply, height, txFees, provided>>

(***************************************************************************)
(* The parameters. ValidateBasic of MsgSetPlatformMinimum asks for valid   *)
(* Coins, so every minimum listed is positive.                             *)
(***************************************************************************)
ValidPercentage(percentage) == percentage <= FullPercentage

\* Mutant: the percentage has no limit.
SetPlatformPercentage_NoLimit(signer, percentage) ==
  /\ signer = Authority
  /\ platformPercentage' = percentage
  /\ checked' = TRUE
  /\ UNCHANGED <<platformMinimums, bank, height, history>>

SetPlatformPercentage(signer, percentage) ==
  /\ ValidPercentage(percentage)
  /\ signer = Authority
  /\ platformPercentage' = percentage
  /\ checked' = TRUE
  /\ UNCHANGED <<platformMinimums, bank, height, history>>

ValidMinimums(mins) == \A d \in DOMAIN mins : mins[d] > 0

SetPlatformMinimum(signer, mins) ==
  /\ ValidMinimums(mins)
  /\ signer = Authority
  /\ platformMinimums' = mins
  /\ UNCHANGED <<platformPercentage, checked, bank, height, history>>

(***************************************************************************)
(* The ante handler's fee deduction (external): any account may pay a      *)
(* transaction's fee into the fee collector.                               *)
(***************************************************************************)
DeductFee(payer, fee) ==
  /\ fee # ZeroCoins
  /\ Covers(balance[payer], fee)
  /\ \A d \in Denoms : txFees[d] + fee[d] <= MaxVolume
  /\ balance' = SendCoins(balance, payer, FeeCollector, fee)
  /\ txFees' = Plus(txFees, fee)
  /\ UNCHANGED <<params, supply, height, volume, collected, provided>>

(***************************************************************************)
(* The start of a block: x/mint's BeginBlocker, which app.go builds with   *)
(* StakedInflationMintFn, and after it x/distribution's (external), which  *)
(* from the second block on empties the fee collector.                     *)
(***************************************************************************)
mintedCoin(needed) ==
  LET held == balance[FeeCollector][MintDenom]
  IN  IF held < needed THEN needed - held ELSE 0

\* Mutant: fees beyond the provision are not burnt.
burnedCoin_Nothing(needed) == 0

burnedCoin(needed) ==
  LET held == balance[FeeCollector][MintDenom]
  IN  IF held < needed THEN 0 ELSE held - needed

StakedInflationMintFn(needed) ==
  [balance EXCEPT ![FeeCollector][MintDenom] = (@ + mintedCoin(needed)) - burnedCoin(needed)]

AllocateTokens(bal, h) ==
  IF h > 1 THEN SendCoins(bal, FeeCollector, Distribution, bal[FeeCollector]) ELSE bal

BeginBlock(needed) ==
  /\ height < MaxHeight
  /\ height' = height + 1
  /\ balance' = AllocateTokens(StakedInflationMintFn(needed), height')
  /\ supply' = [supply EXCEPT ![MintDenom] = (@ + mintedCoin(needed)) - burnedCoin(needed)]
  /\ provided' = IF height' > 1 THEN provided + needed ELSE provided
  /\ UNCHANGED <<params, volume, collected, txFees>>
-----------------------------------------------------------------------------
OutputInputs == UNION {[1..n -> [to : Accounts, coins : CoinInputs]] : n \in 1..MaxOutputs}

Next ==
  \/ \E from \in Users, to \in Accounts, amt \in CoinInputs : Send(from, to, amt)
  \/ \E from \in Users, outputs \in OutputInputs : MultiSend(from, outputs)
  \/ \E signer \in Users \cup {Authority}, p \in Percentages : SetPlatformPercentage(signer, p)
  \/ \E signer \in Users \cup {Authority}, m \in MinimumInputs : SetPlatformMinimum(signer, m)
  \/ \E payer \in Users, fee \in CoinInputs : DeductFee(payer, fee)
  \/ \E needed \in Provisions : BeginBlock(needed)

Spec == Init /\ [][Next]_vars
-----------------------------------------------------------------------------
(***************************************************************************)
(* Properties.                                                             *)
(***************************************************************************)

\* Stakers receive the provisions of the blocks and nothing else in the mint
\* denomination: fees, whoever paid them, only replace new issuance and what
\* they exceed it by is burnt (mint.go:61-91).
RewardsAreProvisions == balance[Distribution][MintDenom] = provided

\* Issuance is provisions less fees: the supply of the mint denomination plus
\* every fee ever collected in it is the genesis supply plus what the two
\* module accounts hold. No other denomination is minted or burnt, and its
\* fees stay in the module accounts (mint.go:38-91).
IssuanceNetOfFees ==
  \A d \in Denoms :
    /\ supply[d] + collected[d] + txFees[d]
         = GenesisSupply[d] + balance[Distribution][d] + balance[FeeCollector][d]
    /\ d # MintDenom => supply[d] = GenesisSupply[d]

\* However a transfer is split into outputs, the fee collector receives at
\* least the platform's percentage of every denomination moved, and never
\* more than was moved (msg_server.go:249-252: ceiling division removes "the
\* incentive to split outputs into many small amounts to exploit rounding").
PlatformPaid ==
  \A d \in Denoms :
    LET moved == volume'[d] - volume[d]
        fee == collected'[d] - collected[d]
    IN  /\ FullPercentage * fee >= platformPercentage * moved
        /\ fee <= moved
SplittingEvadesNoFee == [][PlatformPaid]_vars

\* A transfer is accepted as a MultiSend of one output exactly when it is
\* accepted as a Send and the fee leaves something to deliver; where both
\* accept it they leave the same balances. msg_server.go:37-84 and 101-157
\* compute fee and remainder on two different paths. The exception is real: of
\* an amount of 1, or of any amount at 100%, the fee takes everything, SendCoins
\* moves the empty remainder and the bank refuses the empty output.
SendsAgree ==
  \A from \in Users, to \in Accounts, amt \in CoinInputs :
    LET outputs == <<[to |-> to, coins |-> amt]>>
    IN  /\ MultiSendAccepted(from, outputs)
             <=> SendAccepted(from, to, amt) /\ Minus(amt, SendFee(amt)) # ZeroCoins
        /\ MultiSendAccepted(from, outputs)
             => SendResult(from, to, amt) = MultiSendResult(from, outputs)

\* What README.md:25 of x/xion says of the default parameters, "Empty (no
\* minimums)": with an empty list no amount is too small. The code refuses
\* every amount (msg_server.go:172-174).
EmptyMinimumsAdmitSends ==
  DOMAIN platformMinimums = {} =>
    \A from \in Users, to \in Users, amt \in CoinInputs :
      amt # ZeroCoins /\ IsSendEnabledCoins(amt) /\ Covers(balance[from], amt)
        => SendAccepted(from, to, amt)

\* What msgs.go:191 says, "Minimums can be zero but never negative": the
\* minimums in force, when a genesis file set them, can be proposed again.
\* Coins.IsValid refuses a zero amount (msgs.go:188).
ZeroMinimumsProposable == ValidMinimums(platformMinimums)

\* What types/genesis.go:15 says, "unable to set platform percentage to greater
\* than 100%": InitGenesis stores any percentage (keeper/genesis.go:11), and
\* with one above 100% every send fails.
PercentageLimited == platformPercentage <= FullPercentage
=============================================================================
