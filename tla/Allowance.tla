----------------------------- MODULE Allowance -----------------------------
(***************************************************************************)
(* What the allowances of x/feegrant mean: the allowances of the SDK that  *)
(* hold a limit, called leaves here, and the two restrictions that Xion    *)
(* wraps around them. Amounts are of one denomination.                     *)
(***************************************************************************)
EXTENDS Integers, Sequences

Seqs == INSTANCE SequencesExt

CONSTANTS
  Unlimited,    \* a basic allowance without a spend limit
  Never,        \* an allowance without an expiration
  NoPeriod,     \* the period of a basic allowance
  Refused,      \* messages that a restriction does not let through
  Leaves,       \* the numbers of leaves
  Grantees,     \* who a message may be executed for
  Msgs,         \* lists of messages, of a transaction or inside others
  Txs           \* transactions of the grantee: a fee, and messages

(***************************************************************************)
(* A leaf has an id (which the program does not need: its number in the    *)
(* allowance as it was signed), what is left of its spend limit, its       *)
(* expiration and, for a periodic allowance, the length of a period, what  *)
(* each grants, what is left of this one and the next reset.               *)
(***************************************************************************)
Period == [length : Int, grant : Int, can : Int, reset : Int]
Leaf ==
  [kind : {"leaf"}, id : Leaves, limit : Int \cup {Unlimited},
   expiration : Int \cup {Never}, period : Period \cup {NoPeriod}]

ASSUME LeafAssumption ==
  /\ Leaves \subseteq Nat
  /\ Unlimited \notin Int /\ Never \notin Int /\ NoPeriod \notin Period

Least(a, b) == IF a = Unlimited \/ (b # Unlimited /\ b < a) THEN b ELSE a

\* BasicAllowance.ValidateBasic, PeriodicAllowance.ValidateBasic
LeafValid(leaf) ==
  /\ leaf.limit # Unlimited => leaf.limit > 0
  /\ leaf.period # NoPeriod => leaf.period.length >= 0 /\ leaf.period.grant > 0 /\ leaf.period.can >= 0

\* tryResetPeriod
Reset(leaf, now) ==
  IF leaf.period = NoPeriod \/ now < leaf.period.reset THEN leaf
  ELSE LET next == leaf.period.reset + leaf.period.length
       IN [leaf EXCEPT !.period.can = Least(leaf.limit, leaf.period.grant),
                       !.period.reset = IF now > next THEN now + leaf.period.length ELSE next]

LeafPays(leaf, fee, now) ==
  /\ leaf.expiration # Never => leaf.expiration >= now
  /\ leaf.period # NoPeriod => Reset(leaf, now).period.can >= fee
  /\ leaf.limit # Unlimited => leaf.limit >= fee

LeafCharged(leaf, fee, now) ==
  LET l == Reset(leaf, now)
  IN [l EXCEPT !.limit = IF l.limit = Unlimited THEN Unlimited ELSE l.limit - fee,
               !.period = IF l.period = NoPeriod THEN NoPeriod ELSE [l.period EXCEPT !.can = @ - fee]]

LeafSpent(leaf) == leaf.limit = 0
-----------------------------------------------------------------------------
(***************************************************************************)
(* Messages. An authz allowance looks at messages that execute others for  *)
(* one grantee, and hands those others on; a contracts allowance wants     *)
(* every message to execute one of some contracts.                         *)
(***************************************************************************)
AllMsgTypesAuthz(grantee, msgs) ==
  IF \A i \in 1..Len(msgs) : msgs[i].type = "exec" /\ msgs[i].grantee = grantee
  THEN Seqs!FlattenSeq([i \in 1..Len(msgs) |-> msgs[i].msgs])
  ELSE Refused

AllMsgsValidWasmExecs(contracts, msgs) ==
  \A i \in 1..Len(msgs) : msgs[i].type = "wasm" /\ msgs[i].contract \in contracts

\* What a restriction leaves of the messages.
Through(msgs, scope) ==
  IF msgs = Refused THEN Refused
  ELSE IF scope.kind = "authz" THEN AllMsgTypesAuthz(scope.grantee, msgs)
  ELSE IF AllMsgsValidWasmExecs(scope.contracts, msgs) THEN msgs ELSE Refused

\* What all of them leave, the outermost first.
PassedUpTo(msgs, scopes) ==
  LET passed[i \in 0..Len(scopes)] == IF i = 0 THEN msgs ELSE Through(passed[i - 1], scopes[i])
  IN passed

Passed(msgs, scopes) == PassedUpTo(msgs, scopes)[Len(scopes)]

\* A list of messages inside one in play is in play.
ASSUME MsgsAssumption ==
  /\ Refused \notin Msgs
  /\ \A grantee \in Grantees, msgs \in Msgs : AllMsgTypesAuthz(grantee, msgs) \in Msgs \cup {Refused}
  /\ Txs \subseteq [fee : Nat, msgs : Msgs]
=============================================================================
