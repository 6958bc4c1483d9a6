------------------------------- MODULE Chain --------------------------------
(***************************************************************************)
(* The chain as its users see it: one state that each agreed block changes *)
(* in one step, by the contents of the block alone.  A contract registers  *)
(* a credential and authenticates with it through the queries that are     *)
(* open to contracts; at the height of the upgrade plan every migration    *)
(* that is due runs exactly once, or the upgrade is skipped, or the chain  *)
(* stops there.  Replicas is shown to implement it.                        *)
(***************************************************************************)
EXTENDS Naturals, Sequences

CONSTANTS
  Logs,            \* the sequences of blocks that consensus may agree on
  RequestOf,       \* the request that each name of one stands for
  UpgradeHeight,   \* the height of the upgrade plan
  Due              \* the migrations due, pairs of a module and a version

VARIABLES
  log,      \* the blocks agreed on
  height,   \* the last height executed
  state,    \* credentials of the contracts, results, plan, migrations run
  mode      \* what becomes of the upgrade: "run", "skip" or "broken"

vars == <<log, height, state, mode>>

-----------------------------------------------------------------------------
\* What a query answers is a matter of the request, the credential it names
\* and the time of the block.

WellFormed(request) ==
  /\ request.size <= 65536 /\ request.rp # "://"
  /\ request.data.decodes /\ request.data.parser = "ok"
  /\ request.data.authDataLen >= 37
  /\ request.data.challenge = request.challenge
  /\ request.data.origin = request.rp

\* No certificate that is offered as evidence was out of date.
Attested(data, t) ==
  LET offers == "x5c" \in DOMAIN data.attStatement
      none   == data.format = "none" \/ data.attStatement.fmt = "none"
  IN offers /\ ~ none =>
       \A i \in DOMAIN data.attStatement.x5c :
         /\ data.attStatement.x5c[i].parses
         /\ t \in data.attStatement.x5c[i].notBefore .. data.attStatement.x5c[i].notAfter

Registers(request, t) ==
  /\ request.path = "register"
  /\ WellFormed(request)
  /\ request.data.alg \in {"ES256K", "ES256", "EdDSA", "RS256"}
  /\ Attested(request.data, t)

\* The account the authenticator remembers, if it remembers one.
NamesAccount(request) == request.data.userHandle \in {"", request.addr}

Authenticates(request, creds) ==
  /\ request.path = "authenticate"
  /\ request.addr \in DOMAIN creds
  /\ WellFormed(request)
  /\ LET credential == creds[request.addr]
     IN /\ credential.size <= 65536
        /\ request.data.id = credential.id
        /\ request.data.signedBy = credential.key
  /\ NamesAccount(request)

-----------------------------------------------------------------------------
Init ==
  /\ log = <<>> /\ height = 0
  /\ state = [creds |-> <<>>, results |-> <<>>, ran |-> <<>>, plan |-> TRUE]
  /\ mode \in {"run", "skip", "broken"}

Agree ==
  /\ \E l \in Logs :
       /\ Len(log) < Len(l)
       /\ log = SubSeq(l, 1, Len(log))
       /\ log' = SubSeq(l, 1, Len(log) + 1)
  /\ UNCHANGED <<height, state, mode>>

\* Every migration that is due, once, the versions of a module in their order.
Migrated(ran) ==
  /\ {ran[i] : i \in DOMAIN ran} = Due
  /\ \A i, j \in DOMAIN ran :
       i < j => ran[i] # ran[j] /\ (ran[i][1] = ran[j][1] => ran[i][2] < ran[j][2])

Deliver(request, t) ==
  LET registers == Registers(request, t)
      accepted  == registers \/ Authenticates(request, state.creds)
  IN /\ state'.results = Append(state.results, accepted)
     /\ DOMAIN state'.creds = DOMAIN state.creds \cup
                                (IF registers THEN {request.addr} ELSE {})
     /\ \A a \in DOMAIN state'.creds :
          IF registers /\ a = request.addr
            THEN /\ state'.creds[a].id = request.data.id
                 /\ state'.creds[a].key = request.data.key
            ELSE state'.creds[a] = state.creds[a]

Upgrade ==
  IF height + 1 = UpgradeHeight
    THEN /\ mode # "broken"
         /\ ~ state'.plan
         /\ IF mode = "skip" THEN state'.ran = state.ran ELSE Migrated(state'.ran)
    ELSE state'.plan = state.plan /\ state'.ran = state.ran

Execute ==
  /\ height < Len(log)
  /\ height' = height + 1
  /\ Deliver(RequestOf[log[height + 1].tx], log[height + 1].time)
  /\ Upgrade
  /\ UNCHANGED <<log, mode>>

Next == Agree \/ Execute

Spec == Init /\ [][Next]_vars
=============================================================================
