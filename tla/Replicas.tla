------------------------------ MODULE Replicas ------------------------------
(***************************************************************************)
(* The nodes of the chain, each executing the agreed blocks by itself:     *)
(* the upgrade at its height with the binaries old and new, a contract     *)
(* that queries the chain in the transaction of each block, and clients    *)
(* that query a node at the same time.  A node may crash at any step; what *)
(* it had not committed is lost and it executes the block again.           *)
(*                                                                         *)
(* Consensus, the SDK's BaseApp and x/upgrade, the operator who starts the *)
(* binaries, and the contract are external.  A contract keeps what a       *)
(* registration returns under its address and authenticates with it.       *)
(***************************************************************************)
EXTENDS WebAuthn

CONSTANTS
  Nodes,
  Logs,            \* the sequences of blocks that consensus may agree on
  RequestOf,       \* the request that each name of one stands for
  Requests,        \* the names of what clients ask
  Public,          \* the nodes that answer clients
  Clock,           \* what the clock of each node shows
  UpgradeHeight,   \* the height of the plan v30
  FromVersion,     \* the versions of the modules before the upgrade
  MaxFaults,       \* bound: crashes and starts of the wrong binary
  MaxAsked         \* bound: queries of clients

VARIABLES
  log,      \* the blocks agreed on
  mode,     \* the migrations "run" or are "broken", or all nodes "skip" them
  app,      \* the committed state of each node
  work,     \* the state of the block in execution, or Nothing
  binary,   \* the binary a node runs: "old", "new" or "none" when it is down
  info,     \* upgrade-info.json on the node's disk: a height, or 0
  query,    \* the query in progress of each worker of a node, or Nothing
  heap,     \* the response messages of a node
  served,   \* history: the last answer of a node to a client, or Nothing
  faults, asked   \* counters of the bounds

chainVars == <<log, mode>>
nodeVars  == <<app, work, binary, info>>
queryVars == <<query, heap, served>>
bounds    == <<faults, asked>>
vars      == <<chainVars, nodeVars, queryVars, bounds>>

Workers == {"block", "client"}

Modules == <<"dkim", "globalfee", "jwk", "xion", "zk">>

ConsensusVersion == [dkim |-> 2, globalfee |-> 2, jwk |-> 3, xion |-> 1, zk |-> 3]

\* Mutant: a module raises its version and registers no migration for it.
RegisteredMigrations_Missing == {<<"dkim", 1>>, <<"globalfee", 1>>, <<"zk", 1>>}

RegisteredMigrations ==
  {<<"dkim", 1>>, <<"globalfee", 1>>, <<"jwk", 1>>, <<"jwk", 2>>, <<"zk", 1>>, <<"zk", 2>>}

ASSUME NodesAssumption == Nodes # {} /\ UpgradeHeight \in Nat \ {0}

\* The upgrade raises the version of x/zk: a broken release fails there.
ASSUME VersionsAssumption ==
  /\ FromVersion \in [DOMAIN ConsensusVersion -> Nat \ {0}]
  /\ \A m \in DOMAIN ConsensusVersion : FromVersion[m] <= ConsensusVersion[m]
  /\ FromVersion["zk"] < ConsensusVersion["zk"]

\* A registration that decodes has a format and a statement, whose
\* certificates are dated.
IsAttestation(data) ==
  /\ {"format", "attStatement"} \subseteq DOMAIN data
  /\ data.attStatement # Nothing =>
       /\ "x5c" \in DOMAIN data.attStatement
       /\ \A i \in DOMAIN data.attStatement.x5c :
            data.attStatement.x5c[i] \in [parses : BOOLEAN, notBefore : Nat, notAfter : Nat]

ASSUME RequestsAssumption ==
  /\ \A l \in Logs : l \in Seq([time : Nat, tx : DOMAIN RequestOf])
  /\ Requests \subseteq DOMAIN RequestOf
  /\ \A r \in DOMAIN RequestOf :
       RequestOf[r].path = "register" => IsAttestation(RequestOf[r].data)

\* The migrations that the upgrade has to run.
Due == UNION {{<<m, v>> : v \in FromVersion[m] .. (ConsensusVersion[m] - 1)} :
                m \in DOMAIN ConsensusVersion}

Init ==
  /\ log = <<>>
  /\ mode \in {"run", "skip", "broken"}
  /\ app = [n \in Nodes |-> [height |-> 0, creds |-> <<>>, results |-> <<>>,
                             ran |-> <<>>, plan |-> TRUE, versions |-> FromVersion]]
  /\ work = [n \in Nodes |-> Nothing]
  /\ binary = [n \in Nodes |-> "old"]
  /\ info = [n \in Nodes |-> 0]
  /\ query = [n \in Nodes |-> [w \in Workers |-> Nothing]]
  /\ heap = [n \in Nodes |-> <<>>]
  /\ served = [n \in Nodes |-> Nothing]
  /\ faults = 0 /\ asked = 0

-----------------------------------------------------------------------------
\* Consensus: the next block is agreed on after a node has committed the last.
Agree ==
  /\ \E n \in Nodes : app[n].height = Len(log)
  /\ \E l \in Logs :
       /\ Len(log) < Len(l)
       /\ log = SubSeq(l, 1, Len(log))
       /\ log' = SubSeq(l, 1, Len(log) + 1)
  /\ UNCHANGED <<mode, nodeVars, queryVars, bounds>>

NoQueries == [w \in Workers |-> Nothing]

\* The process of node n ends: what it held in memory is gone.
Down(n) ==
  /\ binary' = [binary EXCEPT ![n] = "none"]
  /\ work' = [work EXCEPT ![n] = Nothing]
  /\ query' = [query EXCEPT ![n] = NoQueries]
  /\ heap' = [heap EXCEPT ![n] = <<>>]
  /\ UNCHANGED <<log, mode, app, served, asked>>

Crash(n) ==
  /\ binary[n] # "none"
  /\ faults < MaxFaults /\ faults' = faults + 1
  /\ Down(n)
  /\ UNCHANGED info

\* The operator, or cosmovisor, starts the new binary once the old one has
\* left its note on the disk.
RightBinary(n) == IF info[n] = 0 THEN "old" ELSE "new"

\* RegisterUpgradeHandlers: the new binary has a handler for the plan.  The
\* store loader it installs when the note names the plan adds no store.
Start(n, b) ==
  /\ binary[n] = "none"
  /\ binary' = [binary EXCEPT ![n] = b]
  /\ \/ b = RightBinary(n) /\ UNCHANGED faults
     \/ b # RightBinary(n) /\ faults < MaxFaults /\ faults' = faults + 1
  /\ UNCHANGED <<chainVars, app, work, info, queryVars, asked>>

HasHandler(n) == binary[n] = "new"

\* The plan is marked as done when its handler has run, not when it is skipped.
Applied(n) == ~ app[n].plan /\ mode # "skip"

\* The block in execution comes to this phase with this state.
Proceed(n, phase, state) ==
  /\ work' = [work EXCEPT ![n] = [phase |-> phase, app |-> state]]
  /\ UNCHANGED <<chainVars, app, binary, info, queryVars, bounds>>

\* The node stops by itself before it executes the block.
Refuse(n) == Down(n) /\ UNCHANGED <<info, faults>>

\* x/upgrade, first of the pre-blockers: external.
PreBlocker(n) ==
  /\ binary[n] # "none" /\ work[n] = Nothing
  /\ app[n].height < Len(log)
  /\ LET h        == app[n].height + 1
         now      == app[n].plan /\ h = UpgradeHeight
         pending  == app[n].plan /\ h < UpgradeHeight
         outdated == Applied(n) /\ ~ HasHandler(n)
     IN \/ outdated /\ Refuse(n)
        \/ pending /\ HasHandler(n) /\ Refuse(n)
        \/ now /\ mode = "skip" /\ Proceed(n, "deliver", [app[n] EXCEPT !.plan = FALSE])
        \/ /\ now /\ mode # "skip" /\ ~ HasHandler(n)
           /\ info' = [info EXCEPT ![n] = h]
           /\ Down(n) /\ UNCHANGED faults
        \/ now /\ mode # "skip" /\ HasHandler(n) /\ Proceed(n, "migrate", app[n])
        \/ /\ ~ now /\ ~ outdated /\ ~ (pending /\ HasHandler(n))
           /\ Proceed(n, "deliver", app[n])

Behind(versions) ==
  {i \in DOMAIN Modules : versions[Modules[i]] < ConsensusVersion[Modules[i]]}

\* One migration of one module; in a broken release the last one fails.
MigrationFails(m, versions) ==
  \/ <<m, versions[m]>> \notin RegisteredMigrations
  \/ mode = "broken" /\ m = "zk"

\* Migration m has run: the version of its module is one higher.
Migrate(state, m) ==
  [state EXCEPT !.versions[m] = @ + 1, !.ran = Append(@, <<m, state.versions[m]>>)]

\* The first module that is behind.
NextModule(versions) ==
  Modules[CHOOSE i \in Behind(versions) : \A j \in Behind(versions) : i <= j]

\* Mutant: the error of a migration is logged and the upgrade goes on.
NextUpgradeHandler_Tolerant(n) ==
  /\ work[n] # Nothing /\ work[n].phase = "migrate"
  /\ LET state == work[n].app
         m     == NextModule(state.versions)
     IN IF Behind(state.versions) = {} \/ MigrationFails(m, state.versions)
          THEN Proceed(n, "deliver", [state EXCEPT !.plan = FALSE])
          ELSE Proceed(n, "migrate", Migrate(state, m))

\* NextUpgradeHandler: RunMigrations takes the modules in their order, each
\* from the version it was stored with; an error is a panic.  After the last
\* one x/upgrade stores the versions and clears the plan.
NextUpgradeHandler(n) ==
  /\ work[n] # Nothing /\ work[n].phase = "migrate"
  /\ LET state == work[n].app
         m     == NextModule(state.versions)
     IN \/ /\ Behind(state.versions) = {}
           /\ Proceed(n, "deliver", [state EXCEPT !.plan = FALSE])
        \/ /\ Behind(state.versions) # {}
           /\ MigrationFails(m, state.versions)
           /\ Refuse(n)
        \/ /\ Behind(state.versions) # {}
           /\ ~ MigrationFails(m, state.versions)
           /\ Proceed(n, "migrate", Migrate(state, m))

-----------------------------------------------------------------------------
\* Queries of contracts, in a block or for a client who simulates a call.

\* The paths of the two WebAuthn queries, of the 35 that are open.
Whitelist == {"register", "authenticate"}

\* Mutant: one message for all queries of a path.
GetWhitelistedQuery_Shared(path, worker) == path

\* The message that a worker decodes its response into: a fresh one for
\* each query, named by the worker that holds it.
GetWhitelistedQuery(path, worker) == worker

CredentialOf(state, a) == IF a \in DOMAIN state.creds THEN state.creds[a] ELSE Nothing

\* The contract's side of an answer in a block.
Result(n, answer) ==
  LET tx    == RequestOf[log[app[n].height + 1].tx]
      state == work[n].app
      kept  == IF answer.ok /\ tx.path = "register"
                 THEN [a \in DOMAIN state.creds \cup {tx.addr} |->
                         IF a = tx.addr THEN answer.value ELSE state.creds[a]]
                 ELSE state.creds
  IN work' = [work EXCEPT ![n] = [phase |-> "commit",
                app |-> [state EXCEPT !.creds = kept,
                                      !.results = Append(@, answer.ok)]]]

\* The end of a query: the answer goes to the contract or to the client.
Return(n, w, answer) ==
  /\ query' = [query EXCEPT ![n][w] = Nothing]
  /\ IF w = "block"
       THEN Result(n, answer) /\ UNCHANGED served
       ELSE /\ served' = [served EXCEPT ![n] =
                 [request |-> query[n][w].request, time |-> query[n][w].time,
                  credential |-> query[n][w].credential, answer |-> answer]]
            /\ UNCHANGED work

\* StargateQuerier and GrpcQuerier: the path must be open to contracts.
Accepted(request, credential, t, w) ==
  [stage |-> "route", request |-> request, credential |-> credential, time |-> t,
   instance |-> GetWhitelistedQuery(RequestOf[request].path, w), value |-> Nothing]

Deliver(n) ==
  /\ work[n] # Nothing /\ work[n].phase = "deliver"
  /\ LET block == log[app[n].height + 1]
         tx    == RequestOf[block.tx]
     IN IF tx.path \in Whitelist
          THEN /\ query' = [query EXCEPT ![n]["block"] =
                    Accepted(block.tx, CredentialOf(work[n].app, tx.addr), block.time, "block")]
               /\ work' = [work EXCEPT ![n] = [phase |-> "query", app |-> work[n].app]]
          ELSE Result(n, Failed) /\ UNCHANGED query
  /\ UNCHANGED <<chainVars, app, binary, info, heap, served, bounds>>

\* A client asks a node that has committed a block; the query runs on the
\* committed state with the time of the last block.
Ask(n, request) ==
  /\ n \in Public /\ binary[n] # "none" /\ query[n]["client"] = Nothing
  /\ app[n].height > 0
  /\ asked < MaxAsked /\ asked' = asked + 1
  /\ RequestOf[request].path \in Whitelist
  /\ query' = [query EXCEPT ![n]["client"] =
        Accepted(request, CredentialOf(app[n], RequestOf[request].addr), log[app[n].height].time, "client")]
  /\ UNCHANGED <<chainVars, nodeVars, heap, served, faults>>

At(n, w, stage) == query[n][w] # Nothing /\ query[n][w].stage = stage

\* The router: the handler of x/xion and the encoding of its response.  An
\* empty response is encoded as no bytes, which is a value all the same.
Answer(n, w) ==
  LET q       == query[n][w]
      request == RequestOf[q.request]
  IN IF request.path = "register"
       THEN WebAuthNVerifyRegister(request, q.time, Clock[n])
       ELSE WebAuthNVerifyAuthenticate(request, q.credential)

\* The check is for a value that is missing, not for one of length 0.
HasValue(answer) == answer.ok

Route(n, w) ==
  /\ At(n, w, "route")
  /\ LET answer == Answer(n, w)
     IN IF HasValue(answer)
          THEN /\ query' = [query EXCEPT ![n][w] =
                    [query[n][w] EXCEPT !.stage = "unmarshal", !.value = answer.value]]
               /\ UNCHANGED <<work, served>>
          ELSE Return(n, w, Failed)
  /\ UNCHANGED <<chainVars, app, binary, info, heap, bounds>>

\* ConvertProtoToJSONMarshal, or proto.Unmarshal for the gRPC form: the value
\* is decoded into the message, and the message is then read.
Unmarshal(n, w) ==
  /\ At(n, w, "unmarshal")
  /\ LET i == query[n][w].instance
     IN heap' = [heap EXCEPT ![n] = [j \in DOMAIN @ \cup {i} |->
                                        IF j = i THEN query[n][w].value ELSE @[j]]]
  /\ query' = [query EXCEPT ![n][w] = [query[n][w] EXCEPT !.stage = "marshal"]]
  /\ UNCHANGED <<chainVars, nodeVars, served, bounds>>

Marshal(n, w) ==
  /\ At(n, w, "marshal")
  /\ Return(n, w, Answered(heap[n][query[n][w].instance]))
  /\ UNCHANGED <<chainVars, app, binary, info, heap, bounds>>

-----------------------------------------------------------------------------
Commit(n) ==
  /\ work[n] # Nothing /\ work[n].phase = "commit"
  /\ app' = [app EXCEPT ![n] = [work[n].app EXCEPT !.height = app[n].height + 1]]
  /\ work' = [work EXCEPT ![n] = Nothing]
  /\ UNCHANGED <<chainVars, binary, info, queryVars, bounds>>

\* What a running node does without anybody's help.
Step(n) ==
  \/ PreBlocker(n) \/ NextUpgradeHandler(n) \/ Deliver(n) \/ Commit(n)
  \/ \E w \in Workers : Route(n, w) \/ Unmarshal(n, w) \/ Marshal(n, w)

Next ==
  \/ Agree
  \/ \E n \in Nodes :
       \/ Step(n)
       \/ Crash(n)
       \/ \E b \in {"old", "new"} : Start(n, b)
       \/ \E r \in Requests : Ask(n, r)

\* A running node goes on, and a node that is down is started again with the
\* binary that its disk calls for.  Crashes, clients and consensus need not.
Fairness ==
  \A n \in Nodes : WF_vars(Step(n)) /\ WF_vars(Start(n, RightBinary(n)))

Spec == Init /\ [][Next]_vars /\ Fairness

-----------------------------------------------------------------------------
\* The height and the state of a node that is ahead of the others.
Ahead == CHOOSE n \in Nodes : \A m \in Nodes : app[m].height <= app[n].height

Visible(state) == [f \in {"creds", "results", "ran", "plan"} |-> state[f]]

C == INSTANCE Chain WITH height <- app[Ahead].height, state <- Visible(app[Ahead])

\* Nodes that have executed the same blocks hold the same state, whatever
\* their clocks show, however often they crashed in the middle of a block or
\* of the upgrade, and whatever clients asked of them meanwhile: the contract
\* at the top of stargate_whitelist.go.
NodesAgree ==
  \A m, n \in Nodes : app[m].height = app[n].height => app[m] = app[n]

\* A client is answered its own request, by the committed state and the
\* block time it was routed with, and never another query's response: each
\* query of GetWhitelistedQuery decodes into an instance of its own.
OwnAnswers ==
  \A n \in Nodes : served[n] # Nothing =>
    LET s       == served[n]
        request == RequestOf[s.request]
        creds   == IF s.credential = Nothing THEN <<>>
                     ELSE [a \in {request.addr} |-> s.credential]
    IN /\ s.answer.ok = (\/ C!Registers(request, s.time)
                         \/ C!Authenticates(request, creds))
       /\ s.answer.ok /\ request.path = "register" =>
            s.answer.value = NewCredential(request.data)

\* The replicas together behave as one chain that executes each block in one
\* step, by its contents and its time alone, and that runs all migrations of
\* the upgrade exactly once or stops before it.
RefinesChain == C!Spec

\* Unless a migration fails, every node executes every agreed block in the
\* end, through the halt of the old binary at the upgrade and crashes around it.
UpgradePasses ==
  (mode # "broken") ~> (\A n \in Nodes : app[n].height = Len(log))
=============================================================================
