--------------------------- MODULE ReplicasProofs ---------------------------
(***************************************************************************)
(* For any number of nodes, any clocks, any logs and any requests: nodes   *)
(* at the same height hold the same state, clients get their own answers,  *)
(* and the replicas together implement Chain.                              *)
(***************************************************************************)
EXTENDS Replicas, SequenceTheorems, WellFoundedInduction, TLAPS

\* Every non-empty set of naturals has a least element.
LEMMA LeastNatural ==
  ASSUME NEW T \in SUBSET Nat, T # {}
  PROVE  \E x \in T : \A y \in T : x <= y
<1>1. PICK x \in T : \A y \in T : ~ (<<y, x>> \in OpToRel(<, Nat))
  BY NatLessThanWellFounded, WFMin, Zenon
<1>2. \A y \in T : ~ (y < x)
  BY <1>1 DEF OpToRel
<1> QED
  BY <1>2

\* What a query answers, without the clock of a node.
Verdict(request, credential, t) ==
  IF request.path = "register"
    THEN WebAuthNVerifyRegister(request, t, 0)
    ELSE WebAuthNVerifyAuthenticate(request, credential)

\* The statement is dropped before the library would look at the clock.
LEMMA StatementDropped ==
  ASSUME NEW data, IsAttestation(data)
  PROVE  /\ WithoutStatement(data).format = attestationFormatNone
         /\ WithoutStatement(data).attStatement = Nothing
         /\ WithoutStatement(data).alg = data.alg
BY DEF WithoutStatement, IsAttestation

\* A registration without its statement is answered without the clock.
LEMMA ClockFree ==
  ASSUME NEW request, IsAttestation(request.data), NEW t, NEW c
  PROVE  WebAuthNVerifyRegister(request, t, c) = WebAuthNVerifyRegister(request, t, 0)
<1>1. ASSUME NEW k
      PROVE  Verify(request, WithoutStatement(request.data), k)
               <=> /\ ClientDataMatches(request)
                   /\ request.data.alg \in {"ES256K", "ES256", "EdDSA", "RS256"}
  BY StatementDropped DEF Verify
<1>2. CreateCredential(request, t, c) = CreateCredential(request, t, 0)
  BY <1>1 DEF CreateCredential
<1> QED
  BY <1>2 DEF WebAuthNVerifyRegister

\* The chain's reading of a certificate chain is the code's.
LEMMA AttestedMeans ==
  ASSUME NEW data, IsAttestation(data), NEW t \in Nat
  PROVE  validateCertificatesWithBlockTime(data, t) <=> C!Attested(data, t)
<1> DEFINE s == data.attStatement
<1>1. CASE s = Nothing
  <2>1. "x5c" \notin DOMAIN s
    BY <1>1 DEF Nothing
  <2> QED
    BY <1>1, <2>1 DEF validateCertificatesWithBlockTime, C!Attested
<1>2. CASE s # Nothing
  <2>1. "x5c" \in DOMAIN s
        /\ \A i \in DOMAIN s.x5c : s.x5c[i] \in [parses : BOOLEAN, notBefore : Nat, notAfter : Nat]
    BY <1>2 DEF IsAttestation
  <2>2. ASSUME NEW i \in DOMAIN s.x5c
        PROVE  ValidAt(s.x5c[i], t)
                 <=> s.x5c[i].parses /\ t \in s.x5c[i].notBefore .. s.x5c[i].notAfter
    <3>1. s.x5c[i].notBefore \in Nat /\ s.x5c[i].notAfter \in Nat
      BY <2>1
    <3> QED
      BY <3>1 DEF ValidAt
  <2> QED
    BY <1>2, <2>1, <2>2 DEF validateCertificatesWithBlockTime, C!Attested, attestationFormatNone
<1> QED
  BY <1>1, <1>2

\* A registration is answered as Chain says, by request and block time.
LEMMA RegisterMeans ==
  ASSUME NEW request, request.path = "register", IsAttestation(request.data), NEW t \in Nat
  PROVE  WebAuthNVerifyRegister(request, t, 0)
           = IF C!Registers(request, t) THEN Answered(NewCredential(request.data)) ELSE Failed
<1>1. Verify(request, WithoutStatement(request.data), 0)
        <=> /\ ClientDataMatches(request)
            /\ request.data.alg \in {"ES256K", "ES256", "EdDSA", "RS256"}
  BY StatementDropped DEF Verify
<1>2. validateCertificatesWithBlockTime(request.data, t) <=> C!Attested(request.data, t)
  BY AttestedMeans
<1> QED
  BY <1>1, <1>2 DEF WebAuthNVerifyRegister, CreateCredential, C!Registers, C!WellFormed,
     ClientDataMatches, validateCredentialCreation, validateAttestation, Parses,
     MaxWebAuthDataSize, minAuthDataLength, BadUrl

\* An assertion is answered as Chain says, by request and credential.
LEMMA AuthenticateMeans ==
  ASSUME NEW request, request.path = "authenticate", NEW creds, NEW credential,
         credential = IF request.addr \in DOMAIN creds THEN creds[request.addr] ELSE Nothing,
         request.addr \in DOMAIN creds => creds[request.addr] # Nothing
  PROVE  WebAuthNVerifyAuthenticate(request, credential)
           = IF C!Authenticates(request, creds) THEN Answered(AuthenticateResponse) ELSE Failed
<1> DEFINE W == /\ request.size <= MaxWebAuthDataSize /\ request.rp # BadUrl
                /\ validateCredentialRequest(request.data) /\ Parses(request.data)
                /\ ClientDataMatches(request)
<1>1. W <=> C!WellFormed(request)
  BY DEF C!WellFormed, ClientDataMatches, validateCredentialRequest, validateAttestation,
         Parses, MaxWebAuthDataSize, minAuthDataLength, BadUrl
<1>2. HandleMatches(request) <=> C!NamesAccount(request)
  BY Zenon DEF HandleMatches, C!NamesAccount
<1>3. WebAuthNVerifyAuthenticate(request, credential)
        = IF /\ W /\ credential # Nothing /\ credential.size <= MaxWebAuthDataSize
             /\ request.data.id = credential.id
             /\ HandleMatches(request)
             /\ request.data.signedBy = credential.key
            THEN Answered(AuthenticateResponse) ELSE Failed
  BY DEF WebAuthNVerifyAuthenticate, ValidateLogin
<1> HIDE DEF W
<1>4. MaxWebAuthDataSize = 65536
  BY DEF MaxWebAuthDataSize
<1> QED
  BY <1>1, <1>2, <1>3, <1>4 DEF C!Authenticates

\* What the verdict is in the terms of Chain.
LEMMA VerdictMeans ==
  ASSUME NEW request, request.path \in Whitelist,
         request.path = "register" => IsAttestation(request.data),
         NEW t \in Nat, NEW creds, NEW credential,
         credential = IF request.addr \in DOMAIN creds THEN creds[request.addr] ELSE Nothing,
         request.addr \in DOMAIN creds => creds[request.addr] # Nothing
  PROVE  Verdict(request, credential, t)
           = IF C!Registers(request, t) THEN Answered(NewCredential(request.data))
             ELSE IF C!Authenticates(request, creds) THEN Answered(AuthenticateResponse)
             ELSE Failed
<1>1. CASE request.path = "register"
  <2>1. ~ C!Authenticates(request, creds)
    BY <1>1 DEF C!Authenticates
  <2> QED
    BY <1>1, <2>1, RegisterMeans DEF Verdict
<1>2. CASE request.path = "authenticate"
  <2>1. ~ C!Registers(request, t)
    BY <1>2 DEF C!Registers
  <2>2. Verdict(request, credential, t) = WebAuthNVerifyAuthenticate(request, credential)
    BY <1>2 DEF Verdict
  <2> QED
    BY <1>2, <2>1, <2>2, AuthenticateMeans
<1> QED
  BY <1>1, <1>2 DEF Whitelist

-----------------------------------------------------------------------------
(***************************************************************************)
(* The migrations. Every one that is due has a position in the order in    *)
(* which RunMigrations takes them, and each node runs the k-th as its k-th.*)
(***************************************************************************)
ModuleNames == {"dkim", "globalfee", "jwk", "xion", "zk"}

Steps(m) == ConsensusVersion[m] - FromVersion[m]

Offset == [dkim      |-> 0,
           globalfee |-> Steps("dkim"),
           jwk       |-> Steps("dkim") + Steps("globalfee"),
           xion      |-> Steps("dkim") + Steps("globalfee") + Steps("jwk"),
           zk        |-> Steps("dkim") + Steps("globalfee") + Steps("jwk") + Steps("xion")]

Position(x) == Offset[x[1]] + (x[2] - FromVersion[x[1]]) + 1

\* The number of migrations that have brought the modules to these versions.
Progress(v) ==
  (v["dkim"] - FromVersion["dkim"]) + (v["globalfee"] - FromVersion["globalfee"])
    + (v["jwk"] - FromVersion["jwk"]) + (v["xion"] - FromVersion["xion"])
    + (v["zk"] - FromVersion["zk"])

\* The modules have been migrated in their order as far as these versions.
InOrder(v) ==
  /\ v \in [ModuleNames -> Nat]
  /\ \A m \in ModuleNames : FromVersion[m] <= v[m] /\ v[m] <= ConsensusVersion[m]
  /\ \A i, j \in 1..5 :
       i < j /\ v[Modules[j]] # FromVersion[Modules[j]]
         => v[Modules[i]] = ConsensusVersion[Modules[i]]

Migrating(v, ran) ==
  /\ InOrder(v)
  /\ ran \in Seq(Due) /\ Len(ran) = Progress(v)
  /\ \A k \in 1..Len(ran) : Position(ran[k]) = k

\* The modules that migrate, in the order of their names.
LEMMA ModuleFacts ==
  /\ DOMAIN ConsensusVersion = ModuleNames
  /\ ConsensusVersion["dkim"] = 2 /\ ConsensusVersion["globalfee"] = 2
  /\ ConsensusVersion["jwk"] = 3 /\ ConsensusVersion["xion"] = 1 /\ ConsensusVersion["zk"] = 3
  /\ DOMAIN Modules = 1..5
  /\ Modules[1] = "dkim" /\ Modules[2] = "globalfee" /\ Modules[3] = "jwk"
  /\ Modules[4] = "xion" /\ Modules[5] = "zk"
<1>1. DOMAIN ConsensusVersion = ModuleNames
  BY DEF ConsensusVersion, ModuleNames
<1>2. /\ ConsensusVersion["dkim"] = 2 /\ ConsensusVersion["globalfee"] = 2
      /\ ConsensusVersion["jwk"] = 3 /\ ConsensusVersion["xion"] = 1 /\ ConsensusVersion["zk"] = 3
  BY DEF ConsensusVersion
<1>3. DOMAIN Modules = 1..5
  BY DEF Modules
<1>4. /\ Modules[1] = "dkim" /\ Modules[2] = "globalfee" /\ Modules[3] = "jwk"
      /\ Modules[4] = "xion" /\ Modules[5] = "zk"
  BY DEF Modules
<1> QED
  BY <1>1, <1>2, <1>3, <1>4

\* No module comes twice.
LEMMA ModulesDistinct ==
  \A i, j \in 1..5 : Modules[i] \in ModuleNames /\ (Modules[i] = Modules[j] => i = j)
<1>1. \A i \in 1..5 : i = 1 \/ i = 2 \/ i = 3 \/ i = 4 \/ i = 5
  OBVIOUS
<1>2. \A i \in 1..5 : Modules[i] \in ModuleNames
  BY <1>1, ModuleFacts DEF ModuleNames
<1>3. ASSUME NEW i \in 1..5, NEW j \in 1..5, Modules[i] = Modules[j] PROVE i = j
  BY <1>1, <1>3, ModuleFacts
<1> QED
  BY <1>2, <1>3

\* Every module starts at one of its versions, and x/zk behind.
LEMMA FromFacts ==
  /\ FromVersion \in [ModuleNames -> Nat]
  /\ FromVersion["dkim"] \in 1..2 /\ FromVersion["globalfee"] \in 1..2
  /\ FromVersion["jwk"] \in 1..3 /\ FromVersion["xion"] \in 1..1 /\ FromVersion["zk"] \in 1..2
<1>1. /\ FromVersion \in [ModuleNames -> Nat \ {0}]
      /\ \A m \in ModuleNames : FromVersion[m] <= ConsensusVersion[m]
      /\ FromVersion["zk"] < ConsensusVersion["zk"]
  BY ModuleFacts, VersionsAssumption
<1>2. ASSUME NEW m \in ModuleNames PROVE FromVersion[m] \in Nat /\ FromVersion[m] # 0
  BY <1>1
<1>3. "dkim" \in ModuleNames /\ "globalfee" \in ModuleNames /\ "jwk" \in ModuleNames
      /\ "xion" \in ModuleNames /\ "zk" \in ModuleNames
  BY DEF ModuleNames
<1>4. FromVersion \in [ModuleNames -> Nat]
  BY <1>1
<1> QED
  BY <1>1, <1>2, <1>3, <1>4, ModuleFacts

\* The offsets leave room for the migrations of the modules before.
LEMMA OffsetFacts ==
  /\ Offset["dkim"] = 0
  /\ Offset["globalfee"] = Steps("dkim")
  /\ Offset["jwk"] = Offset["globalfee"] + Steps("globalfee")
  /\ Offset["xion"] = Offset["jwk"] + Steps("jwk")
  /\ Offset["zk"] = Offset["xion"] + Steps("xion")
  /\ Progress(ConsensusVersion) = Offset["zk"] + Steps("zk")
  /\ \A m \in ModuleNames : Steps(m) \in Nat /\ Offset[m] \in Nat
<1>1. \A m \in ModuleNames : Steps(m) \in Nat
  BY FromFacts, ModuleFacts DEF Steps, ModuleNames
<1>2. /\ Offset["dkim"] = 0 /\ Offset["globalfee"] = Steps("dkim")
      /\ Offset["jwk"] = Steps("dkim") + Steps("globalfee")
      /\ Offset["xion"] = Steps("dkim") + Steps("globalfee") + Steps("jwk")
      /\ Offset["zk"] = Steps("dkim") + Steps("globalfee") + Steps("jwk") + Steps("xion")
  BY DEF Offset
<1>3. Progress(ConsensusVersion)
        = Steps("dkim") + Steps("globalfee") + Steps("jwk") + Steps("xion") + Steps("zk")
  BY DEF Progress, Steps
<1>4. "dkim" \in ModuleNames /\ "globalfee" \in ModuleNames /\ "jwk" \in ModuleNames
      /\ "xion" \in ModuleNames /\ "zk" \in ModuleNames
  BY DEF ModuleNames
<1>5. \A m \in ModuleNames : Offset[m] \in Nat
  BY <1>1, <1>2, <1>4 DEF ModuleNames
<1> QED
  BY <1>1, <1>2, <1>3, <1>4, <1>5

\* A migration that is due has a place in the order.
LEMMA DueFacts ==
  ASSUME NEW x \in Due
  PROVE  /\ x = <<x[1], x[2]>> /\ x[1] \in ModuleNames /\ x[2] \in Nat
         /\ FromVersion[x[1]] <= x[2] /\ x[2] < ConsensusVersion[x[1]]
         /\ Position(x) \in Nat
         /\ Offset[x[1]] < Position(x) /\ Position(x) <= Offset[x[1]] + Steps(x[1])
<1>0. PICK m \in ModuleNames : x \in {<<m, v>> : v \in FromVersion[m] .. (ConsensusVersion[m] - 1)}
  BY ModuleFacts DEF Due
<1>1. PICK v \in FromVersion[m] .. (ConsensusVersion[m] - 1) : x = <<m, v>>
  BY <1>0
<1>2. FromVersion[m] \in Nat /\ ConsensusVersion[m] \in Nat
  BY FromFacts, ModuleFacts DEF ModuleNames
<1>3. v \in Nat /\ FromVersion[m] <= v /\ v < ConsensusVersion[m]
  BY <1>1, <1>2
<1>4. Offset[m] \in Nat /\ Steps(m) = ConsensusVersion[m] - FromVersion[m]
  BY OffsetFacts DEF Steps
<1>5. Position(x) = Offset[m] + (v - FromVersion[m]) + 1
  BY <1>1 DEF Position
<1>6. x[1] = m /\ x[2] = v
  BY <1>1
<1> QED
  BY <1>1, <1>2, <1>3, <1>4, <1>5, <1>6

\* Two migrations at the same position are the same; the later of one module
\* come later.
LEMMA PositionOrders ==
  ASSUME NEW x \in Due, NEW y \in Due
  PROVE  /\ Position(x) = Position(y) => x = y
         /\ Position(x) < Position(y) /\ x[1] = y[1] => x[2] < y[2]
<1>1. /\ x = <<x[1], x[2]>> /\ x[1] \in ModuleNames /\ x[2] \in Nat
      /\ Offset[x[1]] < Position(x) /\ Position(x) <= Offset[x[1]] + Steps(x[1])
      /\ Position(x) \in Nat
  BY DueFacts
<1>2. /\ y = <<y[1], y[2]>> /\ y[1] \in ModuleNames /\ y[2] \in Nat
      /\ Offset[y[1]] < Position(y) /\ Position(y) <= Offset[y[1]] + Steps(y[1])
      /\ Position(y) \in Nat
  BY DueFacts
<1>3. \A m, k \in ModuleNames :
        m # k => Offset[m] + Steps(m) <= Offset[k] \/ Offset[k] + Steps(k) <= Offset[m]
  <2>1. /\ Steps("dkim") \in Nat /\ Steps("globalfee") \in Nat /\ Steps("jwk") \in Nat
        /\ Steps("xion") \in Nat /\ Steps("zk") \in Nat
        /\ Offset["dkim"] \in Nat /\ Offset["globalfee"] \in Nat /\ Offset["jwk"] \in Nat
        /\ Offset["xion"] \in Nat /\ Offset["zk"] \in Nat
    BY OffsetFacts DEF ModuleNames
  <2> QED
    BY <2>1, OffsetFacts DEF ModuleNames
<1>4. Offset[x[1]] \in Nat /\ Steps(x[1]) \in Nat /\ Offset[y[1]] \in Nat /\ Steps(y[1]) \in Nat
  BY <1>1, <1>2, OffsetFacts
<1>5. Position(x) = Position(y) => x[1] = y[1]
  BY <1>1, <1>2, <1>3, <1>4
<1>6. FromVersion[x[1]] \in Nat /\ FromVersion[y[1]] \in Nat
  BY <1>1, <1>2, FromFacts
<1>7. Position(x) = Offset[x[1]] + (x[2] - FromVersion[x[1]]) + 1
      /\ Position(y) = Offset[y[1]] + (y[2] - FromVersion[y[1]]) + 1
  BY DEF Position
<1>8. x[1] = y[1] => /\ Position(x) = Position(y) => x[2] = y[2]
                     /\ Position(x) < Position(y) => x[2] < y[2]
  BY <1>1, <1>2, <1>4, <1>6, <1>7
<1> QED
  BY <1>1, <1>2, <1>5, <1>8

\* Before the first migration.
LEMMA MigrationsStart == Migrating(FromVersion, << >>)
<1>1. InOrder(FromVersion)
  <2>1. ASSUME NEW m \in ModuleNames PROVE FromVersion[m] <= FromVersion[m] /\ FromVersion[m] <= ConsensusVersion[m]
    BY FromFacts, ModuleFacts DEF ModuleNames
  <2> QED
    BY <2>1, FromFacts DEF InOrder
<1>2. Progress(FromVersion) = 0
  BY FromFacts DEF Progress
<1> QED
  BY <1>1, <1>2 DEF Migrating

\* The next module to migrate is the first that is behind: those before it
\* are done, those after it are untouched.
LEMMA FirstBehind ==
  ASSUME NEW v, InOrder(v), Behind(v) # {}
  PROVE  \E k \in 1..5 :
           /\ k = CHOOSE i \in Behind(v) : \A j \in Behind(v) : i <= j
           /\ v[Modules[k]] < ConsensusVersion[Modules[k]]
           /\ \A i \in 1..5 : i < k => v[Modules[i]] = ConsensusVersion[Modules[i]]
           /\ \A j \in 1..5 : k < j => v[Modules[j]] = FromVersion[Modules[j]]
<1> DEFINE B == Behind(v)
           k == CHOOSE i \in B : \A j \in B : i <= j
<1>1. B \subseteq 1..5 /\ B \in SUBSET Nat
  BY ModuleFacts DEF Behind
<1>2. \E i \in B : \A j \in B : i <= j
  <2> HIDE DEF B
  <2> QED
    BY <1>1, LeastNatural DEF B
<1>3. k \in B /\ \A j \in B : k <= j
  <2> HIDE DEF B
  <2> QED
    BY <1>2
<1>4. k \in 1..5 /\ v[Modules[k]] < ConsensusVersion[Modules[k]]
  <2> HIDE DEF k
  <2> QED
    BY <1>1, <1>3 DEF Behind
<1> HIDE DEF k
<1>5. \A i \in 1..5 : Modules[i] \in ModuleNames
  BY ModuleFacts DEF ModuleNames
<1>6. \A m \in ModuleNames : v[m] \in Nat /\ ConsensusVersion[m] \in Nat /\ v[m] <= ConsensusVersion[m]
  BY ModuleFacts DEF InOrder, ModuleNames
<1>7. ASSUME NEW i \in 1..5, i < k PROVE v[Modules[i]] = ConsensusVersion[Modules[i]]
  <2>1. i \notin B
    BY <1>3, <1>4, <1>7
  <2>2. ~ (v[Modules[i]] < ConsensusVersion[Modules[i]])
    BY <2>1, ModuleFacts DEF Behind
  <2> QED
    BY <2>2, <1>5, <1>6
<1>8. ASSUME NEW j \in 1..5, k < j PROVE v[Modules[j]] = FromVersion[Modules[j]]
  <2>1. v[Modules[k]] # ConsensusVersion[Modules[k]]
    BY <1>4, <1>5, <1>6
  <2> QED
    BY <1>4, <1>8, <2>1 DEF InOrder
<1> QED
  BY <1>4, <1>7, <1>8 DEF k

\* The next migration is the next one of the order.
LEMMA MigrationsStep ==
  ASSUME NEW v, NEW ran, Migrating(v, ran), Behind(v) # {}, NEW m,
         m = NextModule(v)
  PROVE  /\ m \in ModuleNames
         /\ Migrating([v EXCEPT ![m] = v[m] + 1], Append(ran, <<m, v[m]>>))
<1>0. InOrder(v) /\ ran \in Seq(Due) /\ Len(ran) = Progress(v)
      /\ \A i \in 1..Len(ran) : Position(ran[i]) = i
  BY DEF Migrating
<1>1. PICK k \in 1..5 :
        /\ k = CHOOSE i \in Behind(v) : \A j \in Behind(v) : i <= j
        /\ v[Modules[k]] < ConsensusVersion[Modules[k]]
        /\ \A i \in 1..5 : i < k => v[Modules[i]] = ConsensusVersion[Modules[i]]
        /\ \A j \in 1..5 : k < j => v[Modules[j]] = FromVersion[Modules[j]]
  BY <1>0, FirstBehind
<1>2. m = Modules[k] /\ m \in ModuleNames
  <2>1. m = Modules[k]
    BY <1>1, Zenon DEF NextModule
  <2> QED
    BY <2>1, ModulesDistinct
<1> DEFINE w == [v EXCEPT ![m] = v[m] + 1]
           x == <<m, v[m]>>
           ran2 == Append(ran, x)
<1>3. \A p \in ModuleNames : /\ v[p] \in Nat /\ ConsensusVersion[p] \in Nat /\ FromVersion[p] \in Nat
                             /\ FromVersion[p] <= v[p] /\ v[p] <= ConsensusVersion[p]
  BY <1>0, ModuleFacts, FromFacts DEF InOrder, ModuleNames
<1>4. v \in [ModuleNames -> Nat] /\ w \in [ModuleNames -> Nat]
  BY <1>0, <1>2, <1>3 DEF InOrder
<1>5. x \in Due
  <2>1. v[m] \in FromVersion[m] .. (ConsensusVersion[m] - 1)
    BY <1>1, <1>2, <1>3
  <2> QED
    BY <2>1, <1>2, ModuleFacts DEF Due
<1>6. w[m] = v[m] + 1 /\ \A p \in ModuleNames : p # m => w[p] = v[p]
  BY <1>2, <1>4
<1>7. \A i \in 1..5 : Modules[i] \in ModuleNames /\ (Modules[i] = m => i = k)
  BY <1>2, ModulesDistinct
<1> HIDE DEF w
<1>8. InOrder(w)
  <2>1. ASSUME NEW p \in ModuleNames
        PROVE  FromVersion[p] <= w[p] /\ w[p] <= ConsensusVersion[p]
    <3>1. CASE p = m
      <4>1. v[m] < ConsensusVersion[m]
        BY <1>1, <1>2
      <4> QED
        BY <3>1, <4>1, <1>2, <1>3, <1>6
    <3>2. CASE p # m
      BY <3>2, <1>3, <1>6
    <3> QED
      BY <3>1, <3>2
  <2>2. ASSUME NEW i \in 1..5, NEW j \in 1..5, i < j, w[Modules[j]] # FromVersion[Modules[j]]
        PROVE  w[Modules[i]] = ConsensusVersion[Modules[i]]
    <3>1. j <= k
      <4> SUFFICES ASSUME k < j PROVE FALSE
        OBVIOUS
      <4>1. v[Modules[j]] = FromVersion[Modules[j]]
        BY <1>1
      <4>2. j # k
        OBVIOUS
      <4>3. Modules[j] # m /\ Modules[j] \in ModuleNames
        BY <4>2, <1>7
      <4> QED
        BY <4>1, <4>3, <1>6, <2>2
    <3>2. i < k /\ i # k
      BY <2>2, <3>1
    <3> QED
      BY <3>2, <1>1, <1>6, <1>7
  <2> QED
    BY <1>4, <2>1, <2>2 DEF InOrder
<1>9. Progress(w) = Progress(v) + 1 /\ Position(x) = Progress(v) + 1
  <2>1. /\ v["dkim"] \in Nat /\ v["globalfee"] \in Nat /\ v["jwk"] \in Nat /\ v["xion"] \in Nat /\ v["zk"] \in Nat
        /\ "dkim" \in ModuleNames /\ "globalfee" \in ModuleNames /\ "jwk" \in ModuleNames
        /\ "xion" \in ModuleNames /\ "zk" \in ModuleNames
    BY <1>3 DEF ModuleNames
  <2>2. Position(x) = Offset[m] + (v[m] - FromVersion[m]) + 1
    BY DEF Position
  <2>3. /\ Offset["dkim"] = 0 /\ Offset["globalfee"] = Steps("dkim")
        /\ Offset["jwk"] = Steps("dkim") + Steps("globalfee")
        /\ Offset["xion"] = Steps("dkim") + Steps("globalfee") + Steps("jwk")
        /\ Offset["zk"] = Steps("dkim") + Steps("globalfee") + Steps("jwk") + Steps("xion")
    BY DEF Offset
  <2>4. /\ Progress(v) = (v["dkim"] - FromVersion["dkim"]) + (v["globalfee"] - FromVersion["globalfee"])
             + (v["jwk"] - FromVersion["jwk"]) + (v["xion"] - FromVersion["xion"]) + (v["zk"] - FromVersion["zk"])
        /\ Progress(w) = (w["dkim"] - FromVersion["dkim"]) + (w["globalfee"] - FromVersion["globalfee"])
             + (w["jwk"] - FromVersion["jwk"]) + (w["xion"] - FromVersion["xion"]) + (w["zk"] - FromVersion["zk"])
    BY DEF Progress
  <2>5. \A p \in ModuleNames : Steps(p) = ConsensusVersion[p] - FromVersion[p]
    BY DEF Steps
  <2>6. CASE k = 1
    <3>1. m = "dkim"
      BY <2>6, <1>2, ModuleFacts
    <3>2. /\ w["dkim"] = v["dkim"] + 1
          /\ w["globalfee"] = v["globalfee"]
          /\ w["jwk"] = v["jwk"]
          /\ w["xion"] = v["xion"]
          /\ w["zk"] = v["zk"]
      BY <3>1, <2>1, <1>6
    <3>3. /\ v["globalfee"] = FromVersion["globalfee"]
          /\ v["jwk"] = FromVersion["jwk"]
          /\ v["xion"] = FromVersion["xion"]
          /\ v["zk"] = FromVersion["zk"]
      BY <2>6, <1>1, ModuleFacts
    <3> QED
      BY <2>1, <2>2, <2>3, <2>4, <2>5, <3>1, <3>2, <3>3, FromFacts, ModuleFacts
  <2>7. CASE k = 2
    <3>1. m = "globalfee"
      BY <2>7, <1>2, ModuleFacts
    <3>2. /\ w["globalfee"] = v["globalfee"] + 1
          /\ w["dkim"] = v["dkim"]
          /\ w["jwk"] = v["jwk"]
          /\ w["xion"] = v["xion"]
          /\ w["zk"] = v["zk"]
      BY <3>1, <2>1, <1>6
    <3>3. /\ v["dkim"] = ConsensusVersion["dkim"]
          /\ v["jwk"] = FromVersion["jwk"]
          /\ v["xion"] = FromVersion["xion"]
          /\ v["zk"] = FromVersion["zk"]
      BY <2>7, <1>1, ModuleFacts
    <3> QED
      BY <2>1, <2>2, <2>3, <2>4, <2>5, <3>1, <3>2, <3>3, FromFacts, ModuleFacts
  <2>8. CASE k = 3
    <3>1. m = "jwk"
      BY <2>8, <1>2, ModuleFacts
    <3>2. /\ w["jwk"] = v["jwk"] + 1
          /\ w["dkim"] = v["dkim"]
          /\ w["globalfee"] = v["globalfee"]
          /\ w["xion"] = v["xion"]
          /\ w["zk"] = v["zk"]
      BY <3>1, <2>1, <1>6
    <3>3. /\ v["dkim"] = ConsensusVersion["dkim"]
          /\ v["globalfee"] = ConsensusVersion["globalfee"]
          /\ v["xion"] = FromVersion["xion"]
          /\ v["zk"] = FromVersion["zk"]
      BY <2>8, <1>1, ModuleFacts
    <3> QED
      BY <2>1, <2>2, <2>3, <2>4, <2>5, <3>1, <3>2, <3>3, FromFacts, ModuleFacts
  <2>9. CASE k = 4
    <3>1. m = "xion"
      BY <2>9, <1>2, ModuleFacts
    <3>2. /\ w["xion"] = v["xion"] + 1
          /\ w["dkim"] = v["dkim"]
          /\ w["globalfee"] = v["globalfee"]
          /\ w["jwk"] = v["jwk"]
          /\ w["zk"] = v["zk"]
      BY <3>1, <2>1, <1>6
    <3>3. /\ v["dkim"] = ConsensusVersion["dkim"]
          /\ v["globalfee"] = ConsensusVersion["globalfee"]
          /\ v["jwk"] = ConsensusVersion["jwk"]
          /\ v["zk"] = FromVersion["zk"]
      BY <2>9, <1>1, ModuleFacts
    <3> QED
      BY <2>1, <2>2, <2>3, <2>4, <2>5, <3>1, <3>2, <3>3, FromFacts, ModuleFacts
  <2>10. CASE k = 5
    <3>1. m = "zk"
      BY <2>10, <1>2, ModuleFacts
    <3>2. /\ w["zk"] = v["zk"] + 1
          /\ w["dkim"] = v["dkim"]
          /\ w["globalfee"] = v["globalfee"]
          /\ w["jwk"] = v["jwk"]
          /\ w["xion"] = v["xion"]
      BY <3>1, <2>1, <1>6
    <3>3. /\ v["dkim"] = ConsensusVersion["dkim"]
          /\ v["globalfee"] = ConsensusVersion["globalfee"]
          /\ v["jwk"] = ConsensusVersion["jwk"]
          /\ v["xion"] = ConsensusVersion["xion"]
      BY <2>10, <1>1, ModuleFacts
    <3> QED
      BY <2>1, <2>2, <2>3, <2>4, <2>5, <3>1, <3>2, <3>3, FromFacts, ModuleFacts
  <2> QED
    BY <2>6, <2>7, <2>8, <2>9, <2>10
<1> HIDE DEF x
<1>10. ran2 \in Seq(Due) /\ Len(ran2) = Len(ran) + 1 /\ ran2[Len(ran) + 1] = x
       /\ \A i \in 1..Len(ran) : ran2[i] = ran[i]
  BY <1>0, <1>5
<1> HIDE DEF ran2
<1>11. Len(ran) \in Nat
  BY <1>0
<1>12. Len(ran2) = Progress(w)
  BY <1>0, <1>9, <1>10
<1>13. ASSUME NEW i \in 1..Len(ran2) PROVE Position(ran2[i]) = i
  <2>1. CASE i = Len(ran) + 1
    BY <2>1, <1>0, <1>9, <1>10
  <2>2. CASE i # Len(ran) + 1
    <3>1. i \in 1..Len(ran)
      BY <2>2, <1>10, <1>11
    <3> QED
      BY <3>1, <1>0, <1>10
  <2> QED
    BY <2>1, <2>2
<1>14. Migrating(w, ran2)
  BY <1>8, <1>10, <1>12, <1>13 DEF Migrating
<1> QED
  BY <1>2, <1>14 DEF w, ran2, x

\* When no module is behind, all are at their version.
LEMMA MigrationsEnd ==
  ASSUME NEW v, InOrder(v), Behind(v) = {}
  PROVE  v = ConsensusVersion
<1>1. \A i \in 1..5 : ~ (v[Modules[i]] < ConsensusVersion[Modules[i]])
  BY ModuleFacts DEF Behind
<1>2. \A p \in ModuleNames : v[p] \in Nat /\ ConsensusVersion[p] \in Nat /\ v[p] <= ConsensusVersion[p]
  BY ModuleFacts DEF InOrder, ModuleNames
<1>3. \A p \in ModuleNames : \E i \in 1..5 : p = Modules[i]
  BY ModuleFacts DEF ModuleNames
<1>4. \A p \in ModuleNames : v[p] = ConsensusVersion[p]
  BY <1>1, <1>2, <1>3
<1>5. ConsensusVersion \in [ModuleNames -> Nat]
  BY DEF ConsensusVersion, ModuleNames
<1> QED
  BY <1>4, <1>5 DEF InOrder

\* There is one order in which all migrations run, and it is what Chain asks
\* for.
MigrationOrder == CHOOSE ran : Migrating(ConsensusVersion, ran)

\* Whoever ran the migrations to the end ran the same ones.
LEMMA MigrationsUnique ==
  ASSUME NEW ran, Migrating(ConsensusVersion, ran)
  PROVE  ran = MigrationOrder /\ C!Migrated(ran)
<1>0. ran \in Seq(Due) /\ Len(ran) = Progress(ConsensusVersion) /\ Len(ran) \in Nat
      /\ \A i \in 1..Len(ran) : Position(ran[i]) = i
  BY DEF Migrating
<1>1. ran = MigrationOrder
  <2> DEFINE other == MigrationOrder
  <2>1. Migrating(ConsensusVersion, other)
    BY DEF MigrationOrder
  <2>2. other \in Seq(Due) /\ Len(other) = Progress(ConsensusVersion)
        /\ \A i \in 1..Len(other) : Position(other[i]) = i
    BY <2>1 DEF Migrating
  <2> HIDE DEF other
  <2>3. Len(ran) = Len(other)
    BY <1>0, <2>2
  <2>4. ASSUME NEW i \in 1..Len(ran) PROVE ran[i] = other[i]
    <3>1. ran[i] \in Due /\ other[i] \in Due /\ Position(ran[i]) = Position(other[i])
      BY <1>0, <2>2, <2>3
    <3> QED
      BY <3>1, PositionOrders
  <2>5. ran = other
    BY <1>0, <2>2, <2>3, <2>4, SeqEqual
  <2> QED
    BY <2>5 DEF other
<1>2. DOMAIN ran = 1..Len(ran) /\ \A i \in 1..Len(ran) : ran[i] \in Due
  BY <1>0
<1>3. ASSUME NEW x \in Due PROVE \E i \in DOMAIN ran : x = ran[i]
  <2>1. Position(x) \in 1..Len(ran)
    <3>1. /\ x[1] \in ModuleNames /\ Position(x) \in Nat
          /\ Offset[x[1]] < Position(x) /\ Position(x) <= Offset[x[1]] + Steps(x[1])
      BY DueFacts
    <3>2. \A p \in ModuleNames : Offset[p] \in Nat /\ Steps(p) \in Nat
      BY OffsetFacts
    <3>3. \A p \in ModuleNames : Offset[p] + Steps(p) <= Progress(ConsensusVersion)
      BY <3>2, OffsetFacts DEF ModuleNames
    <3> QED
      BY <3>1, <3>2, <3>3, <1>0
  <2>2. ran[Position(x)] \in Due /\ Position(ran[Position(x)]) = Position(x)
    BY <2>1, <1>0, <1>2
  <2>3. ran[Position(x)] = x
    BY <2>2, PositionOrders
  <2> QED
    BY <2>1, <2>3, <1>2
<1>4. {ran[i] : i \in DOMAIN ran} = Due
  BY <1>2, <1>3
<1>5. ASSUME NEW i \in DOMAIN ran, NEW j \in DOMAIN ran, i < j
      PROVE  ran[i] # ran[j] /\ (ran[i][1] = ran[j][1] => ran[i][2] < ran[j][2])
  <2>1. /\ ran[i] \in Due /\ ran[j] \in Due
        /\ Position(ran[i]) = i /\ Position(ran[j]) = j /\ i # j
    BY <1>0, <1>2, <1>5
  <2> QED
    BY <2>1, <1>5, PositionOrders
<1> QED
  BY <1>1, <1>4, <1>5 DEF C!Migrated

-----------------------------------------------------------------------------
(***************************************************************************)
(* What a block does to the state of a node, and the inductive invariant:  *)
(* the committed states lie on the one run of the agreed blocks, and what  *)
(* a node is in the middle of lies on the way from one to the next.        *)
(***************************************************************************)
Snap(h, creds, results, ran, plan, versions) ==
  [height |-> h, creds |-> creds, results |-> results, ran |-> ran, plan |-> plan,
   versions |-> versions]

GenesisState == Snap(0, << >>, << >>, << >>, TRUE, FromVersion)

\* The state after the pre-blocker, in an upgrade that goes as md says.
Upgraded(md, s) ==
  IF s.height + 1 # UpgradeHeight THEN s
  ELSE IF md = "skip" THEN Snap(s.height, s.creds, s.results, s.ran, FALSE, s.versions)
  ELSE Snap(s.height, s.creds, s.results, MigrationOrder, FALSE, ConsensusVersion)

\* What the contract is answered in block b, and the state it leaves.
AnswerIn(s, b) ==
  IF RequestOf[b.tx].path \in Whitelist
    THEN Verdict(RequestOf[b.tx], CredentialOf(s, RequestOf[b.tx].addr), b.time)
    ELSE Failed

Keeps(s, tx, answer) ==
  IF answer.ok /\ tx.path = "register"
    THEN [a \in DOMAIN s.creds \cup {tx.addr} |-> IF a = tx.addr THEN answer.value ELSE s.creds[a]]
    ELSE s.creds

Answering(s, tx, answer) ==
  Snap(s.height, Keeps(s, tx, answer), Append(s.results, answer.ok), s.ran, s.plan, s.versions)

Delivered(s, b) == Answering(s, RequestOf[b.tx], AnswerIn(s, b))

Higher(s) == Snap(s.height + 1, s.creds, s.results, s.ran, s.plan, s.versions)

Executed(md, s, b) == Higher(Delivered(Upgraded(md, s), b))

\* run is the run of the blocks of l, and every node is on it.
Follows(run, l, md, ap) ==
  /\ run[0] = GenesisState
  /\ \A h \in 0 .. (Len(l) - 1) : run[h+1] = Executed(md, run[h], l[h+1])
  /\ \A n \in Nodes : ap[n] = run[ap[n].height]

IsSnap(s) == s = Snap(s.height, s.creds, s.results, s.ran, s.plan, s.versions)

AppOK(l, md, a) ==
  /\ IsSnap(a) /\ a.height \in 0 .. Len(l)
  /\ a.plan \in BOOLEAN /\ (a.plan <=> a.height < UpgradeHeight)
  /\ a.plan => a.ran = << >> /\ a.versions = FromVersion
  /\ \A x \in DOMAIN a.creds : a.creds[x] # Nothing
  /\ md = "broken" => a.height < UpgradeHeight

\* The release is not broken, if this is its block, and its migrations have
\* all run.
Passes(md, a) ==
  a.height + 1 = UpgradeHeight =>
    md # "broken" /\ (md # "skip" => C!Migrated(MigrationOrder))

IsMigrating(md, a, s) ==
  /\ md # "skip" /\ a.height + 1 = UpgradeHeight
  /\ s = Snap(a.height, a.creds, a.results, s.ran, TRUE, s.versions)
  /\ Migrating(s.versions, s.ran)
  /\ md = "broken" => s.versions["zk"] = FromVersion["zk"]

WorkOK(l, md, a, wk) ==
  wk # Nothing =>
    /\ wk = [phase |-> wk.phase, app |-> wk.app]
    /\ a.height < Len(l)
    /\ \/ wk.phase = "migrate" /\ IsMigrating(md, a, wk.app)
       \/ wk.phase \in {"deliver", "query"} /\ Passes(md, a) /\ wk.app = Upgraded(md, a)
       \/ /\ wk.phase = "commit" /\ Passes(md, a)
          /\ wk.app = Delivered(Upgraded(md, a), l[a.height + 1])

\* A query in progress holds the answer it is due, in its own message.
VerdictOf(q) == Verdict(RequestOf[q.request], q.credential, q.time)

QueryOK(hp, w, q) ==
  q # Nothing =>
    /\ q = [stage |-> q.stage, request |-> q.request, credential |-> q.credential,
            time |-> q.time, instance |-> w, value |-> q.value]
    /\ q.request \in DOMAIN RequestOf /\ q.time \in Nat
    /\ RequestOf[q.request].path \in Whitelist
    /\ \/ q.stage = "route"
       \/ q.stage = "unmarshal" /\ VerdictOf(q) = Answered(q.value)
       \/ /\ q.stage = "marshal" /\ VerdictOf(q) = Answered(q.value)
          /\ w \in DOMAIN hp /\ hp[w] = q.value

BlockQueryOK(l, a, wk, q) ==
  q # Nothing =>
    /\ wk # Nothing /\ wk.phase = "query"
    /\ q.request = l[a.height + 1].tx /\ q.time = l[a.height + 1].time
    /\ q.credential = CredentialOf(wk.app, RequestOf[q.request].addr)

ServedOK(s) ==
  s # Nothing =>
    /\ s.request \in DOMAIN RequestOf /\ s.time \in Nat
    /\ RequestOf[s.request].path \in Whitelist
    /\ s.answer = Verdict(RequestOf[s.request], s.credential, s.time)

NodeOK(l, md, a, wk, qs, hp, sv) ==
  /\ AppOK(l, md, a)
  /\ WorkOK(l, md, a, wk)
  /\ qs = [w \in Workers |-> qs[w]]
  /\ \A w \in Workers : QueryOK(hp, w, qs[w])
  /\ BlockQueryOK(l, a, wk, qs["block"])
  /\ ServedOK(sv)

Blocks == [time : Nat, tx : DOMAIN RequestOf]

OnNodes(f) == f = [n \in Nodes |-> f[n]]

Inv ==
  /\ log \in Seq(Blocks) /\ mode \in {"run", "skip", "broken"}
  /\ OnNodes(app) /\ OnNodes(work) /\ OnNodes(query) /\ OnNodes(heap) /\ OnNodes(served)
  /\ \E run : Follows(run, log, mode, app)
  /\ \A n \in Nodes : NodeOK(log, mode, app[n], work[n], query[n], heap[n], served[n])

\* What the invariant says of one node.
LEMMA NodeFacts ==
  ASSUME Inv, NEW n \in Nodes
  PROVE  /\ NodeOK(log, mode, app[n], work[n], query[n], heap[n], served[n])
         /\ AppOK(log, mode, app[n])
         /\ app[n].height \in Nat /\ Len(log) \in Nat /\ app[n].height <= Len(log)
         /\ \A i \in 1..Len(log) : log[i].time \in Nat /\ log[i].tx \in DOMAIN RequestOf
<1>1. /\ NodeOK(log, mode, app[n], work[n], query[n], heap[n], served[n])
      /\ log \in Seq(Blocks)
  BY DEF Inv
<1>2. Len(log) \in Nat /\ \A i \in 1..Len(log) : log[i] \in Blocks
  <2> HIDE DEF Blocks
  <2> QED
    BY <1>1
<1>3. \A b \in Blocks : b.time \in Nat /\ b.tx \in DOMAIN RequestOf
  BY DEF Blocks
<1>4. AppOK(log, mode, app[n])
  BY <1>1 DEF NodeOK
<1>5. app[n].height \in 0 .. Len(log)
  BY <1>4 DEF AppOK
<1> QED
  BY <1>1, <1>2, <1>3, <1>4, <1>5

\* A step that writes back what a node has changes nothing.
LEMMA Untouched ==
  ASSUME NEW f, OnNodes(f), NEW n \in Nodes
  PROVE  f = [f EXCEPT ![n] = f[n]]
BY DEF OnNodes

\* A step of node n that leaves the log alone.
LEMMA NodeStep ==
  ASSUME Inv, NEW n \in Nodes, NEW a, NEW wk, NEW qs, NEW hp, NEW sv,
         log' = log, mode' = mode,
         app' = [app EXCEPT ![n] = a], work' = [work EXCEPT ![n] = wk],
         query' = [query EXCEPT ![n] = qs], heap' = [heap EXCEPT ![n] = hp],
         served' = [served EXCEPT ![n] = sv],
         NodeOK(log, mode, a, wk, qs, hp, sv),
         \/ a = app[n]
         \/ /\ app[n].height < Len(log)
            /\ a = Executed(mode, app[n], log[app[n].height + 1])
            /\ a.height = app[n].height + 1
  PROVE  Inv'
<1>1. /\ DOMAIN app = Nodes /\ DOMAIN work = Nodes /\ DOMAIN query = Nodes
      /\ DOMAIN heap = Nodes /\ DOMAIN served = Nodes
  BY DEF Inv, OnNodes
<1>2. /\ app'[n] = a /\ work'[n] = wk /\ query'[n] = qs /\ heap'[n] = hp /\ served'[n] = sv
      /\ \A m \in Nodes \ {n} :
           /\ app'[m] = app[m] /\ work'[m] = work[m] /\ query'[m] = query[m]
           /\ heap'[m] = heap[m] /\ served'[m] = served[m]
  BY <1>1
<1>3. OnNodes(app') /\ OnNodes(work') /\ OnNodes(query') /\ OnNodes(heap') /\ OnNodes(served')
  BY <1>1 DEF OnNodes
<1>4. ASSUME NEW m \in Nodes
      PROVE  NodeOK(log', mode', app'[m], work'[m], query'[m], heap'[m], served'[m])
  <2>1. CASE m = n
    BY <2>1, <1>2
  <2>2. CASE m # n
    BY <2>2, <1>2 DEF Inv
  <2> QED
    BY <2>1, <2>2
<1>5. \E run : Follows(run, log', mode', app')
  <2>1. PICK run : Follows(run, log, mode, app)
    BY DEF Inv
  <2>2. app[n].height \in Nat /\ Len(log) \in Nat
    BY NodeFacts
  <2>3. a = run[a.height]
    <3>1. app[n] = run[app[n].height]
      BY <2>1 DEF Follows
    <3>2. ASSUME app[n].height < Len(log),
                 a = Executed(mode, app[n], log[app[n].height + 1]),
                 a.height = app[n].height + 1
          PROVE  a = run[a.height]
      <4>1. app[n].height \in 0 .. (Len(log) - 1)
        BY <2>2, <3>2
      <4> QED
        BY <2>1, <3>1, <3>2, <4>1 DEF Follows
    <3> QED
      BY <3>1, <3>2
  <2>4. \A m \in Nodes : app'[m] = run[app'[m].height]
    BY <1>2, <2>1, <2>3 DEF Follows
  <2>5. Follows(run, log', mode', app')
    BY <2>1, <2>4 DEF Follows
  <2> QED
    BY <2>5
<1>6. log' \in Seq(Blocks) /\ mode' \in {"run", "skip", "broken"}
  BY DEF Inv
<1> QED
  BY <1>3, <1>4, <1>5, <1>6 DEF Inv, OnNodes, Follows

-----------------------------------------------------------------------------
\* The process of a node ends.
LEMMA DownInv ==
  ASSUME Inv, NEW n \in Nodes, Down(n)
  PROVE  Inv'
<1>1. /\ log' = log /\ mode' = mode
      /\ app' = [app EXCEPT ![n] = app[n]] /\ served' = [served EXCEPT ![n] = served[n]]
      /\ work' = [work EXCEPT ![n] = Nothing] /\ query' = [query EXCEPT ![n] = NoQueries]
      /\ heap' = [heap EXCEPT ![n] = << >>]
  BY Untouched DEF Down, Inv
<1>2. NodeOK(log, mode, app[n], work[n], query[n], heap[n], served[n])
  BY NodeFacts
<1>3. NoQueries = [w \in Workers |-> NoQueries[w]]
      /\ \A w \in Workers : NoQueries[w] = Nothing
  BY DEF NoQueries
<1>4. "block" \in Workers
  BY DEF Workers
<1>5. WorkOK(log, mode, app[n], Nothing)
      /\ (\A w \in Workers : QueryOK(<< >>, w, NoQueries[w]))
      /\ BlockQueryOK(log, app[n], Nothing, NoQueries["block"])
  BY <1>3, <1>4 DEF WorkOK, QueryOK, BlockQueryOK
<1>6. NodeOK(log, mode, app[n], Nothing, NoQueries, << >>, served[n])
  BY <1>2, <1>3, <1>5 DEF NodeOK
<1> QED
  BY <1>1, <1>6, NodeStep

\* A step that only changes the block in execution, while it asks nothing.
LEMMA ProceedInv ==
  ASSUME Inv, NEW n \in Nodes, NEW ph, NEW st, Proceed(n, ph, st),
         work[n] = Nothing \/ work[n].phase # "query",
         WorkOK(log, mode, app[n], [phase |-> ph, app |-> st])
  PROVE  Inv'
<1> DEFINE wk == [phase |-> ph, app |-> st]
<1>1. /\ log' = log /\ mode' = mode
      /\ app' = [app EXCEPT ![n] = app[n]] /\ served' = [served EXCEPT ![n] = served[n]]
      /\ query' = [query EXCEPT ![n] = query[n]] /\ heap' = [heap EXCEPT ![n] = heap[n]]
      /\ work' = [work EXCEPT ![n] = wk]
  BY Untouched DEF Proceed, Inv, chainVars, queryVars
<1>2. NodeOK(log, mode, app[n], work[n], query[n], heap[n], served[n])
  BY NodeFacts
<1>3. BlockQueryOK(log, app[n], wk, query[n]["block"])
  BY <1>2 DEF NodeOK, BlockQueryOK
<1>4. NodeOK(log, mode, app[n], wk, query[n], heap[n], served[n])
  BY <1>2, <1>3 DEF NodeOK
<1> HIDE DEF wk
<1> QED
  BY <1>1, <1>4, NodeStep

\* The committed state with the plan cleared, as EXCEPT writes it.
LEMMA ClearPlan ==
  ASSUME NEW s, IsSnap(s)
  PROVE  [s EXCEPT !.plan = FALSE]
           = Snap(s.height, s.creds, s.results, s.ran, FALSE, s.versions)
<1> DEFINE e == [s EXCEPT !.plan = FALSE]
           t == Snap(s.height, s.creds, s.results, s.ran, FALSE, s.versions)
           Fields == {"height", "creds", "results", "ran", "plan", "versions"}
<1>1. t = [f \in Fields |-> t[f]]
      /\ t["height"] = s.height /\ t["creds"] = s.creds /\ t["results"] = s.results
      /\ t["ran"] = s.ran /\ t["plan"] = FALSE /\ t["versions"] = s.versions
  BY DEF Snap
<1>2. s = Snap(s.height, s.creds, s.results, s.ran, s.plan, s.versions)
  BY DEF IsSnap
<1>3. DOMAIN s = Fields
  BY <1>2 DEF Snap
<1>4. e = [f \in Fields |-> IF f = "plan" THEN FALSE ELSE s[f]]
  BY <1>3
<1>5. \A f \in Fields : (IF f = "plan" THEN FALSE ELSE s[f]) = t[f]
  BY <1>1
<1> HIDE DEF t, Fields
<1>6. e = t
  BY <1>1, <1>4, <1>5
<1> QED
  BY <1>6 DEF t

\* What one migration does to the state of a block.
LEMMA MigrateMeans ==
  ASSUME NEW s, IsSnap(s), NEW m
  PROVE  Migrate(s, m) = Snap(s.height, s.creds, s.results, Append(s.ran, <<m, s.versions[m]>>),
                              s.plan, [s.versions EXCEPT ![m] = s.versions[m] + 1])
<1> DEFINE v  == [s.versions EXCEPT ![m] = s.versions[m] + 1]
           rn == Append(s.ran, <<m, s.versions[m]>>)
           e  == Migrate(s, m)
           t  == Snap(s.height, s.creds, s.results, rn, s.plan, v)
           Fields == {"height", "creds", "results", "ran", "plan", "versions"}
<1>1. t = [f \in Fields |-> t[f]]
      /\ t["height"] = s.height /\ t["creds"] = s.creds /\ t["results"] = s.results
      /\ t["ran"] = rn /\ t["plan"] = s.plan /\ t["versions"] = v
  BY DEF Snap
<1>2. s = Snap(s.height, s.creds, s.results, s.ran, s.plan, s.versions)
  BY DEF IsSnap
<1>3. DOMAIN s = Fields
  BY <1>2 DEF Snap
<1>4. e = [f \in Fields |-> IF f = "ran" THEN rn ELSE IF f = "versions" THEN v ELSE s[f]]
  BY <1>3 DEF Migrate
<1>5. \A f \in Fields : (IF f = "ran" THEN rn ELSE IF f = "versions" THEN v ELSE s[f]) = t[f]
  <2> HIDE DEF v, rn, t
  <2> QED
    BY <1>1
<1> HIDE DEF t, Fields, e, v, rn
<1>6. e = t
  BY <1>1, <1>4, <1>5
<1> QED
  BY <1>6 DEF t, e, v, rn

\* A block begins, or the node stops and leaves a note.
LEMMA PreBlockerInv ==
  ASSUME Inv, NEW n \in Nodes, PreBlocker(n)
  PROVE  Inv'
<1> DEFINE a == app[n]
           h == a.height + 1
<1>1. /\ work[n] = Nothing /\ a.height < Len(log)
      /\ \/ Down(n)
         \/ /\ a.plan /\ h = UpgradeHeight /\ mode = "skip"
            /\ Proceed(n, "deliver", [a EXCEPT !.plan = FALSE])
         \/ a.plan /\ h = UpgradeHeight /\ mode # "skip" /\ Proceed(n, "migrate", a)
         \/ ~ (a.plan /\ h = UpgradeHeight) /\ Proceed(n, "deliver", a)
  BY DEF PreBlocker, Refuse
<1>2. AppOK(log, mode, a) /\ a.height \in Nat
  BY NodeFacts
<1>3. UpgradeHeight \in Nat
  BY NodesAssumption
<1>4. /\ IsSnap(a) /\ a.plan \in BOOLEAN /\ (a.plan <=> a.height < UpgradeHeight)
      /\ (a.plan => a.ran = << >> /\ a.versions = FromVersion)
      /\ (mode = "broken" => a.height < UpgradeHeight)
  BY <1>2 DEF AppOK
<1> HIDE DEF a
<1>5. CASE Down(n)
  BY <1>5, DownInv
<1>6. CASE /\ a.plan /\ h = UpgradeHeight /\ mode = "skip"
           /\ Proceed(n, "deliver", [a EXCEPT !.plan = FALSE])
  <2> DEFINE st == [a EXCEPT !.plan = FALSE]
  <2>1. st = Upgraded(mode, a)
    BY <1>4, <1>6, ClearPlan DEF Upgraded
  <2> HIDE DEF st
  <2>2. WorkOK(log, mode, a, [phase |-> "deliver", app |-> st])
    BY <1>1, <1>6, <2>1 DEF WorkOK, Passes
  <2> QED
    BY <1>1, <1>6, <2>2, ProceedInv DEF a, st
<1>7. CASE a.plan /\ h = UpgradeHeight /\ mode # "skip" /\ Proceed(n, "migrate", a)
  <2>1. IsMigrating(mode, a, a)
    <3>1. a = Snap(a.height, a.creds, a.results, a.ran, TRUE, a.versions)
      BY <1>4, <1>7 DEF IsSnap
    <3>2. Migrating(a.versions, a.ran) /\ a.versions["zk"] = FromVersion["zk"]
      BY <1>4, <1>7, MigrationsStart
    <3> QED
      BY <1>7, <3>1, <3>2 DEF IsMigrating
  <2>2. WorkOK(log, mode, a, [phase |-> "migrate", app |-> a])
    BY <1>1, <2>1 DEF WorkOK
  <2> QED
    BY <1>1, <1>7, <2>2, ProceedInv DEF a
<1>8. CASE ~ (a.plan /\ h = UpgradeHeight) /\ Proceed(n, "deliver", a)
  <2>1. ASSUME h = UpgradeHeight PROVE FALSE
    <3>1. a.height < UpgradeHeight
      BY <1>2, <1>3, <2>1
    <3>2. a.plan
      BY <1>4, <3>1, Zenon
    <3> QED
      BY <1>8, <2>1, <3>2
  <2>2. a = Upgraded(mode, a) /\ Passes(mode, a)
    BY <2>1 DEF Upgraded, Passes
  <2>3. WorkOK(log, mode, a, [phase |-> "deliver", app |-> a])
    BY <1>1, <2>2 DEF WorkOK
  <2> QED
    BY <1>1, <1>8, <2>3, ProceedInv DEF a
<1> QED
  BY <1>1, <1>5, <1>6, <1>7, <1>8

\* A migration runs, or the handler ends or fails.
LEMMA NextUpgradeHandlerInv ==
  ASSUME Inv, NEW n \in Nodes, NextUpgradeHandler(n)
  PROVE  Inv'
<1> DEFINE a == app[n]
           s == work[n].app
           m == NextModule(s.versions)
<1>1. /\ work[n] # Nothing /\ work[n].phase = "migrate"
      /\ \/ Down(n)
         \/ Behind(s.versions) = {} /\ Proceed(n, "deliver", [s EXCEPT !.plan = FALSE])
         \/ /\ Behind(s.versions) # {} /\ ~ MigrationFails(m, s.versions)
            /\ Proceed(n, "migrate", Migrate(s, m))
  BY DEF NextUpgradeHandler, Refuse
<1>2. WorkOK(log, mode, a, work[n])
  BY NodeFacts DEF NodeOK
<1>3. a.height < Len(log) /\ IsMigrating(mode, a, s)
  BY <1>1, <1>2 DEF WorkOK
<1> HIDE DEF a, s, m
<1>4. /\ mode # "skip" /\ a.height + 1 = UpgradeHeight
      /\ s = Snap(a.height, a.creds, a.results, s.ran, TRUE, s.versions)
      /\ Migrating(s.versions, s.ran)
      /\ (mode = "broken" => s.versions["zk"] = FromVersion["zk"])
  BY <1>3 DEF IsMigrating
<1>5. /\ IsSnap(s) /\ s.height = a.height /\ s.creds = a.creds /\ s.results = a.results
      /\ s.plan = TRUE
  BY <1>4 DEF Snap, IsSnap
<1>6. CASE Down(n)
  BY <1>6, DownInv
<1>7. CASE Behind(s.versions) = {} /\ Proceed(n, "deliver", [s EXCEPT !.plan = FALSE])
  <2> DEFINE st == [s EXCEPT !.plan = FALSE]
  <2>1. s.versions = ConsensusVersion
    BY <1>4, <1>7, MigrationsEnd DEF Migrating
  <2>2. s.ran = MigrationOrder /\ C!Migrated(MigrationOrder)
    BY <1>4, <2>1, MigrationsUnique
  <2>3. mode # "broken"
    BY <1>4, <2>1, FromFacts, ModuleFacts
  <2>4. st = Upgraded(mode, a)
    BY <1>4, <1>5, <2>1, <2>2, ClearPlan DEF Upgraded
  <2> HIDE DEF st
  <2>5. WorkOK(log, mode, a, [phase |-> "deliver", app |-> st])
    BY <1>3, <2>2, <2>3, <2>4 DEF WorkOK, Passes
  <2> QED
    BY <1>1, <1>7, <2>5, ProceedInv DEF a, st
<1>8. CASE /\ Behind(s.versions) # {} /\ ~ MigrationFails(m, s.versions)
           /\ Proceed(n, "migrate", Migrate(s, m))
  <2> DEFINE v  == [s.versions EXCEPT ![m] = s.versions[m] + 1]
             rn == Append(s.ran, <<m, s.versions[m]>>)
             st == Migrate(s, m)
  <2>1. m \in ModuleNames /\ Migrating(v, rn)
    BY <1>4, <1>8, MigrationsStep DEF m
  <2>2. mode = "broken" => v["zk"] = FromVersion["zk"]
    <3>1. mode = "broken" => m # "zk"
      BY <1>8 DEF MigrationFails
    <3>2. "zk" \in DOMAIN s.versions
      BY <1>4 DEF Migrating, InOrder, ModuleNames
    <3> QED
      BY <1>4, <3>1, <3>2
  <2> HIDE DEF v, rn
  <2>3. st = Snap(s.height, s.creds, s.results, rn, s.plan, v)
    BY <1>5, MigrateMeans DEF v, rn
  <2> HIDE DEF st
  <2>4. st.ran = rn /\ st.versions = v
        /\ st = Snap(a.height, a.creds, a.results, rn, TRUE, v)
    BY <1>5, <2>3 DEF Snap
  <2>5. IsMigrating(mode, a, st)
    BY <1>4, <2>1, <2>2, <2>4 DEF IsMigrating
  <2>6. WorkOK(log, mode, a, [phase |-> "migrate", app |-> st])
    BY <1>3, <2>5 DEF WorkOK
  <2> QED
    BY <1>1, <1>8, <2>6, ProceedInv DEF a, st
<1> QED
  BY <1>1, <1>6, <1>7, <1>8

-----------------------------------------------------------------------------
\* The queries.  What they may change of a node, and what is due to them.
LEMMA QueryChange ==
  ASSUME NEW l, NEW md, NEW a, NEW wk, NEW qs, NEW hp, NEW sv,
         NodeOK(l, md, a, wk, qs, hp, sv),
         NEW w \in Workers, NEW q, NEW wk2, NEW hp2, NEW sv2,
         WorkOK(l, md, a, wk2), ServedOK(sv2), QueryOK(hp2, w, q),
         \A v \in Workers : v # w => QueryOK(hp2, v, qs[v]),
         BlockQueryOK(l, a, wk2, IF w = "block" THEN q ELSE qs["block"])
  PROVE  NodeOK(l, md, a, wk2, [qs EXCEPT ![w] = q], hp2, sv2)
<1> DEFINE new == [qs EXCEPT ![w] = q]
<1>1. DOMAIN qs = Workers /\ AppOK(l, md, a)
  BY DEF NodeOK
<1>2. new = [v \in Workers |-> new[v]] /\ new[w] = q /\ \A v \in Workers : v # w => new[v] = qs[v]
  BY <1>1
<1>3. "block" \in Workers
  BY DEF Workers
<1> HIDE DEF new
<1>4. new["block"] = IF w = "block" THEN q ELSE qs["block"]
  BY <1>2, <1>3
<1>5. \A v \in Workers : QueryOK(hp2, v, new[v])
  BY <1>2
<1>6. NodeOK(l, md, a, wk2, new, hp2, sv2)
  BY <1>1, <1>2, <1>4, <1>5 DEF NodeOK
<1> QED
  BY <1>6 DEF new

\* A query that was accepted waits for its route.
LEMMA AcceptedOK ==
  ASSUME NEW r \in DOMAIN RequestOf, NEW c, NEW t \in Nat, NEW w, NEW hp,
         RequestOf[r].path \in Whitelist
  PROVE  LET q == Accepted(r, c, t, w) IN
         /\ QueryOK(hp, w, q)
         /\ q.request = r /\ q.time = t /\ q.credential = c
<1> DEFINE q == Accepted(r, c, t, w)
<1>1. q = [stage |-> "route", request |-> r, credential |-> c, time |-> t, instance |-> w,
           value |-> Nothing]
  BY DEF Accepted, GetWhitelistedQuery
<1>2. q.stage = "route" /\ q.request = r /\ q.time = t /\ q.credential = c /\ q.value = Nothing
  BY <1>1
<1> HIDE DEF q
<1>3. QueryOK(hp, w, q)
  BY <1>1, <1>2 DEF QueryOK
<1> QED
  BY <1>2, <1>3 DEF q

\* An answer is a failure or carries a value.
LEMMA VerdictShape ==
  ASSUME NEW r, NEW c, NEW t
  PROVE  LET v == Verdict(r, c, t) IN
         \/ v = Failed /\ ~ HasValue(v)
         \/ v = Answered(v.value) /\ HasValue(v)
<1>1. Verdict(r, c, t) = Failed \/ \E x : Verdict(r, c, t) = Answered(x)
  <2>1. WebAuthNVerifyRegister(r, t, 0) = Failed \/ \E x : WebAuthNVerifyRegister(r, t, 0) = Answered(x)
    BY DEF WebAuthNVerifyRegister, CreateCredential
  <2>2. WebAuthNVerifyAuthenticate(r, c) = Failed \/ WebAuthNVerifyAuthenticate(r, c) = Answered(AuthenticateResponse)
    BY DEF WebAuthNVerifyAuthenticate
  <2> QED
    BY <2>1, <2>2 DEF Verdict
<1>2. \A x : Answered(x).value = x /\ HasValue(Answered(x))
  BY DEF Answered, HasValue
<1>3. ~ HasValue(Failed)
  BY DEF Failed, HasValue
<1> QED
  BY <1>1, <1>2, <1>3

\* An upgrade changes no height.
LEMMA SnapUpgraded ==
  ASSUME NEW md, NEW a, IsSnap(a)
  PROVE  IsSnap(Upgraded(md, a)) /\ Upgraded(md, a).height = a.height
<1>2. \/ Upgraded(md, a) = a
      \/ Upgraded(md, a) = Snap(a.height, a.creds, a.results, a.ran, FALSE, a.versions)
      \/ Upgraded(md, a) = Snap(a.height, a.creds, a.results, MigrationOrder, FALSE, ConsensusVersion)
  BY DEF Upgraded
<1>3. CASE Upgraded(md, a) = a
  BY <1>3
<1>4. CASE Upgraded(md, a) = Snap(a.height, a.creds, a.results, a.ran, FALSE, a.versions)
  BY <1>4 DEF IsSnap, Snap
<1>5. CASE Upgraded(md, a) = Snap(a.height, a.creds, a.results, MigrationOrder, FALSE, ConsensusVersion)
  BY <1>5 DEF IsSnap, Snap
<1> QED
  BY <1>2, <1>3, <1>4, <1>5

\* The contract's side of an answer, as EXCEPT writes it.
LEMMA ResultMeans ==
  ASSUME NEW n, NEW ans, Result(n, ans), IsSnap(work[n].app)
  PROVE  work' = [work EXCEPT ![n] = [phase |-> "commit",
                    app |-> Answering(work[n].app, RequestOf[log[app[n].height + 1].tx], ans)]]
<1> DEFINE s  == work[n].app
           tx == RequestOf[log[app[n].height + 1].tx]
           k  == Keeps(s, tx, ans)
           e  == [s EXCEPT !.creds = k, !.results = Append(@, ans.ok)]
           t  == Answering(s, tx, ans)
           Fields == {"height", "creds", "results", "ran", "plan", "versions"}
<1>0. work' = [work EXCEPT ![n] = [phase |-> "commit", app |-> e]]
  BY DEF Result, Keeps
<1> HIDE DEF s, tx, k
<1>1. t = [f \in Fields |-> t[f]]
      /\ t["height"] = s.height /\ t["creds"] = k /\ t["results"] = Append(s.results, ans.ok)
      /\ t["ran"] = s.ran /\ t["plan"] = s.plan /\ t["versions"] = s.versions
  BY DEF Answering, Snap, k
<1>2. s = Snap(s.height, s.creds, s.results, s.ran, s.plan, s.versions)
  BY DEF IsSnap, s
<1>3. DOMAIN s = Fields
  BY <1>2 DEF Snap
<1> DEFINE g == [f \in Fields |-> IF f = "creds" THEN k
                                  ELSE IF f = "results" THEN Append(s.results, ans.ok) ELSE s[f]]
<1>4. e = g
  BY <1>3
<1>5. \A f \in Fields : g[f] = t[f]
  <2> HIDE DEF t
  <2> QED
    BY <1>1
<1> HIDE DEF t
<1>6. g = t
  BY <1>1, <1>5
<1> HIDE DEF g, e
<1>7. e = t
  BY <1>4, <1>6
<1> QED
  BY <1>0, <1>7 DEF t, s, tx

\* The work of a node after the contract has its answer.
Done(n) ==
  [phase |-> "commit", app |-> Delivered(Upgraded(mode, app[n]), log[app[n].height + 1])]

\* A block with its result is the one that all nodes come to.
LEMMA ResultOK ==
  ASSUME Inv, NEW n \in Nodes, work[n] # Nothing, work[n].phase \in {"deliver", "query"},
         Result(n, AnswerIn(work[n].app, log[app[n].height + 1]))
  PROVE  work' = [work EXCEPT ![n] = Done(n)] /\ WorkOK(log, mode, app[n], Done(n))
<1>1. WorkOK(log, mode, app[n], work[n]) /\ AppOK(log, mode, app[n])
  BY NodeFacts DEF NodeOK
<1>2. /\ app[n].height < Len(log) /\ Passes(mode, app[n])
      /\ work[n].app = Upgraded(mode, app[n])
  BY <1>1 DEF WorkOK
<1>3. IsSnap(work[n].app)
  BY <1>1, <1>2, SnapUpgraded DEF AppOK
<1>4. work' = [work EXCEPT ![n] = Done(n)]
  BY <1>2, <1>3, ResultMeans DEF Done, Delivered
<1>5. WorkOK(log, mode, app[n], Done(n))
  BY <1>2 DEF WorkOK, Done
<1> QED
  BY <1>4, <1>5

\* The transaction of the block is refused, or its contract queries.
LEMMA DeliverInv ==
  ASSUME Inv, NEW n \in Nodes, Deliver(n)
  PROVE  Inv'
<1> DEFINE a     == app[n]
           block == log[a.height + 1]
           tx    == RequestOf[block.tx]
           c     == CredentialOf(work[n].app, tx.addr)
           q     == Accepted(block.tx, c, block.time, "block")
           wk    == [phase |-> "query", app |-> work[n].app]
<1>1. /\ work[n] # Nothing /\ work[n].phase = "deliver"
      /\ log' = log /\ mode' = mode
      /\ app' = [app EXCEPT ![n] = app[n]] /\ heap' = [heap EXCEPT ![n] = heap[n]]
      /\ served' = [served EXCEPT ![n] = served[n]]
  BY Untouched DEF Deliver, Inv, chainVars
<1>2. \/ /\ tx.path \in Whitelist
         /\ query' = [query EXCEPT ![n] = [query[n] EXCEPT !["block"] = q]]
         /\ work' = [work EXCEPT ![n] = wk]
      \/ /\ tx.path \notin Whitelist /\ Result(n, Failed)
         /\ query' = [query EXCEPT ![n] = query[n]]
  BY Untouched DEF Deliver, Inv
<1>3. NodeOK(log, mode, a, work[n], query[n], heap[n], served[n])
      /\ a.height \in Nat /\ Len(log) \in Nat
      /\ \A i \in 1..Len(log) : log[i].time \in Nat /\ log[i].tx \in DOMAIN RequestOf
  BY NodeFacts
<1>4. /\ WorkOK(log, mode, a, work[n]) /\ BlockQueryOK(log, a, work[n], query[n]["block"])
      /\ ServedOK(served[n]) /\ \A w \in Workers : QueryOK(heap[n], w, query[n][w])
  BY <1>3 DEF NodeOK
<1>5. /\ a.height < Len(log) /\ Passes(mode, a)
      /\ work[n].app = Upgraded(mode, a)
  BY <1>1, <1>4 DEF WorkOK
<1>6. query[n]["block"] = Nothing
  BY <1>1, <1>4 DEF BlockQueryOK
<1>7. block.time \in Nat /\ block.tx \in DOMAIN RequestOf
  BY <1>3, <1>5
<1> HIDE DEF a, block, tx, c
<1>8. CASE /\ tx.path \in Whitelist
           /\ query' = [query EXCEPT ![n] = [query[n] EXCEPT !["block"] = q]]
           /\ work' = [work EXCEPT ![n] = wk]
  <2>1. QueryOK(heap[n], "block", q) /\ q.request = block.tx /\ q.time = block.time /\ q.credential = c
    BY <1>7, <1>8, AcceptedOK DEF tx
  <2>2. wk # Nothing /\ wk.phase = "query" /\ wk.app = work[n].app
    BY DEF Nothing
  <2> HIDE DEF q
  <2>3. BlockQueryOK(log, a, wk, q)
    BY <2>1, <2>2 DEF BlockQueryOK, block, c, tx
  <2>4. WorkOK(log, mode, a, wk)
    BY <1>5 DEF WorkOK
  <2> HIDE DEF wk
  <2>5. "block" \in Workers
    BY DEF Workers
  <2> DEFINE qs == [query[n] EXCEPT !["block"] = q]
  <2>6. NodeOK(log, mode, a, wk, qs, heap[n], served[n])
    BY <1>3, <1>4, <2>1, <2>3, <2>4, <2>5, QueryChange
  <2> HIDE DEF qs
  <2> QED
    BY <1>1, <1>8, <2>6, NodeStep DEF a, qs
<1>9. CASE /\ tx.path \notin Whitelist /\ Result(n, Failed)
           /\ query' = [query EXCEPT ![n] = query[n]]
  <2>1. AnswerIn(work[n].app, log[app[n].height + 1]) = Failed
    BY <1>9 DEF AnswerIn, tx, block, a
  <2>2. work' = [work EXCEPT ![n] = Done(n)] /\ WorkOK(log, mode, app[n], Done(n))
    BY <1>1, <1>9, <2>1, ResultOK
  <2>3. BlockQueryOK(log, a, Done(n), query[n]["block"])
    BY <1>6 DEF BlockQueryOK
  <2>4. NodeOK(log, mode, a, Done(n), query[n], heap[n], served[n])
    BY <1>3, <2>2, <2>3 DEF NodeOK, a
  <2> QED
    BY <1>1, <1>9, <2>2, <2>4, NodeStep DEF a
<1> QED
  BY <1>2, <1>8, <1>9

\* A client asks.
LEMMA AskInv ==
  ASSUME Inv, NEW n \in Nodes, NEW r \in Requests, Ask(n, r)
  PROVE  Inv'
<1> DEFINE a == app[n]
           c == CredentialOf(a, RequestOf[r].addr)
           t == log[a.height].time
           q == Accepted(r, c, t, "client")
           qs == [query[n] EXCEPT !["client"] = q]
<1>1. /\ log' = log /\ mode' = mode
      /\ app' = [app EXCEPT ![n] = app[n]] /\ work' = [work EXCEPT ![n] = work[n]]
      /\ heap' = [heap EXCEPT ![n] = heap[n]] /\ served' = [served EXCEPT ![n] = served[n]]
  BY Untouched DEF Ask, Inv, chainVars, nodeVars
<1>2. /\ query' = [query EXCEPT ![n] = qs]
      /\ a.height > 0 /\ RequestOf[r].path \in Whitelist
  BY DEF Ask
<1>3. NodeOK(log, mode, a, work[n], query[n], heap[n], served[n])
      /\ a.height \in Nat /\ Len(log) \in Nat /\ a.height <= Len(log)
      /\ \A i \in 1..Len(log) : log[i].time \in Nat /\ log[i].tx \in DOMAIN RequestOf
  BY NodeFacts
<1>4. /\ WorkOK(log, mode, a, work[n]) /\ BlockQueryOK(log, a, work[n], query[n]["block"])
      /\ ServedOK(served[n]) /\ \A w \in Workers : QueryOK(heap[n], w, query[n][w])
  BY <1>3 DEF NodeOK
<1>5. t \in Nat
  BY <1>2, <1>3
<1>6. r \in DOMAIN RequestOf
  BY RequestsAssumption
<1> HIDE DEF a, c, t
<1>7. QueryOK(heap[n], "client", q)
  BY <1>2, <1>5, <1>6, AcceptedOK
<1>8. "client" \in Workers /\ "client" # "block"
  BY DEF Workers
<1> HIDE DEF q
<1>9. NodeOK(log, mode, a, work[n], qs, heap[n], served[n])
  BY <1>3, <1>4, <1>7, <1>8, QueryChange
<1> HIDE DEF qs
<1> QED
  BY <1>1, <1>2, <1>9, NodeStep DEF a

\* The handler of a query answers what is due to it, whatever the clock.
LEMMA AnswerMeans ==
  ASSUME NEW n, NEW w, NEW hp, QueryOK(hp, w, query[n][w]), query[n][w] # Nothing
  PROVE  Answer(n, w) = VerdictOf(query[n][w])
<1> DEFINE q == query[n][w]
           r == RequestOf[q.request]
<1>1. q.request \in DOMAIN RequestOf
  BY DEF QueryOK
<1>2. r.path = "register" => IsAttestation(r.data)
  BY <1>1, RequestsAssumption
<1>3. CASE r.path = "register"
  <2>1. WebAuthNVerifyRegister(r, q.time, Clock[n]) = WebAuthNVerifyRegister(r, q.time, 0)
    BY <1>2, <1>3, ClockFree
  <2> QED
    BY <1>3, <2>1 DEF Answer, VerdictOf, Verdict
<1>4. CASE r.path # "register"
  BY <1>4 DEF Answer, VerdictOf, Verdict
<1> QED
  BY <1>3, <1>4

\* A query ends with the answer that is due to it.
LEMMA ReturnInv ==
  ASSUME Inv, NEW n \in Nodes, NEW w \in Workers, query[n][w] # Nothing,
         NEW ans, Return(n, w, ans), ans = VerdictOf(query[n][w]),
         UNCHANGED <<chainVars, app, heap>>
  PROVE  Inv'
<1> DEFINE a  == app[n]
           q  == query[n][w]
           qs == [query[n] EXCEPT ![w] = Nothing]
           sv == [request |-> q.request, time |-> q.time, credential |-> q.credential,
                  answer |-> ans]
<1>1. /\ log' = log /\ mode' = mode
      /\ app' = [app EXCEPT ![n] = app[n]] /\ heap' = [heap EXCEPT ![n] = heap[n]]
      /\ query' = [query EXCEPT ![n] = qs]
  BY Untouched DEF Return, Inv, chainVars
<1>2. \/ w = "block" /\ Result(n, ans) /\ served' = [served EXCEPT ![n] = served[n]]
      \/ /\ w # "block" /\ served' = [served EXCEPT ![n] = sv]
         /\ work' = [work EXCEPT ![n] = work[n]]
  BY Untouched DEF Return, Inv
<1>3. NodeOK(log, mode, a, work[n], query[n], heap[n], served[n])
  BY NodeFacts
<1>4. /\ WorkOK(log, mode, a, work[n]) /\ BlockQueryOK(log, a, work[n], query[n]["block"])
      /\ ServedOK(served[n]) /\ \A v \in Workers : QueryOK(heap[n], v, query[n][v])
  BY <1>3 DEF NodeOK
<1>5. /\ q.request \in DOMAIN RequestOf /\ q.time \in Nat
      /\ RequestOf[q.request].path \in Whitelist
  BY <1>4 DEF QueryOK
<1>6. QueryOK(heap[n], w, Nothing)
  BY DEF QueryOK
<1>7. CASE w = "block" /\ Result(n, ans) /\ served' = [served EXCEPT ![n] = served[n]]
  <2>1. /\ work[n] # Nothing /\ work[n].phase = "query"
        /\ q.request = log[a.height + 1].tx /\ q.time = log[a.height + 1].time
        /\ q.credential = CredentialOf(work[n].app, RequestOf[q.request].addr)
    BY <1>4, <1>7 DEF BlockQueryOK
  <2>2. ans = AnswerIn(work[n].app, log[a.height + 1])
    BY <1>5, <2>1 DEF AnswerIn, VerdictOf
  <2>3. work' = [work EXCEPT ![n] = Done(n)] /\ WorkOK(log, mode, a, Done(n))
    BY <1>7, <2>1, <2>2, ResultOK
  <2>4. BlockQueryOK(log, a, Done(n), Nothing)
    BY DEF BlockQueryOK
  <2>5. NodeOK(log, mode, a, Done(n), qs, heap[n], served[n])
    BY <1>3, <1>4, <1>6, <1>7, <2>3, <2>4, QueryChange
  <2> DEFINE wk == Done(n)
  <2>6. /\ NodeOK(log, mode, app[n], wk, qs, heap[n], served[n])
        /\ work' = [work EXCEPT ![n] = wk] /\ served' = [served EXCEPT ![n] = served[n]]
    BY <1>7, <2>3, <2>5
  <2> HIDE DEF qs, wk, sv, q
  <2> QED
    BY <1>1, <2>6, NodeStep
<1>8. CASE /\ w # "block" /\ served' = [served EXCEPT ![n] = sv]
           /\ work' = [work EXCEPT ![n] = work[n]]
  <2>1. sv.request = q.request /\ sv.time = q.time /\ sv.credential = q.credential /\ sv.answer = ans
    OBVIOUS
  <2> HIDE DEF sv
  <2>2. ServedOK(sv)
    BY <1>5, <2>1 DEF ServedOK, VerdictOf
  <2>3. NodeOK(log, mode, a, work[n], qs, heap[n], sv)
    BY <1>3, <1>4, <1>6, <1>8, <2>2, QueryChange
  <2> HIDE DEF qs
  <2> QED
    BY <1>1, <1>8, <2>3, NodeStep
<1> QED
  BY <1>2, <1>7, <1>8

\* A query that goes on to its next stage, with or without a value.
Staged(q, stage, value) ==
  [stage |-> stage, request |-> q.request, credential |-> q.credential, time |-> q.time,
   instance |-> q.instance, value |-> value]

Received(q, value) == [q EXCEPT !.stage = "unmarshal", !.value = value]

Decoded(q) == [q EXCEPT !.stage = "marshal"]

\* A query goes through its stages and keeps its request.
LEMMA StagedMeans ==
  ASSUME NEW q, NEW v, q = Staged(q, q.stage, q.value)
  PROVE  /\ Received(q, v) = Staged(q, "unmarshal", v)
         /\ Decoded(q) = Staged(q, "marshal", q.value)
<1> DEFINE Fields == {"stage", "request", "credential", "time", "instance", "value"}
           t  == Staged(q, "unmarshal", v)
           t1 == Staged(q, "marshal", q.value)
           g  == [f \in Fields |-> IF f = "stage" THEN "unmarshal"
                                   ELSE IF f = "value" THEN v ELSE q[f]]
           g1 == [f \in Fields |-> IF f = "stage" THEN "marshal" ELSE q[f]]
<1>1. DOMAIN q = Fields
  BY DEF Staged
<1>2. /\ t = [f \in Fields |-> t[f]] /\ t1 = [f \in Fields |-> t1[f]]
      /\ t["stage"] = "unmarshal" /\ t["request"] = q.request /\ t["credential"] = q.credential
      /\ t["time"] = q.time /\ t["instance"] = q.instance /\ t["value"] = v
      /\ t1["stage"] = "marshal" /\ t1["request"] = q.request /\ t1["credential"] = q.credential
      /\ t1["time"] = q.time /\ t1["instance"] = q.instance /\ t1["value"] = q.value
  BY DEF Staged
<1>3. Received(q, v) = g /\ Decoded(q) = g1
  BY <1>1 DEF Received, Decoded
<1>4. \A f \in Fields : g[f] = t[f] /\ g1[f] = t1[f]
  <2> HIDE DEF t, t1
  <2> QED
    BY <1>1, <1>2
<1> HIDE DEF t, t1
<1>5. g = t /\ g1 = t1
  BY <1>2, <1>4
<1> QED
  BY <1>3, <1>5 DEF t, t1

\* The block's query keeps its place when it goes on.
LEMMA StagedBlock ==
  ASSUME NEW l, NEW a, NEW wk, NEW q, q # Nothing, BlockQueryOK(l, a, wk, q), NEW st, NEW v
  PROVE  BlockQueryOK(l, a, wk, Staged(q, st, v))
<1>1. Staged(q, st, v).request = q.request /\ Staged(q, st, v).time = q.time
      /\ Staged(q, st, v).credential = q.credential
  BY DEF Staged
<1> QED
  BY <1>1 DEF BlockQueryOK

\* What the invariant says of a query in progress.
LEMMA QueryFacts ==
  ASSUME Inv, NEW n \in Nodes, NEW w \in Workers, query[n][w] # Nothing
  PROVE  LET q == query[n][w] IN
         /\ q = Staged(q, q.stage, q.value) /\ q.instance = w
         /\ q.request \in DOMAIN RequestOf /\ q.time \in Nat
         /\ RequestOf[q.request].path \in Whitelist
         /\ q.stage \in {"unmarshal", "marshal"} => VerdictOf(q) = Answered(q.value)
         /\ q.stage = "marshal" => w \in DOMAIN heap[n] /\ heap[n][w] = q.value
         /\ WorkOK(log, mode, app[n], work[n])
         /\ BlockQueryOK(log, app[n], work[n], query[n]["block"])
         /\ ServedOK(served[n])
         /\ \A v \in Workers : QueryOK(heap[n], v, query[n][v])
<1> DEFINE q == query[n][w]
<1>1. /\ WorkOK(log, mode, app[n], work[n])
      /\ BlockQueryOK(log, app[n], work[n], query[n]["block"])
      /\ ServedOK(served[n])
      /\ \A v \in Workers : QueryOK(heap[n], v, query[n][v])
  BY NodeFacts DEF NodeOK
<1>2. QueryOK(heap[n], w, q)
  BY <1>1
<1> HIDE DEF q
<1>3. q # Nothing
  BY DEF q
<1>4. /\ q = [stage |-> q.stage, request |-> q.request, credential |-> q.credential,
              time |-> q.time, instance |-> w, value |-> q.value]
      /\ q.request \in DOMAIN RequestOf /\ q.time \in Nat
      /\ RequestOf[q.request].path \in Whitelist
      /\ q.stage \in {"unmarshal", "marshal"} => VerdictOf(q) = Answered(q.value)
      /\ q.stage = "marshal" => w \in DOMAIN heap[n] /\ heap[n][w] = q.value
  BY <1>2, <1>3 DEF QueryOK
<1>5. q.instance = w
  BY <1>4
<1>6. q = Staged(q, q.stage, q.value)
  BY <1>4, <1>5 DEF Staged
<1> QED
  BY <1>1, <1>4, <1>5, <1>6 DEF q

\* A query is routed, and its answer is that of its request.
LEMMA RouteInv ==
  ASSUME Inv, NEW n \in Nodes, NEW w \in Workers, Route(n, w)
  PROVE  Inv'
<1> DEFINE a == app[n]
           q == query[n][w]
           ans == Answer(n, w)
           q2 == Staged(q, "unmarshal", ans.value)
           qs == [query[n] EXCEPT ![w] = q2]
<1>1. q # Nothing /\ q.stage = "route"
      /\ UNCHANGED <<chainVars, app, heap>>
      /\ \/ /\ HasValue(ans)
            /\ query' = [query EXCEPT ![n][w] =
                    [q EXCEPT !.stage = "unmarshal", !.value = ans.value]]
            /\ UNCHANGED <<work, served>>
         \/ ~ HasValue(ans) /\ Return(n, w, Failed)
  BY DEF Route, At
<1>2. /\ q = Staged(q, q.stage, q.value) /\ q.instance = w
      /\ q.request \in DOMAIN RequestOf /\ q.time \in Nat
      /\ RequestOf[q.request].path \in Whitelist
      /\ WorkOK(log, mode, app[n], work[n])
      /\ BlockQueryOK(log, app[n], work[n], query[n]["block"])
      /\ ServedOK(served[n])
      /\ \A v \in Workers : QueryOK(heap[n], v, query[n][v])
  BY <1>1, QueryFacts
<1>3. ans = VerdictOf(q)
  BY <1>1, <1>2, AnswerMeans
<1>4. (ans = Failed /\ ~ HasValue(ans)) \/ (ans = Answered(ans.value) /\ HasValue(ans))
  BY <1>3, VerdictShape DEF VerdictOf
<1> HIDE DEF ans
<1>5. CASE ~ HasValue(ans) /\ Return(n, w, Failed)
  <2>1. Failed = VerdictOf(query[n][w])
    BY <1>3, <1>4, <1>5
  <2> QED
    BY <1>1, <1>5, <2>1, ReturnInv
<1>6. CASE /\ HasValue(ans)
           /\ query' = [query EXCEPT ![n][w] =
                    [q EXCEPT !.stage = "unmarshal", !.value = ans.value]]
           /\ UNCHANGED <<work, served>>
  <2>1. [q EXCEPT !.stage = "unmarshal", !.value = ans.value] = q2
    <3>1. Received(q, ans.value) = q2
      BY <1>2, StagedMeans
    <3> QED
      BY <3>1 DEF Received
  <2>2. query' = [query EXCEPT ![n] = qs]
    BY <1>6, <2>1
  <2>3. /\ log' = log /\ mode' = mode
        /\ app' = [app EXCEPT ![n] = app[n]] /\ work' = [work EXCEPT ![n] = work[n]]
        /\ heap' = [heap EXCEPT ![n] = heap[n]] /\ served' = [served EXCEPT ![n] = served[n]]
    BY <1>1, <1>6, Untouched DEF Inv, chainVars
  <2>4. /\ q2.stage = "unmarshal" /\ q2.request = q.request /\ q2.credential = q.credential
        /\ q2.time = q.time /\ q2.value = ans.value
        /\ q2 = [stage |-> q2.stage, request |-> q2.request, credential |-> q2.credential,
                 time |-> q2.time, instance |-> w, value |-> q2.value]
    BY <1>2 DEF Staged
  <2>5. BlockQueryOK(log, a, work[n], IF w = "block" THEN q2 ELSE query[n]["block"])
    BY <1>1, <1>2, StagedBlock
  <2> HIDE DEF q2
  <2>6. VerdictOf(q2) = Answered(q2.value)
    BY <1>3, <1>4, <1>6, <2>4 DEF VerdictOf
  <2>7. QueryOK(heap[n], w, q2)
    BY <1>2, <2>4, <2>6 DEF QueryOK
  <2>8. NodeOK(log, mode, a, work[n], qs, heap[n], served[n])
    <3>1. NodeOK(log, mode, a, work[n], query[n], heap[n], served[n])
      BY NodeFacts
    <3> QED
      BY <3>1, <1>2, <2>5, <2>7, QueryChange
  <2> HIDE DEF qs
  <2> QED
    BY <2>2, <2>3, <2>8, NodeStep
<1> QED
  BY <1>1, <1>5, <1>6

\* An answer is decoded into a message of its own.
LEMMA UnmarshalInv ==
  ASSUME Inv, NEW n \in Nodes, NEW w \in Workers, Unmarshal(n, w)
  PROVE  Inv'
<1> DEFINE a == app[n]
           q == query[n][w]
           q2 == Staged(q, "marshal", q.value)
           qs == [query[n] EXCEPT ![w] = q2]
           hp == [j \in DOMAIN heap[n] \cup {w} |-> IF j = w THEN q.value ELSE heap[n][j]]
<1>1. q # Nothing /\ q.stage = "unmarshal"
  BY DEF Unmarshal, At
<1>2. /\ q = Staged(q, q.stage, q.value) /\ q.instance = w
      /\ q.request \in DOMAIN RequestOf /\ q.time \in Nat
      /\ RequestOf[q.request].path \in Whitelist
      /\ VerdictOf(q) = Answered(q.value)
      /\ WorkOK(log, mode, app[n], work[n])
      /\ BlockQueryOK(log, app[n], work[n], query[n]["block"])
      /\ ServedOK(served[n])
      /\ \A v \in Workers : QueryOK(heap[n], v, query[n][v])
  BY <1>1, QueryFacts
<1>3. heap' = [heap EXCEPT ![n] = hp]
  BY <1>2 DEF Unmarshal
<1>4. query' = [query EXCEPT ![n] = qs]
  <2>1. [q EXCEPT !.stage = "marshal"] = q2
    <3>1. Decoded(q) = q2
      BY <1>2, StagedMeans
    <3> QED
      BY <3>1 DEF Decoded
  <2> QED
    BY <2>1 DEF Unmarshal
<1>5. /\ log' = log /\ mode' = mode
      /\ app' = [app EXCEPT ![n] = app[n]] /\ work' = [work EXCEPT ![n] = work[n]]
      /\ served' = [served EXCEPT ![n] = served[n]]
  BY Untouched DEF Unmarshal, Inv, chainVars, nodeVars
<1>6. /\ q2.stage = "marshal" /\ q2.request = q.request /\ q2.credential = q.credential
      /\ q2.time = q.time /\ q2.value = q.value
      /\ q2 = [stage |-> q2.stage, request |-> q2.request, credential |-> q2.credential,
               time |-> q2.time, instance |-> w, value |-> q2.value]
  BY <1>2 DEF Staged
<1>7. BlockQueryOK(log, a, work[n], IF w = "block" THEN q2 ELSE query[n]["block"])
  BY <1>1, <1>2, StagedBlock
<1>8. w \in DOMAIN hp /\ hp[w] = q.value
      /\ \A v \in Workers : v # w /\ v \in DOMAIN heap[n] => v \in DOMAIN hp /\ hp[v] = heap[n][v]
  OBVIOUS
<1> HIDE DEF q2, hp
<1>9. QueryOK(hp, w, q2)
  BY <1>2, <1>6, <1>8 DEF QueryOK, VerdictOf
<1>10. ASSUME NEW v \in Workers, v # w PROVE QueryOK(hp, v, query[n][v])
  <2>1. QueryOK(heap[n], v, query[n][v])
    BY <1>2
  <2> QED
    BY <2>1, <1>8, <1>10 DEF QueryOK
<1>11. NodeOK(log, mode, a, work[n], qs, hp, served[n])
  <2>1. NodeOK(log, mode, a, work[n], query[n], heap[n], served[n])
    BY NodeFacts
  <2> QED
    BY <2>1, <1>2, <1>7, <1>9, <1>10, QueryChange
<1> HIDE DEF qs
<1> QED
  BY <1>3, <1>4, <1>5, <1>11, NodeStep

\* It is encoded again, and handed to who asked.
LEMMA MarshalInv ==
  ASSUME Inv, NEW n \in Nodes, NEW w \in Workers, Marshal(n, w)
  PROVE  Inv'
<1> DEFINE q == query[n][w]
<1>1. /\ q # Nothing /\ q.stage = "marshal"
      /\ Return(n, w, Answered(heap[n][q.instance]))
      /\ UNCHANGED <<chainVars, app, heap>>
  BY DEF Marshal, At
<1>2. /\ q.instance = w /\ VerdictOf(q) = Answered(q.value) /\ heap[n][w] = q.value
  BY <1>1, QueryFacts
<1>3. Answered(heap[n][q.instance]) = VerdictOf(q)
  BY <1>2
<1> QED
  BY <1>1, <1>3, ReturnInv

-----------------------------------------------------------------------------
\* A new credential is not Nothing, and only a registration that succeeds
\* leaves one.
LEMMA KeepsCredentials ==
  ASSUME NEW s, NEW b, \A x \in DOMAIN s.creds : s.creds[x] # Nothing
  PROVE  LET k == Keeps(s, RequestOf[b.tx], AnswerIn(s, b)) IN
         \A x \in DOMAIN k : k[x] # Nothing
<1> DEFINE tx  == RequestOf[b.tx]
           ans == AnswerIn(s, b)
           k   == Keeps(s, tx, ans)
<1>1. ~ Failed.ok /\ \A x : Answered(x).value = x
  BY DEF Failed, Answered
<1>2. ASSUME ans.ok, tx.path = "register" PROVE ans.value # Nothing
  <2>1. ans = WebAuthNVerifyRegister(tx, b.time, 0)
    BY <1>2 DEF AnswerIn, Whitelist, Verdict
  <2>2. ans = Failed \/ ans = Answered(NewCredential(tx.data))
    BY <2>1 DEF WebAuthNVerifyRegister, CreateCredential
  <2>3. ans.value = NewCredential(tx.data)
    BY <1>1, <1>2, <2>2
  <2>4. NewCredential(tx.data) # Nothing
    BY DEF NewCredential, Nothing
  <2> QED
    BY <2>3, <2>4
<1> HIDE DEF tx, ans
<1>3. \A x \in DOMAIN k : k[x] # Nothing
  BY <1>2 DEF Keeps
<1> QED
  BY <1>3 DEF tx, ans

\* The fields of the state after a block.
LEMMA ExecutedFields ==
  ASSUME NEW md, NEW a, NEW b, IsSnap(a)
  PROVE  LET u == Upgraded(md, a)
             e == Executed(md, a, b)
         IN /\ IsSnap(e) /\ e.height = a.height + 1
            /\ e.creds = Keeps(u, RequestOf[b.tx], AnswerIn(u, b))
            /\ e.results = Append(u.results, AnswerIn(u, b).ok)
            /\ e.ran = u.ran /\ e.plan = u.plan /\ e.versions = u.versions
<1> DEFINE u == Upgraded(md, a)
           d == Delivered(u, b)
           e == Executed(md, a, b)
           k == Keeps(u, RequestOf[b.tx], AnswerIn(u, b))
           r == Append(u.results, AnswerIn(u, b).ok)
<1>1. u.height = a.height
  BY SnapUpgraded
<1>2. d = Snap(u.height, k, r, u.ran, u.plan, u.versions)
  BY DEF Delivered, Answering
<1>3. e = Higher(d)
  BY DEF Executed
<1> HIDE DEF u, d, e, k, r
<1>4. /\ d.height = u.height /\ d.creds = k /\ d.results = r /\ d.ran = u.ran /\ d.plan = u.plan
      /\ d.versions = u.versions
  BY <1>2 DEF Snap
<1>5. e = Snap(a.height + 1, k, r, u.ran, u.plan, u.versions)
  BY <1>1, <1>3, <1>4 DEF Higher
<1>6. /\ e.height = a.height + 1 /\ e.creds = k /\ e.results = r /\ e.ran = u.ran
      /\ e.plan = u.plan /\ e.versions = u.versions
  BY <1>5 DEF Snap
<1>7. IsSnap(e)
  BY <1>5, <1>6 DEF IsSnap
<1> QED
  BY <1>6, <1>7 DEF u, e, k, r

\* What the pre-blocker leaves.
LEMMA UpgradedFields ==
  ASSUME NEW md, NEW a
  PROVE  LET u == Upgraded(md, a) IN
         /\ u.creds = a.creds /\ u.results = a.results
         /\ a.height + 1 # UpgradeHeight => u = a
         /\ a.height + 1 = UpgradeHeight =>
              /\ u.plan = FALSE
              /\ md = "skip" => u.ran = a.ran
              /\ md # "skip" => u.ran = MigrationOrder
BY DEF Upgraded, Snap

\* The state after a block lies on the one run of the blocks.
LEMMA ExecutedOK ==
  ASSUME NEW l, NEW md, NEW a, NEW b, AppOK(l, md, a), a.height < Len(l), Len(l) \in Nat,
         Passes(md, a)
  PROVE  AppOK(l, md, Executed(md, a, b))
<1> DEFINE u == Upgraded(md, a)
           e == Executed(md, a, b)
<1>1. /\ IsSnap(a) /\ a.height \in 0 .. Len(l)
      /\ a.plan \in BOOLEAN /\ (a.plan <=> a.height < UpgradeHeight)
      /\ (a.plan => a.ran = << >> /\ a.versions = FromVersion)
      /\ (\A x \in DOMAIN a.creds : a.creds[x] # Nothing)
      /\ (md = "broken" => a.height < UpgradeHeight)
  BY DEF AppOK
<1>2. UpgradeHeight \in Nat /\ a.height \in Nat
  BY <1>1, NodesAssumption
<1>3. /\ IsSnap(e) /\ e.height = a.height + 1
      /\ e.creds = Keeps(u, RequestOf[b.tx], AnswerIn(u, b))
      /\ e.ran = u.ran /\ e.plan = u.plan /\ e.versions = u.versions
  BY <1>1, ExecutedFields
<1>4. /\ u.creds = a.creds
      /\ a.height + 1 # UpgradeHeight => u = a
      /\ a.height + 1 = UpgradeHeight => u.plan = FALSE
  BY UpgradedFields
<1> HIDE DEF u, e
<1>5. \A x \in DOMAIN e.creds : e.creds[x] # Nothing
  BY <1>1, <1>3, <1>4, KeepsCredentials
<1>6. e.height \in 0 .. Len(l)
  BY <1>2, <1>3
<1>7. md = "broken" => e.height < UpgradeHeight
  BY <1>1, <1>2, <1>3 DEF Passes
<1>8. CASE a.height + 1 = UpgradeHeight
  <2>1. ~ (e.height < UpgradeHeight) /\ e.plan = FALSE
    BY <1>2, <1>3, <1>4, <1>8
  <2>2. e.plan \in BOOLEAN /\ (e.plan <=> e.height < UpgradeHeight)
    BY <2>1
  <2> QED
    BY <1>3, <1>5, <1>6, <1>7, <2>1, <2>2 DEF AppOK, e
<1>9. CASE a.height + 1 # UpgradeHeight
  <2>1. (e.height < UpgradeHeight) <=> (a.height < UpgradeHeight)
    BY <1>2, <1>3, <1>9
  <2>2. e.plan = a.plan /\ e.ran = a.ran /\ e.versions = a.versions
    BY <1>3, <1>4, <1>9
  <2>3. e.plan \in BOOLEAN /\ (e.plan <=> e.height < UpgradeHeight)
    BY <1>1, <2>1, <2>2
  <2> QED
    BY <1>1, <1>3, <1>5, <1>6, <1>7, <2>2, <2>3 DEF AppOK, e
<1> QED
  BY <1>8, <1>9

\* Commit takes the node one block further along the run.
LEMMA CommitMeans ==
  ASSUME Inv, NEW n \in Nodes, Commit(n)
  PROVE  LET e == Executed(mode, app[n], log[app[n].height + 1]) IN
         /\ app' = [app EXCEPT ![n] = e]
         /\ app[n].height < Len(log) /\ Passes(mode, app[n])
         /\ AppOK(log, mode, e) /\ e.height = app[n].height + 1
<1> DEFINE a == app[n]
           b == log[a.height + 1]
           d == work[n].app
           e == Executed(mode, a, b)
<1>1. work[n] # Nothing /\ work[n].phase = "commit"
      /\ app' = [app EXCEPT ![n] = [d EXCEPT !.height = a.height + 1]]
  BY DEF Commit
<1>2. AppOK(log, mode, a) /\ WorkOK(log, mode, a, work[n]) /\ a.height \in Nat /\ Len(log) \in Nat
  BY NodeFacts DEF NodeOK
<1>3. IsSnap(a)
  BY <1>2 DEF AppOK
<1>4. a.height < Len(log) /\ Passes(mode, a) /\ d = Delivered(Upgraded(mode, a), b)
  BY <1>1, <1>2 DEF WorkOK
<1>5. AppOK(log, mode, e)
  BY <1>2, <1>4, ExecutedOK
<1>6. e.height = a.height + 1
  BY <1>3, ExecutedFields
<1>7. e = Higher(d)
  BY <1>4 DEF Executed
<1>8. IsSnap(d) /\ d.height = a.height
  <2> DEFINE u == Upgraded(mode, a)
  <2>1. u.height = a.height
    BY <1>3, SnapUpgraded
  <2> HIDE DEF u, d
  <2>2. d = Answering(u, RequestOf[b.tx], AnswerIn(u, b))
    BY <1>4 DEF Delivered, u
  <2> QED
    BY <2>1, <2>2 DEF Answering, IsSnap, Snap
<1> HIDE DEF d, a, e
<1>9. [d EXCEPT !.height = a.height + 1] = Higher(d)
  <2> DEFINE t == Higher(d)
             Fields == {"height", "creds", "results", "ran", "plan", "versions"}
             g == [f \in Fields |-> IF f = "height" THEN a.height + 1 ELSE d[f]]
  <2>1. t = [f \in Fields |-> t[f]]
        /\ t["height"] = d.height + 1 /\ t["creds"] = d.creds /\ t["results"] = d.results
        /\ t["ran"] = d.ran /\ t["plan"] = d.plan /\ t["versions"] = d.versions
    BY DEF Higher, Snap
  <2>2. d = Snap(d.height, d.creds, d.results, d.ran, d.plan, d.versions)
    BY <1>8 DEF IsSnap
  <2>3. DOMAIN d = Fields
    BY <2>2 DEF Snap
  <2>4. [d EXCEPT !.height = a.height + 1] = g
    BY <2>3
  <2>5. \A f \in Fields : g[f] = t[f]
    <3> HIDE DEF t
    <3> QED
      BY <1>8, <2>1
  <2> HIDE DEF t
  <2>6. g = t
    BY <2>1, <2>5
  <2> QED
    BY <2>4, <2>6 DEF t
<1>10. app' = [app EXCEPT ![n] = e]
  BY <1>1, <1>7, <1>9
<1> QED
  BY <1>4, <1>5, <1>6, <1>10 DEF e, a

\* A node commits what every node commits at that height.
LEMMA CommitInv ==
  ASSUME Inv, NEW n \in Nodes, Commit(n)
  PROVE  Inv'
<1> DEFINE e == Executed(mode, app[n], log[app[n].height + 1])
<1>1. /\ app' = [app EXCEPT ![n] = e] /\ app[n].height < Len(log)
      /\ AppOK(log, mode, e) /\ e.height = app[n].height + 1
  BY CommitMeans
<1>2. /\ log' = log /\ mode' = mode /\ work' = [work EXCEPT ![n] = Nothing]
      /\ query' = [query EXCEPT ![n] = query[n]] /\ heap' = [heap EXCEPT ![n] = heap[n]]
      /\ served' = [served EXCEPT ![n] = served[n]]
      /\ work[n] # Nothing /\ work[n].phase = "commit"
  BY Untouched DEF Commit, Inv, chainVars, queryVars
<1>3. NodeOK(log, mode, app[n], work[n], query[n], heap[n], served[n])
  BY NodeFacts
<1>4. query[n]["block"] = Nothing
  BY <1>2, <1>3 DEF NodeOK, BlockQueryOK
<1> DEFINE x == e
<1>5. x = Executed(mode, app[n], log[app[n].height + 1])
  OBVIOUS
<1> HIDE DEF x, e
<1>6. NodeOK(log, mode, x, Nothing, query[n], heap[n], served[n])
  BY <1>1, <1>3, <1>4 DEF NodeOK, WorkOK, BlockQueryOK, x
<1> QED
  BY <1>1, <1>2, <1>5, <1>6, NodeStep DEF x

-----------------------------------------------------------------------------
\* A longer log changes nothing for a node.
LEMMA LongerLog ==
  ASSUME NEW l, NEW l2, Len(l) \in Nat, Len(l2) = Len(l) + 1,
         \A i \in 1..Len(l) : l2[i] = l[i],
         NEW md, NEW a, NEW wk, NEW qs, NEW hp, NEW sv, NodeOK(l, md, a, wk, qs, hp, sv)
  PROVE  NodeOK(l2, md, a, wk, qs, hp, sv)
<1>1. AppOK(l, md, a) /\ WorkOK(l, md, a, wk) /\ BlockQueryOK(l, a, wk, qs["block"])
  BY DEF NodeOK
<1>2. a.height \in 0 .. Len(l) /\ a.height \in 0 .. Len(l2)
  BY <1>1 DEF AppOK
<1>3. AppOK(l2, md, a)
  BY <1>1, <1>2 DEF AppOK
<1>4. wk # Nothing => a.height < Len(l) /\ a.height < Len(l2) /\ l2[a.height + 1] = l[a.height + 1]
  BY <1>1, <1>2 DEF WorkOK
<1>5. WorkOK(l2, md, a, wk)
  BY <1>1, <1>4 DEF WorkOK
<1>6. BlockQueryOK(l2, a, wk, qs["block"])
  BY <1>1, <1>4 DEF BlockQueryOK
<1> QED
  BY <1>3, <1>5, <1>6 DEF NodeOK

\* The block that consensus adds.
LEMMA AgreeMeans ==
  ASSUME Inv, Agree
  PROVE  /\ log' \in Seq(Blocks) /\ Len(log') = Len(log) + 1 /\ Len(log) \in Nat
         /\ \A i \in 1..Len(log) : log'[i] = log[i]
<1>1. PICK l \in Logs : /\ Len(log) < Len(l)
                        /\ log = SubSeq(l, 1, Len(log))
                        /\ log' = SubSeq(l, 1, Len(log) + 1)
  BY DEF Agree
<1>2. l \in Seq(Blocks) /\ log \in Seq(Blocks)
  BY RequestsAssumption DEF Blocks, Inv
<1> HIDE DEF Blocks
<1>3. Len(log) \in Nat /\ Len(l) \in Nat
  BY <1>2
<1>4. Len(log) + 1 \in Nat /\ 1 \in Nat /\ Len(log) + 1 <= Len(l)
  BY <1>1, <1>3
<1> DEFINE k == Len(log)
<1>5. \A i \in 1..k : SubSeq(l, 1, k)[i] = l[i]
  BY <1>2, <1>3, <1>4
<1>6. /\ SubSeq(l, 1, k + 1) \in Seq(Blocks) /\ Len(SubSeq(l, 1, k + 1)) = k + 1
      /\ \A i \in 1..(k + 1) : SubSeq(l, 1, k + 1)[i] = l[i]
  BY <1>2, <1>3, <1>4
<1> HIDE DEF k
<1>7. \A i \in 1..k : log[i] = l[i]
  BY <1>1, <1>5 DEF k
<1>8. log' \in Seq(Blocks) /\ Len(log') = k + 1 /\ \A i \in 1..(k + 1) : log'[i] = l[i]
  BY <1>1, <1>6 DEF k
<1>9. k \in Nat
  BY <1>3 DEF k
<1> QED
  BY <1>7, <1>8, <1>9 DEF k

\* A block is agreed on; what was executed stays executed.
LEMMA AgreeInv ==
  ASSUME Inv, Agree
  PROVE  Inv'
<1>1. /\ log' \in Seq(Blocks) /\ Len(log') = Len(log) + 1 /\ Len(log) \in Nat
      /\ \A i \in 1..Len(log) : log'[i] = log[i]
  BY AgreeMeans
<1>2. /\ mode' = mode /\ app' = app /\ work' = work /\ query' = query /\ heap' = heap
      /\ served' = served
  BY DEF Agree, nodeVars, queryVars
<1>3. ASSUME NEW n \in Nodes
      PROVE  NodeOK(log', mode', app'[n], work'[n], query'[n], heap'[n], served'[n])
  BY <1>1, <1>2, NodeFacts, LongerLog
<1>4. \E run : Follows(run, log', mode', app')
  <2>1. PICK run : Follows(run, log, mode, app)
    BY DEF Inv
  <2> DEFINE k == Len(log)
             last == Executed(mode, run[k], log'[k + 1])
             run2 == [h \in 0..(k + 1) |-> IF h <= k THEN run[h] ELSE last]
  <2>2. k \in Nat /\ Len(log') = k + 1
    BY <1>1
  <2>3. run[0] = GenesisState
        /\ (\A h \in 0 .. (k - 1) : run[h+1] = Executed(mode, run[h], log[h+1]))
        /\ \A n \in Nodes : app[n] = run[app[n].height]
    BY <2>1 DEF Follows
  <2>4. \A i \in 1..k : log'[i] = log[i]
    BY <1>1
  <2>5. \A n \in Nodes : app[n].height \in 0..k
    BY NodeFacts
  <2> HIDE DEF k, last
  <2>6. run2[k+1] = last /\ \A h \in 0..k : run2[h] = run[h]
    BY <2>2
  <2> HIDE DEF run2
  <2>7. run2[0] = GenesisState
    BY <2>2, <2>3, <2>6
  <2>8. ASSUME NEW h \in 0 .. ((k + 1) - 1)
        PROVE  run2[h+1] = Executed(mode, run2[h], log'[h+1])
    <3>1. CASE h = k
      BY <3>1, <2>2, <2>6 DEF last
    <3>2. CASE h # k
      <4>1. h \in 0 .. (k - 1) /\ h \in 0..k /\ h + 1 \in 0..k /\ h + 1 \in 1..k
        BY <2>2, <3>2
      <4>2. run[h+1] = Executed(mode, run[h], log[h+1]) /\ log'[h+1] = log[h+1]
        BY <4>1, <2>3, <2>4
      <4> QED
        BY <4>1, <4>2, <2>6
    <3> QED
      BY <3>1, <3>2
  <2>9. \A n \in Nodes : app[n] = run2[app[n].height]
    BY <2>3, <2>5, <2>6
  <2>10. Follows(run2, log', mode', app')
    BY <1>2, <2>2, <2>7, <2>8, <2>9 DEF Follows
  <2> QED
    BY <2>10
<1> QED
  BY <1>1, <1>2, <1>3, <1>4 DEF Inv, OnNodes

\* All nodes start from the same genesis file.
LEMMA InitInv == Init => Inv
<1> SUFFICES ASSUME Init PROVE Inv
  OBVIOUS
<1>1. /\ log = << >> /\ mode \in {"run", "skip", "broken"}
      /\ app = [n \in Nodes |-> GenesisState]
      /\ work = [n \in Nodes |-> Nothing] /\ query = [n \in Nodes |-> NoQueries]
      /\ heap = [n \in Nodes |-> << >>] /\ served = [n \in Nodes |-> Nothing]
  BY DEF Init, GenesisState, Snap, NoQueries
<1>2. OnNodes(app) /\ OnNodes(work) /\ OnNodes(query) /\ OnNodes(heap) /\ OnNodes(served)
  BY <1>1 DEF OnNodes
<1>3. /\ IsSnap(GenesisState) /\ GenesisState.height = 0 /\ GenesisState.plan = TRUE
      /\ GenesisState.ran = << >> /\ GenesisState.versions = FromVersion
      /\ GenesisState.creds = << >>
  BY DEF GenesisState, IsSnap, Snap
<1>4. log \in Seq(Blocks) /\ Len(log) = 0
  BY <1>1
<1>5. AppOK(log, mode, GenesisState)
  <2>1. UpgradeHeight \in Nat /\ 0 < UpgradeHeight
    BY NodesAssumption
  <2>2. \A x \in DOMAIN GenesisState.creds : GenesisState.creds[x] # Nothing
    BY <1>3
  <2>3. GenesisState.height \in 0 .. Len(log) /\ GenesisState.height < UpgradeHeight
    BY <1>3, <1>4, <2>1
  <2>4. GenesisState.plan \in BOOLEAN /\ GenesisState.plan
    BY <1>3
  <2> QED
    BY <1>3, <2>2, <2>3, <2>4 DEF AppOK
<1>6. \E run : Follows(run, log, mode, app)
  <2> DEFINE run == [h \in {0} |-> GenesisState]
  <2>1. run[0] = GenesisState
    OBVIOUS
  <2> HIDE DEF run
  <2>2. 0 .. (Len(log) - 1) = {}
    BY <1>4
  <2>3. Follows(run, log, mode, app)
    BY <1>1, <1>3, <2>1, <2>2 DEF Follows
  <2> QED
    BY <2>3
<1>7. ASSUME NEW n \in Nodes
      PROVE  NodeOK(log, mode, app[n], work[n], query[n], heap[n], served[n])
  <2>1. /\ app[n] = GenesisState /\ work[n] = Nothing /\ query[n] = NoQueries
        /\ heap[n] = << >> /\ served[n] = Nothing
    BY <1>1
  <2>2. NoQueries = [w \in Workers |-> NoQueries[w]]
        /\ (\A w \in Workers : NoQueries[w] = Nothing) /\ "block" \in Workers
    BY DEF NoQueries, Workers
  <2>3. NodeOK(log, mode, GenesisState, Nothing, NoQueries, << >>, Nothing)
    BY <1>5, <2>2 DEF NodeOK, WorkOK, QueryOK, BlockQueryOK, ServedOK
  <2> QED
    BY <2>1, <2>3
<1> QED
  BY <1>1, <1>2, <1>4, <1>6, <1>7 DEF Inv

\* Every step of a node, of a client or of consensus.
LEMMA StepInv == Inv /\ [Next]_vars => Inv'
<1> SUFFICES ASSUME Inv, [Next]_vars PROVE Inv'
  OBVIOUS
<1>1. CASE Agree
  BY <1>1, AgreeInv
<1>2. ASSUME NEW n \in Nodes, Step(n) PROVE Inv'
  <2>1. CASE PreBlocker(n)
    BY <2>1, PreBlockerInv
  <2>2. CASE NextUpgradeHandler(n)
    BY <2>2, NextUpgradeHandlerInv
  <2>3. CASE Deliver(n)
    BY <2>3, DeliverInv
  <2>4. CASE Commit(n)
    BY <2>4, CommitInv
  <2>5. ASSUME NEW w \in Workers, Route(n, w) PROVE Inv'
    BY <2>5, RouteInv
  <2>6. ASSUME NEW w \in Workers, Unmarshal(n, w) PROVE Inv'
    BY <2>6, UnmarshalInv
  <2>7. ASSUME NEW w \in Workers, Marshal(n, w) PROVE Inv'
    BY <2>7, MarshalInv
  <2> QED
    BY <1>2, <2>1, <2>2, <2>3, <2>4, <2>5, <2>6, <2>7 DEF Step
<1>3. ASSUME NEW n \in Nodes, Crash(n) PROVE Inv'
  BY <1>3, DownInv DEF Crash
<1>4. CASE UNCHANGED <<log, mode, app, work, query, heap, served>>
  BY <1>4 DEF Inv, OnNodes, Follows
<1>5. ASSUME NEW n \in Nodes, NEW b, Start(n, b) PROVE Inv'
  BY <1>4, <1>5 DEF Start, chainVars, queryVars
<1>6. ASSUME NEW n \in Nodes, NEW r \in Requests, Ask(n, r) PROVE Inv'
  BY <1>6, AskInv
<1>7. CASE UNCHANGED vars
  BY <1>4, <1>7 DEF vars, chainVars, nodeVars, queryVars
<1> QED
  BY <1>1, <1>2, <1>3, <1>5, <1>6, <1>7 DEF Next

\* The invariant of the nodes.
LEMMA Invariance == Spec => []Inv
BY InitInv, StepInv, PTL DEF Spec

\* Nodes that have executed the same blocks hold the same state, for any
\* number of nodes, any clocks and any logs: a registration is judged by the
\* time of its block (ClockFree) and the migrations run in one order.
THEOREM ReplicasAgree == Spec => []NodesAgree
<1>1. Inv => NodesAgree
  <2> SUFFICES ASSUME Inv, NEW m \in Nodes, NEW n \in Nodes, app[m].height = app[n].height
               PROVE  app[m] = app[n]
    BY DEF NodesAgree
  <2>1. PICK run : Follows(run, log, mode, app)
    BY DEF Inv
  <2> QED
    BY <2>1 DEF Follows
<1> QED
  BY <1>1, Invariance, PTL

\* A client of any node is answered its own request, by the credential and
\* the time it was routed with, whatever the block in execution asks at the
\* same time.
THEOREM ClientsGetTheirOwn == Spec => []OwnAnswers
<1>1. ASSUME Inv, NEW n \in Nodes, served[n] # Nothing
      PROVE  LET s       == served[n]
                 request == RequestOf[s.request]
                 creds   == IF s.credential = Nothing THEN << >>
                              ELSE [a \in {request.addr} |-> s.credential]
             IN /\ s.answer.ok = (\/ C!Registers(request, s.time)
                                  \/ C!Authenticates(request, creds))
                /\ s.answer.ok /\ request.path = "register" =>
                     s.answer.value = NewCredential(request.data)
  <2> DEFINE s       == served[n]
             request == RequestOf[s.request]
             creds   == IF s.credential = Nothing THEN << >>
                          ELSE [a \in {request.addr} |-> s.credential]
             R == C!Registers(request, s.time)
             A == C!Authenticates(request, creds)
  <2>1. /\ s.request \in DOMAIN RequestOf /\ s.time \in Nat /\ request.path \in Whitelist
        /\ s.answer = Verdict(request, s.credential, s.time)
    BY <1>1, NodeFacts DEF NodeOK, ServedOK
  <2>2. request.path = "register" => IsAttestation(request.data)
    BY <2>1, RequestsAssumption
  <2>3. /\ s.credential = IF request.addr \in DOMAIN creds THEN creds[request.addr] ELSE Nothing
        /\ request.addr \in DOMAIN creds => creds[request.addr] # Nothing
    OBVIOUS
  <2> HIDE DEF creds
  <2>4. s.answer = IF R THEN Answered(NewCredential(request.data))
                   ELSE IF A THEN Answered(AuthenticateResponse) ELSE Failed
    BY <2>1, <2>2, <2>3, VerdictMeans
  <2>5. (A => request.path = "authenticate") /\ R \in BOOLEAN /\ A \in BOOLEAN
    BY DEF C!Authenticates, C!Registers
  <2> HIDE DEF R, A, request, s
  <2>6. Failed.ok = FALSE
        /\ \A x : Answered(x).ok = TRUE /\ Answered(x).value = x
    BY DEF Failed, Answered
  <2>7. s.answer.ok = (R \/ A)
    BY <2>4, <2>6
  <2>8. s.answer.ok /\ request.path = "register" => s.answer.value = NewCredential(request.data)
    BY <2>4, <2>5, <2>6
  <2> QED
    BY <2>7, <2>8 DEF R, A, request, s, creds
<1>2. Inv => OwnAnswers
  BY <1>1 DEF OwnAnswers
<1> QED
  BY <1>2, Invariance, PTL

-----------------------------------------------------------------------------
(***************************************************************************)
(* The replicas implement Chain: the node that is ahead carries its state. *)
(***************************************************************************)
AheadIn(ap) == CHOOSE n \in Nodes : \A m \in Nodes : ap[m].height <= ap[n].height

\* Of any number of nodes below a height one is the highest.
LEMMA SomeoneIsAhead ==
  ASSUME NEW ap, NEW k \in Nat,
         \A m \in Nodes : ap[m].height \in Nat /\ ap[m].height <= k
  PROVE  /\ AheadIn(ap) \in Nodes
         /\ \A m \in Nodes : ap[m].height <= ap[AheadIn(ap)].height
<1> DEFINE S == {k - ap[m].height : m \in Nodes}
<1>1. S \in SUBSET Nat /\ S # {}
  BY NodesAssumption
<1>2. PICK x \in S : \A y \in S : x <= y
  <2> HIDE DEF S
  <2> QED
    BY <1>1, LeastNatural
<1>3. PICK n \in Nodes : x = k - ap[n].height
  BY <1>2
<1>4. ASSUME NEW m \in Nodes PROVE ap[m].height <= ap[n].height
  <2>1. k - ap[n].height <= k - ap[m].height
    BY <1>2, <1>3
  <2> QED
    BY <2>1
<1>5. \E j \in Nodes : \A m \in Nodes : ap[m].height <= ap[j].height
  BY <1>4
<1> QED
  BY <1>5, Zenon DEF AheadIn

\* What a contract is answered in a block, in the terms of Chain.
LEMMA AnswerInMeans ==
  ASSUME NEW s, NEW b, b.tx \in DOMAIN RequestOf, b.time \in Nat,
         \A x \in DOMAIN s.creds : s.creds[x] # Nothing
  PROVE  LET tx == RequestOf[b.tx] IN
         AnswerIn(s, b) = IF C!Registers(tx, b.time) THEN Answered(NewCredential(tx.data))
                          ELSE IF C!Authenticates(tx, s.creds) THEN Answered(AuthenticateResponse)
                          ELSE Failed
<1> DEFINE tx == RequestOf[b.tx]
           c  == CredentialOf(s, tx.addr)
<1>1. tx.path = "register" => IsAttestation(tx.data)
  BY RequestsAssumption
<1>2. CASE tx.path \in Whitelist
  <2>1. c = IF tx.addr \in DOMAIN s.creds THEN s.creds[tx.addr] ELSE Nothing
    BY DEF CredentialOf
  <2>2. AnswerIn(s, b) = Verdict(tx, c, b.time)
    BY <1>2 DEF AnswerIn
  <2> HIDE DEF c, tx
  <2> QED
    BY <1>1, <1>2, <2>1, <2>2, VerdictMeans DEF tx
<1>3. CASE tx.path \notin Whitelist
  <2>1. ~ C!Registers(tx, b.time) /\ ~ C!Authenticates(tx, s.creds)
    BY <1>3 DEF Whitelist, C!Registers, C!Authenticates
  <2>2. AnswerIn(s, b) = Failed
    BY <1>3 DEF AnswerIn
  <2> QED
    BY <2>1, <2>2
<1> QED
  BY <1>2, <1>3

\* The states that Chain allows after a block, for states s and t of a node.
DeliversTo(s, t, b) ==
  LET tx        == RequestOf[b.tx]
      registers == C!Registers(tx, b.time)
      accepted  == registers \/ C!Authenticates(tx, s.creds)
  IN /\ t.results = Append(s.results, accepted)
     /\ DOMAIN t.creds = DOMAIN s.creds \cup (IF registers THEN {tx.addr} ELSE {})
     /\ \A x \in DOMAIN t.creds :
          IF registers /\ x = tx.addr
            THEN t.creds[x].id = tx.data.id /\ t.creds[x].key = tx.data.key
            ELSE t.creds[x] = s.creds[x]

UpgradesTo(md, s, t, h) ==
  IF h + 1 = UpgradeHeight
    THEN /\ md # "broken" /\ ~ t.plan
         /\ IF md = "skip" THEN t.ran = s.ran ELSE C!Migrated(t.ran)
    ELSE t.plan = s.plan /\ t.ran = s.ran

\* The block of a node is a block of Chain.
LEMMA ExecutedMeans ==
  ASSUME NEW l, NEW md, NEW a, NEW b, AppOK(l, md, a), Passes(md, a),
         b.tx \in DOMAIN RequestOf, b.time \in Nat
  PROVE  /\ DeliversTo(a, Executed(md, a, b), b)
         /\ UpgradesTo(md, a, Executed(md, a, b), a.height)
<1> DEFINE u   == Upgraded(md, a)
           e   == Executed(md, a, b)
           tx  == RequestOf[b.tx]
           ans == AnswerIn(u, b)
           R   == C!Registers(tx, b.time)
           A   == C!Authenticates(tx, a.creds)
<1>1. IsSnap(a) /\ \A x \in DOMAIN a.creds : a.creds[x] # Nothing
  BY DEF AppOK
<1>2. /\ e.creds = Keeps(u, tx, ans) /\ e.results = Append(u.results, ans.ok)
      /\ e.ran = u.ran /\ e.plan = u.plan
  BY <1>1, ExecutedFields
<1>3. /\ u.creds = a.creds /\ u.results = a.results
      /\ a.height + 1 # UpgradeHeight => u = a
      /\ a.height + 1 = UpgradeHeight =>
           /\ u.plan = FALSE
           /\ md = "skip" => u.ran = a.ran
           /\ md # "skip" => u.ran = MigrationOrder
  BY UpgradedFields
<1> HIDE DEF u, e
<1>4. ans = IF R THEN Answered(NewCredential(tx.data))
            ELSE IF A THEN Answered(AuthenticateResponse) ELSE Failed
  BY <1>1, <1>3, AnswerInMeans
<1>5. (A => tx.path = "authenticate") /\ (R => tx.path = "register")
  BY DEF C!Authenticates, C!Registers
<1>6. R \in BOOLEAN /\ A \in BOOLEAN
  BY DEF C!Authenticates, C!Registers
<1> HIDE DEF ans, tx, R, A
<1>7. Failed.ok = FALSE
      /\ \A x : Answered(x).ok = TRUE /\ Answered(x).value = x
  BY DEF Failed, Answered
<1>8. ans.ok = (R \/ A)
  BY <1>4, <1>6, <1>7
<1>9. e.results = Append(a.results, R \/ A)
  BY <1>2, <1>3, <1>8, Zenon
<1>10. ASSUME R PROVE DeliversTo(a, e, b)
  <2>1. ans.ok /\ tx.path = "register" /\ ans.value = NewCredential(tx.data)
    BY <1>4, <1>5, <1>7, <1>10
  <2>2. e.creds = [x \in DOMAIN a.creds \cup {tx.addr} |->
                     IF x = tx.addr THEN NewCredential(tx.data) ELSE a.creds[x]]
    BY <1>2, <1>3, <2>1 DEF Keeps
  <2>3. NewCredential(tx.data).id = tx.data.id /\ NewCredential(tx.data).key = tx.data.key
    BY DEF NewCredential
  <2>4. /\ DOMAIN e.creds = DOMAIN a.creds \cup {tx.addr}
        /\ \A x \in DOMAIN e.creds :
             IF x = tx.addr
               THEN e.creds[x].id = tx.data.id /\ e.creds[x].key = tx.data.key
               ELSE e.creds[x] = a.creds[x]
    BY <2>2, <2>3
  <2> QED
    BY <1>9, <1>10, <2>4 DEF DeliversTo, R, A, tx
<1>11. ASSUME ~ R PROVE DeliversTo(a, e, b)
  <2>1. ~ (ans.ok /\ tx.path = "register")
    BY <1>4, <1>5, <1>7, <1>11
  <2>2. e.creds = a.creds
    BY <1>2, <1>3, <2>1 DEF Keeps
  <2> QED
    BY <1>9, <1>11, <2>2 DEF DeliversTo, R, A, tx
<1>12. UpgradesTo(md, a, e, a.height)
  BY <1>2, <1>3 DEF UpgradesTo, Passes
<1> QED
  BY <1>10, <1>11, <1>12 DEF e

\* The heights of the nodes are bounded by the log.
LEMMA Heights ==
  ASSUME Inv
  PROVE  /\ Len(log) \in Nat
         /\ \A m \in Nodes : app[m].height \in Nat /\ app[m].height <= Len(log)
<1>1. PICK n \in Nodes : TRUE
  BY NodesAssumption
<1> QED
  BY <1>1, NodeFacts

\* The node that stands for the chain.
LEMMA AheadFacts ==
  ASSUME Inv
  PROVE  /\ Ahead = AheadIn(app) /\ Ahead \in Nodes
         /\ \A m \in Nodes : app[m].height <= app[Ahead].height
<1>1. Ahead = AheadIn(app)
  BY DEF Ahead, AheadIn
<1>2. /\ Len(log) \in Nat
      /\ \A m \in Nodes : app[m].height \in Nat /\ app[m].height <= Len(log)
  BY Heights
<1>3. AheadIn(app) \in Nodes /\ \A m \in Nodes : app[m].height <= app[AheadIn(app)].height
  BY <1>2, SomeoneIsAhead
<1> QED
  BY <1>1, <1>3

\* Nodes of the same height have the same state.
LEMMA SameHeight ==
  ASSUME Inv, NEW m \in Nodes, NEW n \in Nodes, app[m].height = app[n].height
  PROVE  app[m] = app[n]
<1>1. PICK run : Follows(run, log, mode, app)
  BY DEF Inv
<1> QED
  BY <1>1 DEF Follows

\* A commit by the node ahead is a step of the chain, one by a node that
\* catches up is none.
LEMMA CommitRefines ==
  ASSUME Inv, NEW n \in Nodes, Commit(n)
  PROVE  C!Execute \/ UNCHANGED C!vars
<1> DEFINE a == app[n]
           b == log[a.height + 1]
           e == Executed(mode, a, b)
           k == Ahead
           j == AheadIn(app')
<1>1. /\ app' = [app EXCEPT ![n] = e]
      /\ a.height < Len(log) /\ Passes(mode, a)
      /\ AppOK(log, mode, e) /\ e.height = a.height + 1
  BY CommitMeans
<1>2. log' = log /\ mode' = mode
  BY DEF Commit, chainVars
<1>3. DOMAIN app = Nodes
  BY DEF Inv, OnNodes
<1>4. app'[n] = e /\ \A m \in Nodes : m # n => app'[m] = app[m]
  BY <1>1, <1>3
<1>5. /\ Len(log) \in Nat
      /\ \A m \in Nodes : app[m].height \in Nat /\ app[m].height <= Len(log)
  BY Heights
<1>6. k \in Nodes /\ \A m \in Nodes : app[m].height <= app[k].height
  BY AheadFacts
<1>7. a.height \in Nat /\ app[k].height \in Nat /\ AppOK(log, mode, a)
  BY <1>5, <1>6, NodeFacts
<1> HIDE DEF k, e
<1>8. \A m \in Nodes : app'[m].height \in Nat /\ app'[m].height <= Len(log)
  BY <1>1, <1>4, <1>5, <1>7
<1>9. j \in Nodes /\ \A m \in Nodes : app'[m].height <= app'[j].height
  <2> DEFINE ap == app'
  <2>1. \A m \in Nodes : ap[m].height \in Nat /\ ap[m].height <= Len(log)
    BY <1>8
  <2> HIDE DEF ap
  <2>2. AheadIn(ap) \in Nodes /\ \A m \in Nodes : ap[m].height <= ap[AheadIn(ap)].height
    BY <1>5, <2>1, SomeoneIsAhead
  <2> QED
    BY <2>2 DEF ap
<1>10. Ahead' = j
  BY DEF Ahead, AheadIn
<1> HIDE DEF j
<1>11. CASE a.height = app[k].height
  <2>1. app[k] = a
    BY <1>6, <1>11, SameHeight
  <2>2. j = n
    <3>1. app'[n].height = a.height + 1 /\ app'[n].height <= app'[j].height
      BY <1>1, <1>4, <1>9
    <3>2. j # n => app'[j].height <= a.height /\ app'[j].height \in Nat
      BY <1>4, <1>5, <1>6, <1>9, <1>11
    <3> QED
      BY <1>7, <3>1, <3>2
  <2>3. /\ app[Ahead] = a /\ (app[Ahead])' = e
    BY <1>4, <1>10, <2>1, <2>2 DEF k
  <2>4. b.tx \in DOMAIN RequestOf /\ b.time \in Nat
    <3>1. a.height + 1 \in 1..Len(log)
      BY <1>1, <1>5, <1>7
    <3> QED
      BY <3>1, NodeFacts
  <2>5. DeliversTo(a, e, b) /\ UpgradesTo(mode, a, e, a.height)
    BY <1>1, <1>7, <2>4, ExecutedMeans DEF e
  <2> HIDE DEF a, b
  <2>6. ASSUME NEW s
        PROVE  /\ Visible(s).creds = s.creds /\ Visible(s).results = s.results
               /\ Visible(s).ran = s.ran /\ Visible(s).plan = s.plan
    BY DEF Visible
  <2>7. Visible(app[Ahead]) = Visible(a) /\ (Visible(app[Ahead]))' = Visible(e)
    BY <2>3 DEF Visible
  <2>8. C!Deliver(RequestOf[log[app[Ahead].height + 1].tx], log[app[Ahead].height + 1].time)
    BY <2>3, <2>5, <2>6, <2>7 DEF C!Deliver, DeliversTo, b
  <2>9. C!Upgrade
    BY <2>3, <2>5, <2>6, <2>7 DEF C!Upgrade, UpgradesTo
  <2>10. app[Ahead].height < Len(log) /\ (app[Ahead].height)' = app[Ahead].height + 1
    BY <1>1, <2>3 DEF a
  <2>11. C!Execute
    BY <1>2, <2>8, <2>9, <2>10 DEF C!Execute
  <2> QED
    BY <2>11
<1>12. CASE a.height # app[k].height
  <2>1. a.height < app[k].height /\ k # n
    BY <1>6, <1>7, <1>12
  <2>2. app'[k] = app[k]
    BY <1>4, <1>6, <2>1
  <2>3. \A m \in Nodes : app'[m].height <= app[k].height
    BY <1>1, <1>4, <1>6, <1>7, <2>1
  <2>4. app'[j].height = app'[k].height
    <3>1. app'[j].height <= app[k].height /\ app'[k].height <= app'[j].height
      BY <1>6, <1>9, <2>3
    <3> QED
      BY <1>6, <1>7, <1>8, <1>9, <2>2, <3>1
  <2>5. app'[j] = app'[k]
    <3>1. Inv'
      BY CommitInv
    <3>2. PICK run : Follows(run, log', mode', app')
      BY <3>1 DEF Inv
    <3> QED
      BY <1>6, <1>9, <2>4, <3>2 DEF Follows
  <2>6. (app[Ahead])' = app[Ahead]
    BY <1>10, <2>2, <2>5 DEF k
  <2> QED
    BY <1>2, <2>6 DEF C!vars, Visible
<1> QED
  BY <1>11, <1>12

\* A step that leaves the log and the committed states alone is a stutter.
LEMMA QuietRefines ==
  ASSUME UNCHANGED <<log, mode, app>>
  PROVE  UNCHANGED C!vars
BY DEF C!vars, Visible, Ahead

\* Every step is a step of Chain or one that it does not see.
LEMMA StepRefines == Inv /\ [Next]_vars => [C!Next]_(C!vars)
<1> SUFFICES ASSUME Inv, [Next]_vars PROVE [C!Next]_(C!vars)
  OBVIOUS
<1>1. CASE Agree
  <2>1. (app[Ahead])' = app[Ahead] /\ mode' = mode
    BY <1>1 DEF Agree, nodeVars, Ahead
  <2>2. C!Agree
    BY <1>1, <2>1 DEF Agree, C!Agree, Visible
  <2> QED
    BY <2>2 DEF C!Next
<1>2. ASSUME NEW n \in Nodes, Commit(n) PROVE [C!Next]_(C!vars)
  BY <1>2, CommitRefines DEF C!Next
<1>3. ASSUME NEW n \in Nodes, Step(n), ~ Commit(n) PROVE UNCHANGED <<log, mode, app>>
  BY <1>3 DEF Step, PreBlocker, NextUpgradeHandler, Deliver, Route, Unmarshal, Marshal,
     Refuse, Proceed, Down, chainVars, nodeVars
<1>4. ASSUME NEW n \in Nodes, Crash(n) PROVE UNCHANGED <<log, mode, app>>
  BY <1>4 DEF Crash, Down
<1>5. ASSUME NEW n \in Nodes, NEW x, Start(n, x) PROVE UNCHANGED <<log, mode, app>>
  BY <1>5 DEF Start, chainVars
<1>6. ASSUME NEW n \in Nodes, NEW r, Ask(n, r) PROVE UNCHANGED <<log, mode, app>>
  BY <1>6 DEF Ask, chainVars, nodeVars
<1>7. CASE UNCHANGED vars
  BY <1>7, QuietRefines DEF vars, chainVars, nodeVars
<1> QED
  BY <1>1, <1>2, <1>3, <1>4, <1>5, <1>6, <1>7, QuietRefines DEF Next

\* The nodes start where Chain starts.
LEMMA InitRefines == Init => C!Init
<1> SUFFICES ASSUME Init PROVE C!Init
  OBVIOUS
<1>1. Ahead \in Nodes
  BY InitInv, AheadFacts
<1>2. app[Ahead] = GenesisState
  BY <1>1 DEF Init, GenesisState, Snap
<1>3. /\ GenesisState.height = 0 /\ GenesisState["creds"] = << >>
      /\ GenesisState["results"] = << >> /\ GenesisState["ran"] = << >>
      /\ GenesisState["plan"] = TRUE
  BY DEF GenesisState, Snap
<1>4. Visible(GenesisState) = [creds |-> << >>, results |-> << >>, ran |-> << >>, plan |-> TRUE]
  <2> DEFINE t == [creds |-> << >>, results |-> << >>, ran |-> << >>, plan |-> TRUE]
             Fields == {"creds", "results", "ran", "plan"}
  <2>1. t = [f \in Fields |-> t[f]]
        /\ t["creds"] = << >> /\ t["results"] = << >> /\ t["ran"] = << >> /\ t["plan"] = TRUE
    OBVIOUS
  <2> HIDE DEF t
  <2>2. \A f \in Fields : GenesisState[f] = t[f]
    BY <1>3, <2>1
  <2>3. [f \in Fields |-> GenesisState[f]] = t
    BY <2>1, <2>2
  <2> QED
    BY <2>3 DEF t, Visible
<1> QED
  BY <1>2, <1>3, <1>4 DEF Init, C!Init

\* The replicas together are one chain: each agreed block is executed in one
\* step by its contents and its time alone, every migration that is due runs
\* exactly once and in order or the upgrade does not pass, whatever crashes,
\* wrong binaries and clients do.
THEOREM ImplementsChain == Spec => RefinesChain
BY InitRefines, StepRefines, Invariance, PTL DEF Spec, RefinesChain, C!Spec
=============================================================================
