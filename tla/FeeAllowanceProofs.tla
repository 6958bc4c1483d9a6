------------------------ MODULE FeeAllowanceProofs ------------------------
(***************************************************************************)
(* What the fee allowances of x/xion keep for every allowance that can be  *)
(* signed, nested as deep as the codec unpacks, and every transaction.     *)
(***************************************************************************)
EXTENDS FeeAllowance, SequenceTheorems, WellFoundedInduction, TLAPS

-----------------------------------------------------------------------------
(***************************************************************************)
(* Induction through the least counterexample.                             *)
(***************************************************************************)
\* Every non-empty set of naturals has a least element.
LEMMA LeastNatural ==
  ASSUME NEW T \in SUBSET Nat, T # {}
  PROVE  \E x \in T : \A y \in T : x <= y
<1>1. PICK x \in T : \A y \in T : ~ (<<y, x>> \in OpToRel(<, Nat))
  BY NatLessThanWellFounded, WFMin, Zenon
<1>2. \A y \in T : ~ (y < x)
  BY <1>1 DEF OpToRel
<1> QED
  BY <1>2

\* A set that contains 0 and the successor of its members contains every
\* natural number.
LEMMA NaturalsInSet ==
  ASSUME NEW S, 0 \in S, \A n \in Nat : n \in S => n + 1 \in S
  PROVE  \A n \in Nat : n \in S
<1> DEFINE T == {n \in Nat : n \notin S}
<1> SUFFICES ASSUME T # {} PROVE FALSE
  OBVIOUS
<1>1. PICK x \in T : \A y \in T : x <= y
  BY LeastNatural
<1>2. x # 0
  BY <1>1
<1>3. x - 1 \in Nat /\ x - 1 \notin T
  BY <1>1, <1>2
<1> QED
  BY <1>3, <1>1

-----------------------------------------------------------------------------
(***************************************************************************)
(* The definitions by level have the values their equations give them.     *)
(***************************************************************************)
\* The allowances of a level.
LEMMA NestedDef ==
  /\ Nested[0] = Leaf
  /\ \A n \in Levels : n # 0 => n - 1 \in Levels /\ Nested[n] = Around(Nested[n - 1])
<1> DEFINE Is(g, m) == /\ g = [n \in 0..m |-> g[n]]
                       /\ \A n \in 0..m : g[n] = IF n = 0 THEN Leaf ELSE Around(g[n - 1])
           S == {m \in Nat : \E g : Is(g, m)}
<1>0. MaxNesting \in Nat
  BY AllowanceAssumption
<1>1. 0 \in S
  <2> DEFINE g == [n \in 0..0 |-> Leaf]
  <2>1. Is(g, 0)
    OBVIOUS
  <2> QED
    BY <2>1
<1>2. ASSUME NEW m \in Nat, m \in S PROVE m + 1 \in S
  <2>1. PICK h : Is(h, m)
    BY <1>2
  <2> DEFINE g == [n \in 0..(m + 1) |-> IF n = m + 1 THEN Around(h[m]) ELSE h[n]]
  <2>2. ASSUME NEW n \in 0..(m + 1) PROVE g[n] = IF n = 0 THEN Leaf ELSE Around(g[n - 1])
    <3>1. CASE n = m + 1
      BY <3>1
    <3>2. CASE n \in 0..m
      <4>1. g[n] = h[n] /\ (n # 0 => g[n - 1] = h[n - 1])
        BY <3>2
      <4> QED
        BY <4>1, <3>2, <2>1
    <3> QED
      BY <3>1, <3>2
  <2>3. Is(g, m + 1)
    BY <2>2
  <2> HIDE DEF g, Is
  <2> QED
    BY <2>3
<1>3. MaxNesting \in S
  <2> HIDE DEF S
  <2> QED
    BY <1>0, <1>1, <1>2, NaturalsInSet
<1> DEFINE Eq(g) == g = [n \in Levels |-> IF n = 0 THEN Leaf ELSE Around(g[n - 1])]
<1>4. PICK g : Eq(g)
  BY <1>3 DEF Levels
<1>5. Nested = CHOOSE f : Eq(f)
  BY DEF Nested
<1>6. Eq(Nested)
  <2> HIDE DEF Eq
  <2> QED
    BY <1>4, <1>5
<1> QED
  BY <1>6, <1>0 DEF Levels

\* When an allowance expires, by level.
LEMMA ExpiresAtDef ==
  \A n \in Levels : ExpiresAt_UpTo[n] = ExpiresAt_Level(n, Below(ExpiresAt_UpTo, n))
<1> DEFINE Is(g, m) == /\ g = [n \in 0..m |-> g[n]]
                       /\ \A n \in 0..m : g[n] = ExpiresAt_Level(n, Below(g, n))
           S == {m \in Nat : \E g : Is(g, m)}
<1>0. MaxNesting \in Nat
  BY AllowanceAssumption
<1>1. 0 \in S
  <2> DEFINE g == [n \in 0..0 |-> ExpiresAt_Level(0, <<>>)]
  <2>1. Is(g, 0)
    BY DEF Below
  <2> HIDE DEF g, Is
  <2> QED
    BY <2>1
<1>2. ASSUME NEW m \in Nat, m \in S PROVE m + 1 \in S
  <2>1. PICK h : Is(h, m)
    BY <1>2
  <2> DEFINE g == [n \in 0..(m + 1) |-> IF n = m + 1 THEN ExpiresAt_Level(m + 1, h[m]) ELSE h[n]]
  <2>2. ASSUME NEW n \in 0..(m + 1) PROVE g[n] = ExpiresAt_Level(n, Below(g, n))
    <3>1. CASE n = m + 1
      BY <3>1 DEF Below
    <3>2. CASE n \in 0..m
      <4>1. g[n] = h[n] /\ Below(g, n) = Below(h, n)
        BY <3>2 DEF Below
      <4> QED
        BY <4>1, <3>2, <2>1
    <3> QED
      BY <3>1, <3>2
  <2>3. Is(g, m + 1)
    BY <2>2
  <2> HIDE DEF g, Is
  <2> QED
    BY <2>3
<1>3. MaxNesting \in S
  <2> HIDE DEF S
  <2> QED
    BY <1>0, <1>1, <1>2, NaturalsInSet
<1> DEFINE Eq(g) == g = [n \in Levels |-> ExpiresAt_Level(n, Below(g, n))]
<1>4. PICK g : Eq(g)
  BY <1>3 DEF Levels
<1>5. ExpiresAt_UpTo = CHOOSE f : Eq(f)
  BY DEF ExpiresAt_UpTo
<1>6. Eq(ExpiresAt_UpTo)
  <2> HIDE DEF Eq
  <2> QED
    BY <1>4, <1>5
<1> QED
  BY <1>6

\* The validation of an allowance, by level.
LEMMA ValidateBasicDepthDef ==
  \A n \in Levels : ValidateBasicDepth[n] = ValidateBasicDepth_Level(n, Below(ValidateBasicDepth, n))
<1> DEFINE Is(g, m) == /\ g = [n \in 0..m |-> g[n]]
                       /\ \A n \in 0..m : g[n] = ValidateBasicDepth_Level(n, Below(g, n))
           S == {m \in Nat : \E g : Is(g, m)}
<1>0. MaxNesting \in Nat
  BY AllowanceAssumption
<1>1. 0 \in S
  <2> DEFINE g == [n \in 0..0 |-> ValidateBasicDepth_Level(0, <<>>)]
  <2>1. Is(g, 0)
    BY DEF Below
  <2> HIDE DEF g, Is
  <2> QED
    BY <2>1
<1>2. ASSUME NEW m \in Nat, m \in S PROVE m + 1 \in S
  <2>1. PICK h : Is(h, m)
    BY <1>2
  <2> DEFINE g == [n \in 0..(m + 1) |-> IF n = m + 1 THEN ValidateBasicDepth_Level(m + 1, h[m]) ELSE h[n]]
  <2>2. ASSUME NEW n \in 0..(m + 1) PROVE g[n] = ValidateBasicDepth_Level(n, Below(g, n))
    <3>1. CASE n = m + 1
      BY <3>1 DEF Below
    <3>2. CASE n \in 0..m
      <4>1. g[n] = h[n] /\ Below(g, n) = Below(h, n)
        BY <3>2 DEF Below
      <4> QED
        BY <4>1, <3>2, <2>1
    <3> QED
      BY <3>1, <3>2
  <2>3. Is(g, m + 1)
    BY <2>2
  <2> HIDE DEF g, Is
  <2> QED
    BY <2>3
<1>3. MaxNesting \in S
  <2> HIDE DEF S
  <2> QED
    BY <1>0, <1>1, <1>2, NaturalsInSet
<1> DEFINE Eq(g) == g = [n \in Levels |-> ValidateBasicDepth_Level(n, Below(g, n))]
<1>4. PICK g : Eq(g)
  BY <1>3 DEF Levels
<1>5. ValidateBasicDepth = CHOOSE f : Eq(f)
  BY DEF ValidateBasicDepth
<1>6. Eq(ValidateBasicDepth)
  <2> HIDE DEF Eq
  <2> QED
    BY <1>4, <1>5
<1> QED
  BY <1>6

\* What an allowance answers to a fee, by level.
LEMMA AcceptDef ==
  ASSUME NEW fee
  PROVE   \A n \in Levels : Accept_UpTo(fee)[n] = Accept_Level(n, Below(Accept_UpTo(fee), n), fee)
<1> DEFINE Is(g, m) == /\ g = [n \in 0..m |-> g[n]]
                       /\ \A n \in 0..m : g[n] = Accept_Level(n, Below(g, n), fee)
           S == {m \in Nat : \E g : Is(g, m)}
<1>0. MaxNesting \in Nat
  BY AllowanceAssumption
<1>1. 0 \in S
  <2> DEFINE g == [n \in 0..0 |-> Accept_Level(0, <<>>, fee)]
  <2>1. Is(g, 0)
    BY DEF Below
  <2> HIDE DEF g, Is
  <2> QED
    BY <2>1
<1>2. ASSUME NEW m \in Nat, m \in S PROVE m + 1 \in S
  <2>1. PICK h : Is(h, m)
    BY <1>2
  <2> DEFINE g == [n \in 0..(m + 1) |-> IF n = m + 1 THEN Accept_Level(m + 1, h[m], fee) ELSE h[n]]
  <2>2. ASSUME NEW n \in 0..(m + 1) PROVE g[n] = Accept_Level(n, Below(g, n), fee)
    <3>1. CASE n = m + 1
      BY <3>1 DEF Below
    <3>2. CASE n \in 0..m
      <4>1. g[n] = h[n] /\ Below(g, n) = Below(h, n)
        BY <3>2 DEF Below
      <4> QED
        BY <4>1, <3>2, <2>1
    <3> QED
      BY <3>1, <3>2
  <2>3. Is(g, m + 1)
    BY <2>2
  <2> HIDE DEF g, Is
  <2> QED
    BY <2>3
<1>3. MaxNesting \in S
  <2> HIDE DEF S
  <2> QED
    BY <1>0, <1>1, <1>2, NaturalsInSet
<1> DEFINE Eq(g) == g = [n \in Levels |-> Accept_Level(n, Below(g, n), fee)]
<1>4. PICK g : Eq(g)
  BY <1>3 DEF Levels
<1>5. Accept_UpTo(fee) = CHOOSE f : Eq(f)
  BY DEF Accept_UpTo
<1>6. Eq(Accept_UpTo(fee))
  <2> HIDE DEF Eq
  <2> QED
    BY <1>4, <1>5
<1> QED
  BY <1>6

\* The leaves of an allowance, by level.
LEMMA EntriesDef ==
  \A n \in Levels : Entries_UpTo[n] = Entries_Level(n, Below(Entries_UpTo, n))
<1> DEFINE Is(g, m) == /\ g = [n \in 0..m |-> g[n]]
                       /\ \A n \in 0..m : g[n] = Entries_Level(n, Below(g, n))
           S == {m \in Nat : \E g : Is(g, m)}
<1>0. MaxNesting \in Nat
  BY AllowanceAssumption
<1>1. 0 \in S
  <2> DEFINE g == [n \in 0..0 |-> Entries_Level(0, <<>>)]
  <2>1. Is(g, 0)
    BY DEF Below
  <2> HIDE DEF g, Is
  <2> QED
    BY <2>1
<1>2. ASSUME NEW m \in Nat, m \in S PROVE m + 1 \in S
  <2>1. PICK h : Is(h, m)
    BY <1>2
  <2> DEFINE g == [n \in 0..(m + 1) |-> IF n = m + 1 THEN Entries_Level(m + 1, h[m]) ELSE h[n]]
  <2>2. ASSUME NEW n \in 0..(m + 1) PROVE g[n] = Entries_Level(n, Below(g, n))
    <3>1. CASE n = m + 1
      BY <3>1 DEF Below
    <3>2. CASE n \in 0..m
      <4>1. g[n] = h[n] /\ Below(g, n) = Below(h, n)
        BY <3>2 DEF Below
      <4> QED
        BY <4>1, <3>2, <2>1
    <3> QED
      BY <3>1, <3>2
  <2>3. Is(g, m + 1)
    BY <2>2
  <2> HIDE DEF g, Is
  <2> QED
    BY <2>3
<1>3. MaxNesting \in S
  <2> HIDE DEF S
  <2> QED
    BY <1>0, <1>1, <1>2, NaturalsInSet
<1> DEFINE Eq(g) == g = [n \in Levels |-> Entries_Level(n, Below(g, n))]
<1>4. PICK g : Eq(g)
  BY <1>3 DEF Levels
<1>5. Entries_UpTo = CHOOSE f : Eq(f)
  BY DEF Entries_UpTo
<1>6. Eq(Entries_UpTo)
  <2> HIDE DEF Eq
  <2> QED
    BY <1>4, <1>5
<1> QED
  BY <1>6

\* That the leaves are numbered in order, by level.
LEMMA NumberedDef ==
  \A n \in Levels : Numbered_UpTo[n] = Numbered_Level(n, Below(Numbered_UpTo, n))
<1> DEFINE Is(g, m) == /\ g = [n \in 0..m |-> g[n]]
                       /\ \A n \in 0..m : g[n] = Numbered_Level(n, Below(g, n))
           S == {m \in Nat : \E g : Is(g, m)}
<1>0. MaxNesting \in Nat
  BY AllowanceAssumption
<1>1. 0 \in S
  <2> DEFINE g == [n \in 0..0 |-> Numbered_Level(0, <<>>)]
  <2>1. Is(g, 0)
    BY DEF Below
  <2> HIDE DEF g, Is
  <2> QED
    BY <2>1
<1>2. ASSUME NEW m \in Nat, m \in S PROVE m + 1 \in S
  <2>1. PICK h : Is(h, m)
    BY <1>2
  <2> DEFINE g == [n \in 0..(m + 1) |-> IF n = m + 1 THEN Numbered_Level(m + 1, h[m]) ELSE h[n]]
  <2>2. ASSUME NEW n \in 0..(m + 1) PROVE g[n] = Numbered_Level(n, Below(g, n))
    <3>1. CASE n = m + 1
      BY <3>1 DEF Below
    <3>2. CASE n \in 0..m
      <4>1. g[n] = h[n] /\ Below(g, n) = Below(h, n)
        BY <3>2 DEF Below
      <4> QED
        BY <4>1, <3>2, <2>1
    <3> QED
      BY <3>1, <3>2
  <2>3. Is(g, m + 1)
    BY <2>2
  <2> HIDE DEF g, Is
  <2> QED
    BY <2>3
<1>3. MaxNesting \in S
  <2> HIDE DEF S
  <2> QED
    BY <1>0, <1>1, <1>2, NaturalsInSet
<1> DEFINE Eq(g) == g = [n \in Levels |-> Numbered_Level(n, Below(g, n))]
<1>4. PICK g : Eq(g)
  BY <1>3 DEF Levels
<1>5. Numbered_UpTo = CHOOSE f : Eq(f)
  BY DEF Numbered_UpTo
<1>6. Eq(Numbered_UpTo)
  <2> HIDE DEF Eq
  <2> QED
    BY <1>4, <1>5
<1> QED
  BY <1>6

\* What some restrictions leave of the messages, one after the other.
LEMMA PassedUpToDef ==
  ASSUME NEW msgs, NEW scopes \in Seq(Scope)
  PROVE  /\ PassedUpTo(msgs, scopes)[0] = msgs
         /\ \A i \in 1..Len(scopes) :
              PassedUpTo(msgs, scopes)[i] = Through(PassedUpTo(msgs, scopes)[i - 1], scopes[i])
<1> DEFINE Is(g, m) == /\ g = [i \in 0..m |-> g[i]]
                       /\ \A i \in 0..m : g[i] = IF i = 0 THEN msgs ELSE Through(g[i - 1], scopes[i])
           S == {m \in Nat : \E g : Is(g, m)}
<1>0. Len(scopes) \in Nat
  OBVIOUS
<1>1. 0 \in S
  <2> DEFINE g == [i \in 0..0 |-> msgs]
  <2>1. Is(g, 0)
    OBVIOUS
  <2> HIDE DEF g, Is
  <2> QED
    BY <2>1
<1>2. ASSUME NEW m \in Nat, m \in S PROVE m + 1 \in S
  <2>1. PICK h : Is(h, m)
    BY <1>2
  <2> DEFINE g == [i \in 0..(m + 1) |-> IF i = m + 1 THEN Through(h[m], scopes[m + 1]) ELSE h[i]]
  <2>2. ASSUME NEW i \in 0..(m + 1) PROVE g[i] = IF i = 0 THEN msgs ELSE Through(g[i - 1], scopes[i])
    <3>1. CASE i = m + 1
      BY <3>1
    <3>2. CASE i \in 0..m
      <4>1. g[i] = h[i] /\ (i # 0 => g[i - 1] = h[i - 1])
        BY <3>2
      <4> QED
        BY <4>1, <3>2, <2>1
    <3> QED
      BY <3>1, <3>2
  <2>3. Is(g, m + 1)
    BY <2>2
  <2> HIDE DEF g, Is
  <2> QED
    BY <2>3
<1>3. Len(scopes) \in S
  <2> HIDE DEF S
  <2> QED
    BY <1>0, <1>1, <1>2, NaturalsInSet
<1> DEFINE Eq(g) == g = [i \in 0..Len(scopes) |-> IF i = 0 THEN msgs ELSE Through(g[i - 1], scopes[i])]
<1>4. PICK g : Eq(g)
  BY <1>3
<1>5. PassedUpTo(msgs, scopes) = CHOOSE f : Eq(f)
  BY DEF PassedUpTo
<1>6. Eq(PassedUpTo(msgs, scopes))
  <2> HIDE DEF Eq
  <2> QED
    BY <1>4, <1>5
<1> QED
  BY <1>6, <1>0

\* Without restrictions the messages are what they are.
LEMMA PassedNone ==
  ASSUME NEW msgs
  PROVE  Passed(msgs, <<>>) = msgs
<1>1. <<>> \in Seq(Scope) /\ Len(<<>>) = 0
  OBVIOUS
<1> QED
  BY <1>1, PassedUpToDef DEF Passed

\* One more restriction, around the others.
LEMMA PassedBehind ==
  ASSUME NEW msgs, NEW scopes \in Seq(Scope), NEW scope \in Scope
  PROVE  /\ <<scope>> \o scopes \in Seq(Scope)
         /\ Passed(msgs, <<scope>> \o scopes) = Passed(Through(msgs, scope), scopes)
<1> DEFINE n == Len(scopes)
           more == <<scope>> \o scopes
           f == PassedUpTo(Through(msgs, scope), scopes)
           g == PassedUpTo(msgs, more)
           S == {i \in Nat : i <= n => g[i + 1] = f[i]}
<1>1. n \in Nat /\ more \in Seq(Scope) /\ Len(more) = n + 1 /\ more[1] = scope
  OBVIOUS
<1>2. \A i \in 1..n : more[i + 1] = scopes[i]
  OBVIOUS
<1>3. /\ f[0] = Through(msgs, scope) /\ \A i \in 1..n : f[i] = Through(f[i - 1], scopes[i])
      /\ g[0] = msgs /\ \A i \in 1..(n + 1) : g[i] = Through(g[i - 1], more[i])
  <2> HIDE DEF more
  <2>1. /\ f[0] = Through(msgs, scope) /\ \A i \in 1..n : f[i] = Through(f[i - 1], scopes[i])
    BY PassedUpToDef
  <2>2. g[0] = msgs /\ \A i \in 1..Len(more) : g[i] = Through(g[i - 1], more[i])
    BY <1>1, PassedUpToDef
  <2> QED
    BY <2>1, <2>2, <1>1
<1>4. Passed(msgs, more) = g[n + 1] /\ Passed(Through(msgs, scope), scopes) = f[n]
  <2> HIDE DEF more
  <2> QED
    BY <1>1 DEF Passed
<1> HIDE DEF n, more, f, g
<1>5. 0 \in S
  <2>1. 1 \in 1..(n + 1) /\ 1 - 1 = 0
    BY <1>1
  <2>2. g[1] = Through(g[0], more[1])
    BY <2>1, <1>3
  <2> QED
    BY <2>2, <1>1, <1>3
<1>6. ASSUME NEW i \in Nat, i \in S PROVE i + 1 \in S
  <2> SUFFICES ASSUME i + 1 <= n PROVE g[(i + 1) + 1] = f[i + 1]
    OBVIOUS
  <2>1. i + 1 \in 1..n /\ (i + 1) + 1 \in 1..(n + 1) /\ i = (i + 1) - 1 /\ i + 1 = ((i + 1) + 1) - 1
    BY <1>1
  <2>2. g[(i + 1) + 1] = Through(g[i + 1], more[(i + 1) + 1]) /\ f[i + 1] = Through(f[i], scopes[i + 1])
    BY <2>1, <1>3
  <2>3. g[i + 1] = f[i]
    BY <1>6, <1>1
  <2> QED
    BY <2>1, <2>2, <2>3, <1>2
<1>7. n \in S
  <2> HIDE DEF S
  <2> QED
    BY <1>1, <1>5, <1>6, NaturalsInSet
<1> QED
  BY <1>1, <1>4, <1>7 DEF more

\* What is refused stays refused.
LEMMA PassedRefused ==
  ASSUME NEW scopes \in Seq(Scope)
  PROVE  Passed(Refused, scopes) = Refused
<1> DEFINE f == PassedUpTo(Refused, scopes)
           S == {i \in Nat : i <= Len(scopes) => f[i] = Refused}
<1>1. f[0] = Refused /\ \A i \in 1..Len(scopes) : f[i] = Through(f[i - 1], scopes[i])
  BY PassedUpToDef
<1> HIDE DEF f
<1>2. 0 \in S
  BY <1>1
<1>3. ASSUME NEW i \in Nat, i \in S PROVE i + 1 \in S
  <2> SUFFICES ASSUME i + 1 <= Len(scopes) PROVE f[i + 1] = Refused
    OBVIOUS
  <2>1. i + 1 \in 1..Len(scopes) /\ i = (i + 1) - 1
    OBVIOUS
  <2> QED
    BY <2>1, <1>1, <1>3 DEF Through
<1>4. Len(scopes) \in S
  <2> HIDE DEF S
  <2> QED
    BY <1>2, <1>3, NaturalsInSet
<1> QED
  BY <1>4 DEF Passed, f

-----------------------------------------------------------------------------
(***************************************************************************)
(* The kinds of an allowance, and what is computed of each.                *)
(***************************************************************************)
\* The parts of a restriction and of a list, which are of the level below.
Authz(n, a) ==
  /\ n # 0 /\ n - 1 \in Levels /\ a.kind = "authz"
  /\ a = [kind |-> "authz", grantee |-> a.grantee, inner |-> a.inner]
  /\ a.grantee \in Grantees /\ a.inner \in Nested[n - 1]
OnContracts(n, a) ==
  /\ n # 0 /\ n - 1 \in Levels /\ a.kind = "contracts"
  /\ a = [kind |-> "contracts", contracts |-> a.contracts, inner |-> a.inner]
  /\ a.contracts \in SUBSET Contracts /\ a.inner \in Nested[n - 1]
Multi(n, a) ==
  /\ n # 0 /\ n - 1 \in Levels /\ a.kind = "multi"
  /\ a = [kind |-> "multi", inner |-> a.inner]
  /\ a.inner \in Seq(Nested[n - 1])

\* An allowance of a level is a leaf or of one of the three kinds of Xion.
LEMMA Kinds ==
  ASSUME NEW n \in Levels, NEW a \in Nested[n]
  PROVE  (a \in Leaf /\ a.kind = "leaf") \/ Authz(n, a) \/ OnContracts(n, a) \/ Multi(n, a)
<1>1. CASE n = 0
  BY <1>1, NestedDef DEF Leaf
<1>2. CASE n # 0
  <2>1. n - 1 \in Levels /\ a \in Around(Nested[n - 1])
    BY <1>2, NestedDef
  <2> QED
    BY <1>2, <2>1 DEF Around, Leaf, Authz, OnContracts, Multi
<1> QED
  BY <1>1, <1>2

\* And what is of these kinds is of the level.
LEMMA OfLevel ==
  ASSUME NEW n \in Levels, NEW a, a \in Leaf \/ Authz(n, a) \/ OnContracts(n, a) \/ Multi(n, a)
  PROVE  a \in Nested[n]
<1>1. CASE a \in Leaf
  <2>1. n = 0 \/ Leaf \subseteq Around(Nested[n - 1])
    BY DEF Around
  <2> QED
    BY <1>1, <2>1, NestedDef
<1>2. CASE Authz(n, a)
  <2>1. a \in [kind : {"authz"}, grantee : Grantees, inner : Nested[n - 1]]
    BY <1>2 DEF Authz
  <2> QED
    BY <1>2, <2>1, NestedDef DEF Authz, Around
<1>3. CASE OnContracts(n, a)
  <2>1. a \in [kind : {"contracts"}, contracts : SUBSET Contracts, inner : Nested[n - 1]]
    BY <1>3 DEF OnContracts
  <2> QED
    BY <1>3, <2>1, NestedDef DEF OnContracts, Around
<1>4. CASE Multi(n, a)
  <2>1. a \in [kind : {"multi"}, inner : Seq(Nested[n - 1])]
    BY <1>4 DEF Multi
  <2> QED
    BY <1>4, <2>1, NestedDef DEF Multi, Around
<1> QED
  BY <1>1, <1>2, <1>3, <1>4

\* A member of a list, and the members of one that is not empty.
LEMMA Members ==
  ASSUME NEW n \in Levels, NEW a, Multi(n, a)
  PROVE  /\ Len(a.inner) \in Nat /\ DOMAIN a.inner = 1..Len(a.inner)
         /\ \A i \in 1..Len(a.inner) : a.inner[i] \in Nested[n - 1]
         /\ a.inner # <<>> <=> Len(a.inner) # 0
  BY DEF Multi

\* When an allowance expires: a list only where its members agree.
LEMMA ExpiresAtValues ==
  ASSUME NEW n \in Levels, NEW a \in Nested[n]
  PROVE  /\ a \in Leaf => ExpiresAt_UpTo[n][a] = a.expiration
         /\ Authz(n, a) \/ OnContracts(n, a) => ExpiresAt_UpTo[n][a] = ExpiresAt_UpTo[n - 1][a.inner]
         /\ Multi(n, a) /\ a.inner # <<>> =>
              /\ ExpiresAt_UpTo[n][a] # Inconsistent =>
                   \A i \in 1..Len(a.inner) : ExpiresAt_UpTo[n - 1][a.inner[i]] = ExpiresAt_UpTo[n][a]
              /\ \A t : (\A i \in 1..Len(a.inner) : ExpiresAt_UpTo[n - 1][a.inner[i]] = t)
                          => ExpiresAt_UpTo[n][a] = t
<1> DEFINE inner == Below(ExpiresAt_UpTo, n)
           times == {inner[Wrapped(a)[i]] : i \in 1..Len(Wrapped(a))}
<1>1. ExpiresAt_UpTo[n] = ExpiresAt_Level(n, inner)
  BY ExpiresAtDef
<1>2. n # 0 => inner = ExpiresAt_UpTo[n - 1]
  BY DEF Below
<1> HIDE DEF inner
<1>3. ExpiresAt_UpTo[n][a] =
        IF a.kind = "leaf" THEN a.expiration
        ELSE IF times = {} THEN Never
        ELSE IF \E t \in times : times = {t} THEN CHOOSE t \in times : TRUE
        ELSE Inconsistent
  BY <1>1 DEF ExpiresAt_Level
<1>4. a \in Leaf => ExpiresAt_UpTo[n][a] = a.expiration
  BY <1>3 DEF Leaf
<1>5. ASSUME Authz(n, a) \/ OnContracts(n, a) PROVE ExpiresAt_UpTo[n][a] = ExpiresAt_UpTo[n - 1][a.inner]
  <2>1. a.kind # "leaf" /\ a.kind # "multi" /\ n # 0
    BY <1>5 DEF Authz, OnContracts
  <2>2. Wrapped(a) = <<a.inner>> /\ Len(Wrapped(a)) = 1 /\ Wrapped(a)[1] = a.inner
    BY <2>1 DEF Wrapped
  <2>3. times = {inner[a.inner]}
    BY <2>2
  <2> QED
    BY <1>2, <1>3, <2>1, <2>3
<1>6. ASSUME Multi(n, a), a.inner # <<>>
      PROVE  /\ ExpiresAt_UpTo[n][a] # Inconsistent =>
                  \A i \in 1..Len(a.inner) : ExpiresAt_UpTo[n - 1][a.inner[i]] = ExpiresAt_UpTo[n][a]
             /\ \A t : (\A i \in 1..Len(a.inner) : ExpiresAt_UpTo[n - 1][a.inner[i]] = t)
                         => ExpiresAt_UpTo[n][a] = t
  <2>1. a.kind = "multi" /\ n # 0 /\ Wrapped(a) = a.inner /\ Len(a.inner) \in Nat /\ Len(a.inner) # 0
    BY <1>6, Members DEF Multi, Wrapped
  <2>2. times = {ExpiresAt_UpTo[n - 1][a.inner[i]] : i \in 1..Len(a.inner)}
    BY <2>1, <1>2
  <2>3. \A i \in 1..Len(a.inner) : ExpiresAt_UpTo[n - 1][a.inner[i]] \in times
    BY <2>2
  <2>4. times # {} /\ ExpiresAt_UpTo[n - 1][a.inner[1]] \in times
    <3>1. 1 \in 1..Len(a.inner)
      BY <2>1
    <3> HIDE DEF times
    <3> QED
      BY <3>1, <2>3
  <2>5. \A t : (\A i \in 1..Len(a.inner) : ExpiresAt_UpTo[n - 1][a.inner[i]] = t) => times = {t}
    BY <2>2, <2>4
  <2> HIDE DEF times
  <2> QED
    BY <1>3, <2>1, <2>3, <2>4, <2>5
<1> QED
  BY <1>4, <1>5, <1>6

\* The leaves of an allowance and the restrictions around each.
LEMMA EntriesValues ==
  ASSUME NEW n \in Levels, NEW a \in Nested[n]
  PROVE  /\ a \in Leaf => Entries_UpTo[n][a] = {[leaf |-> a, scopes |-> <<>>]}
         /\ Authz(n, a) => /\ [kind |-> "authz", grantee |-> a.grantee] \in Scope
                           /\ Entries_UpTo[n][a] = Behind([kind |-> "authz", grantee |-> a.grantee],
                                                          Entries_UpTo[n - 1][a.inner])
         /\ OnContracts(n, a) => /\ [kind |-> "contracts", contracts |-> a.contracts] \in Scope
                                 /\ Entries_UpTo[n][a] = Behind([kind |-> "contracts", contracts |-> a.contracts],
                                                                Entries_UpTo[n - 1][a.inner])
         /\ Multi(n, a) => Entries_UpTo[n][a] = UNION {Entries_UpTo[n - 1][a.inner[i]] : i \in 1..Len(a.inner)}
<1> DEFINE inner == Below(Entries_UpTo, n)
<1>1. Entries_UpTo[n] = Entries_Level(n, inner)
  BY EntriesDef
<1>2. n # 0 => inner = Entries_UpTo[n - 1]
  BY DEF Below
<1> HIDE DEF inner
<1>3. Entries_UpTo[n][a] =
        CASE a.kind = "leaf" -> {[leaf |-> a, scopes |-> <<>>]}
          [] a.kind = "authz" -> Behind([kind |-> "authz", grantee |-> a.grantee], inner[a.inner])
          [] a.kind = "contracts" -> Behind([kind |-> "contracts", contracts |-> a.contracts], inner[a.inner])
          [] a.kind = "multi" -> UNION {inner[a.inner[i]] : i \in 1..Len(a.inner)}
  BY <1>1 DEF Entries_Level
<1>4. a \in Leaf => Entries_UpTo[n][a] = {[leaf |-> a, scopes |-> <<>>]}
  BY <1>3 DEF Leaf
<1>5. Authz(n, a) => /\ [kind |-> "authz", grantee |-> a.grantee] \in Scope
                     /\ Entries_UpTo[n][a] = Behind([kind |-> "authz", grantee |-> a.grantee],
                                                    Entries_UpTo[n - 1][a.inner])
  BY <1>2, <1>3 DEF Authz, Scope
<1>6. OnContracts(n, a) => /\ [kind |-> "contracts", contracts |-> a.contracts] \in Scope
                           /\ Entries_UpTo[n][a] = Behind([kind |-> "contracts", contracts |-> a.contracts],
                                                          Entries_UpTo[n - 1][a.inner])
  BY <1>2, <1>3 DEF OnContracts, Scope
<1>7. Multi(n, a) => Entries_UpTo[n][a] = UNION {Entries_UpTo[n - 1][a.inner[i]] : i \in 1..Len(a.inner)}
  BY <1>2, <1>3 DEF Multi
<1> QED
  BY <1>4, <1>5, <1>6, <1>7

\* What ValidateBasic wants of each kind.
LEMMA ValidValues ==
  ASSUME NEW n \in Levels, NEW a \in Nested[n], NEW depth \in Depths
  PROVE  /\ a \in Leaf => (ValidateBasicDepth[n][<<a, depth>>] <=> LeafValid(a))
         /\ Authz(n, a) => (ValidateBasicDepth[n][<<a, depth>>] <=> ValidateBasicDepth[n - 1][<<a.inner, 0>>])
         /\ OnContracts(n, a) =>
              (ValidateBasicDepth[n][<<a, depth>>] <=> a.contracts # {} /\ ValidateBasicDepth[n - 1][<<a.inner, 0>>])
         /\ Multi(n, a) =>
              (ValidateBasicDepth[n][<<a, depth>>] <=>
                 /\ depth <= maxMultiAnyAllowanceDepth
                 /\ a.inner # <<>>
                 /\ \A i \in 1..Len(a.inner) : ValidateBasicDepth[n - 1][<<a.inner[i], depth + 1>>]
                 /\ ExpiresAt_UpTo[n][a] # Inconsistent)
<1> DEFINE inner == Below(ValidateBasicDepth, n)
<1>1. ValidateBasicDepth[n] = ValidateBasicDepth_Level(n, inner)
  BY ValidateBasicDepthDef
<1>2. n # 0 => inner = ValidateBasicDepth[n - 1]
  BY DEF Below
<1> HIDE DEF inner
<1>3. ValidateBasicDepth[n][<<a, depth>>] =
    CASE a.kind = "leaf" -> LeafValid(a)
      [] a.kind = "authz" -> inner[<<a.inner, 0>>]
      [] a.kind = "contracts" -> a.contracts # {} /\ inner[<<a.inner, 0>>]
      [] a.kind = "multi" ->
           /\ depth <= maxMultiAnyAllowanceDepth
           /\ a.inner # <<>>
           /\ \A i \in 1..Len(a.inner) : inner[<<a.inner[i], depth + 1>>]
           /\ ExpiresAt_UpTo[n][a] # Inconsistent
  BY <1>1 DEF ValidateBasicDepth_Level, ValidateBasicDepth_Call, Depths
<1>4. a \in Leaf => a.kind = "leaf"
  BY DEF Leaf
<1>5. a \in Leaf => (ValidateBasicDepth[n][<<a, depth>>] <=> LeafValid(a))
  BY <1>3, <1>4
<1>6. Authz(n, a) => (ValidateBasicDepth[n][<<a, depth>>] <=> ValidateBasicDepth[n - 1][<<a.inner, 0>>])
  BY <1>2, <1>3 DEF Authz
<1>7. OnContracts(n, a) =>
        (ValidateBasicDepth[n][<<a, depth>>] <=> a.contracts # {} /\ ValidateBasicDepth[n - 1][<<a.inner, 0>>])
  BY <1>2, <1>3 DEF OnContracts
<1>8. Multi(n, a) =>
        (ValidateBasicDepth[n][<<a, depth>>] <=>
           /\ depth <= maxMultiAnyAllowanceDepth
           /\ a.inner # <<>>
           /\ \A i \in 1..Len(a.inner) : ValidateBasicDepth[n - 1][<<a.inner[i], depth + 1>>]
           /\ ExpiresAt_UpTo[n][a] # Inconsistent)
  BY <1>2, <1>3 DEF Multi
<1> QED
  BY <1>5, <1>6, <1>7, <1>8

\* Numbers in order: those of a member of a list are below those of the next.
LEMMA NumberedValues ==
  ASSUME NEW n \in Levels, NEW a \in Nested[n]
  PROVE  /\ a \in Leaf => Numbered_UpTo[n][a]
         /\ Authz(n, a) \/ OnContracts(n, a) => (Numbered_UpTo[n][a] <=> Numbered_UpTo[n - 1][a.inner])
         /\ Multi(n, a) =>
              (Numbered_UpTo[n][a] <=>
                 /\ \A i \in 1..Len(a.inner) : Numbered_UpTo[n - 1][a.inner[i]]
                 /\ \A i, j \in 1..Len(a.inner) : i < j =>
                      \A l \in Entries_UpTo[n - 1][a.inner[i]], m \in Entries_UpTo[n - 1][a.inner[j]] :
                        l.leaf.id < m.leaf.id)
<1> DEFINE inner == Below(Numbered_UpTo, n)
           Inside(w) == /\ \A i \in 1..Len(w) : inner[w[i]]
                        /\ \A i, j \in 1..Len(w) : i < j =>
                             \A l \in Entries_UpTo[n - 1][w[i]], m \in Entries_UpTo[n - 1][w[j]] :
                               l.leaf.id < m.leaf.id
<1>1. Numbered_UpTo[n] = Numbered_Level(n, inner)
  BY NumberedDef
<1>2. n # 0 => inner = Numbered_UpTo[n - 1]
  BY DEF Below
<1> HIDE DEF inner
<1>3. Numbered_UpTo[n][a] <=> (a.kind # "leaf" => Inside(Wrapped(a)))
  BY <1>1 DEF Numbered_Level
<1>4. a \in Leaf => Numbered_UpTo[n][a]
  BY <1>3 DEF Leaf
<1>5. ASSUME Authz(n, a) \/ OnContracts(n, a)
      PROVE  Numbered_UpTo[n][a] <=> Numbered_UpTo[n - 1][a.inner]
  <2>1. a.kind # "leaf" /\ a.kind # "multi" /\ n # 0
    BY <1>5 DEF Authz, OnContracts
  <2>2. Wrapped(a) = <<a.inner>> /\ Len(Wrapped(a)) = 1 /\ Wrapped(a)[1] = a.inner
    BY <2>1 DEF Wrapped
  <2>3. Inside(Wrapped(a)) <=> inner[a.inner]
    BY <2>2
  <2> HIDE DEF Inside
  <2> QED
    BY <1>2, <1>3, <2>1, <2>3
<1>6. ASSUME Multi(n, a)
      PROVE  Numbered_UpTo[n][a] <=>
               /\ \A i \in 1..Len(a.inner) : Numbered_UpTo[n - 1][a.inner[i]]
               /\ \A i, j \in 1..Len(a.inner) : i < j =>
                    \A l \in Entries_UpTo[n - 1][a.inner[i]], m \in Entries_UpTo[n - 1][a.inner[j]] :
                      l.leaf.id < m.leaf.id
  <2>1. a.kind = "multi" /\ n # 0 /\ Wrapped(a) = a.inner
    BY <1>6 DEF Multi, Wrapped
  <2> QED
    BY <2>1, <1>2, <1>3
<1> QED
  BY <1>4, <1>5, <1>6

\* The answer of an allowance, from those of the level below.
LEMMA AcceptValue ==
  ASSUME NEW fee, NEW n \in Levels, NEW a \in Nested[n], NEW msgs \in Msgs
  PROVE  Accept_UpTo(fee)[n][<<a, msgs>>] = Accept_Call(a, msgs, fee, Below(Accept_UpTo(fee), n))
<1>1. Accept_UpTo(fee)[n] = Accept_Level(n, Below(Accept_UpTo(fee), n), fee)
  BY AcceptDef
<1> QED
  BY <1>1 DEF Accept_Level

\* A leaf answers by itself.
LEMMA AcceptLeaf ==
  ASSUME NEW fee, NEW n \in Levels, NEW a \in Nested[n], NEW msgs \in Msgs, a \in Leaf
  PROVE  Accept_UpTo(fee)[n][<<a, msgs>>] = LeafAccept(a, fee)
<1>1. a.kind = "leaf"
  BY DEF Leaf
<1> QED
  BY <1>1, AcceptValue DEF Accept_Call

\* An authz allowance hands on the messages inside.
LEMMA AcceptAuthz ==
  ASSUME NEW fee, NEW n \in Levels, NEW a \in Nested[n], NEW msgs \in Msgs, Authz(n, a),
         NEW sub, sub = AllMsgTypesAuthz(a.grantee, msgs)
  PROVE  Accept_UpTo(fee)[n][<<a, msgs>>] =
           IF sub = Refused THEN Refusal ELSE Rewrapped(a, Accept_UpTo(fee)[n - 1][<<a.inner, sub>>])
<1> DEFINE inner == Below(Accept_UpTo(fee), n)
<1>1. a.kind = "authz" /\ inner = Accept_UpTo(fee)[n - 1]
  BY DEF Authz, Below
<1>2. Accept_UpTo(fee)[n][<<a, msgs>>] = Accept_Call(a, msgs, fee, inner)
  BY AcceptValue
<1> HIDE DEF inner
<1>3. Accept_Call(a, msgs, fee, inner) = IF sub = Refused THEN Refusal ELSE Rewrapped(a, inner[<<a.inner, sub>>])
  BY <1>1 DEF Accept_Call
<1> QED
  BY <1>1, <1>2, <1>3

\* A contracts allowance hands on the messages or refuses.
LEMMA AcceptContracts ==
  ASSUME NEW fee, NEW n \in Levels, NEW a \in Nested[n], NEW msgs \in Msgs, OnContracts(n, a),
         NEW sub, sub = IF AllMsgsValidWasmExecs(a.contracts, msgs) THEN msgs ELSE Refused
  PROVE  Accept_UpTo(fee)[n][<<a, msgs>>] =
           IF sub = Refused THEN Refusal ELSE Rewrapped(a, Accept_UpTo(fee)[n - 1][<<a.inner, sub>>])
<1> DEFINE inner == Below(Accept_UpTo(fee), n)
<1>1. a.kind = "contracts" /\ inner = Accept_UpTo(fee)[n - 1]
  BY DEF OnContracts, Below
<1>2. Accept_UpTo(fee)[n][<<a, msgs>>] = Accept_Call(a, msgs, fee, inner)
  BY AcceptValue
<1> HIDE DEF inner
<1>3. Accept_Call(a, msgs, fee, inner) = IF sub = Refused THEN Refusal ELSE Rewrapped(a, inner[<<a.inner, sub>>])
  BY <1>1, MsgsAssumption DEF Accept_Call
<1> QED
  BY <1>1, <1>2, <1>3

\* A list answers with its first member that accepts.
LEMMA AcceptList ==
  ASSUME NEW fee, NEW n \in Levels, NEW a \in Nested[n], NEW msgs \in Msgs, Multi(n, a),
         NEW inner, inner = Accept_UpTo(fee)[n - 1]
  PROVE  \/ /\ \A i \in 1..Len(a.inner) : ~inner[<<a.inner[i], msgs>>].ok
            /\ Accept_UpTo(fee)[n][<<a, msgs>>] = Refusal
         \/ \E i \in 1..Len(a.inner) :
              /\ inner[<<a.inner[i], msgs>>].ok
              /\ \A j \in 1..Len(a.inner) : inner[<<a.inner[j], msgs>>].ok => i <= j
              /\ Accept_UpTo(fee)[n][<<a, msgs>>] = MultiRewrapped(a, i, inner[<<a.inner[i], msgs>>])
<1> DEFINE result == Accept_UpTo(fee)[n][<<a, msgs>>]
           accepting == {i \in 1..Len(a.inner) : inner[<<a.inner[i], msgs>>].ok}
           first == CHOOSE i \in accepting : \A j \in accepting : i <= j
<1>1. a.kind = "multi" /\ Below(Accept_UpTo(fee), n) = inner
  BY DEF Multi, Below
<1>2. result = Accept_Call(a, msgs, fee, inner)
  BY <1>1, AcceptValue
<1> HIDE DEF result
<1>3. Accept_Call(a, msgs, fee, inner) =
        IF accepting = {} THEN Refusal ELSE MultiRewrapped(a, first, inner[<<a.inner[first], msgs>>])
  BY <1>1 DEF Accept_Call
<1>4. CASE accepting = {}
  BY <1>2, <1>3, <1>4 DEF result
<1>5. CASE accepting # {}
  <2>1. accepting \in SUBSET Nat
    BY Members
  <2>2. \A i : i \in accepting <=> i \in 1..Len(a.inner) /\ inner[<<a.inner[i], msgs>>].ok
    OBVIOUS
  <2> HIDE DEF accepting
  <2>3. PICK i \in accepting : \A j \in accepting : i <= j
    BY <2>1, <1>5, LeastNatural
  <2>4. first \in accepting /\ \A j \in accepting : first <= j
    BY <2>3
  <2> HIDE DEF first
  <2> QED
    BY <1>2, <1>3, <1>5, <2>2, <2>4 DEF result
<1> QED
  BY <1>4, <1>5

-----------------------------------------------------------------------------
(***************************************************************************)
(* What holds at every level: by induction over the levels.                *)
(***************************************************************************)
\* A leaf and the restrictions around it.
Entry == [leaf : Leaf, scopes : Seq(Scope)]

\* A set of levels that contains a level when it contains the one below
\* contains them all.
LEMMA AllLevels ==
  ASSUME NEW S, \A n \in Levels : (n # 0 => n - 1 \in S) => n \in S
  PROVE  \A n \in Levels : n \in S
<1> DEFINE T == {n \in Nat : n \in Levels => n \in S}
<1>0. MaxNesting \in Nat
  BY AllowanceAssumption
<1>1. 0 \in T
  BY <1>0 DEF Levels
<1>2. ASSUME NEW n \in Nat, n \in T PROVE n + 1 \in T
  BY <1>2, <1>0 DEF Levels
<1>3. \A n \in Nat : n \in T
  <2> HIDE DEF T
  <2> QED
    BY <1>1, <1>2, NaturalsInSet
<1> QED
  BY <1>3, <1>0 DEF Levels

\* An entry behind one more restriction.
LEMMA BehindValues ==
  ASSUME NEW scope \in Scope, NEW entries \in SUBSET Entry
  PROVE  /\ Behind(scope, entries) \in SUBSET Entry
         /\ \A e \in entries : /\ Restricted(scope, e) \in Behind(scope, entries)
                               /\ Restricted(scope, e).leaf = e.leaf
                               /\ Restricted(scope, e).scopes = <<scope>> \o e.scopes
         /\ \A f \in Behind(scope, entries) : \E e \in entries : f = Restricted(scope, e) /\ f.leaf = e.leaf
<1>1. ASSUME NEW e \in entries
      PROVE  /\ Restricted(scope, e) \in Entry
             /\ Restricted(scope, e).leaf = e.leaf
             /\ Restricted(scope, e).scopes = <<scope>> \o e.scopes
  <2>1. e.leaf \in Leaf /\ e.scopes \in Seq(Scope)
    BY DEF Entry
  <2>2. <<scope>> \o e.scopes \in Seq(Scope)
    BY <2>1, PassedBehind
  <2> QED
    BY <2>1, <2>2 DEF Entry, Restricted
<1> QED
  BY <1>1 DEF Behind

\* An entry of a list is one of some member.
LEMMA EntryOfMember ==
  ASSUME NEW n \in Levels, NEW a \in Nested[n], Multi(n, a), NEW e
  PROVE  e \in Entries_UpTo[n][a] <=> \E i \in 1..Len(a.inner) : e \in Entries_UpTo[n - 1][a.inner[i]]
<1>1. Entries_UpTo[n][a] = UNION {Entries_UpTo[n - 1][a.inner[i]] : i \in 1..Len(a.inner)}
  BY EntriesValues
<1> QED
  BY <1>1

\* The leaves of an allowance are leaves, behind restrictions.
LEMMA EntriesType ==
  ASSUME NEW n \in Levels, NEW a \in Nested[n]
  PROVE  Entries_UpTo[n][a] \in SUBSET Entry
<1> DEFINE S == {m \in Levels : \A b \in Nested[m] : Entries_UpTo[m][b] \in SUBSET Entry}
<1>1. ASSUME NEW m \in Levels, m # 0 => m - 1 \in S, NEW b \in Nested[m]
      PROVE  Entries_UpTo[m][b] \in SUBSET Entry
  <2>1. CASE b \in Leaf
    <3>1. Entries_UpTo[m][b] = {[leaf |-> b, scopes |-> <<>>]}
      BY <2>1, EntriesValues
    <3> QED
      BY <2>1, <3>1 DEF Entry
  <2>2. CASE Authz(m, b)
    <3>1. Entries_UpTo[m - 1][b.inner] \in SUBSET Entry
      BY <2>2, <1>1 DEF Authz
    <3>2. PICK scope \in Scope : Entries_UpTo[m][b] = Behind(scope, Entries_UpTo[m - 1][b.inner])
      BY <2>2, EntriesValues
    <3>3. Behind(scope, Entries_UpTo[m - 1][b.inner]) \in SUBSET Entry
      BY <3>1, BehindValues
    <3> QED
      BY <3>2, <3>3
  <2>3. CASE OnContracts(m, b)
    <3>1. Entries_UpTo[m - 1][b.inner] \in SUBSET Entry
      BY <2>3, <1>1 DEF OnContracts
    <3>2. PICK scope \in Scope : Entries_UpTo[m][b] = Behind(scope, Entries_UpTo[m - 1][b.inner])
      BY <2>3, EntriesValues
    <3>3. Behind(scope, Entries_UpTo[m - 1][b.inner]) \in SUBSET Entry
      BY <3>1, BehindValues
    <3> QED
      BY <3>2, <3>3
  <2>4. CASE Multi(m, b)
    <3>1. \A i \in 1..Len(b.inner) : Entries_UpTo[m - 1][b.inner[i]] \in SUBSET Entry
      BY <2>4, <1>1, Members DEF Multi
    <3>2. Entries_UpTo[m][b] = UNION {Entries_UpTo[m - 1][b.inner[i]] : i \in 1..Len(b.inner)}
      BY <2>4, EntriesValues
    <3> QED
      BY <3>1, <3>2
  <2> QED
    BY <2>1, <2>2, <2>3, <2>4, Kinds
<1>2. \A m \in Levels : (m # 0 => m - 1 \in S) => m \in S
  BY <1>1
<1>3. n \in S
  <2> HIDE DEF S
  <2> QED
    BY <1>2, AllLevels
<1> QED
  BY <1>3

\* Leaves that are numbered in order have different numbers.
Distinct(entries) == \A e, f \in entries : e.leaf.id = f.leaf.id => e = f

\* The entries of an allowance numbered in order are told apart by number.
LEMMA NumbersDistinct ==
  ASSUME NEW n \in Levels, NEW a \in Nested[n], Numbered_UpTo[n][a]
  PROVE  Distinct(Entries_UpTo[n][a])
<1> DEFINE S == {m \in Levels : \A b \in Nested[m] : Numbered_UpTo[m][b] => Distinct(Entries_UpTo[m][b])}
<1>1. ASSUME NEW m \in Levels, m # 0 => m - 1 \in S, NEW b \in Nested[m], Numbered_UpTo[m][b]
      PROVE  Distinct(Entries_UpTo[m][b])
  <2>1. CASE b \in Leaf
    BY <2>1, EntriesValues DEF Distinct
  <2>2. CASE Authz(m, b) \/ OnContracts(m, b)
    <3>1. m # 0 /\ m - 1 \in Levels /\ b.inner \in Nested[m - 1]
      BY <2>2 DEF Authz, OnContracts
    <3> DEFINE inside == Entries_UpTo[m - 1][b.inner]
    <3>2. inside \in SUBSET Entry /\ Distinct(inside)
      BY <3>1, <2>2, <1>1, EntriesType, NumberedValues
    <3>3. PICK scope \in Scope : Entries_UpTo[m][b] = Behind(scope, inside)
      BY <2>2, EntriesValues
    <3> HIDE DEF inside
    <3> SUFFICES ASSUME NEW e \in Behind(scope, inside), NEW f \in Behind(scope, inside), e.leaf.id = f.leaf.id
                 PROVE  e = f
      BY <3>3 DEF Distinct
    <3>4. PICK e1 \in inside : e = Restricted(scope, e1) /\ e.leaf = e1.leaf
      BY <3>2, BehindValues
    <3>5. PICK f1 \in inside : f = Restricted(scope, f1) /\ f.leaf = f1.leaf
      BY <3>2, BehindValues
    <3>6. e1 = f1
      BY <3>2, <3>4, <3>5 DEF Distinct
    <3> QED
      BY <3>4, <3>5, <3>6
  <2>3. CASE Multi(m, b)
    <3>1. m # 0 /\ m - 1 \in Levels /\ \A i \in 1..Len(b.inner) : b.inner[i] \in Nested[m - 1]
      BY <2>3, Members DEF Multi
    <3>2. /\ \A i \in 1..Len(b.inner) : Numbered_UpTo[m - 1][b.inner[i]]
          /\ \A i, j \in 1..Len(b.inner) : i < j =>
               \A l \in Entries_UpTo[m - 1][b.inner[i]], k \in Entries_UpTo[m - 1][b.inner[j]] :
                 l.leaf.id < k.leaf.id
      BY <2>3, <1>1, NumberedValues
    <3>3. \A i \in 1..Len(b.inner) : Distinct(Entries_UpTo[m - 1][b.inner[i]])
      BY <3>1, <3>2, <1>1
    <3>4. \A i \in 1..Len(b.inner) : \A l \in Entries_UpTo[m - 1][b.inner[i]] : l.leaf.id \in Nat
      BY <3>1, EntriesType, LeafAssumption DEF Entry, Leaf
    <3> SUFFICES ASSUME NEW e \in Entries_UpTo[m][b], NEW f \in Entries_UpTo[m][b], e.leaf.id = f.leaf.id
                 PROVE  e = f
      BY DEF Distinct
    <3>5. PICK i \in 1..Len(b.inner) : e \in Entries_UpTo[m - 1][b.inner[i]]
      BY <2>3, EntryOfMember
    <3>6. PICK j \in 1..Len(b.inner) : f \in Entries_UpTo[m - 1][b.inner[j]]
      BY <2>3, EntryOfMember
    <3>7. ~ (i < j) /\ ~ (j < i)
      BY <3>2, <3>4, <3>5, <3>6
    <3>8. i = j
      BY <3>7
    <3> QED
      BY <3>3, <3>5, <3>6, <3>8 DEF Distinct
  <2> QED
    BY <2>1, <2>2, <2>3, Kinds
<1>2. \A m \in Levels : (m # 0 => m - 1 \in S) => m \in S
  BY <1>1
<1>3. n \in S
  <2> HIDE DEF S
  <2> QED
    BY <1>2, AllLevels
<1> QED
  BY <1>3

\* An allowance that validates has leaves; they are valid ones and all expire
\* when it does.
Valid(n, a, depth) == ValidateBasicDepth[n][<<a, depth>>]

Sound(n, a) ==
  /\ Entries_UpTo[n][a] # {}
  /\ ExpiresAt_UpTo[n][a] \in Int \cup {Never}
  /\ \A e \in Entries_UpTo[n][a] : LeafValid(e.leaf) /\ e.leaf.expiration = ExpiresAt_UpTo[n][a]

\* What ValidateBasic accepts is sound, at every depth.
LEMMA ValidIsSound ==
  ASSUME NEW n \in Levels, NEW a \in Nested[n], NEW depth \in Depths, Valid(n, a, depth)
  PROVE  Sound(n, a)
<1> DEFINE S == {m \in Levels : \A b \in Nested[m], d \in Depths : Valid(m, b, d) => Sound(m, b)}
<1>0. maxMultiAnyAllowanceDepth \in Nat /\ 0 \in Depths
  BY AllowanceAssumption DEF Depths
<1>1. ASSUME NEW m \in Levels, m # 0 => m - 1 \in S, NEW b \in Nested[m], NEW d \in Depths, Valid(m, b, d)
      PROVE  Sound(m, b)
  <2>1. CASE b \in Leaf
    <3>1. Entries_UpTo[m][b] = {[leaf |-> b, scopes |-> <<>>]} /\ ExpiresAt_UpTo[m][b] = b.expiration
      BY <2>1, EntriesValues, ExpiresAtValues
    <3>2. LeafValid(b)
      BY <2>1, <1>1, ValidValues DEF Valid
    <3>3. b.expiration \in Int \cup {Never}
      BY <2>1 DEF Leaf
    <3> QED
      BY <3>1, <3>2, <3>3 DEF Sound
  <2>2. CASE Authz(m, b) \/ OnContracts(m, b)
    <3>1. m # 0 /\ m - 1 \in Levels /\ b.inner \in Nested[m - 1]
      BY <2>2 DEF Authz, OnContracts
    <3> DEFINE inside == Entries_UpTo[m - 1][b.inner]
    <3>2. Valid(m - 1, b.inner, 0)
      BY <2>2, <1>1, ValidValues DEF Valid
    <3>3. Sound(m - 1, b.inner) /\ inside \in SUBSET Entry
      BY <3>1, <3>2, <1>0, <1>1, EntriesType
    <3>4. PICK scope \in Scope : Entries_UpTo[m][b] = Behind(scope, inside)
      BY <2>2, EntriesValues
    <3>5. ExpiresAt_UpTo[m][b] = ExpiresAt_UpTo[m - 1][b.inner]
      BY <2>2, ExpiresAtValues
    <3>6. inside # {} /\ \A e \in inside : LeafValid(e.leaf) /\ e.leaf.expiration = ExpiresAt_UpTo[m - 1][b.inner]
      BY <3>3 DEF Sound
    <3> HIDE DEF inside
    <3>7. \A f \in Behind(scope, inside) : \E e \in inside : f.leaf = e.leaf
      BY <3>3, BehindValues
    <3>8. Behind(scope, inside) # {}
      BY <3>3, <3>6, BehindValues
    <3> QED
      BY <3>3, <3>4, <3>5, <3>6, <3>7, <3>8 DEF Sound
  <2>3. CASE Multi(m, b)
    <3>1. m # 0 /\ m - 1 \in Levels /\ \A i \in 1..Len(b.inner) : b.inner[i] \in Nested[m - 1]
      BY <2>3, Members DEF Multi
    <3>2. /\ d <= maxMultiAnyAllowanceDepth /\ b.inner # <<>> /\ ExpiresAt_UpTo[m][b] # Inconsistent
          /\ \A i \in 1..Len(b.inner) : Valid(m - 1, b.inner[i], d + 1)
      BY <2>3, <1>1, ValidValues DEF Valid
    <3>3. d + 1 \in Depths
      BY <3>2, <1>0 DEF Depths
    <3>4. \A i \in 1..Len(b.inner) : Sound(m - 1, b.inner[i])
      BY <3>1, <3>2, <3>3, <1>1
    <3>5. \A i \in 1..Len(b.inner) : ExpiresAt_UpTo[m - 1][b.inner[i]] = ExpiresAt_UpTo[m][b]
      BY <2>3, <3>2, ExpiresAtValues
    <3>6. 1 \in 1..Len(b.inner)
      BY <2>3, <3>2, Members
    <3>7. Entries_UpTo[m][b] = UNION {Entries_UpTo[m - 1][b.inner[i]] : i \in 1..Len(b.inner)}
      BY <2>3, EntriesValues
    <3>8. Entries_UpTo[m][b] # {}
      <4>1. Entries_UpTo[m - 1][b.inner[1]] # {}
        BY <3>4, <3>6 DEF Sound
      <4> QED
        BY <4>1, <3>6, <3>7
    <3>9. ExpiresAt_UpTo[m][b] \in Int \cup {Never}
      BY <3>4, <3>5, <3>6 DEF Sound
    <3>10. ASSUME NEW e \in Entries_UpTo[m][b]
           PROVE  LeafValid(e.leaf) /\ e.leaf.expiration = ExpiresAt_UpTo[m][b]
      <4>1. PICK i \in 1..Len(b.inner) : e \in Entries_UpTo[m - 1][b.inner[i]]
        BY <3>7
      <4> QED
        BY <4>1, <3>4, <3>5 DEF Sound
    <3> QED
      BY <3>8, <3>9, <3>10 DEF Sound
  <2> QED
    BY <2>1, <2>2, <2>3, Kinds
<1>2. \A m \in Levels : (m # 0 => m - 1 \in S) => m \in S
  BY <1>1
<1>3. n \in S
  <2> HIDE DEF S
  <2> QED
    BY <1>2, AllLevels
<1> QED
  BY <1>3

\* A leaf that pays keeps its number, its expiration and its kind, and loses
\* the fee; unless it is spent it stays a valid one.
LEMMA LeafPaid ==
  ASSUME NEW leaf \in Leaf, LeafValid(leaf), NEW fee \in Nat, NEW time \in Int, LeafPays(leaf, fee, time)
  PROVE  LET left == LeafCharged(leaf, fee, time)
         IN /\ left \in Leaf /\ left.id = leaf.id /\ left.expiration = leaf.expiration
            /\ left.limit = Unlimited <=> leaf.limit = Unlimited
            /\ leaf.limit # Unlimited => left.limit = leaf.limit - fee /\ left.limit >= 0
            /\ ~LeafSpent(left) => LeafValid(left)
<1> DEFINE l == Reset(leaf, time)
           left == LeafCharged(leaf, fee, time)
<1>0. Unlimited \notin Int /\ NoPeriod \notin Period
  BY LeafAssumption
<1>1. /\ l \in Leaf /\ l.id = leaf.id /\ l.expiration = leaf.expiration /\ l.limit = leaf.limit
      /\ l.period = NoPeriod <=> leaf.period = NoPeriod
      /\ leaf.period # NoPeriod => l.period.length = leaf.period.length /\ l.period.grant = leaf.period.grant
  <2>1. CASE leaf.period = NoPeriod \/ time < leaf.period.reset
    BY <2>1 DEF Reset
  <2>2. CASE leaf.period # NoPeriod /\ ~(time < leaf.period.reset)
    <3>1. leaf.period \in Period
      BY <2>2 DEF Leaf
    <3> DEFINE can == Least(leaf.limit, leaf.period.grant)
               next == leaf.period.reset + leaf.period.length
               reset == IF time > next THEN time + leaf.period.length ELSE next
               p == [leaf.period EXCEPT !.can = can, !.reset = reset]
    <3>2. can \in Int /\ reset \in Int
      BY <3>1, <1>0 DEF Least, Leaf, Period
    <3>3. l = [leaf EXCEPT !.period = p]
      BY <2>2, <3>1 DEF Reset, Leaf, Period
    <3> HIDE DEF can, reset
    <3>4. p \in Period /\ p.length = leaf.period.length /\ p.grant = leaf.period.grant
      BY <3>1, <3>2 DEF Period
    <3> HIDE DEF p
    <3>5. l \in Leaf /\ l.period = p /\ l.id = leaf.id /\ l.expiration = leaf.expiration /\ l.limit = leaf.limit
      BY <3>3, <3>4 DEF Leaf
    <3> QED
      BY <3>4, <3>5, <2>2, <1>0
  <2> QED
    BY <2>1, <2>2
<1> DEFINE limit == IF l.limit = Unlimited THEN Unlimited ELSE l.limit - fee
           period == IF l.period = NoPeriod THEN NoPeriod ELSE [l.period EXCEPT !.can = @ - fee]
<1>2. left = [l EXCEPT !.limit = limit, !.period = period]
  BY DEF LeafCharged
<1>3. leaf.period # NoPeriod => l.period.can >= fee
  BY DEF LeafPays
<1> HIDE DEF l, left
<1>4. limit \in Int \cup {Unlimited} /\ period \in Period \cup {NoPeriod}
  BY <1>1 DEF Leaf, Period
<1>5. /\ l.period = NoPeriod <=> period = NoPeriod
      /\ l.period # NoPeriod => /\ period.length = l.period.length /\ period.grant = l.period.grant
                                /\ period.can = l.period.can - fee
  BY <1>0, <1>1, <1>4 DEF Leaf, Period
<1>6. /\ left \in Leaf /\ left.id = l.id /\ left.expiration = l.expiration
      /\ left.limit = limit /\ left.period = period
  <2> HIDE DEF limit, period
  <2> QED
    BY <1>2, <1>1, <1>4 DEF Leaf
<1>7. left.limit = Unlimited <=> leaf.limit = Unlimited
  BY <1>0, <1>1, <1>6 DEF Leaf
<1>8. leaf.limit # Unlimited => left.limit = leaf.limit - fee /\ left.limit >= 0
  BY <1>0, <1>1, <1>6 DEF Leaf, LeafPays
<1>9. ASSUME ~LeafSpent(left) PROVE LeafValid(left)
  <2>1. left.limit # Unlimited => left.limit > 0
    BY <1>7, <1>8, <1>9, <1>6 DEF LeafSpent, Leaf
  <2>2. left.period # NoPeriod =>
          left.period.length >= 0 /\ left.period.grant > 0 /\ left.period.can >= 0
    <3> HIDE DEF period, limit
    <3>1. l.period # NoPeriod => l.period \in Period
      BY <1>1 DEF Leaf
    <3> QED
      BY <3>1, <1>1, <1>3, <1>5, <1>6 DEF LeafValid, Period
  <2> QED
    BY <2>1, <2>2 DEF LeafValid
<1> QED
  BY <1>1, <1>6, <1>7, <1>8, <1>9 DEF left

-----------------------------------------------------------------------------
(***************************************************************************)
(* Accept: a nested allowance answers like the list of its leaves.         *)
(***************************************************************************)
\* An entry pays where its restrictions let the messages through.
Pays(entry, fee, msgs) == Passed(msgs, entry.scopes) # Refused /\ LeafPays(entry.leaf, fee, now)

First(entries, entry, fee, msgs) ==
  /\ entry \in entries /\ Pays(entry, fee, msgs)
  /\ \A before \in entries : before.leaf.id < entry.leaf.id => ~Pays(before, fee, msgs)

\* The entry once it has paid, and the entries with it.
Left(entry, fee) == [leaf |-> LeafCharged(entry.leaf, fee, now), scopes |-> entry.scopes]

After(entries, entry, fee) ==
  (entries \ {entry}) \cup (IF LeafSpent(LeafCharged(entry.leaf, fee, now)) THEN {} ELSE {Left(entry, fee)})

IsResult(r) ==
  /\ r = [ok |-> r.ok, remove |-> r.remove, allowance |-> r.allowance, leaf |-> r.leaf]
  /\ r.ok \in BOOLEAN /\ r.remove \in BOOLEAN

\* b may take the place of a: it is valid where a is, and has these entries.
Replaces(n, b, a, depth, entries) ==
  /\ b \in Nested[n] /\ Valid(n, b, depth) /\ Numbered_UpTo[n][b]
  /\ ExpiresAt_UpTo[n][b] = ExpiresAt_UpTo[n][a]
  /\ Entries_UpTo[n][b] = entries

\* The result of Accept for an allowance of a level: its first entry that can
\* pay does, and what is left has the entries that are left.
Answered(n, a, depth, entry, fee, msgs, r) ==
  /\ First(Entries_UpTo[n][a], entry, fee, msgs)
  /\ r.leaf = entry.leaf.id
  /\ r.remove <=> After(Entries_UpTo[n][a], entry, fee) = {}
  /\ ~r.remove => Replaces(n, r.allowance, a, depth, After(Entries_UpTo[n][a], entry, fee))

Answers(n, a, depth, fee, msgs, r) ==
  /\ IsResult(r)
  /\ ~r.ok => \A e \in Entries_UpTo[n][a] : ~Pays(e, fee, msgs)
  /\ r.ok => \E e \in Entries_UpTo[n][a] : Answered(n, a, depth, e, fee, msgs, r)

\* The entries that are left are entries, with numbers that were there.
LEMMA AfterType ==
  ASSUME NEW entries \in SUBSET Entry, NEW e \in entries, LeafValid(e.leaf), now \in Int,
         NEW fee \in Nat, LeafPays(e.leaf, fee, now)
  PROVE  /\ Left(e, fee) \in Entry /\ Left(e, fee).leaf = LeafCharged(e.leaf, fee, now)
         /\ Left(e, fee).scopes = e.scopes
         /\ After(entries, e, fee) \in SUBSET Entry
         /\ \A f \in After(entries, e, fee) : \E g \in entries : f.leaf.id = g.leaf.id
<1>1. e.leaf \in Leaf /\ e.scopes \in Seq(Scope)
  BY DEF Entry
<1>2. LeafCharged(e.leaf, fee, now) \in Leaf /\ LeafCharged(e.leaf, fee, now).id = e.leaf.id
  BY <1>1, LeafPaid
<1>3. /\ Left(e, fee) \in Entry /\ Left(e, fee).leaf = LeafCharged(e.leaf, fee, now)
      /\ Left(e, fee).scopes = e.scopes
  BY <1>1, <1>2 DEF Left, Entry
<1>4. After(entries, e, fee) \subseteq entries \cup {Left(e, fee)}
  BY DEF After
<1> QED
  BY <1>2, <1>3, <1>4

\* A refusal is a result.
LEMMA RefusalIsResult == IsResult(Refusal) /\ ~Refusal.ok
  BY DEF IsResult, Refusal

\* A leaf answers for itself.
LEMMA LeafAnswers ==
  ASSUME now \in Int, NEW n \in Levels, NEW a \in Leaf, NEW depth \in Depths, Valid(n, a, depth),
         NEW fee \in Nat, NEW msgs \in Msgs
  PROVE  Answers(n, a, depth, fee, msgs, Accept_UpTo(fee)[n][<<a, msgs>>])
<1> DEFINE e == [leaf |-> a, scopes |-> <<>>]
           left == LeafCharged(a, fee, now)
           r == Accept_UpTo(fee)[n][<<a, msgs>>]
<1>0. a \in Nested[n]
  BY OfLevel
<1>1. Entries_UpTo[n][a] = {e} /\ LeafValid(a) /\ r = LeafAccept(a, fee)
  <2>1. Entries_UpTo[n][a] = {e}
    BY <1>0, EntriesValues
  <2>2. LeafValid(a)
    BY <1>0, ValidValues DEF Valid
  <2>3. r = LeafAccept(a, fee)
    BY <1>0, AcceptLeaf
  <2> QED
    BY <2>1, <2>2, <2>3
<1>2. Passed(msgs, <<>>) # Refused
  BY PassedNone, MsgsAssumption
<1>3. Pays(e, fee, msgs) <=> LeafPays(a, fee, now)
  BY <1>2 DEF Pays
<1>4. CASE ~LeafPays(a, fee, now)
  <2>1. r = Refusal
    BY <1>1, <1>4 DEF LeafAccept
  <2> HIDE DEF r
  <2>2. IsResult(r) /\ ~r.ok
    BY <2>1 DEF IsResult, Refusal
  <2> QED
    BY <2>2, <1>1, <1>3, <1>4 DEF Answers, r
<1>5. CASE LeafPays(a, fee, now)
  <2>1. r = [ok |-> TRUE, remove |-> LeafSpent(left), allowance |-> left, leaf |-> a.id]
    BY <1>1, <1>5 DEF LeafAccept
  <2> HIDE DEF r
  <2>2. IsResult(r) /\ r.ok /\ (r.remove <=> LeafSpent(left)) /\ r.allowance = left /\ r.leaf = a.id
    BY <2>1 DEF IsResult, LeafSpent
  <2>3. /\ left \in Leaf /\ left.id = a.id /\ left.expiration = a.expiration
        /\ ~LeafSpent(left) => LeafValid(left)
    BY <1>1, <1>5, LeafPaid
  <2>4. Left(e, fee) = [leaf |-> left, scopes |-> <<>>]
    BY DEF Left
  <2>5. After({e}, e, fee) = IF LeafSpent(left) THEN {} ELSE {[leaf |-> left, scopes |-> <<>>]}
    BY <2>4 DEF After
  <2>6. First({e}, e, fee, msgs)
    <3>1. a.id \in Nat
      BY LeafAssumption DEF Leaf
    <3> QED
      BY <3>1, <1>3, <1>5 DEF First
  <2> HIDE DEF left
  <2>7. ASSUME ~LeafSpent(left) PROVE Replaces(n, left, a, depth, {[leaf |-> left, scopes |-> <<>>]})
    <3>1. left \in Nested[n] /\ LeafValid(left)
      BY <2>3, <2>7, OfLevel
    <3>2. /\ Valid(n, left, depth) /\ Numbered_UpTo[n][left]
          /\ Entries_UpTo[n][left] = {[leaf |-> left, scopes |-> <<>>]}
      BY <2>3, <3>1, EntriesValues, ValidValues, NumberedValues DEF Valid
    <3>3. ExpiresAt_UpTo[n][left] = left.expiration /\ ExpiresAt_UpTo[n][a] = a.expiration
      BY <1>0, <2>3, <3>1, ExpiresAtValues
    <3> QED
      BY <2>3, <3>1, <3>2, <3>3 DEF Replaces
  <2>8. e.leaf.id = a.id
    OBVIOUS
  <2> HIDE DEF e
  <2>9. Answered(n, a, depth, e, fee, msgs, r)
    BY <1>1, <2>2, <2>5, <2>6, <2>7, <2>8 DEF Answered
  <2> QED
    BY <1>1, <2>2, <2>9 DEF Answers, r
<1> QED
  BY <1>4, <1>5

\* The entries left behind a restriction are those left of the ones inside.
LEMMA AfterBehind ==
  ASSUME now \in Int, NEW scope \in Scope, NEW entries \in SUBSET Entry, Distinct(entries),
         NEW e \in entries, LeafValid(e.leaf), NEW fee \in Nat, LeafPays(e.leaf, fee, now)
  PROVE  After(Behind(scope, entries), Restricted(scope, e), fee) = Behind(scope, After(entries, e, fee))
<1> DEFINE spent == LeafSpent(LeafCharged(e.leaf, fee, now))
<1>1. Restricted(scope, e).leaf = e.leaf /\ Restricted(scope, e).scopes = <<scope>> \o e.scopes
  BY BehindValues
<1>2. Left(Restricted(scope, e), fee) = Restricted(scope, Left(e, fee))
  BY <1>1 DEF Left, Restricted
<1>3. ASSUME NEW f \in entries, f # e PROVE Restricted(scope, f) # Restricted(scope, e)
  <2>1. Restricted(scope, f).leaf = f.leaf
    BY BehindValues
  <2>2. f.leaf # e.leaf
    BY <1>3 DEF Distinct
  <2> QED
    BY <1>1, <2>1, <2>2
<1>4. Behind(scope, entries) \ {Restricted(scope, e)} = Behind(scope, entries \ {e})
  BY <1>3 DEF Behind
<1>5. CASE spent
  BY <1>1, <1>4, <1>5 DEF After
<1>6. CASE ~spent
  <2>1. Behind(scope, (entries \ {e}) \cup {Left(e, fee)})
          = Behind(scope, entries \ {e}) \cup {Restricted(scope, Left(e, fee))}
    BY DEF Behind
  <2> QED
    BY <1>1, <1>2, <1>4, <1>6, <2>1 DEF After
<1> QED
  BY <1>5, <1>6

\* The restriction that an allowance is.
ScopeOf(a) ==
  IF a.kind = "authz" THEN [kind |-> "authz", grantee |-> a.grantee]
  ELSE [kind |-> "contracts", contracts |-> a.contracts]

\* The entries of a restriction are those inside, behind it.
LEMMA RestrictionEntries ==
  ASSUME NEW n \in Levels, NEW a \in Nested[n], Authz(n, a) \/ OnContracts(n, a)
  PROVE  /\ ScopeOf(a) \in Scope
         /\ Entries_UpTo[n][a] = Behind(ScopeOf(a), Entries_UpTo[n - 1][a.inner])
<1>1. CASE Authz(n, a)
  <2>1. ScopeOf(a) = [kind |-> "authz", grantee |-> a.grantee]
    BY <1>1 DEF ScopeOf, Authz
  <2> QED
    BY <1>1, <2>1, EntriesValues
<1>2. CASE OnContracts(n, a)
  <2>1. ScopeOf(a) = [kind |-> "contracts", contracts |-> a.contracts]
    BY <1>2 DEF ScopeOf, OnContracts
  <2> QED
    BY <1>2, <2>1, EntriesValues
<1> QED
  BY <1>1, <1>2

\* A restriction around another allowance of the level below.
LEMMA RestrictionKeeps ==
  ASSUME NEW n \in Levels, NEW a \in Nested[n], Authz(n, a) \/ OnContracts(n, a),
         NEW depth \in Depths, Valid(n, a, depth),
         NEW c \in Nested[n - 1], Valid(n - 1, c, 0), Numbered_UpTo[n - 1][c],
         ExpiresAt_UpTo[n - 1][c] = ExpiresAt_UpTo[n - 1][a.inner]
  PROVE  Replaces(n, [a EXCEPT !.inner = c], a, depth, Behind(ScopeOf(a), Entries_UpTo[n - 1][c]))
<1> DEFINE b == [a EXCEPT !.inner = c]
<1>1. /\ Authz(n, a) => Authz(n, b)
      /\ OnContracts(n, a) => OnContracts(n, b) /\ b.contracts = a.contracts
      /\ ScopeOf(b) = ScopeOf(a) /\ b.inner = c
  BY DEF Authz, OnContracts, ScopeOf
<1> HIDE DEF b
<1>2. b \in Nested[n]
  BY <1>1, OfLevel
<1>3. Entries_UpTo[n][b] = Behind(ScopeOf(a), Entries_UpTo[n - 1][c])
  BY <1>1, <1>2, RestrictionEntries
<1>4. ExpiresAt_UpTo[n][b] = ExpiresAt_UpTo[n - 1][c] /\ ExpiresAt_UpTo[n][a] = ExpiresAt_UpTo[n - 1][a.inner]
  BY <1>1, <1>2, ExpiresAtValues
<1>5. Numbered_UpTo[n][b]
  BY <1>1, <1>2, NumberedValues
<1>6. Valid(n, b, depth)
  BY <1>1, <1>2, ValidValues DEF Valid
<1>7. Replaces(n, b, a, depth, Behind(ScopeOf(a), Entries_UpTo[n - 1][c]))
  BY <1>2, <1>3, <1>4, <1>5, <1>6 DEF Replaces
<1> QED
  BY <1>7 DEF b

\* A restriction answers what the allowance inside does, for the messages that
\* it lets through.
LEMMA RestrictionAnswers ==
  ASSUME now \in Int, NEW n \in Levels, NEW a \in Nested[n], Authz(n, a) \/ OnContracts(n, a),
         NEW depth \in Depths, Valid(n, a, depth), Numbered_UpTo[n][a],
         NEW fee \in Nat, NEW msgs \in Msgs, NEW sub, Through(msgs, ScopeOf(a)) = sub,
         NEW inside, sub # Refused => Answers(n - 1, a.inner, 0, fee, sub, inside),
         NEW r, r = IF sub = Refused THEN Refusal ELSE Rewrapped(a, inside)
  PROVE  Answers(n, a, depth, fee, msgs, r)
<1> DEFINE within == Entries_UpTo[n - 1][a.inner]
           scope == ScopeOf(a)
<1>1. n # 0 /\ n - 1 \in Levels /\ a.inner \in Nested[n - 1]
  BY DEF Authz, OnContracts
<1>2. within \in SUBSET Entry
  BY <1>1, EntriesType
<1>3. Distinct(within)
  BY <1>1, NumberedValues, NumbersDistinct
<1>4. 0 \in Depths
  BY AllowanceAssumption DEF Depths
<1>5. \A e \in within : LeafValid(e.leaf)
  <2>1. Valid(n - 1, a.inner, 0)
    BY ValidValues DEF Valid
  <2> QED
    BY <1>1, <1>4, <2>1, ValidIsSound DEF Sound
<1>6. Entries_UpTo[n][a] = Behind(scope, within) /\ scope \in Scope /\ Through(msgs, scope) = sub
  BY RestrictionEntries
<1> HIDE DEF within, scope
<1>7. ASSUME NEW e \in within
      PROVE  /\ Restricted(scope, e) \in Behind(scope, within) /\ Restricted(scope, e).leaf = e.leaf
             /\ Pays(Restricted(scope, e), fee, msgs) <=> Pays(e, fee, sub)
  <2>1. e.scopes \in Seq(Scope)
    BY <1>2 DEF Entry
  <2>2. /\ Restricted(scope, e) \in Behind(scope, within) /\ Restricted(scope, e).leaf = e.leaf
        /\ Restricted(scope, e).scopes = <<scope>> \o e.scopes
    BY <1>2, <1>6, BehindValues
  <2>3. Passed(msgs, Restricted(scope, e).scopes) = Passed(sub, e.scopes)
    BY <1>6, <2>1, <2>2, PassedBehind
  <2> QED
    BY <2>2, <2>3 DEF Pays
<1>8. \A f \in Behind(scope, within) : \E e \in within : f = Restricted(scope, e)
  BY <1>2, <1>6, BehindValues
<1>9. ASSUME r = Refusal, \A e \in within : ~Pays(e, fee, sub)
      PROVE  Answers(n, a, depth, fee, msgs, r)
  <2>1. IsResult(r) /\ ~r.ok
    BY <1>9, RefusalIsResult
  <2>2. \A f \in Behind(scope, within) : ~Pays(f, fee, msgs)
    BY <1>7, <1>8, <1>9
  <2> QED
    BY <1>6, <2>1, <2>2 DEF Answers
<1>10. CASE sub = Refused
  <2>1. \A e \in within : e.scopes \in Seq(Scope)
    BY <1>2 DEF Entry
  <2>2. \A e \in within : ~Pays(e, fee, sub)
    BY <1>10, <2>1, PassedRefused DEF Pays
  <2> QED
    BY <1>9, <1>10, <2>2
<1>11. CASE sub # Refused /\ ~inside.ok
  <2>1. r = Refusal
    BY <1>11 DEF Rewrapped
  <2>2. \A e \in within : ~Pays(e, fee, sub)
    BY <1>11 DEF Answers, within
  <2> QED
    BY <1>9, <2>1, <2>2
<1>12. CASE sub # Refused /\ inside.ok
  <2> DEFINE b == [a EXCEPT !.inner = inside.allowance]
  <2>1. IsResult(inside) /\ \E e \in within : Answered(n - 1, a.inner, 0, e, fee, sub, inside)
    BY <1>12 DEF Answers, within
  <2>2. PICK e \in within : Answered(n - 1, a.inner, 0, e, fee, sub, inside)
    BY <2>1
  <2>3. r = [inside EXCEPT !.allowance = b]
    BY <1>12 DEF Rewrapped
  <2> HIDE DEF b
  <2>4. IsResult(r) /\ r.ok /\ r.remove = inside.remove /\ r.allowance = b /\ r.leaf = inside.leaf
    BY <2>1, <2>3, <1>12 DEF IsResult
  <2>5. /\ First(within, e, fee, sub)
        /\ inside.leaf = e.leaf.id
        /\ inside.remove <=> After(within, e, fee) = {}
        /\ ~inside.remove => Replaces(n - 1, inside.allowance, a.inner, 0, After(within, e, fee))
    BY <2>2 DEF Answered, within
  <2>6. First(Behind(scope, within), Restricted(scope, e), fee, msgs)
    BY <1>7, <1>8, <2>5 DEF First
  <2>7. LeafPays(e.leaf, fee, now)
    BY <2>5 DEF First, Pays
  <2>8. After(Behind(scope, within), Restricted(scope, e), fee) = Behind(scope, After(within, e, fee))
    BY <1>2, <1>3, <1>5, <2>7, <1>6, AfterBehind
  <2>9. Behind(scope, After(within, e, fee)) = {} <=> After(within, e, fee) = {}
    BY DEF Behind
  <2>10. ASSUME ~inside.remove
         PROVE  Replaces(n, b, a, depth, Behind(scope, After(within, e, fee)))
    <3>1. /\ inside.allowance \in Nested[n - 1] /\ Valid(n - 1, inside.allowance, 0)
          /\ Numbered_UpTo[n - 1][inside.allowance]
          /\ ExpiresAt_UpTo[n - 1][inside.allowance] = ExpiresAt_UpTo[n - 1][a.inner]
          /\ Entries_UpTo[n - 1][inside.allowance] = After(within, e, fee)
      BY <2>5, <2>10 DEF Replaces
    <3>2. Replaces(n, b, a, depth, Behind(scope, Entries_UpTo[n - 1][inside.allowance]))
      BY <3>1, RestrictionKeeps DEF b, scope
    <3> QED
      BY <3>1, <3>2
  <2>11. Answered(n, a, depth, Restricted(scope, e), fee, msgs, r)
    BY <1>6, <1>7, <2>4, <2>5, <2>6, <2>8, <2>9, <2>10 DEF Answered
  <2>12. Restricted(scope, e) \in Entries_UpTo[n][a]
    BY <1>6, <1>7
  <2> QED
    BY <2>4, <2>11, <2>12 DEF Answers
<1> QED
  BY <1>10, <1>11, <1>12

\* A list without its member i.
LEMMA WithoutValues ==
  ASSUME NEW S, NEW list \in Seq(S), NEW i \in 1..Len(list)
  PROVE  /\ Without(list, i) \in Seq(S) /\ Len(Without(list, i)) = Len(list) - 1
         /\ \A k \in 1..(Len(list) - 1) : Without(list, i)[k] = IF k < i THEN list[k] ELSE list[k + 1]
<1> DEFINE s == SubSeq(list, 1, i - 1)
           t == SubSeq(list, i + 1, Len(list))
<1>1. Len(list) \in Nat /\ i \in Int
  OBVIOUS
<1>2. /\ s \in Seq(S) /\ Len(s) = i - 1
      /\ \A k \in 1..(i - 1) : s[k] = list[k]
  <2>1. \A k \in 1..(i - 1) : list[k] \in S
    BY <1>1
  <2> QED
    BY <1>1, <2>1, SubSeqProperties
<1>3. /\ t \in Seq(S) /\ Len(t) = Len(list) - i
      /\ \A k \in 1..(Len(list) - i) : t[k] = list[i + k]
  <2>1. \A k \in (i + 1)..Len(list) : list[k] \in S
    BY <1>1
  <2>2. /\ t \in Seq(S)
        /\ Len(t) = IF i + 1 <= Len(list) THEN Len(list) - (i + 1) + 1 ELSE 0
        /\ \A k \in 1..(Len(list) - (i + 1) + 1) : t[k] = list[(i + 1) + k - 1]
    BY <1>1, <2>1, SubSeqProperties
  <2> HIDE DEF t
  <2> QED
    BY <1>1, <2>2
<1> HIDE DEF s, t
<1>4. /\ s \o t \in Seq(S) /\ Len(s \o t) = Len(list) - 1
      /\ \A k \in 1..(Len(list) - 1) : (s \o t)[k] = IF k <= i - 1 THEN s[k] ELSE t[k - (i - 1)]
  <2>1. /\ s \o t \in Seq(S) /\ Len(s \o t) = Len(s) + Len(t)
        /\ \A k \in 1..(Len(s) + Len(t)) : (s \o t)[k] = IF k <= Len(s) THEN s[k] ELSE t[k - Len(s)]
    BY <1>2, <1>3, ConcatProperties
  <2>2. Len(s) + Len(t) = Len(list) - 1
    BY <1>1, <1>2, <1>3
  <2> QED
    BY <2>1, <2>2, <1>2
<1>5. ASSUME NEW k \in 1..(Len(list) - 1)
      PROVE  (s \o t)[k] = IF k < i THEN list[k] ELSE list[k + 1]
  <2>1. CASE k < i
    <3>1. k \in 1..(i - 1) /\ k <= i - 1
      BY <1>1, <2>1
    <3> QED
      BY <1>2, <1>4, <2>1, <3>1
  <2>2. CASE ~(k < i)
    <3>1. k - (i - 1) \in 1..(Len(list) - i) /\ i + (k - (i - 1)) = k + 1 /\ ~(k <= i - 1)
      BY <1>1, <2>2
    <3>2. t[k - (i - 1)] = list[k + 1]
      BY <1>3, <3>1
    <3> QED
      BY <1>4, <2>2, <3>1, <3>2
  <2> QED
    BY <2>1, <2>2
<1> QED
  BY <1>4, <1>5 DEF Without, s, t

\* A list of valid members in order, that expire at one time.
LEMMA ListKeeps ==
  ASSUME NEW n \in Levels, NEW a \in Nested[n], Multi(n, a),
         NEW depth \in Depths, depth <= maxMultiAnyAllowanceDepth, ExpiresAt_UpTo[n][a] # Inconsistent,
         NEW list \in Seq(Nested[n - 1]), list # <<>>,
         \A k \in 1..Len(list) : /\ Valid(n - 1, list[k], depth + 1) /\ Numbered_UpTo[n - 1][list[k]]
                                 /\ ExpiresAt_UpTo[n - 1][list[k]] = ExpiresAt_UpTo[n][a],
         \A j, k \in 1..Len(list) : j < k =>
           \A l \in Entries_UpTo[n - 1][list[j]], m \in Entries_UpTo[n - 1][list[k]] : l.leaf.id < m.leaf.id,
         NEW entries,
         \A e : e \in entries <=> \E k \in 1..Len(list) : e \in Entries_UpTo[n - 1][list[k]]
  PROVE  Replaces(n, [a EXCEPT !.inner = list], a, depth, entries)
<1> DEFINE b == [a EXCEPT !.inner = list]
<1>1. Multi(n, b) /\ b.inner = list
  BY DEF Multi
<1> HIDE DEF b
<1>2. b \in Nested[n]
  BY <1>1, OfLevel
<1>3. ExpiresAt_UpTo[n][b] = ExpiresAt_UpTo[n][a]
  <2>1. \A t : (\A i \in 1..Len(b.inner) : ExpiresAt_UpTo[n - 1][b.inner[i]] = t) => ExpiresAt_UpTo[n][b] = t
    BY <1>1, <1>2, ExpiresAtValues
  <2> QED
    BY <1>1, <2>1
<1>4. Valid(n, b, depth)
  BY <1>1, <1>2, <1>3, ValidValues DEF Valid
<1>5. Numbered_UpTo[n][b]
  BY <1>1, <1>2, NumberedValues
<1>6. \A e : e \in Entries_UpTo[n][b] <=> e \in entries
  BY <1>1, <1>2, EntryOfMember
<1>7. Entries_UpTo[n][b] = entries
  BY <1>6
<1>8. Replaces(n, b, a, depth, entries)
  BY <1>2, <1>3, <1>4, <1>5, <1>7 DEF Replaces
<1> QED
  BY <1>8 DEF b

\* A list answers with its first member that accepts.
LEMMA ListAnswers ==
  ASSUME now \in Int, NEW n \in Levels, NEW a \in Nested[n], Multi(n, a),
         NEW depth \in Depths, Valid(n, a, depth), Numbered_UpTo[n][a],
         NEW fee \in Nat, NEW msgs \in Msgs,
         \A i \in 1..Len(a.inner) :
           Answers(n - 1, a.inner[i], depth + 1, fee, msgs, Accept_UpTo(fee)[n - 1][<<a.inner[i], msgs>>])
  PROVE  Answers(n, a, depth, fee, msgs, Accept_UpTo(fee)[n][<<a, msgs>>])
<1> DEFINE r == Accept_UpTo(fee)[n][<<a, msgs>>]
           R(i) == Accept_UpTo(fee)[n - 1][<<a.inner[i], msgs>>]
           E(i) == Entries_UpTo[n - 1][a.inner[i]]
           all == Entries_UpTo[n][a]
           time == ExpiresAt_UpTo[n][a]
<1>1. n # 0 /\ n - 1 \in Levels /\ a.inner \in Seq(Nested[n - 1]) /\ Len(a.inner) \in Nat
  BY Members DEF Multi
<1>2. \A i \in 1..Len(a.inner) : a.inner[i] \in Nested[n - 1]
  BY Members
<1>3. /\ depth <= maxMultiAnyAllowanceDepth /\ a.inner # <<>> /\ time # Inconsistent
      /\ \A i \in 1..Len(a.inner) : Valid(n - 1, a.inner[i], depth + 1)
  BY ValidValues DEF Valid
<1>4. depth + 1 \in Depths
  BY <1>3, AllowanceAssumption DEF Depths
<1>5. /\ \A i \in 1..Len(a.inner) : Numbered_UpTo[n - 1][a.inner[i]]
      /\ \A i, j \in 1..Len(a.inner) : i < j => \A l \in E(i), m \in E(j) : l.leaf.id < m.leaf.id
  BY NumberedValues
<1>6. \A i \in 1..Len(a.inner) : ExpiresAt_UpTo[n - 1][a.inner[i]] = time
  BY <1>3, ExpiresAtValues
<1>7. \A i \in 1..Len(a.inner) :
        /\ E(i) \in SUBSET Entry /\ E(i) # {}
        /\ \A e \in E(i) : LeafValid(e.leaf)
  BY <1>1, <1>2, <1>3, <1>4, EntriesType, ValidIsSound DEF Sound
<1>8. \A e : e \in all <=> \E i \in 1..Len(a.inner) : e \in E(i)
  BY EntryOfMember
<1>9. \A i \in 1..Len(a.inner) : Answers(n - 1, a.inner[i], depth + 1, fee, msgs, R(i))
  OBVIOUS
<1>10. \/ (\A i \in 1..Len(a.inner) : ~R(i).ok) /\ r = Refusal
       \/ \E i \in 1..Len(a.inner) : /\ R(i).ok
                                     /\ \A j \in 1..Len(a.inner) : R(j).ok => i <= j
                                     /\ r = MultiRewrapped(a, i, R(i))
  BY AcceptList
<1>11. \A i \in 1..Len(a.inner) : ~R(i).ok => \A e \in E(i) : ~Pays(e, fee, msgs)
  <2> HIDE DEF R
  <2> QED
    BY <1>9 DEF Answers
<1>12. \A i \in 1..Len(a.inner) : \A e \in E(i) : e.leaf.id \in Nat
  BY <1>7, LeafAssumption DEF Entry, Leaf
<1> HIDE DEF r, R, E, all, time
<1>13. CASE (\A i \in 1..Len(a.inner) : ~R(i).ok) /\ r = Refusal
  BY <1>8, <1>11, <1>13, RefusalIsResult DEF Answers, all, r
<1>14. ASSUME NEW i \in 1..Len(a.inner), R(i).ok,
              \A j \in 1..Len(a.inner) : R(j).ok => i <= j,
              r = MultiRewrapped(a, i, R(i))
       PROVE  Answers(n, a, depth, fee, msgs, r)
  <2> DEFINE list == IF R(i).remove THEN Without(a.inner, i) ELSE [a.inner EXCEPT ![i] = R(i).allowance]
  <2>1. IsResult(R(i)) /\ \E e \in E(i) : Answered(n - 1, a.inner[i], depth + 1, e, fee, msgs, R(i))
    BY <1>9, <1>14 DEF Answers, E
  <2>2. PICK e \in E(i) : Answered(n - 1, a.inner[i], depth + 1, e, fee, msgs, R(i))
    BY <2>1
  <2> DEFINE left == After(E(i), e, fee)
  <2>3. /\ First(E(i), e, fee, msgs) /\ R(i).leaf = e.leaf.id
        /\ R(i).remove <=> left = {}
        /\ ~R(i).remove => Replaces(n - 1, R(i).allowance, a.inner[i], depth + 1, left)
    BY <2>2 DEF Answered, E
  <2>4. r = [R(i) EXCEPT !.allowance = [a EXCEPT !.inner = list], !.remove = list = <<>>]
    BY <1>14 DEF MultiRewrapped
  <2> HIDE DEF list
  <2>5. /\ IsResult(r) /\ r.ok /\ r.leaf = e.leaf.id
        /\ r.remove <=> list = <<>>
        /\ r.allowance = [a EXCEPT !.inner = list]
    BY <1>14, <2>1, <2>3, <2>4 DEF IsResult
  <2>6. First(all, e, fee, msgs)
    <3>1. e \in all /\ Pays(e, fee, msgs)
      BY <1>8, <2>3 DEF First
    <3>2. ASSUME NEW before \in all, before.leaf.id < e.leaf.id PROVE ~Pays(before, fee, msgs)
      <4>1. PICK j \in 1..Len(a.inner) : before \in E(j)
        BY <1>8
      <4>2. ~(i < j)
        BY <1>5, <1>12, <3>2, <4>1
      <4>3. CASE i = j
        BY <2>3, <3>2, <4>1, <4>3 DEF First
      <4>4. CASE j < i
        <5>1. ~R(j).ok
          BY <1>14, <4>4
        <5> QED
          BY <1>11, <4>1, <5>1
      <4> QED
        BY <4>2, <4>3, <4>4
    <3> QED
      BY <3>1, <3>2 DEF First
  <2>7. LeafPays(e.leaf, fee, now) /\ LeafValid(e.leaf) /\ E(i) \in SUBSET Entry
    BY <1>7, <2>3 DEF First, Pays
  <2>8. \A f \in left : \E g \in E(i) : f.leaf.id = g.leaf.id
    BY <2>7, AfterType
  \* What is left of the list is what is left of the member, and the others.
  <2>9. \A f : f \in After(all, e, fee) <=>
                 f \in left \/ \E j \in 1..Len(a.inner) : j # i /\ f \in E(j)
    <3>1. \A j \in 1..Len(a.inner) : j # i => e \notin E(j)
      BY <1>5, <1>12
    <3>2. \A f : f \in all \ {e} <=> f \in E(i) \ {e} \/ \E j \in 1..Len(a.inner) : j # i /\ f \in E(j)
      BY <1>8, <3>1
    <3> QED
      BY <3>2 DEF After
  <2>10. CASE R(i).remove
    <3>1. list = Without(a.inner, i) /\ left = {}
      BY <2>3, <2>10 DEF list
    <3> HIDE DEF left
    <3>2. /\ list \in Seq(Nested[n - 1]) /\ Len(list) = Len(a.inner) - 1
          /\ \A k \in 1..Len(list) : list[k] = IF k < i THEN a.inner[k] ELSE a.inner[k + 1]
      BY <1>1, <3>1, WithoutValues
    <3>0. Len(list) \in Nat /\ (list = <<>> <=> Len(list) = 0)
      BY <3>2, EmptySeq, LenProperties
    <3> DEFINE at(k) == IF k < i THEN k ELSE k + 1
    <3>3. \A k \in 1..Len(list) : at(k) \in 1..Len(a.inner) /\ at(k) # i /\ list[k] = a.inner[at(k)]
      BY <1>1, <3>2
    <3>4. \A j, k \in 1..Len(list) : j < k => at(j) < at(k)
      BY <1>1
    <3>5. \A j \in 1..Len(a.inner) : j # i => \E k \in 1..Len(list) : at(k) = j
      <4> SUFFICES ASSUME NEW j \in 1..Len(a.inner), j # i PROVE \E k \in 1..Len(list) : at(k) = j
        OBVIOUS
      <4>1. CASE j < i
        <5>1. j \in 1..Len(list) /\ at(j) = j
          BY <1>1, <3>2, <4>1
        <5> QED
          BY <5>1
      <4>2. CASE ~(j < i)
        <5>1. j - 1 \in 1..Len(list) /\ at(j - 1) = j
          BY <1>1, <3>2, <4>2
        <5> QED
          BY <5>1
      <4> QED
        BY <4>1, <4>2
    <3> HIDE DEF at
    <3>6. \A f : f \in After(all, e, fee) <=> \E k \in 1..Len(list) : f \in Entries_UpTo[n - 1][list[k]]
      <4>1. \A k \in 1..Len(list) : at(k) \in 1..Len(a.inner) /\ at(k) # i /\ Entries_UpTo[n - 1][list[k]] = E(at(k))
        BY <3>3 DEF E
      <4> QED
        BY <2>9, <3>1, <3>5, <4>1
    <3>7. list = <<>> <=> After(all, e, fee) = {}
      <4>2. \A k \in 1..Len(list) : Entries_UpTo[n - 1][list[k]] # {}
        BY <1>7, <3>3 DEF E
      <4>3. CASE Len(list) = 0
        BY <3>0, <4>3, <3>6
      <4>4. CASE Len(list) # 0
        <5>1. 1 \in 1..Len(list)
          BY <3>0, <4>4
        <5> QED
          BY <3>0, <4>2, <4>4, <5>1, <3>6
      <4> QED
        BY <4>3, <4>4
    <3>8. ASSUME list # <<>> PROVE Replaces(n, [a EXCEPT !.inner = list], a, depth, After(all, e, fee))
      <4>1. \A k \in 1..Len(list) : /\ Valid(n - 1, list[k], depth + 1) /\ Numbered_UpTo[n - 1][list[k]]
                                    /\ ExpiresAt_UpTo[n - 1][list[k]] = ExpiresAt_UpTo[n][a]
        BY <1>3, <1>5, <1>6, <3>3 DEF time
      <4>2. \A j, k \in 1..Len(list) : j < k =>
              \A l \in Entries_UpTo[n - 1][list[j]], m \in Entries_UpTo[n - 1][list[k]] : l.leaf.id < m.leaf.id
        BY <1>5, <3>3, <3>4 DEF E
      <4>3. ExpiresAt_UpTo[n][a] # Inconsistent
        BY <1>3 DEF time
      <4> QED
        BY <1>3, <3>2, <3>6, <3>8, <4>1, <4>2, <4>3, ListKeeps
    <3>9. Answered(n, a, depth, e, fee, msgs, r)
      BY <2>5, <2>6, <3>7, <3>8 DEF Answered, all
    <3>10. e \in Entries_UpTo[n][a]
      BY <1>8 DEF all
    <3> QED
      BY <2>5, <3>9, <3>10 DEF Answers
  <2>11. CASE ~R(i).remove
    <3> DEFINE c == R(i).allowance
    <3>1. list = [a.inner EXCEPT ![i] = c] /\ left # {}
      BY <2>3, <2>11 DEF list
    <3>2. /\ c \in Nested[n - 1] /\ Valid(n - 1, c, depth + 1) /\ Numbered_UpTo[n - 1][c]
          /\ ExpiresAt_UpTo[n - 1][c] = ExpiresAt_UpTo[n - 1][a.inner[i]]
          /\ Entries_UpTo[n - 1][c] = left
      BY <2>3, <2>11 DEF Replaces
    <3> HIDE DEF left, c
    <3>3. /\ list \in Seq(Nested[n - 1]) /\ Len(list) = Len(a.inner) /\ list # <<>>
          /\ \A k \in 1..Len(list) : list[k] = IF k = i THEN c ELSE a.inner[k]
      BY <1>1, <3>1, <3>2
    <3>4. \A k \in 1..Len(list) : /\ k = i => Entries_UpTo[n - 1][list[k]] = left
                                  /\ k # i => Entries_UpTo[n - 1][list[k]] = E(k)
      BY <3>2, <3>3 DEF E
    <3>5. \A f : f \in After(all, e, fee) <=> \E k \in 1..Len(list) : f \in Entries_UpTo[n - 1][list[k]]
      BY <2>9, <3>3, <3>4
    <3>6. After(all, e, fee) # {}
      BY <2>9, <3>1
    <3>7. Replaces(n, [a EXCEPT !.inner = list], a, depth, After(all, e, fee))
      <4>1. \A k \in 1..Len(list) : /\ Valid(n - 1, list[k], depth + 1) /\ Numbered_UpTo[n - 1][list[k]]
                                    /\ ExpiresAt_UpTo[n - 1][list[k]] = ExpiresAt_UpTo[n][a]
        BY <1>3, <1>5, <1>6, <3>2, <3>3 DEF time
      <4>2. ASSUME NEW j \in 1..Len(list), NEW k \in 1..Len(list), j < k,
                   NEW l \in Entries_UpTo[n - 1][list[j]], NEW m \in Entries_UpTo[n - 1][list[k]]
            PROVE  l.leaf.id < m.leaf.id
        <5>1. \E g \in E(j) : l.leaf.id = g.leaf.id
          BY <2>8, <3>4 DEF left
        <5>2. \E h \in E(k) : m.leaf.id = h.leaf.id
          BY <2>8, <3>4 DEF left
        <5> QED
          BY <1>5, <3>3, <4>2, <5>1, <5>2
      <4>3. ExpiresAt_UpTo[n][a] # Inconsistent
        BY <1>3 DEF time
      <4> QED
        BY <1>3, <3>3, <3>5, <4>1, <4>2, <4>3, ListKeeps
    <3>8. Answered(n, a, depth, e, fee, msgs, r)
      BY <2>5, <2>6, <3>3, <3>6, <3>7 DEF Answered, all
    <3>9. e \in Entries_UpTo[n][a]
      BY <1>8 DEF all
    <3> QED
      BY <2>5, <3>8, <3>9 DEF Answers
  <2> QED
    BY <2>10, <2>11
<1>15. Answers(n, a, depth, fee, msgs, r)
  <2>1. CASE \E i \in 1..Len(a.inner) : /\ R(i).ok
                                        /\ \A j \in 1..Len(a.inner) : R(j).ok => i <= j
                                        /\ r = MultiRewrapped(a, i, R(i))
    BY <2>1, <1>14
  <2> QED
    BY <1>10, <1>13, <2>1 DEF r
<1> QED
  BY <1>15 DEF r

\* Every allowance that validates answers like the list of its leaves.
LEMMA AcceptAnswers ==
  ASSUME now \in Int, NEW n \in Levels, NEW a \in Nested[n], NEW depth \in Depths, Valid(n, a, depth),
         Numbered_UpTo[n][a], NEW fee \in Nat, NEW msgs \in Msgs
  PROVE  Answers(n, a, depth, fee, msgs, Accept_UpTo(fee)[n][<<a, msgs>>])
<1> DEFINE S == {m \in Levels : \A b \in Nested[m], d \in Depths, ms \in Msgs :
                   Valid(m, b, d) /\ Numbered_UpTo[m][b]
                     => Answers(m, b, d, fee, ms, Accept_UpTo(fee)[m][<<b, ms>>])}
<1>0. maxMultiAnyAllowanceDepth \in Nat /\ 0 \in Depths
  BY AllowanceAssumption DEF Depths
<1>1. ASSUME NEW m \in Levels, m # 0 => m - 1 \in S, NEW b \in Nested[m], NEW d \in Depths, NEW ms \in Msgs,
             Valid(m, b, d), Numbered_UpTo[m][b]
      PROVE  Answers(m, b, d, fee, ms, Accept_UpTo(fee)[m][<<b, ms>>])
  <2>1. CASE b \in Leaf
    BY <1>1, <2>1, LeafAnswers
  <2>2. CASE Authz(m, b)
    <3> DEFINE sub == AllMsgTypesAuthz(b.grantee, ms)
    <3>1. m # 0 /\ m - 1 \in Levels /\ b.inner \in Nested[m - 1] /\ b.grantee \in Grantees
      BY <2>2 DEF Authz
    <3>2. Valid(m - 1, b.inner, 0) /\ Numbered_UpTo[m - 1][b.inner]
      BY <1>1, <2>2, ValidValues, NumberedValues DEF Valid
    <3>3. sub # Refused => sub \in Msgs
      BY <3>1, MsgsAssumption
    <3>4. sub # Refused => Answers(m - 1, b.inner, 0, fee, sub, Accept_UpTo(fee)[m - 1][<<b.inner, sub>>])
      BY <1>0, <1>1, <3>1, <3>2, <3>3
    <3>5. Through(ms, ScopeOf(b)) = sub
      BY <2>2, MsgsAssumption DEF Through, ScopeOf, Authz
    <3>6. Accept_UpTo(fee)[m][<<b, ms>>] =
            IF sub = Refused THEN Refusal ELSE Rewrapped(b, Accept_UpTo(fee)[m - 1][<<b.inner, sub>>])
      <4>1. sub = AllMsgTypesAuthz(b.grantee, ms)
        OBVIOUS
      <4> HIDE DEF sub
      <4> QED
        BY ONLY <2>2, <4>1, AcceptAuthz, m \in Levels, b \in Nested[m], ms \in Msgs
    <3> HIDE DEF sub
    <3> QED
      BY <1>1, <2>2, <3>4, <3>5, <3>6, RestrictionAnswers
  <2>3. CASE OnContracts(m, b)
    <3> DEFINE sub == IF AllMsgsValidWasmExecs(b.contracts, ms) THEN ms ELSE Refused
    <3>1. m # 0 /\ m - 1 \in Levels /\ b.inner \in Nested[m - 1]
      BY <2>3 DEF OnContracts
    <3>2. Valid(m - 1, b.inner, 0) /\ Numbered_UpTo[m - 1][b.inner]
      BY <1>1, <2>3, ValidValues, NumberedValues DEF Valid
    <3>3. sub # Refused => sub \in Msgs
      OBVIOUS
    <3>4. sub # Refused => Answers(m - 1, b.inner, 0, fee, sub, Accept_UpTo(fee)[m - 1][<<b.inner, sub>>])
      <4> HIDE DEF sub
      <4> QED
        BY <1>0, <1>1, <3>1, <3>2, <3>3
    <3>5. Through(ms, ScopeOf(b)) = sub
      BY <2>3, MsgsAssumption DEF Through, ScopeOf, OnContracts
    <3>6. Accept_UpTo(fee)[m][<<b, ms>>] =
            IF sub = Refused THEN Refusal ELSE Rewrapped(b, Accept_UpTo(fee)[m - 1][<<b.inner, sub>>])
      <4>1. sub = IF AllMsgsValidWasmExecs(b.contracts, ms) THEN ms ELSE Refused
        OBVIOUS
      <4> HIDE DEF sub
      <4> QED
        BY ONLY <2>3, <4>1, AcceptContracts, m \in Levels, b \in Nested[m], ms \in Msgs
    <3> HIDE DEF sub
    <3> QED
      BY <1>1, <2>3, <3>4, <3>5, <3>6, RestrictionAnswers
  <2>4. CASE Multi(m, b)
    <3>1. m # 0 /\ m - 1 \in Levels /\ \A i \in 1..Len(b.inner) : b.inner[i] \in Nested[m - 1]
      BY <2>4, Members DEF Multi
    <3>2. /\ d <= maxMultiAnyAllowanceDepth
          /\ \A i \in 1..Len(b.inner) : Valid(m - 1, b.inner[i], d + 1) /\ Numbered_UpTo[m - 1][b.inner[i]]
      BY <1>1, <2>4, ValidValues, NumberedValues DEF Valid
    <3>3. d + 1 \in Depths
      BY <3>2, <1>0 DEF Depths
    <3>4. \A i \in 1..Len(b.inner) :
            Answers(m - 1, b.inner[i], d + 1, fee, ms, Accept_UpTo(fee)[m - 1][<<b.inner[i], ms>>])
      BY <1>1, <3>1, <3>2, <3>3
    <3> QED
      BY <1>1, <2>4, <3>4, ListAnswers
  <2> QED
    BY <2>1, <2>2, <2>3, <2>4, Kinds
<1>2. \A m \in Levels : (m # 0 => m - 1 \in S) => m \in S
  BY <1>1
<1>3. n \in S
  <2> HIDE DEF S
  <2> QED
    BY <1>2, AllLevels
<1> QED
  BY <1>3

-----------------------------------------------------------------------------
(***************************************************************************)
(* The grant. What was granted and what is left of it are compared entry   *)
(* by entry, so that a list that has lost members is still accounted for.  *)
(***************************************************************************)
Match(e, g, p) ==
  /\ g.leaf.id = e.leaf.id
  /\ g.leaf.limit = Unlimited <=> e.leaf.limit = Unlimited
  /\ g.leaf.limit # Unlimited => e.leaf.limit + p[g.leaf.id] = g.leaf.limit

\* A limit has not paid more than it had, and one that is gone has paid it all.
Settled(g, entries, p) ==
  g.leaf.limit # Unlimited =>
    /\ p[g.leaf.id] <= g.leaf.limit
    /\ p[g.leaf.id] = g.leaf.limit \/ \E e \in entries : e.leaf.id = g.leaf.id

Balanced(entries, first, p) ==
  /\ \A e \in entries : \E g \in first : Match(e, g, p)
  /\ \A g \in first : Settled(g, entries, p)

\* A fee that one of the entries pays keeps the balance.
LEMMA BalanceKept ==
  ASSUME now \in Int, NEW entries \in SUBSET Entry, NEW first \in SUBSET Entry,
         Distinct(entries), Distinct(first), \A e \in entries : LeafValid(e.leaf),
         NEW p \in [Leaves -> Nat], Balanced(entries, first, p),
         NEW e \in entries, NEW fee \in Nat, LeafPays(e.leaf, fee, now),
         NEW q, q = [p EXCEPT ![e.leaf.id] = @ + fee]
  PROVE  /\ q \in [Leaves -> Nat]
         /\ Balanced(After(entries, e, fee), first, q)
<1> DEFINE left == LeafCharged(e.leaf, fee, now)
           id == e.leaf.id
<1>1. e \in Entry /\ e.leaf \in Leaf /\ id \in Leaves /\ LeafValid(e.leaf)
  BY DEF Entry, Leaf
<1>2. /\ left \in Leaf /\ left.id = id
      /\ left.limit = Unlimited <=> e.leaf.limit = Unlimited
      /\ e.leaf.limit # Unlimited => left.limit = e.leaf.limit - fee /\ left.limit >= 0
  BY <1>1, LeafPaid
<1>3. /\ q \in [Leaves -> Nat] /\ q[id] = p[id] + fee
      /\ \A l \in Leaves : l # id => q[l] = p[l]
  BY <1>1
<1>4. Left(e, fee).leaf = left
  BY DEF Left
<1>5. \A f \in After(entries, e, fee) : (f \in entries /\ f # e) \/ (f = Left(e, fee) /\ ~LeafSpent(left))
  BY DEF After
<1>6. \A f \in entries : f # e => f.leaf.id # id /\ f \in After(entries, e, fee)
  BY DEF After, Distinct
<1>7. ~LeafSpent(left) => Left(e, fee) \in After(entries, e, fee)
  BY DEF After
<1>8. PICK g \in first : Match(e, g, p)
  BY DEF Balanced
<1>9. g \in Entry /\ g.leaf \in Leaf /\ g.leaf.id = id /\ p[id] \in Nat /\ g.leaf.limit \in Int \cup {Unlimited}
  BY <1>1, <1>8 DEF Entry, Leaf, Match
<1>10. e.leaf.limit \in Int \cup {Unlimited} /\ Unlimited \notin Int
  BY <1>1, LeafAssumption DEF Leaf
<1>11. ~LeafSpent(left) => Match(Left(e, fee), g, q)
  BY <1>2, <1>3, <1>4, <1>8, <1>9, <1>10 DEF Match
<1> HIDE DEF left, id
<1>12. ASSUME NEW f \in After(entries, e, fee)
       PROVE  \E h \in first : Match(f, h, q)
  <2>1. CASE f = Left(e, fee) /\ ~LeafSpent(left)
    BY <2>1, <1>11
  <2>2. CASE f \in entries /\ f # e
    <3>1. PICK h \in first : Match(f, h, p)
      BY <2>2 DEF Balanced
    <3>2. h.leaf.id \in Leaves /\ h.leaf.id # id
      BY <2>2, <3>1, <1>6 DEF Match, Entry, Leaf
    <3>3. Match(f, h, q)
      BY <3>1, <3>2, <1>3 DEF Match
    <3> QED
      BY <3>3
  <2> QED
    BY <1>5, <2>1, <2>2
<1>13. ASSUME NEW h \in first
       PROVE  Settled(h, After(entries, e, fee), q)
  <2>1. h.leaf.id \in Leaves /\ Settled(h, entries, p)
    BY DEF Balanced, Entry, Leaf
  <2>2. CASE h.leaf.id = id
    <3>1. h = g
      BY <2>2, <1>9 DEF Distinct
    <3>2. CASE LeafSpent(left)
      <4>1. g.leaf.limit # Unlimited => q[id] = g.leaf.limit
        BY <3>2, <1>2, <1>3, <1>8, <1>9, <1>10 DEF Match, LeafSpent
      <4> QED
        BY <4>1, <3>1, <1>9 DEF Settled
    <3>3. CASE ~LeafSpent(left)
      <4>1. Left(e, fee) \in After(entries, e, fee) /\ Left(e, fee).leaf.id = id
        BY <3>3, <1>2, <1>4, <1>7
      <4>2. g.leaf.limit # Unlimited => q[id] <= g.leaf.limit
        BY <1>2, <1>3, <1>8, <1>9, <1>10 DEF Match
      <4> QED
        BY <4>1, <4>2, <3>1, <1>9 DEF Settled
    <3> QED
      BY <3>2, <3>3
  <2>3. CASE h.leaf.id # id
    <3>1. q[h.leaf.id] = p[h.leaf.id]
      BY <2>1, <2>3, <1>3
    <3>2. \A f \in entries : f.leaf.id = h.leaf.id => f \in After(entries, e, fee)
      BY <2>3, <1>6 DEF id
    <3> QED
      BY <2>1, <3>1, <3>2 DEF Settled
  <2> QED
    BY <2>2, <2>3
<1> QED
  BY <1>3, <1>12, <1>13 DEF Balanced

\* A grant as it is made is in balance.
LEMMA BalanceMade ==
  ASSUME NEW entries \in SUBSET Entry, \A e \in entries : LeafValid(e.leaf)
  PROVE  Balanced(entries, entries, [l \in Leaves |-> 0])
<1> DEFINE p == [l \in Leaves |-> 0]
<1>1. ASSUME NEW e \in entries
      PROVE  Match(e, e, p) /\ Settled(e, entries, p)
  <2>1. /\ e.leaf.id \in Leaves /\ e.leaf.limit \in Int \cup {Unlimited} /\ Unlimited \notin Int
        /\ e.leaf.limit # Unlimited => e.leaf.limit > 0
    BY LeafAssumption DEF Entry, Leaf, LeafValid
  <2>2. p[e.leaf.id] = 0
    BY <2>1
  <2> QED
    BY <2>1, <2>2 DEF Match, Settled
<1> QED
  BY <1>1 DEF Balanced

\* The leaves of FlatAllowance are those of this module.
LEMMA FlatLeaf ==
  ASSUME NEW leaf, NEW fee, NEW time
  PROVE  /\ Flat!LeafPays(leaf, fee, time) <=> LeafPays(leaf, fee, time)
         /\ Flat!LeafCharged(leaf, fee, time) = LeafCharged(leaf, fee, time)
         /\ Flat!LeafSpent(leaf) <=> LeafSpent(leaf)
         /\ Flat!LeafValid(leaf) <=> LeafValid(leaf)
  BY DEF Flat!LeafPays, LeafPays, Flat!LeafCharged, LeafCharged, Flat!LeafSpent, LeafSpent,
         Flat!LeafValid, LeafValid, Flat!Reset, Reset, Flat!Least, Least

\* And so are its restrictions.
LEMMA FlatPassed ==
  ASSUME NEW msgs, NEW scopes
  PROVE  Flat!Passed(msgs, scopes) = Passed(msgs, scopes)
  BY DEF Flat!Passed, Passed, Flat!PassedUpTo, PassedUpTo, Flat!Through, Through,
         Flat!AllMsgTypesAuthz, AllMsgTypesAuthz, Flat!Seqs!FlattenSeq, Seqs!FlattenSeq,
         Flat!AllMsgsValidWasmExecs, AllMsgsValidWasmExecs

\* A limit pays there when its entry pays here, and with the same effect.
LEMMA FlatPays ==
  ASSUME NEW tx, NEW e \in Entry, NEW entries, NEW fee
  PROVE  /\ Flat!CanPay(e, tx) <=> Pays(e, tx.fee, tx.msgs)
         /\ Flat!Charged(entries, e, fee) = After(entries, e, fee)
<1>1. Flat!CanPay(e, tx) <=> Pays(e, tx.fee, tx.msgs)
  BY FlatLeaf, FlatPassed DEF Flat!CanPay, Pays
<1>2. [e EXCEPT !.leaf = LeafCharged(e.leaf, fee, now)] = Left(e, fee)
  BY DEF Left, Entry
<1>3. Flat!Charged(entries, e, fee) = After(entries, e, fee)
  BY <1>2, FlatLeaf DEF Flat!Charged, After
<1> QED
  BY <1>1, <1>3
-----------------------------------------------------------------------------
\* What may be granted and stored.
Granted(a) == a \in Allowances /\ ValidateBasic(a) /\ Numbered(a)

\* The inductive invariant: what is stored is valid, its queue entry is its
\* expiration, and it is in balance with what was granted.
Inv ==
  /\ now \in 0..MaxTime /\ paid \in [Leaves -> Nat]
  /\ allowance = None => expiry = None
  /\ granted # None =>
       /\ Granted(granted)
       /\ \A g \in Entries(granted) : g.leaf.limit # Unlimited => paid[g.leaf.id] <= g.leaf.limit
  /\ allowance # None =>
       /\ granted # None /\ Granted(allowance)
       /\ expiry = ExpiresAt(allowance)
       /\ Balanced(Entries(allowance), Entries(granted), paid)

\* What a grant that may be stored is made of.
LEMMA GrantedEntries ==
  ASSUME NEW a, Granted(a)
  PROVE  /\ a # None /\ Entries(a) \in SUBSET Entry /\ Entries(a) # {} /\ Distinct(Entries(a))
         /\ ExpiresAt(a) \in Int \cup {Never} /\ ExpiresAt(a) # None
         /\ \A e \in Entries(a) : LeafValid(e.leaf) /\ e.leaf.expiration = ExpiresAt(a)
<1>1. MaxNesting \in Levels /\ 0 \in Depths
  BY AllowanceAssumption DEF Levels, Depths
<1>2. a \in Nested[MaxNesting] /\ Valid(MaxNesting, a, 0) /\ Numbered_UpTo[MaxNesting][a]
  BY DEF Granted, Allowances, ValidateBasic, Valid, Numbered
<1>3. Entries_UpTo[MaxNesting][a] \in SUBSET Entry /\ Distinct(Entries_UpTo[MaxNesting][a])
  BY <1>1, <1>2, EntriesType, NumbersDistinct
<1>4. Sound(MaxNesting, a)
  BY <1>1, <1>2, ValidIsSound
<1>5. a # None /\ None \notin Int \cup {Never}
  BY AllowanceAssumption DEF Granted
<1> QED
  BY <1>3, <1>4, <1>5 DEF Sound, Entries, ExpiresAt

\* What Accept does to a stored grant.
LEMMA Accepted ==
  ASSUME now \in Int, NEW a, Granted(a), NEW tx \in Txs, NEW r, r = Accept(a, tx), r.ok
  PROVE  \E e \in Entries(a) :
           /\ First(Entries(a), e, tx.fee, tx.msgs)
           /\ r.leaf = e.leaf.id
           /\ r.remove <=> After(Entries(a), e, tx.fee) = {}
           /\ ~r.remove => /\ Granted(r.allowance)
                           /\ ExpiresAt(r.allowance) = ExpiresAt(a)
                           /\ Entries(r.allowance) = After(Entries(a), e, tx.fee)
<1>1. MaxNesting \in Levels /\ 0 \in Depths
  BY AllowanceAssumption DEF Levels, Depths
<1>2. a \in Nested[MaxNesting] /\ Valid(MaxNesting, a, 0) /\ Numbered_UpTo[MaxNesting][a]
  BY DEF Granted, Allowances, ValidateBasic, Valid, Numbered
<1>3. tx.fee \in Nat /\ tx.msgs \in Msgs
  BY MsgsAssumption
<1>4. Answers(MaxNesting, a, 0, tx.fee, tx.msgs, r)
  BY <1>1, <1>2, <1>3, AcceptAnswers DEF Accept
<1>5. PICK e \in Entries(a) : Answered(MaxNesting, a, 0, e, tx.fee, tx.msgs, r)
  BY <1>4 DEF Answers, Entries
<1>6. ~r.remove => /\ Granted(r.allowance)
                   /\ ExpiresAt(r.allowance) = ExpiresAt(a)
                   /\ Entries(r.allowance) = After(Entries(a), e, tx.fee)
  BY <1>5 DEF Answered, Replaces, Granted, Allowances, ValidateBasic, Valid, Numbered, ExpiresAt, Entries
<1> QED
  BY <1>5, <1>6 DEF Answered, Entries

\* No grant: nothing to keep.
LEMMA InitInv == Init => Inv
<1> SUFFICES ASSUME Init
             PROVE  Inv
  OBVIOUS
<1>1. 0 \in 0..MaxTime /\ [l \in Leaves |-> 0] \in [Leaves -> Nat]
  BY AllowanceAssumption
<1> QED
  BY <1>1 DEF Init, Inv

\* MsgGrantAllowance stores what ValidateBasic accepted.
LEMMA GrantInv ==
  ASSUME Inv, NEW a \in Proposals, GrantAllowance(a)
  PROVE  Inv'
<1>1. Granted(a)
  BY AllowanceAssumption DEF GrantAllowance, Granted
<1>2. Balanced(Entries(a), Entries(a), [l \in Leaves |-> 0])
  BY <1>1, GrantedEntries, BalanceMade
<1>3. /\ allowance' = a /\ granted' = a /\ expiry' = ExpiresAt(a)
      /\ paid' = [l \in Leaves |-> 0] /\ now' = now
  BY DEF GrantAllowance
<1>4. \A g \in Entries(a) : g.leaf.limit # Unlimited => paid'[g.leaf.id] <= g.leaf.limit
  BY <1>2, <1>3 DEF Balanced, Settled
<1>5. a # None
  BY <1>1, GrantedEntries
<1>6. now' \in 0..MaxTime /\ paid' \in [Leaves -> Nat]
  BY <1>3 DEF Inv
<1>7. Balanced(Entries(a), Entries(a), paid')
  BY <1>2, <1>3
<1> QED
  BY <1>1, <1>3, <1>4, <1>5, <1>6, <1>7 DEF Inv

\* UseGrantedFees stores what Accept leaves, or removes the grant.
LEMMA PayInv ==
  ASSUME Inv, NEW tx \in Txs, UseGrantedFees(tx)
  PROVE  Inv'
<1> DEFINE r == Accept(allowance, tx)
           A == Entries(allowance)
           G == Entries(granted)
<1>1. /\ allowance # None /\ r.ok
      /\ allowance' = IF r.remove THEN None ELSE r.allowance
      /\ expiry' = IF r.remove THEN None ELSE expiry
      /\ paid' = [paid EXCEPT ![r.leaf] = @ + tx.fee]
      /\ now' = now /\ granted' = granted
  BY DEF UseGrantedFees
<1>2. /\ now \in 0..MaxTime /\ now \in Int /\ paid \in [Leaves -> Nat]
      /\ granted # None /\ Granted(granted) /\ Granted(allowance)
      /\ expiry = ExpiresAt(allowance) /\ Balanced(A, G, paid)
  BY <1>1 DEF Inv
<1>3. tx.fee \in Nat
  BY MsgsAssumption
<1> HIDE DEF r
<1>4. PICK e \in A : /\ First(A, e, tx.fee, tx.msgs)
                     /\ r.leaf = e.leaf.id
                     /\ r.remove <=> After(A, e, tx.fee) = {}
                     /\ ~r.remove => /\ Granted(r.allowance)
                                     /\ ExpiresAt(r.allowance) = ExpiresAt(allowance)
                                     /\ Entries(r.allowance) = After(A, e, tx.fee)
  <2>1. r = Accept(allowance, tx)
    BY DEF r
  <2> QED
    BY <2>1, <1>1, <1>2, Accepted
<1> HIDE DEF A, G
<1>5. /\ A \in SUBSET Entry /\ Distinct(A) /\ \A f \in A : LeafValid(f.leaf)
      /\ G \in SUBSET Entry /\ Distinct(G)
  BY <1>2, GrantedEntries DEF A, G
<1>6. LeafPays(e.leaf, tx.fee, now)
  BY <1>4 DEF First, Pays
<1>7. paid' \in [Leaves -> Nat] /\ Balanced(After(A, e, tx.fee), G, paid')
  <2>1. paid' = [paid EXCEPT ![e.leaf.id] = @ + tx.fee]
    BY <1>1, <1>4
  <2> QED
    BY <2>1, <1>2, <1>3, <1>5, <1>6, BalanceKept
<1>8. \A g \in G : g.leaf.limit # Unlimited => paid'[g.leaf.id] <= g.leaf.limit
  BY <1>7 DEF Balanced, Settled
<1>9. now' \in 0..MaxTime
  BY <1>1, <1>2
<1>10. ~r.remove => r.allowance # None
  BY <1>4, GrantedEntries
<1>11. ~r.remove => Balanced(Entries(r.allowance), G, paid')
  BY <1>4, <1>7
<1> QED
  BY <1>1, <1>2, <1>4, <1>7, <1>8, <1>9, <1>10, <1>11 DEF Inv, G

\* A revocation leaves no grant and changes no account of what was paid.
LEMMA RevokeInv ==
  ASSUME Inv, RevokeAllowance
  PROVE  Inv'
  BY DEF Inv, RevokeAllowance

\* The end of a block removes a grant or leaves it.
LEMMA EndBlockInv ==
  ASSUME Inv, EndBlock
  PROVE  Inv'
  BY AllowanceAssumption DEF Inv, EndBlock

\* Every step keeps the invariant.
LEMMA StepInv == Inv /\ [Next]_vars => Inv'
<1> SUFFICES ASSUME Inv, [Next]_vars
             PROVE  Inv'
  OBVIOUS
<1>1. CASE \E a \in Proposals : GrantAllowance(a)
  BY <1>1, GrantInv
<1>2. CASE \E tx \in Txs : UseGrantedFees(tx)
  BY <1>2, PayInv
<1>3. CASE RevokeAllowance
  BY <1>3, RevokeInv
<1>4. CASE EndBlock
  BY <1>4, EndBlockInv
<1>5. CASE UNCHANGED vars
  BY <1>5 DEF vars, Inv
<1> QED
  BY <1>1, <1>2, <1>3, <1>4, <1>5 DEF Next

\* The invariant of the grant.
LEMMA InvHolds == Spec => []Inv
  BY InitInv, StepInv, PTL DEF Spec

\* What Accept writes back would be accepted from the granter again, for every
\* nesting: no empty list, no limit of zero, no list whose members expire at
\* different times.
THEOREM AllowancesStayValid == Spec => []TypeOK
<1>1. Inv => TypeOK
  BY DEF Inv, TypeOK, Granted
<1> QED
  BY <1>1, InvHolds, PTL

\* What each leaf has paid and what is left of it are what was granted, and a
\* leaf that has left its list has paid all it had: MultiAnyAllowance.Accept
\* removes no other leaf than the one that it charged.
THEOREM NothingIsLost == Spec => []NothingLost
<1>1. Inv => NothingLost
  <2> SUFFICES ASSUME Inv, granted # None, NEW g \in LeavesOf(granted), g.limit # Unlimited
               PROVE  /\ paid[g.id] <= g.limit
                      /\ allowance # None =>
                           \/ \E l \in LeavesOf(allowance) : l.id = g.id /\ l.limit + paid[g.id] = g.limit
                           \/ paid[g.id] = g.limit /\ \A l \in LeavesOf(allowance) : l.id # g.id
    BY DEF NothingLost
  <2>1. PICK f \in Entries(granted) : f.leaf = g
    BY DEF LeavesOf
  <2>2. paid[g.id] <= g.limit
    BY <2>1 DEF Inv
  <2>3. ASSUME allowance # None, NEW l \in LeavesOf(allowance), l.id = g.id
        PROVE  l.limit + paid[g.id] = g.limit
    <3>1. PICK e \in Entries(allowance) : e.leaf = l
      BY <2>3 DEF LeavesOf
    <3>2. PICK h \in Entries(granted) : Match(e, h, paid)
      BY <2>3 DEF Inv, Balanced
    <3>3. Distinct(Entries(granted))
      BY GrantedEntries DEF Inv
    <3>4. h = f
      BY <2>1, <2>3, <3>1, <3>2, <3>3 DEF Distinct, Match
    <3> QED
      BY <2>1, <3>1, <3>2, <3>4 DEF Match
  <2>4. ASSUME allowance # None, \A l \in LeavesOf(allowance) : l.id # g.id
        PROVE  paid[g.id] = g.limit
    <3>1. Settled(f, Entries(allowance), paid)
      BY <2>1, <2>4 DEF Inv, Balanced
    <3>2. \A e \in Entries(allowance) : e.leaf.id # f.leaf.id
      BY <2>1, <2>4 DEF LeavesOf
    <3> QED
      BY <2>1, <3>1, <3>2 DEF Settled
  <2> QED
    BY <2>2, <2>3, <2>4
<1> QED
  BY <1>1, InvHolds, PTL

\* The queue entry of a grant is the expiration of each leaf that is left, so
\* that no leaf outlives it or is removed before its time
\* (MultiAnyAllowance.ExpiresAt, and what Accept writes back).
THEOREM ExpiryIsKept == Spec => []ExpiryKept
<1>1. Inv => ExpiryKept
  <2> SUFFICES ASSUME Inv, allowance # None, NEW l \in LeavesOf(allowance)
               PROVE  l.expiration = expiry
    BY DEF ExpiryKept
  <2>1. PICK e \in Entries(allowance) : e.leaf = l
    BY DEF LeavesOf
  <2>2. Granted(allowance) /\ expiry = ExpiresAt(allowance)
    BY DEF Inv
  <2> QED
    BY <2>1, <2>2, GrantedEntries
<1> QED
  BY <1>1, InvHolds, PTL
-----------------------------------------------------------------------------
\* The limits of FlatAllowance, as FeeAllowance gives them.
limits == IF allowance = None THEN {} ELSE Entries(allowance)

\* A grant adds limits with numbers of their own and one expiration.
LEMMA FlatGrant ==
  ASSUME Inv, NEW a \in Proposals, GrantAllowance(a)
  PROVE  Flat!Grant
<1>1. Granted(a)
  BY AllowanceAssumption DEF GrantAllowance, Granted
<1>2. /\ allowance = None /\ allowance' = a /\ paid' = [l \in Leaves |-> 0] /\ now' = now
      /\ ExpiresAt(a) # Never => ExpiresAt(a) >= now
  BY DEF GrantAllowance
<1>3. a # None
  BY <1>1, GrantedEntries
<1>4. limits = {} /\ limits' = Entries(a)
  BY <1>2, <1>3 DEF limits, Entries
<1>5. \A l, m \in limits' : /\ l.leaf.id = m.leaf.id => l = m
                             /\ l.leaf.expiration = m.leaf.expiration
  BY <1>1, <1>4, GrantedEntries DEF Distinct
<1>6. \A l \in limits' : /\ Flat!LeafValid(l.leaf)
                          /\ l.leaf.expiration # Never => l.leaf.expiration >= now
  BY <1>1, <1>2, <1>4, GrantedEntries, FlatLeaf
<1> QED
  BY <1>2, <1>4, <1>5, <1>6 DEF Flat!Grant, limits

\* A fee is paid by the first limit that can pay it.
LEMMA FlatPay ==
  ASSUME Inv, NEW tx \in Txs, UseGrantedFees(tx)
  PROVE  Flat!Pay(tx)
<1> DEFINE r == Accept(allowance, tx)
           A == Entries(allowance)
<1>1. /\ allowance # None /\ r.ok
      /\ allowance' = IF r.remove THEN None ELSE r.allowance
      /\ paid' = [paid EXCEPT ![r.leaf] = @ + tx.fee]
      /\ now' = now
  BY DEF UseGrantedFees
<1>2. now \in Int /\ Granted(allowance)
  BY <1>1 DEF Inv
<1> HIDE DEF r
<1>3. PICK e \in A : /\ First(A, e, tx.fee, tx.msgs)
                     /\ r.leaf = e.leaf.id
                     /\ r.remove <=> After(A, e, tx.fee) = {}
                     /\ ~r.remove => /\ Granted(r.allowance)
                                     /\ ExpiresAt(r.allowance) = ExpiresAt(allowance)
                                     /\ Entries(r.allowance) = After(A, e, tx.fee)
  <2>1. r = Accept(allowance, tx)
    BY DEF r
  <2> QED
    BY <2>1, <1>1, <1>2, Accepted
<1>4. A \in SUBSET Entry
  BY <1>2, GrantedEntries
<1>5. limits = A
  BY <1>1 DEF limits
<1> HIDE DEF A
<1>6. limits' = After(A, e, tx.fee)
  <2>1. CASE r.remove
    BY <2>1, <1>1, <1>3 DEF limits
  <2>2. CASE ~r.remove
    <3>1. r.allowance # None
      BY <2>2, <1>3, GrantedEntries
    <3> QED
      BY <2>2, <3>1, <1>1, <1>3 DEF limits, Entries
  <2> QED
    BY <2>1, <2>2
<1>7. /\ e \in limits /\ Flat!CanPay(e, tx)
      /\ \A before \in limits : before.leaf.id < e.leaf.id => ~Flat!CanPay(before, tx)
  BY <1>3, <1>4, <1>5, FlatPays DEF First
<1>8. limits' = Flat!Charged(limits, e, tx.fee)
  BY <1>4, <1>5, <1>6, FlatPays
<1>9. paid' = [paid EXCEPT ![e.leaf.id] = @ + tx.fee]
  BY <1>1, <1>3
<1> QED
  BY <1>1, <1>7, <1>8, <1>9 DEF Flat!Pay, limits

\* A revocation ends them all.
LEMMA FlatRevoke ==
  ASSUME RevokeAllowance
  PROVE  Flat!Revoke
  BY DEF RevokeAllowance, Flat!Revoke

\* And so does their expiration, when the queue comes to it.
LEMMA FlatEndBlock ==
  ASSUME Inv, EndBlock
  PROVE  Flat!EndBlock
<1>1. now' = now + 1 /\ paid' = paid
  BY DEF EndBlock
<1>2. CASE UNCHANGED <<allowance, expiry>>
  <2>1. limits' = limits
    BY <1>2 DEF limits, Entries
  <2> QED
    BY <1>1, <2>1 DEF Flat!EndBlock, limits
<1>3. CASE expiry \notin {None, Never} /\ expiry <= now /\ allowance' = None /\ expiry' = None
  <2>1. allowance # None /\ Granted(allowance) /\ expiry = ExpiresAt(allowance)
    BY <1>3 DEF Inv
  <2>2. \A l \in limits : l.leaf.expiration # Never /\ l.leaf.expiration <= now
    BY <1>3, <2>1, GrantedEntries DEF limits
  <2>3. limits' = {}
    BY <1>3 DEF limits
  <2> QED
    BY <1>1, <2>2, <2>3 DEF Flat!EndBlock, limits
<1> QED
  BY <1>2, <1>3 DEF EndBlock

\* A nested allowance is, for every nesting within the bound, the flat list of
\* its leaves: Accept of the three types of x/xion charges the first leaf that
\* can pay behind restrictions that admit the messages, changes no other, and
\* ends the grant with its last leaf; the end of a block ends it only at the
\* time of all of them.
THEOREM ImplementsFlat == Spec => RefinesFlat
<1>1. Init => Flat!Init
  BY DEF Init, Flat!Init
<1>2. Inv /\ [Next]_vars => [Flat!Next]_<<limits, now, paid>>
  <2> SUFFICES ASSUME Inv, [Next]_vars
               PROVE  [Flat!Next]_<<limits, now, paid>>
    OBVIOUS
  <2>1. CASE \E a \in Proposals : GrantAllowance(a)
    BY <2>1, FlatGrant DEF Flat!Next
  <2>2. CASE \E tx \in Txs : UseGrantedFees(tx)
    BY <2>2, FlatPay DEF Flat!Next
  <2>3. CASE RevokeAllowance
    BY <2>3, FlatRevoke DEF Flat!Next
  <2>4. CASE EndBlock
    BY <2>4, FlatEndBlock DEF Flat!Next
  <2>5. CASE UNCHANGED vars
    BY <2>5 DEF vars, limits, Entries
  <2> QED
    BY <2>1, <2>2, <2>3, <2>4, <2>5 DEF Next
<1> QED
  BY <1>1, <1>2, InvHolds, PTL DEF Spec, RefinesFlat, Flat!Spec, limits
=============================================================================
