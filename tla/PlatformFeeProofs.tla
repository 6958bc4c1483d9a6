------------------------- MODULE PlatformFeeProofs -------------------------
(***************************************************************************)
(* What x/xion keeps for every set of users and denominations, every       *)
(* amount, every percentage and any number of outputs.                     *)
(***************************************************************************)
EXTENDS PlatformFee, FiniteSetTheorems, SequenceTheorems, WellFoundedInduction, TLAPS

-----------------------------------------------------------------------------
(***************************************************************************)
(* Totals. Induction over the naturals is carried out through the least    *)
(* element of the set of counterexamples: the provers cannot instantiate   *)
(* an induction theorem that takes a predicate as a parameter.             *)
(***************************************************************************)
\* Every non-empty set of naturals has a least element.
LEMMA LeastNatural ==
  ASSUME NEW T \in SUBSET Nat, T # {}
  PROVE  \E x \in T : \A y \in T : x <= y
<1>1. PICK x \in T : \A y \in T : ~ (<<y, x>> \in OpToRel(<, Nat))
  BY NatLessThanWellFounded, WFMin, Zenon
<1>2. \A y \in T : ~ (y < x)
  BY <1>1 DEF OpToRel
<1> QED
  BY <1>2

\* Multiplication distributes over addition: on its own, so that no other
\* hypothesis distracts the solver from this nonlinear fact.
LEMMA Distributes ==
  ASSUME NEW b \in Nat, NEW x \in Nat, NEW y \in Nat
  PROVE  b * (x + y) = b * x + b * y
  OBVIOUS

\* A set that contains 0 and the successor of its members contains every
\* natural number.
LEMMA NaturalsInSet ==
  ASSUME NEW S, 0 \in S, \A n \in Nat : n \in S => n + 1 \in S
  PROVE  \A n \in Nat : n \in S
<1> DEFINE T == {n \in Nat : n \notin S}
<1> SUFFICES ASSUME T # {} PROVE FALSE
  OBVIOUS
<1>1. PICK x \in T : \A y \in T : x <= y
  BY LeastNatural
<1>2. x # 0
  BY <1>1
<1>3. x - 1 \in Nat /\ x - 1 \notin T
  BY <1>1, <1>2
<1> QED
  BY <1>3, <1>1

\* g holds the running totals of s up to index n.
IsRunningTotal(g, s, n) ==
  /\ g \in [0..n -> Nat]
  /\ g[0] = 0
  /\ \A i \in 1..n : g[i] = g[i-1] + s[i]

\* The recursive function of RunningTotal exists and has the values its
\* equation gives it.
LEMMA RunningTotalDef ==
  ASSUME NEW n \in Nat, NEW s \in [1..n -> Nat]
  PROVE  IsRunningTotal(RunningTotal(s), s, n)
<1> DEFINE S == {m \in Nat : m <= n => \E g : IsRunningTotal(g, s, m)}
<1>0. Len(s) = n /\ DOMAIN s = 1..n /\ \A i \in 1..n : s[i] \in Nat
  OBVIOUS
<1>1. 0 \in S
  <2> DEFINE g == [i \in 0..0 |-> 0]
  <2>1. IsRunningTotal(g, s, 0)
    BY DEF IsRunningTotal
  <2> QED
    BY <2>1
<1>2. ASSUME NEW m \in Nat, m \in S PROVE m + 1 \in S
  <2>1. SUFFICES ASSUME m + 1 <= n PROVE \E g : IsRunningTotal(g, s, m + 1)
    BY <1>2
  <2>2. PICK h : IsRunningTotal(h, s, m)
    BY <1>2, <2>1
  <2> DEFINE g == [i \in 0..(m+1) |-> IF i = m + 1 THEN h[m] + s[m+1] ELSE h[i]]
  <2>3. h[m] \in Nat /\ s[m+1] \in Nat
    BY <2>1, <2>2, <1>0 DEF IsRunningTotal
  <2>4. g \in [0..(m+1) -> Nat]
    BY <2>2, <2>3 DEF IsRunningTotal
  <2>5. g[0] = 0
    BY <2>2 DEF IsRunningTotal
  <2>6. ASSUME NEW i \in 1..(m+1) PROVE g[i] = g[i-1] + s[i]
    <3>1. CASE i = m + 1
      <4>1. g[i] = h[m] + s[m+1] /\ g[i-1] = h[m]
        BY <3>1
      <4> QED
        BY <4>1, <3>1
    <3>2. CASE i # m + 1
      <4>1. i \in 1..m /\ i - 1 \in 0..m
        BY <3>2
      <4>2. g[i] = h[i] /\ g[i-1] = h[i-1]
        BY <4>1
      <4> QED
        BY <4>1, <4>2, <2>2 DEF IsRunningTotal
    <3> QED
      BY <3>1, <3>2
  <2> HIDE DEF g
  <2>7. IsRunningTotal(g, s, m + 1)
    BY <2>4, <2>5, <2>6 DEF IsRunningTotal
  <2> QED
    BY <2>7
<1>3. n \in S
  <2> HIDE DEF S
  <2> QED
    BY <1>1, <1>2, NaturalsInSet
<1>4. PICK g : IsRunningTotal(g, s, n)
  BY <1>3
<1> DEFINE Eq(f) == f = [i \in 0..n |-> IF i = 0 THEN 0 ELSE f[i-1] + s[i]]
<1>5. Eq(g)
  BY <1>4, <1>0 DEF IsRunningTotal
<1>6. RunningTotal(s) = CHOOSE f : Eq(f)
  BY <1>0 DEF RunningTotal
<1>7. Eq(RunningTotal(s))
  <2> HIDE DEF Eq
  <2> QED
    BY <1>5, <1>6
<1> DEFINE f == RunningTotal(s)
<1>8. DOMAIN f = 0..n /\ f[0] = 0 /\ \A i \in 1..n : f[i] = f[i-1] + s[i]
  <2>1. f = [i \in 0..n |-> IF i = 0 THEN 0 ELSE f[i-1] + s[i]]
    BY <1>7
  <2> HIDE DEF f
  <2>2. DOMAIN f = 0..n /\ f[0] = 0
    BY <2>1
  <2>3. ASSUME NEW i \in 1..n PROVE f[i] = f[i-1] + s[i]
    BY <2>1
  <2> QED
    BY <2>2, <2>3
<1>9. \A i \in 0..n : f[i] \in Nat
  <2> DEFINE V == {i \in Nat : i <= n => f[i] \in Nat}
  <2> HIDE DEF f
  <2>1. 0 \in V
    BY <1>8
  <2>2. ASSUME NEW i \in Nat, i \in V PROVE i + 1 \in V
    <3>1. SUFFICES ASSUME i + 1 <= n PROVE f[i+1] \in Nat
      OBVIOUS
    <3>2. i + 1 \in 1..n /\ i <= n
      BY <3>1
    <3>3. f[i+1] = f[i] + s[i+1]
      BY <1>8, <3>2
    <3> QED
      BY <3>2, <3>3, <2>2, <1>0
  <2>3. \A i \in Nat : i \in V
    <3> HIDE DEF V
    <3> QED
      BY <2>1, <2>2, NaturalsInSet
  <2> QED
    BY <2>3
<1>10. f = [i \in 0..n |-> IF i = 0 THEN 0 ELSE f[i-1] + s[i]]
  BY <1>7
<1> HIDE DEF f
<1>11. f \in [0..n -> Nat]
  BY <1>8, <1>9, <1>10
<1>12. IsRunningTotal(f, s, n)
  BY <1>8, <1>11 DEF IsRunningTotal
<1> QED
  BY <1>12 DEF f

\* The total of a sequence of naturals is a natural.
LEMMA TotalType ==
  ASSUME NEW n \in Nat, NEW s \in [1..n -> Nat]
  PROVE  Total(s) \in Nat
<1>1. Len(s) = n
  OBVIOUS
<1> QED
  BY <1>1, RunningTotalDef DEF Total, IsRunningTotal

\* The naturals are closed under multiplication, and a product grows with
\* each factor.
LEMMA ProductNat ==
  ASSUME NEW x \in Nat, NEW y \in Nat
  PROVE  x * y \in Nat
OBVIOUS

\* A product grows with its factors.
LEMMA ProductMonotone ==
  ASSUME NEW x \in Nat, NEW y \in Nat, NEW z \in Nat, y <= z
  PROVE  x * y <= x * z
<1>1. PICK k \in Nat : z = y + k
  <2>1. z - y \in Nat /\ z = y + (z - y)
    OBVIOUS
  <2> QED
    BY <2>1
<1>2. x * (y + k) = x * y + x * k
  BY Distributes
<1>3. x * y \in Nat /\ x * k \in Nat
  BY ProductNat
<1> QED
  BY <1>1, <1>2, <1>3

\* An inequality between multiples of the elements carries over to the
\* totals.
LEMMA TotalScaled ==
  ASSUME NEW n \in Nat, NEW s \in [1..n -> Nat], NEW t \in [1..n -> Nat],
         NEW a \in Nat, NEW b \in Nat,
         \A i \in 1..n : a * t[i] >= b * s[i]
  PROVE  a * Total(t) >= b * Total(s)
<1> DEFINE f == RunningTotal(s)
           g == RunningTotal(t)
           V == {i \in Nat : i <= n => a * g[i] >= b * f[i]}
<1>0. Len(s) = n /\ Len(t) = n
  OBVIOUS
<1>1. IsRunningTotal(f, s, n) /\ IsRunningTotal(g, t, n)
  BY RunningTotalDef
<1> HIDE DEF f, g
<1>2. 0 \in V
  BY <1>1 DEF IsRunningTotal
<1>3. ASSUME NEW i \in Nat, i \in V PROVE i + 1 \in V
  <2>1. SUFFICES ASSUME i + 1 <= n PROVE a * g[i+1] >= b * f[i+1]
    OBVIOUS
  <2>2. i + 1 \in 1..n /\ i \in 0..n /\ i <= n
    BY <2>1
  <2>3. /\ f[i+1] = f[i] + s[i+1] /\ f[i] \in Nat /\ s[i+1] \in Nat
        /\ g[i+1] = g[i] + t[i+1] /\ g[i] \in Nat /\ t[i+1] \in Nat
    BY <1>1, <2>2 DEF IsRunningTotal
  <2>4. a * g[i] >= b * f[i] /\ a * t[i+1] >= b * s[i+1]
    BY <1>3, <2>2
  <2>5. a * (g[i] + t[i+1]) = a * g[i] + a * t[i+1]
    BY ONLY <2>3, a \in Nat, Distributes
  <2>6. b * (f[i] + s[i+1]) = b * f[i] + b * s[i+1]
    BY ONLY <2>3, b \in Nat, Distributes
  <2>7. \A u, v, x, y \in Nat : u >= x /\ v >= y => u + v >= x + y
    OBVIOUS
  <2>8. /\ a * g[i] \in Nat /\ a * t[i+1] \in Nat
        /\ b * f[i] \in Nat /\ b * s[i+1] \in Nat
    BY <2>3, ProductNat
  <2>9. a * (g[i] + t[i+1]) >= b * (f[i] + s[i+1])
    BY ONLY <2>4, <2>5, <2>6, <2>7, <2>8
  <2> QED
    BY ONLY <2>3, <2>9
<1>4. n \in V
  <2> HIDE DEF V
  <2> QED
    BY <1>2, <1>3, NaturalsInSet
<1> QED
  BY <1>0, <1>4 DEF Total, f, g

\* A sequence of zeros adds up to zero.
LEMMA TotalZero ==
  ASSUME NEW n \in Nat, NEW s \in [1..n -> Nat], \A i \in 1..n : s[i] = 0
  PROVE  Total(s) = 0
<1>1. 0 * Total(s) >= 1 * Total(s)
  <2>1. \A i \in 1..n : 0 * s[i] >= 1 * s[i]
    OBVIOUS
  <2> QED
    BY <2>1, TotalScaled
<1> QED
  BY <1>1, TotalType

\* One more element adds itself to the total.
LEMMA TotalAppend ==
  ASSUME NEW n \in Nat, NEW s \in [1..n -> Nat], NEW r \in [1..(n+1) -> Nat],
         \A i \in 1..n : r[i] = s[i]
  PROVE  Total(r) = Total(s) + r[n+1]
<1> DEFINE f == RunningTotal(s)
           g == RunningTotal(r)
           V == {i \in Nat : i <= n => g[i] = f[i]}
<1>0. Len(s) = n /\ Len(r) = n + 1
  OBVIOUS
<1>1. IsRunningTotal(f, s, n) /\ IsRunningTotal(g, r, n + 1)
  BY RunningTotalDef
<1> HIDE DEF f, g
<1>2. 0 \in V
  BY <1>1 DEF IsRunningTotal
<1>3. ASSUME NEW i \in Nat, i \in V PROVE i + 1 \in V
  <2>1. SUFFICES ASSUME i + 1 <= n PROVE g[i+1] = f[i+1]
    OBVIOUS
  <2>2. i + 1 \in 1..n /\ i + 1 \in 1..(n+1) /\ i <= n
    BY <2>1
  <2>3. f[i+1] = f[i] + s[i+1] /\ g[i+1] = g[i] + r[i+1]
    BY <1>1, <2>2 DEF IsRunningTotal
  <2> QED
    BY <1>3, <2>2, <2>3
<1>4. n \in V
  <2> HIDE DEF V
  <2> QED
    BY <1>2, <1>3, NaturalsInSet
<1>5. g[n+1] = g[n] + r[n+1]
  BY <1>1 DEF IsRunningTotal
<1> QED
  BY <1>0, <1>4, <1>5 DEF Total, f, g

\* A sequence with one element that may differ from zero adds up to it.
LEMMA TotalSingle ==
  ASSUME NEW n \in Nat, NEW s \in [1..n -> Nat], NEW k \in 1..n,
         \A i \in 1..n : i # k => s[i] = 0
  PROVE  Total(s) = s[k]
<1> DEFINE f == RunningTotal(s)
           V == {i \in Nat : i <= n => f[i] = IF i < k THEN 0 ELSE s[k]}
<1>0. Len(s) = n /\ s[k] \in Nat
  OBVIOUS
<1>1. IsRunningTotal(f, s, n)
  BY RunningTotalDef
<1> HIDE DEF f
<1>2. 0 \in V
  BY <1>1 DEF IsRunningTotal
<1>3. ASSUME NEW i \in Nat, i \in V PROVE i + 1 \in V
  <2>1. SUFFICES ASSUME i + 1 <= n PROVE f[i+1] = IF i + 1 < k THEN 0 ELSE s[k]
    OBVIOUS
  <2>2. i + 1 \in 1..n /\ i <= n
    BY <2>1
  <2>3. f[i+1] = f[i] + s[i+1] /\ f[i] = IF i < k THEN 0 ELSE s[k]
    BY <1>1, <1>3, <2>2 DEF IsRunningTotal
  <2>4. i + 1 # k => s[i+1] = 0
    BY <2>2
  <2> QED
    BY <1>0, <2>3, <2>4
<1>4. n \in V
  <2> HIDE DEF V
  <2> QED
    BY <1>2, <1>3, NaturalsInSet
<1> QED
  BY <1>0, <1>4 DEF Total, f

-----------------------------------------------------------------------------
(***************************************************************************)
(* Coins.                                                                  *)
(***************************************************************************)
\* Totals of coins are coins.
LEMMA TotalCoinsType ==
  ASSUME NEW n \in Nat, NEW cs \in [1..n -> Coins]
  PROVE  TotalCoins(cs) \in Coins
<1>1. Len(cs) = n
  OBVIOUS
<1>2. ASSUME NEW d \in Denoms PROVE Total([i \in 1..n |-> cs[i][d]]) \in Nat
  <2>1. [i \in 1..n |-> cs[i][d]] \in [1..n -> Nat]
    BY DEF Coins
  <2> QED
    BY <2>1, TotalType
<1> QED
  BY <1>1, <1>2 DEF TotalCoins, Coins

\* The fee of an amount is a natural number, at most the amount and at least
\* the percentage of it.
LEMMA ShareBounds ==
  ASSUME NEW a \in Nat, NEW p \in 0..FullPercentage
  PROVE  /\ PlatformShare(a, p) \in Nat
         /\ PlatformShare(a, p) <= a
         /\ FullPercentage * PlatformShare(a, p) >= p * a
<1>1. a * p \in Nat /\ p * a = a * p
  BY ProductNat DEF FullPercentage
<1>2. a * p <= a * 10000
  BY ProductMonotone DEF FullPercentage
<1>3. \A q \in Nat : /\ (q + (10000 - 1)) \div 10000 \in Nat
                     /\ q <= a * 10000 => (q + (10000 - 1)) \div 10000 <= a
                     /\ 10000 * ((q + (10000 - 1)) \div 10000) >= q
  OBVIOUS
<1>4. PlatformShare(a, p) = (a * p + (10000 - 1)) \div 10000
  BY DEF PlatformShare, FullPercentage
<1>5. /\ PlatformShare(a, p) \in Nat
      /\ PlatformShare(a, p) <= a
      /\ 10000 * PlatformShare(a, p) >= a * p
  BY ONLY <1>1, <1>2, <1>3, <1>4
<1> QED
  BY <1>1, <1>5 DEF FullPercentage

\* The fee of an amount of coins.
LEMMA PlatformCoinsBounds ==
  ASSUME NEW c \in Coins, NEW p \in 0..FullPercentage
  PROVE  /\ getPlatformCoins(c, p) \in Coins
         /\ Minus(c, getPlatformCoins(c, p)) \in Coins
         /\ \A d \in Denoms :
              /\ getPlatformCoins(c, p)[d] <= c[d]
              /\ FullPercentage * getPlatformCoins(c, p)[d] >= p * c[d]
<1>1. ASSUME NEW d \in Denoms
      PROVE  /\ getPlatformCoins(c, p)[d] = PlatformShare(c[d], p)
             /\ c[d] \in Nat
  BY DEF getPlatformCoins, Coins
<1>2. ASSUME NEW d \in Denoms
      PROVE  /\ getPlatformCoins(c, p)[d] \in Nat
             /\ getPlatformCoins(c, p)[d] <= c[d]
             /\ FullPercentage * getPlatformCoins(c, p)[d] >= p * c[d]
  BY <1>1, ShareBounds
<1>3. getPlatformCoins(c, p) \in Coins
  BY <1>2 DEF Coins, getPlatformCoins
<1>4. ASSUME NEW d \in Denoms PROVE c[d] - getPlatformCoins(c, p)[d] \in Nat
  BY <1>1, <1>2
<1> QED
  BY <1>2, <1>3, <1>4 DEF Minus, Coins

\* Of a percentage above 100% no amount can pay the fee: one that can shows that
\* the percentage in force is none, wherever it came from.
LEMMA FeeCovered ==
  ASSUME platformPercentage \in Nat, NEW c \in Coins, c # ZeroCoins, Covers(c, SendFee(c))
  PROVE  platformPercentage \in 0..FullPercentage
<1> DEFINE p == platformPercentage
<1> SUFFICES ASSUME p > 10000 PROVE FALSE
  BY DEF FullPercentage
<1>1. PICK d \in Denoms : c[d] # 0
  BY DEF Coins, ZeroCoins
<1> DEFINE a == c[d]
<1>2. a \in Nat /\ a >= 1
  BY <1>1 DEF Coins
<1>3. a >= PlatformShare(a, p)
  BY <1>1 DEF Covers, SendFee, getPlatformCoins
<1> HIDE DEF a, p
<1>4. p \in Nat
  BY DEF p
<1>5. a * p \in Nat /\ a * 10001 <= a * p
  BY <1>2, <1>4, ProductNat, ProductMonotone
<1>6. a * 10001 = a * 10000 + a
  BY <1>2
<1>7. \A q \in Nat : q >= a * 10000 + 1 => (q + (10000 - 1)) \div 10000 >= a + 1
  BY <1>2
<1>8. PlatformShare(a, p) = (a * p + (10000 - 1)) \div 10000
  BY DEF PlatformShare, FullPercentage
<1>9. a * p >= a * 10000 + 1
  BY <1>2, <1>5, <1>6
<1>10. PlatformShare(a, p) >= a + 1
  BY <1>5, <1>7, <1>8, <1>9
<1>11. PlatformShare(a, p) \in Nat
  BY <1>5, <1>8
<1> QED
  BY <1>2, <1>3, <1>10, <1>11

\* A transfer the sender can pay keeps the balances well typed, moves amt
\* from one account to the other and leaves the rest alone.
LEMMA SendCoinsEffect ==
  ASSUME NEW bal \in [Accounts -> Coins], NEW from \in Accounts, NEW to \in Accounts,
         NEW amt \in Coins, Covers(bal[from], amt)
  PROVE  /\ SendCoins(bal, from, to, amt) \in [Accounts -> Coins]
         /\ from # to => /\ SendCoins(bal, from, to, amt)[from] = Minus(bal[from], amt)
                         /\ SendCoins(bal, from, to, amt)[to] = Plus(bal[to], amt)
         /\ \A a \in Accounts \ {from, to} : SendCoins(bal, from, to, amt)[a] = bal[a]
<1>1. Minus(bal[from], amt) \in Coins
  BY DEF Covers, Minus, Coins
<1> DEFINE debited == [bal EXCEPT ![from] = Minus(@, amt)]
<1>2. debited \in [Accounts -> Coins]
  BY <1>1
<1>3. Plus(debited[to], amt) \in Coins
  BY <1>2 DEF Plus, Coins
<1>4. SendCoins(bal, from, to, amt) = [debited EXCEPT ![to] = Plus(@, amt)]
  BY DEF SendCoins
<1>5. from # to => debited[to] = bal[to]
  OBVIOUS
<1> QED
  BY <1>1, <1>2, <1>3, <1>4, <1>5

\* What a sequence of outputs credits to an account: coins, nothing when no
\* output names the account, and a last output that does adds to it.
LEMMA CreditToEffect ==
  ASSUME NEW n \in Nat, NEW outs \in [1..n -> [to : Accounts, coins : Coins]], NEW a
  PROVE  /\ CreditTo(outs, a) \in Coins
         /\ (\A i \in 1..n : outs[i].to # a) => CreditTo(outs, a) = ZeroCoins
<1> DEFINE s(d) == [i \in 1..n |-> IF outs[i].to = a THEN outs[i].coins[d] ELSE 0]
<1>1. Len(outs) = n
  OBVIOUS
<1>2. \A d \in Denoms : s(d) \in [1..n -> Nat]
  BY DEF Coins
<1>3. CreditTo(outs, a) = [d \in Denoms |-> Total(s(d))]
  BY <1>1 DEF CreditTo
<1>4. ASSUME NEW d \in Denoms PROVE Total(s(d)) \in Nat
  <2> HIDE DEF s
  <2> QED
    BY <1>2, TotalType
<1>5. ASSUME \A i \in 1..n : outs[i].to # a, NEW d \in Denoms PROVE Total(s(d)) = 0
  <2>1. \A i \in 1..n : s(d)[i] = 0
    BY <1>5
  <2> HIDE DEF s
  <2> QED
    BY <1>2, <2>1, TotalZero
<1> HIDE DEF s
<1> QED
  BY <1>3, <1>4, <1>5 DEF Coins, ZeroCoins

\* An output to a new account credits it with that output.
LEMMA CreditToAppend ==
  ASSUME NEW n \in Nat, NEW outs \in [1..n -> [to : Accounts, coins : Coins]],
         NEW a \in Accounts, NEW c \in Coins, \A i \in 1..n : outs[i].to # a
  PROVE  /\ outs \o <<[to |-> a, coins |-> c]>> \in [1..(n+1) -> [to : Accounts, coins : Coins]]
         /\ CreditTo(outs \o <<[to |-> a, coins |-> c]>>, a) = c
<1> DEFINE more == outs \o <<[to |-> a, coins |-> c]>>
           s == [i \in 1..n |-> 0]
           r(d) == [i \in 1..(n+1) |-> IF more[i].to = a THEN more[i].coins[d] ELSE 0]
<1>1. outs \in Seq([to : Accounts, coins : Coins]) /\ Len(outs) = n
  <2> DEFINE S == [to : Accounts, coins : Coins]
  <2>1. outs \in [1..n -> S]
    OBVIOUS
  <2> HIDE DEF S
  <2>2. outs \in Seq(S)
    BY <2>1, SeqDef, Zenon
  <2> QED
    BY <2>1, <2>2 DEF S
<1>2. /\ Len(more) = n + 1
      /\ \A i \in 1..n : more[i] = outs[i]
      /\ more[n+1] = [to |-> a, coins |-> c]
      /\ more \in Seq([to : Accounts, coins : Coins])
  BY <1>1
<1>3. more \in [1..(n+1) -> [to : Accounts, coins : Coins]]
  BY <1>2, LenProperties
<1> HIDE DEF more
<1>4. ASSUME NEW d \in Denoms PROVE Total(r(d)) = c[d]
  <2>1. r(d) \in [1..(n+1) -> Nat]
    BY <1>3 DEF Coins
  <2>2. s \in [1..n -> Nat] /\ \A i \in 1..n : s[i] = 0
    OBVIOUS
  <2>3. \A i \in 1..n : r(d)[i] = s[i]
    BY <1>2
  <2>4. r(d)[n+1] = c[d]
    BY <1>2
  <2>5. c[d] \in Nat
    BY DEF Coins
  <2> HIDE DEF r, s
  <2>6. Total(s) = 0
    BY <2>2, TotalZero
  <2>7. Total(r(d)) = Total(s) + r(d)[n+1]
    BY <2>1, <2>2, <2>3, TotalAppend
  <2> QED
    BY <2>4, <2>5, <2>6, <2>7
<1>5. CreditTo(more, a) = [d \in Denoms |-> Total(r(d))]
  BY <1>2 DEF CreditTo
<1> HIDE DEF r
<1>6. CreditTo(more, a) = [d \in Denoms |-> c[d]]
  BY <1>4, <1>5
<1>7. CreditTo(more, a) = c
  BY <1>6 DEF Coins
<1> QED
  BY <1>3, <1>7 DEF more

\* What a MultiSend of n outputs moves: the fee and the credits are coins,
\* the fee collector is credited with the fee and distribution with nothing,
\* and the fee lies between the percentage of the input and the input.
LEMMA MultiSendEffect ==
  ASSUME NEW n \in Nat, NEW outputs \in [1..n -> [to : Accounts, coins : Coins]],
         platformPercentage \in 0..FullPercentage,
         \A i \in 1..n : ~ BlockedAddr(outputs[i].to)
  PROVE  /\ InputOf(outputs) \in Coins
         /\ MultiSendFee(outputs) \in Coins
         /\ \A a \in Accounts : CreditTo(MultiSendOutputs(outputs), a) \in Coins
         /\ CreditTo(MultiSendOutputs(outputs), FeeCollector) = MultiSendFee(outputs)
         /\ CreditTo(MultiSendOutputs(outputs), Distribution) = ZeroCoins
         /\ \A d \in Denoms :
              /\ MultiSendFee(outputs)[d] <= InputOf(outputs)[d]
              /\ FullPercentage * MultiSendFee(outputs)[d]
                   >= platformPercentage * InputOf(outputs)[d]
<1> DEFINE p == platformPercentage
           paid(d) == [i \in 1..n |-> outputs[i].coins[d]]
           fees(d) == [i \in 1..n |-> getPlatformCoins(outputs[i].coins, p)[d]]
<1>1. Len(outputs) = n /\ \A i \in 1..n : outputs[i].to \in Accounts /\ outputs[i].coins \in Coins
  OBVIOUS
<1>2. \A i \in 1..n : /\ getPlatformCoins(outputs[i].coins, p) \in Coins
                      /\ Minus(outputs[i].coins, getPlatformCoins(outputs[i].coins, p)) \in Coins
  BY <1>1, PlatformCoinsBounds
<1>3. ASSUME NEW d \in Denoms
      PROVE  paid(d) \in [1..n -> Nat] /\ fees(d) \in [1..n -> Nat]
  BY <1>1, <1>2 DEF Coins
<1>4. ASSUME NEW d \in Denoms
      PROVE  InputOf(outputs)[d] = Total(paid(d))
  BY <1>1 DEF InputOf, TotalCoins
<1>5. ASSUME NEW d \in Denoms
      PROVE  totalPlatformCoins(outputs, p)[d] = Total(fees(d))
  BY <1>1 DEF totalPlatformCoins, TotalCoins
<1>6. InputOf(outputs) \in Coins
  <2>1. [i \in 1..n |-> outputs[i].coins] \in [1..n -> Coins]
    BY <1>1
  <2> QED
    BY <1>1, <2>1, TotalCoinsType DEF InputOf
<1>7. totalPlatformCoins(outputs, p) \in Coins
  <2>1. [i \in 1..n |-> getPlatformCoins(outputs[i].coins, p)] \in [1..n -> Coins]
    BY <1>2
  <2> QED
    BY <1>1, <2>1, TotalCoinsType DEF totalPlatformCoins
<1>8. ZeroCoins \in Coins
  BY DEF ZeroCoins, Coins
<1>9. ASSUME NEW d \in Denoms
      PROVE  /\ Total(fees(d)) <= Total(paid(d))
             /\ FullPercentage * Total(fees(d)) >= p * Total(paid(d))
  <2>1. \A i \in 1..n : /\ fees(d)[i] <= paid(d)[i]
                        /\ FullPercentage * fees(d)[i] >= p * paid(d)[i]
    BY <1>1, PlatformCoinsBounds
  <2>2. \A i \in 1..n : 1 * paid(d)[i] >= 1 * fees(d)[i]
    BY <2>1, <1>3
  <2>3. 1 * Total(paid(d)) >= 1 * Total(fees(d))
    <3> HIDE DEF paid, fees
    <3> QED
      BY <2>2, <1>3, TotalScaled
  <2>4. p \in Nat /\ FullPercentage \in Nat
    BY DEF FullPercentage
  <2>5. FullPercentage * Total(fees(d)) >= p * Total(paid(d))
    <3> HIDE DEF paid, fees, p
    <3> QED
      BY <2>1, <2>4, <1>3, TotalScaled
  <2>6. Total(paid(d)) \in Nat /\ Total(fees(d)) \in Nat
    <3> HIDE DEF paid, fees
    <3> QED
      BY <1>3, TotalType
  <2> QED
    BY <2>3, <2>5, <2>6
<1>10. FeeCollector \in Accounts /\ Distribution \in Accounts
  BY DEF Accounts, ModuleAccounts
<1>11. \A i \in 1..n : outputs[i].to # FeeCollector /\ outputs[i].to # Distribution
  BY DEF BlockedAddr, ModuleAccounts
<1>12. CASE p = 0
  <2>1. MultiSendFee(outputs) = ZeroCoins /\ MultiSendOutputs(outputs) = outputs
    BY <1>12 DEF MultiSendFee, MultiSendOutputs
  <2>2. /\ \A a \in Accounts : CreditTo(outputs, a) \in Coins
        /\ CreditTo(outputs, FeeCollector) = ZeroCoins
        /\ CreditTo(outputs, Distribution) = ZeroCoins
    BY <1>11, CreditToEffect
  <2>3. ASSUME NEW d \in Denoms
        PROVE  /\ ZeroCoins[d] <= InputOf(outputs)[d]
               /\ FullPercentage * ZeroCoins[d] >= p * InputOf(outputs)[d]
    BY <1>6, <1>12 DEF ZeroCoins, Coins, FullPercentage
  <2> QED
    BY <2>1, <2>2, <2>3, <1>6, <1>8
<1>13. CASE p # 0
  <2> DEFINE fee == totalPlatformCoins(outputs, p)
             thru == throughOutputs(outputs, p)
             sent == MultiSendOutputs(outputs)
  <2>1. MultiSendFee(outputs) = fee
    BY <1>13 DEF MultiSendFee
  <2>2. /\ thru \in [1..n -> [to : Accounts, coins : Coins]]
        /\ \A i \in 1..n : thru[i].to = outputs[i].to
    BY <1>1, <1>2 DEF throughOutputs
  <2>3. sent = thru \o (IF fee = ZeroCoins THEN << >>
                        ELSE <<[to |-> FeeCollector, coins |-> fee]>>)
    BY <1>13 DEF MultiSendOutputs, chargedOutputs
  <2>4. \A i \in 1..n : thru[i].to # FeeCollector /\ thru[i].to # Distribution
    BY <1>11, <2>2
  <2>5. \A d \in Denoms : /\ fee[d] <= InputOf(outputs)[d]
                          /\ FullPercentage * fee[d] >= p * InputOf(outputs)[d]
    BY <1>4, <1>5, <1>9
  <2> HIDE DEF fee, thru, sent, p, paid, fees
  <2>6. /\ \A a \in Accounts : CreditTo(sent, a) \in Coins
        /\ CreditTo(sent, FeeCollector) = fee
        /\ CreditTo(sent, Distribution) = ZeroCoins
    <3>1. CASE fee = ZeroCoins
      <4>1. sent = thru
        BY <2>2, <2>3, <3>1
      <4> QED
        BY <4>1, <3>1, <2>2, <2>4, CreditToEffect
    <3>2. CASE fee # ZeroCoins
      <4>1. sent = thru \o <<[to |-> FeeCollector, coins |-> fee]>>
        BY <2>3, <3>2
      <4>2. fee \in Coins
        BY <1>7 DEF fee
      <4>3. /\ sent \in [1..(n+1) -> [to : Accounts, coins : Coins]]
            /\ CreditTo(sent, FeeCollector) = fee
        BY <4>1, <4>2, <2>2, <2>4, <1>10, CreditToAppend
      <4>4. \A i \in 1..(n+1) : sent[i].to # Distribution
        <5>1. ASSUME NEW i \in 1..(n+1)
              PROVE sent[i] = IF i <= n THEN thru[i] ELSE [to |-> FeeCollector, coins |-> fee]
          BY <4>1, <2>2
        <5> QED
          BY <5>1, <2>4, AccountsAssumption
      <4>5. n + 1 \in Nat
        OBVIOUS
      <4> QED
        BY <4>3, <4>4, <4>5, CreditToEffect
    <3> QED
      BY <3>1, <3>2
  <2>7. fee \in Coins
    BY <1>7 DEF fee
  <2> QED
    BY <2>1, <2>5, <2>6, <2>7, <1>6 DEF sent, p
<1> QED
  BY <1>12, <1>13

\* The two transfers of a Send can be paid one after the other.
SendPayable(from, amt) ==
  LET fee == SendFee(amt)
      paid == SendCoins(balance, from, FeeCollector, fee)
      rest == Minus(amt, fee)
  IN  /\ rest \in Coins /\ paid \in [Accounts -> Coins]
      /\ Covers(balance[from], fee) /\ Covers(paid[from], rest)

\* What a Send moves: its fee goes to the fee collector, distribution is left
\* alone, and the fee lies between the percentage of the amount and the
\* amount.
LEMMA SendEffect ==
  ASSUME TypeOK, NEW from \in Users, NEW to \in Accounts, NEW amt \in Coins,
         SendAccepted(from, to, amt)
  PROVE  /\ SendFee(amt) \in Coins
         /\ SendResult(from, to, amt) \in [Accounts -> Coins]
         /\ SendResult(from, to, amt)[FeeCollector] = Plus(balance[FeeCollector], SendFee(amt))
         /\ SendResult(from, to, amt)[Distribution] = balance[Distribution]
         /\ SendPayable(from, amt)
         /\ \A d \in Denoms :
              /\ SendFee(amt)[d] <= amt[d]
              /\ FullPercentage * SendFee(amt)[d] >= platformPercentage * amt[d]
<1> DEFINE fee == SendFee(amt)
           paid == SendCoins(balance, from, FeeCollector, fee)
           rest == Minus(amt, fee)
<1>1. /\ from \in Accounts /\ FeeCollector \in Accounts /\ Distribution \in Accounts
      /\ from # FeeCollector /\ from # Distribution /\ FeeCollector # Distribution
      /\ to # FeeCollector /\ to # Distribution
  BY AccountsAssumption DEF Accounts, ModuleAccounts, SendAccepted, BlockedAddr
<1>2. /\ fee \in Coins /\ rest \in Coins
      /\ \A d \in Denoms :
           /\ fee[d] <= amt[d]
           /\ FullPercentage * fee[d] >= platformPercentage * amt[d]
  <2>1. CASE platformPercentage = 0
    <3>1. fee = ZeroCoins
      BY <2>1 DEF SendFee
    <3> QED
      BY <3>1, <2>1 DEF ZeroCoins, Coins, Minus, FullPercentage
  <2>2. CASE platformPercentage # 0
    <3>1. fee = getPlatformCoins(amt, platformPercentage)
      BY <2>2 DEF SendFee
    <3>2. platformPercentage \in 0..FullPercentage
      BY FeeCovered DEF TypeOK, SendAccepted, ValidAmount
    <3> QED
      BY <3>1, <3>2, PlatformCoinsBounds
  <2> QED
    BY <2>1, <2>2
<1>3. balance \in [Accounts -> Coins] /\ \A d \in Denoms : balance[from][d] >= amt[d]
  BY DEF TypeOK, SendAccepted, Covers
<1> HIDE DEF fee
<1>4. Covers(balance[from], fee)
  <2>1. ASSUME NEW d \in Denoms PROVE balance[from][d] >= fee[d]
    <3>1. balance[from][d] \in Nat /\ amt[d] \in Nat /\ fee[d] \in Nat
      BY <1>1, <1>2, <1>3 DEF Coins
    <3> QED
      BY <3>1, <1>2, <1>3
  <2> QED
    BY <2>1 DEF Covers
<1>5. /\ paid \in [Accounts -> Coins]
      /\ paid[from] = Minus(balance[from], fee)
      /\ paid[FeeCollector] = Plus(balance[FeeCollector], fee)
      /\ paid[Distribution] = balance[Distribution]
  BY <1>1, <1>2, <1>3, <1>4, SendCoinsEffect
<1>6. Covers(paid[from], rest)
  <2>1. ASSUME NEW d \in Denoms PROVE paid[from][d] >= rest[d]
    <3>1. balance[from][d] \in Nat /\ amt[d] \in Nat /\ fee[d] \in Nat
      BY <1>1, <1>2, <1>3 DEF Coins
    <3>2. paid[from][d] = balance[from][d] - fee[d] /\ rest[d] = amt[d] - fee[d]
      BY <1>5 DEF Minus
    <3>3. balance[from][d] >= amt[d]
      BY <1>3
    <3> QED
      BY <3>1, <3>2, <3>3
  <2> QED
    BY <2>1 DEF Covers
<1>7. SendResult(from, to, amt) = SendCoins(paid, from, to, rest)
  BY DEF SendResult, fee
<1>p. SendPayable(from, amt)
  BY <1>2, <1>4, <1>5, <1>6 DEF SendPayable, fee
<1> HIDE DEF paid, rest
<1>8. /\ SendCoins(paid, from, to, rest) \in [Accounts -> Coins]
      /\ SendCoins(paid, from, to, rest)[FeeCollector] = paid[FeeCollector]
      /\ SendCoins(paid, from, to, rest)[Distribution] = paid[Distribution]
  BY <1>1, <1>2, <1>5, <1>6, SendCoinsEffect
<1> QED
  BY <1>2, <1>5, <1>7, <1>8, <1>p DEF fee

\* The inductive invariant.
Inv == TypeOK /\ RewardsAreProvisions /\ IssuanceNetOfFees

\* What the accounts of the genesis file hold together.
LEMMA GenesisSupplyType == GenesisSupply \in Coins
<1>1. Cardinality(Users) \in Nat
  BY AccountsAssumption, FS_CardinalityType
<1>2. ASSUME NEW d \in Denoms PROVE Cardinality(Users) * Genesis[d] \in Nat
  BY <1>1, InputAssumption, ProductNat DEF Coins
<1> QED
  BY <1>2 DEF GenesisSupply, Coins

\* A genesis file: nothing was minted, burned or paid out.
LEMMA InitInv == Init => Inv
<1> SUFFICES ASSUME Init PROVE Inv
  OBVIOUS
<1>1. ZeroCoins \in Coins /\ GenesisSupply \in Coins /\ Genesis \in Coins
  BY GenesisSupplyType, InputAssumption DEF ZeroCoins, Coins
<1>2. balance \in [Accounts -> Coins]
  BY <1>1 DEF Init
<1>3. IsMinimums(platformMinimums)
  BY InputAssumption DEF Init, MinimumInputs, IsMinimums
<1>4. /\ platformPercentage \in Nat /\ checked \in BOOLEAN
      /\ checked => platformPercentage <= FullPercentage
  <2>1. platformPercentage \in Nat
    BY InputAssumption DEF Init
  <2>2. checked = (platformPercentage <= FullPercentage)
    BY DEF Init, ValidGenesis
  <2>3. (platformPercentage <= FullPercentage) \in BOOLEAN
    BY <2>1 DEF FullPercentage
  <2> QED
    BY <2>1, <2>2, <2>3, Zenon
<1>5. TypeOK
  <2>1. supply \in [Denoms -> Int]
    BY <1>1 DEF Init, Coins
  <2> QED
    BY <1>1, <1>2, <1>3, <1>4, <2>1 DEF Init, TypeOK
<1>6. balance[FeeCollector] = ZeroCoins /\ balance[Distribution] = ZeroCoins
  BY AccountsAssumption DEF Init, Accounts, ModuleAccounts
<1>7. RewardsAreProvisions
  BY <1>6, DenomAssumption DEF Init, RewardsAreProvisions, ZeroCoins
<1>8. IssuanceNetOfFees
  BY <1>1, <1>6 DEF Init, IssuanceNetOfFees, ZeroCoins, Coins
<1> QED
  BY <1>5, <1>7, <1>8 DEF Inv

\* No user is one of the two module accounts.
LEMMA AccountsDistinct ==
  /\ FeeCollector \in Accounts /\ Distribution \in Accounts
  /\ FeeCollector # Distribution
  /\ \A u \in Users : u \in Accounts /\ u # FeeCollector /\ u # Distribution
BY AccountsAssumption DEF Accounts, ModuleAccounts

\* A step that moves fee to the fee collector, in the history of sends or of
\* transaction fees, and changes neither supply nor provisions, keeps Inv.
LEMMA FeeStep ==
  ASSUME Inv, NEW fee \in Coins,
         balance' \in [Accounts -> Coins],
         balance'[FeeCollector] = Plus(balance[FeeCollector], fee),
         balance'[Distribution] = balance[Distribution],
         volume' \in Coins,
         \/ collected' = Plus(collected, fee) /\ txFees' = txFees
         \/ txFees' = Plus(txFees, fee) /\ collected' = collected,
         UNCHANGED <<params, supply, height, provided>>
  PROVE  Inv'
<1> USE DEF Inv
<1>1. TypeOK'
  <2>1. \A c \in Coins : Plus(c, fee) \in Coins
    BY DEF Plus, Coins
  <2>2. collected' \in Coins /\ txFees' \in Coins
    BY <2>1 DEF TypeOK
  <2> QED
    BY <2>2 DEF TypeOK, params, IsMinimums
<1>2. RewardsAreProvisions'
  BY DEF RewardsAreProvisions, params
<1>3. IssuanceNetOfFees'
  <2>1. ASSUME NEW d \in Denoms
        PROVE  /\ supply'[d] + collected'[d] + txFees'[d]
                    = GenesisSupply[d] + balance'[Distribution][d] + balance'[FeeCollector][d]
               /\ d # MintDenom => supply'[d] = GenesisSupply[d]
    <3>1. /\ supply[d] \in Int /\ collected[d] \in Nat /\ txFees[d] \in Nat /\ fee[d] \in Nat
          /\ balance[Distribution][d] \in Nat /\ balance[FeeCollector][d] \in Nat
          /\ GenesisSupply[d] \in Nat
      BY AccountsDistinct, GenesisSupplyType DEF TypeOK, Coins
    <3>2. /\ supply[d] + collected[d] + txFees[d]
                = GenesisSupply[d] + balance[Distribution][d] + balance[FeeCollector][d]
          /\ d # MintDenom => supply[d] = GenesisSupply[d]
      BY DEF IssuanceNetOfFees
    <3>3. /\ supply'[d] = supply[d]
          /\ balance'[Distribution][d] = balance[Distribution][d]
          /\ balance'[FeeCollector][d] = balance[FeeCollector][d] + fee[d]
      BY DEF Plus
    <3>4. \/ collected'[d] = collected[d] + fee[d] /\ txFees'[d] = txFees[d]
          \/ txFees'[d] = txFees[d] + fee[d] /\ collected'[d] = collected[d]
      BY DEF Plus
    <3> QED
      BY <3>1, <3>2, <3>3, <3>4
  <2> QED
    BY <2>1 DEF IssuanceNetOfFees, GenesisSupply
<1> QED
  BY <1>1, <1>2, <1>3

\* What a message carries is a list of coins.
LEMMA CoinInputsType == CoinInputs \subseteq Coins
BY InputAssumption DEF CoinInputs, Coins

\* A send moves what it takes, and a part of it to the collector.
LEMMA SendInv ==
  ASSUME Inv, NEW from \in Users, NEW to \in Accounts, NEW amt \in CoinInputs,
         Send(from, to, amt)
  PROVE  Inv'
<1>1. amt \in Coins /\ TypeOK /\ SendAccepted(from, to, amt)
  BY CoinInputsType DEF Send, Inv
<1>2. /\ SendFee(amt) \in Coins
      /\ balance' \in [Accounts -> Coins]
      /\ balance'[FeeCollector] = Plus(balance[FeeCollector], SendFee(amt))
      /\ balance'[Distribution] = balance[Distribution]
  BY <1>1, SendEffect DEF Send
<1>3. volume' \in Coins
  BY <1>1 DEF Send, TypeOK, Plus, Coins
<1>4. /\ collected' = Plus(collected, SendFee(amt)) /\ txFees' = txFees
      /\ UNCHANGED <<params, supply, height, provided>>
  BY DEF Send
<1> QED
  BY <1>2, <1>3, <1>4, FeeStep

\* The outputs of a MultiSend and what its handler has checked of them.
LEMMA OutputInputsType ==
  ASSUME NEW outputs \in OutputInputs
  PROVE  \E n \in Nat : outputs \in [1..n -> [to : Accounts, coins : Coins]] /\ Len(outputs) = n
<1>1. PICK n \in 1..MaxOutputs : outputs \in [1..n -> [to : Accounts, coins : CoinInputs]]
  BY DEF OutputInputs
<1>2. n \in Nat
  BY <1>1, BoundAssumption
<1>3. [to : Accounts, coins : CoinInputs] \subseteq [to : Accounts, coins : Coins]
  BY CoinInputsType
<1>4. outputs \in [1..n -> [to : Accounts, coins : Coins]]
  BY <1>1, <1>3
<1>5. Len(outputs) = n
  BY <1>1, <1>2
<1> QED
  BY <1>2, <1>4, <1>5

\* A MultiSend passes only with a percentage of which its outputs can pay.
LEMMA MultiSendPercentage ==
  ASSUME TypeOK, NEW from, NEW n \in Nat,
         NEW outputs \in [1..n -> [to : Accounts, coins : Coins]], Len(outputs) = n,
         MultiSendAccepted(from, outputs)
  PROVE  platformPercentage \in 0..FullPercentage
<1>1. outputs # << >>
  BY DEF MultiSendAccepted
<1>2. 1 \in 1..Len(outputs)
  <2>1. ASSUME n = 0 PROVE outputs = << >>
    <3>1. 1..n = {} /\ DOMAIN outputs = {}
      BY <2>1
    <3> QED
      BY <3>1
  <2> QED
    BY <1>1, <2>1
<1>3. outputs[1].coins # ZeroCoins /\ Covers(outputs[1].coins, SendFee(outputs[1].coins))
  BY <1>2 DEF MultiSendAccepted, ValidateInputOutputs
<1>4. outputs[1].coins \in Coins
  BY <1>2
<1> QED
  BY <1>3, <1>4, FeeCovered DEF TypeOK

\* So does a send to several accounts, output by output.
LEMMA MultiSendInv ==
  ASSUME Inv, NEW from \in Users, NEW outputs \in OutputInputs, MultiSend(from, outputs)
  PROVE  Inv'
<1> DEFINE input == InputOf(outputs)
           fee == MultiSendFee(outputs)
           credit(a) == CreditTo(MultiSendOutputs(outputs), a)
<1>1. PICK n \in Nat : outputs \in [1..n -> [to : Accounts, coins : Coins]] /\ Len(outputs) = n
  BY OutputInputsType
<1>2. /\ platformPercentage \in 0..FullPercentage
      /\ \A i \in 1..n : ~ BlockedAddr(outputs[i].to)
      /\ Covers(balance[from], input)
      /\ balance \in [Accounts -> Coins]
  <2>1. TypeOK /\ MultiSendAccepted(from, outputs)
    BY DEF Inv, MultiSend
  <2>2. platformPercentage \in 0..FullPercentage
    BY <1>1, <2>1, MultiSendPercentage
  <2> QED
    BY <1>1, <2>1, <2>2 DEF TypeOK, MultiSendAccepted
<1>3. /\ input \in Coins /\ fee \in Coins
      /\ \A a \in Accounts : credit(a) \in Coins
      /\ credit(FeeCollector) = fee
      /\ credit(Distribution) = ZeroCoins
  BY <1>1, <1>2, MultiSendEffect
<1>4. balance' = [a \in Accounts |-> Plus([balance EXCEPT ![from] = Minus(@, input)][a], credit(a))]
  BY DEF MultiSend, MultiSendResult, InputOutputCoins
<1>5. volume' = Plus(volume, input) /\ collected' = Plus(collected, fee)
      /\ UNCHANGED <<params, supply, height, txFees, provided>>
  BY DEF MultiSend
<1> HIDE DEF input, fee, credit
<1>6. Minus(balance[from], input) \in Coins
  BY <1>2, <1>3, AccountsDistinct DEF Covers, Minus, Coins
<1> DEFINE debited == [balance EXCEPT ![from] = Minus(@, input)]
<1>7. /\ debited \in [Accounts -> Coins]
      /\ debited[FeeCollector] = balance[FeeCollector]
      /\ debited[Distribution] = balance[Distribution]
  BY <1>2, <1>6, AccountsDistinct
<1> HIDE DEF debited
<1>8. balance' = [a \in Accounts |-> Plus(debited[a], credit(a))]
  BY <1>4 DEF debited
<1>9. \A a \in Accounts : Plus(debited[a], credit(a)) \in Coins
  BY <1>3, <1>7 DEF Plus, Coins
<1>10. balance' \in [Accounts -> Coins]
  BY <1>8, <1>9
<1>11. /\ balance'[FeeCollector] = Plus(balance[FeeCollector], fee)
       /\ balance'[Distribution] = Plus(balance[Distribution], ZeroCoins)
  BY <1>3, <1>7, <1>8, AccountsDistinct
<1>12. balance'[Distribution] = balance[Distribution]
  BY <1>2, <1>11, AccountsDistinct DEF Plus, ZeroCoins, Coins
<1>13. volume' \in Coins
  BY <1>3, <1>5 DEF Inv, TypeOK, Plus, Coins
<1> QED
  BY <1>3, <1>5, <1>10, <1>11, <1>12, <1>13, FeeStep

\* The fee of a transaction moves to the collector.
LEMMA DeductFeeInv ==
  ASSUME Inv, NEW payer \in Users, NEW fee \in CoinInputs, DeductFee(payer, fee)
  PROVE  Inv'
<1>1. fee \in Coins /\ Covers(balance[payer], fee) /\ balance \in [Accounts -> Coins]
  BY CoinInputsType DEF DeductFee, Inv, TypeOK
<1>2. balance' = SendCoins(balance, payer, FeeCollector, fee)
  BY DEF DeductFee
<1>3. /\ balance' \in [Accounts -> Coins]
      /\ balance'[FeeCollector] = Plus(balance[FeeCollector], fee)
      /\ balance'[Distribution] = balance[Distribution]
  BY <1>1, <1>2, SendCoinsEffect, AccountsDistinct
<1>4. /\ txFees' = Plus(txFees, fee) /\ collected' = collected
      /\ UNCHANGED <<params, supply, height, provided>>
      /\ volume' \in Coins
  BY DEF DeductFee, Inv, TypeOK
<1> QED
  BY <1>1, <1>3, <1>4, FeeStep

\* The start of a block leaves exactly the provision in the fee collector,
\* for distribution to take.
LEMMA BeginBlockInv ==
  ASSUME Inv, NEW needed \in Provisions, BeginBlock(needed)
  PROVE  Inv'
<1> DEFINE held == balance[FeeCollector][MintDenom]
           minted == StakedInflationMintFn(needed)
           C == FeeCollector
           D == Distribution
<1>1. /\ needed \in Nat /\ held \in Nat /\ MintDenom \in Denoms
      /\ balance \in [Accounts -> Coins] /\ supply \in [Denoms -> Int] /\ provided \in Nat /\ height \in Nat
      /\ collected \in Coins /\ txFees \in Coins
  BY InputAssumption, DenomAssumption, AccountsDistinct DEF Inv, TypeOK, Coins
<1>2. (held + mintedCoin(needed)) - burnedCoin(needed) = needed
  BY <1>1 DEF mintedCoin, burnedCoin
<1>3. minted = [balance EXCEPT ![C] = [@ EXCEPT ![MintDenom] = needed]]
  BY <1>2 DEF StakedInflationMintFn
<1>4. /\ minted \in [Accounts -> Coins]
      /\ minted[C][MintDenom] = needed
      /\ \A d \in Denoms \ {MintDenom} : minted[C][d] = balance[C][d]
      /\ minted[D] = balance[D]
  BY <1>1, <1>3, AccountsDistinct DEF Coins
<1> HIDE DEF minted
<1>5. /\ balance' \in [Accounts -> Coins]
      /\ height' = height + 1
      /\ height' > 1 =>
           /\ balance'[C] = Minus(minted[C], minted[C])
           /\ balance'[D] = Plus(balance[D], minted[C])
           /\ provided' = provided + needed
      /\ ~ (height' > 1) =>
           /\ balance'[C] = minted[C]
           /\ balance'[D] = balance[D]
           /\ provided' = provided
  <2>1. balance' = AllocateTokens(minted, height') /\ height' = height + 1
        /\ provided' = IF height' > 1 THEN provided + needed ELSE provided
    BY DEF BeginBlock, minted
  <2>2. CASE height' > 1
    <3>1. balance' = SendCoins(minted, C, D, minted[C])
      BY <2>1, <2>2 DEF AllocateTokens
    <3>2. minted[C] \in Coins /\ Covers(minted[C], minted[C])
      BY <1>4, AccountsDistinct DEF Covers, Coins
    <3> QED
      BY <2>1, <2>2, <3>1, <3>2, <1>4, SendCoinsEffect, AccountsDistinct
  <2>3. CASE ~ (height' > 1)
    BY <2>1, <2>3, <1>4 DEF AllocateTokens
  <2> QED
    BY <2>2, <2>3
<1>6. /\ supply' = [supply EXCEPT ![MintDenom] = (@ + mintedCoin(needed)) - burnedCoin(needed)]
      /\ UNCHANGED <<params, volume, collected, txFees>>
  BY DEF BeginBlock
<1>7. /\ mintedCoin(needed) \in Nat /\ burnedCoin(needed) \in Nat
      /\ burnedCoin(needed) <= held
  BY <1>1 DEF mintedCoin, burnedCoin
<1>8. RewardsAreProvisions'
  <2>1. balance[D][MintDenom] = provided /\ balance[D][MintDenom] \in Nat
    BY <1>1, AccountsDistinct DEF Inv, RewardsAreProvisions, Coins
  <2>2. balance'[D][MintDenom] = provided'
    BY <2>1, <1>1, <1>4, <1>5 DEF Plus
  <2> QED
    BY <2>2 DEF RewardsAreProvisions
<1>9. ASSUME NEW d \in Denoms
      PROVE  /\ supply'[d] \in Int
             /\ supply'[d] + collected'[d] + txFees'[d]
                  = GenesisSupply[d] + balance'[D][d] + balance'[C][d]
             /\ d # MintDenom => supply'[d] = GenesisSupply[d]
  <2>1. /\ supply[d] \in Int /\ collected[d] \in Nat /\ txFees[d] \in Nat
        /\ balance[D][d] \in Nat /\ balance[C][d] \in Nat /\ GenesisSupply[d] \in Nat
        /\ minted[C][d] \in Nat
    BY <1>1, <1>4, AccountsDistinct, GenesisSupplyType DEF Coins
  <2>2. /\ supply[d] + collected[d] + txFees[d]
              = GenesisSupply[d] + balance[D][d] + balance[C][d]
        /\ d # MintDenom => supply[d] = GenesisSupply[d]
    BY DEF Inv, IssuanceNetOfFees
  <2>3. collected'[d] = collected[d] /\ txFees'[d] = txFees[d]
    BY <1>6
  <2>4. balance'[D][d] + balance'[C][d] = balance[D][d] + minted[C][d]
    <3>1. CASE height' > 1
      <4>1. balance'[C][d] = minted[C][d] - minted[C][d] /\ balance'[D][d] = balance[D][d] + minted[C][d]
        BY <3>1, <1>5 DEF Minus, Plus
      <4> QED
        BY <4>1, <2>1
    <3>2. CASE ~ (height' > 1)
      BY <3>2, <1>5
    <3> QED
      BY <3>1, <3>2
  <2>5. /\ balance'[D][d] \in Nat /\ balance'[C][d] \in Nat
    BY <1>5, AccountsDistinct DEF Coins
  <2>6. CASE d = MintDenom
    <3>1. supply'[d] = (supply[d] + mintedCoin(needed)) - burnedCoin(needed)
      BY <1>1, <1>6, <2>6 DEF Coins
    <3>2. minted[C][d] = needed /\ balance[C][d] = held
      BY <1>4, <2>6
    <3>3. balance'[D][d] + balance'[C][d]
            = balance[D][d] + ((balance[C][d] + mintedCoin(needed)) - burnedCoin(needed))
      BY <1>2, <2>4, <3>2
    <3>4. \A s, c, t, g, x, y, u, v, m, b \in Int :
            (s + c + t = g + x + y /\ u + v = x + ((y + m) - b))
              => ((s + m) - b) + c + t = g + u + v
      OBVIOUS
    <3>5. mintedCoin(needed) \in Int /\ burnedCoin(needed) \in Int
      BY <1>7
    <3>6. supply'[d] + collected'[d] + txFees'[d]
            = GenesisSupply[d] + balance'[D][d] + balance'[C][d]
      BY <3>1, <3>3, <3>4, <3>5, <2>1, <2>2, <2>3, <2>5
    <3> QED
      BY <3>1, <3>5, <3>6, <2>1, <2>6
  <2>7. CASE d # MintDenom
    <3>1. supply'[d] = supply[d] /\ minted[C][d] = balance[C][d]
      BY <1>1, <1>4, <1>6, <2>7 DEF Coins
    <3>2. supply'[d] + collected'[d] + txFees'[d] = supply[d] + collected[d] + txFees[d]
      BY <3>1, <2>3
    <3>3. balance'[D][d] + balance'[C][d] = balance[D][d] + balance[C][d]
      BY <3>1, <2>4
    <3>4. GenesisSupply[d] + balance'[D][d] + balance'[C][d]
            = GenesisSupply[d] + balance[D][d] + balance[C][d]
      BY <3>3, <2>1, <2>5
    <3> QED
      BY <3>1, <3>2, <3>4, <2>1, <2>2, <2>7
  <2> QED
    BY <2>6, <2>7
<1>10. IssuanceNetOfFees'
  BY <1>9 DEF IssuanceNetOfFees, GenesisSupply
<1>11. TypeOK'
  <2>1. supply' \in [Denoms -> Int]
    BY <1>1, <1>6, <1>9
  <2>2. provided' \in Nat /\ height' \in Nat
    BY <1>1, <1>5
  <2> QED
    BY <2>1, <2>2, <1>5, <1>6 DEF Inv, TypeOK, params, IsMinimums
<1> QED
  BY <1>8, <1>10, <1>11 DEF Inv

\* Every step keeps the invariant.
LEMMA NextInv == Inv /\ [Next]_vars => Inv'
<1> SUFFICES ASSUME Inv, [Next]_vars PROVE Inv'
  OBVIOUS
<1>1. ASSUME NEW from \in Users, NEW to \in Accounts, NEW amt \in CoinInputs, Send(from, to, amt)
      PROVE  Inv'
  BY <1>1, SendInv
<1>2. ASSUME NEW from \in Users, NEW outputs \in OutputInputs, MultiSend(from, outputs)
      PROVE  Inv'
  BY <1>2, MultiSendInv
<1>3. ASSUME NEW signer \in Users \cup {Authority}, NEW p \in Percentages,
             SetPlatformPercentage(signer, p)
      PROVE  Inv'
  <2>1. platformPercentage' \in Nat /\ platformPercentage' <= FullPercentage /\ checked' = TRUE
    BY <1>3, InputAssumption DEF SetPlatformPercentage, ValidPercentage
  <2> QED
    BY <1>3, <2>1 DEF SetPlatformPercentage, bank, history, Inv, TypeOK, IsMinimums,
                      RewardsAreProvisions, IssuanceNetOfFees, GenesisSupply
<1>4. ASSUME NEW signer \in Users \cup {Authority}, NEW m \in MinimumInputs,
             SetPlatformMinimum(signer, m)
      PROVE  Inv'
  <2>1. IsMinimums(m)
    BY InputAssumption DEF MinimumInputs, IsMinimums
  <2>2. IsMinimums(platformMinimums)'
    BY <1>4, <2>1 DEF SetPlatformMinimum, IsMinimums
  <2> QED
    BY <1>4, <2>2 DEF SetPlatformMinimum, bank, history, Inv, TypeOK,
                      RewardsAreProvisions, IssuanceNetOfFees, GenesisSupply
<1>5. ASSUME NEW payer \in Users, NEW fee \in CoinInputs, DeductFee(payer, fee)
      PROVE  Inv'
  BY <1>5, DeductFeeInv
<1>6. ASSUME NEW needed \in Provisions, BeginBlock(needed)
      PROVE  Inv'
  BY <1>6, BeginBlockInv
<1>7. CASE UNCHANGED vars
  BY <1>7 DEF vars, Inv, TypeOK, IsMinimums, RewardsAreProvisions, IssuanceNetOfFees, GenesisSupply
<1> QED
  BY <1>1, <1>2, <1>3, <1>4, <1>5, <1>6, <1>7 DEF Next

\* The state of x/xion stays well typed: in particular no balance becomes
\* negative and the percentage never exceeds 100%.
THEOREM TypeCorrect == Spec => []TypeOK
<1>1. Init => Inv
  BY InitInv
<1>2. Inv /\ [Next]_vars => Inv'
  BY NextInv
<1>3. Inv => TypeOK
  BY DEF Inv
<1> QED
  BY <1>1, <1>2, <1>3, PTL DEF Spec

\* Stakers receive the block provisions and nothing else in the mint
\* denomination, whatever fees were collected in between.
THEOREM StakersGetProvisions == Spec => []RewardsAreProvisions
<1>1. Init => Inv
  BY InitInv
<1>2. Inv /\ [Next]_vars => Inv'
  BY NextInv
<1>3. Inv => RewardsAreProvisions
  BY DEF Inv
<1> QED
  BY <1>1, <1>2, <1>3, PTL DEF Spec

\* Issuance is provisions less fees, and only the mint denomination is
\* issued or burnt.
THEOREM IssuanceIsNetOfFees == Spec => []IssuanceNetOfFees
<1>1. Init => Inv
  BY InitInv
<1>2. Inv /\ [Next]_vars => Inv'
  BY NextInv
<1>3. Inv => IssuanceNetOfFees
  BY DEF Inv
<1> QED
  BY <1>1, <1>2, <1>3, PTL DEF Spec

\* A step that moves input and collects fee of it.
LEMMA PaidStep ==
  ASSUME TypeOK, NEW input \in Coins, NEW fee \in Coins,
         volume' = Plus(volume, input), collected' = Plus(collected, fee),
         \A d \in Denoms : /\ fee[d] <= input[d]
                           /\ FullPercentage * fee[d] >= platformPercentage * input[d]
  PROVE  PlatformPaid
<1> SUFFICES ASSUME NEW d \in Denoms
             PROVE  /\ FullPercentage * (collected'[d] - collected[d])
                         >= platformPercentage * (volume'[d] - volume[d])
                    /\ collected'[d] - collected[d] <= volume'[d] - volume[d]
  BY DEF PlatformPaid
<1>1. /\ volume[d] \in Nat /\ collected[d] \in Nat /\ input[d] \in Nat /\ fee[d] \in Nat
  BY DEF TypeOK, Coins
<1>2. volume'[d] = volume[d] + input[d] /\ collected'[d] = collected[d] + fee[d]
  BY DEF Plus
<1>3. volume'[d] - volume[d] = input[d] /\ collected'[d] - collected[d] = fee[d]
  BY <1>1, <1>2
<1> QED
  BY <1>3

\* A step that sends nothing owes nothing.
LEMMA NothingMoved ==
  ASSUME TypeOK, UNCHANGED <<volume, collected>>
  PROVE  PlatformPaid
<1> SUFFICES ASSUME NEW d \in Denoms
             PROVE  /\ FullPercentage * (collected'[d] - collected[d])
                         >= platformPercentage * (volume'[d] - volume[d])
                    /\ collected'[d] - collected[d] <= volume'[d] - volume[d]
  BY DEF PlatformPaid
<1>1. volume[d] \in Nat /\ collected[d] \in Nat /\ platformPercentage \in Nat
  BY DEF TypeOK, Coins, FullPercentage
<1>2. volume'[d] - volume[d] = 0 /\ collected'[d] - collected[d] = 0
  BY <1>1
<1> QED
  BY <1>1, <1>2 DEF FullPercentage

\* For any number of outputs, every transfer pays the platform at least its
\* percentage of every denomination and never more than was moved.
THEOREM NoFeeEvaded == Spec => SplittingEvadesNoFee
<1>1. Init => Inv
  BY InitInv
<1>2. Inv /\ [Next]_vars => Inv'
  BY NextInv
<1>3. Inv /\ [Next]_vars => [PlatformPaid]_vars
  <2> SUFFICES ASSUME Inv, Next PROVE PlatformPaid
    OBVIOUS
  <2> TypeOK
    BY DEF Inv
  <2>1. ASSUME NEW from \in Users, NEW to \in Accounts, NEW amt \in CoinInputs, Send(from, to, amt)
        PROVE  PlatformPaid
    <3>1. amt \in Coins /\ SendAccepted(from, to, amt)
      BY <2>1, CoinInputsType DEF Send
    <3>2. volume' = Plus(volume, amt) /\ collected' = Plus(collected, SendFee(amt))
      BY <2>1 DEF Send
    <3>3. /\ SendFee(amt) \in Coins
          /\ \A d \in Denoms : /\ SendFee(amt)[d] <= amt[d]
                               /\ FullPercentage * SendFee(amt)[d] >= platformPercentage * amt[d]
      BY <3>1, SendEffect
    <3> QED
      BY <3>1, <3>2, <3>3, PaidStep
  <2>2. ASSUME NEW from \in Users, NEW outputs \in OutputInputs, MultiSend(from, outputs)
        PROVE  PlatformPaid
    <3>1. PICK n \in Nat : outputs \in [1..n -> [to : Accounts, coins : Coins]] /\ Len(outputs) = n
      BY OutputInputsType
    <3>2. /\ platformPercentage \in 0..FullPercentage
          /\ \A i \in 1..n : ~ BlockedAddr(outputs[i].to)
      BY <2>2, <3>1, MultiSendPercentage DEF MultiSend, MultiSendAccepted
    <3>3. volume' = Plus(volume, InputOf(outputs)) /\ collected' = Plus(collected, MultiSendFee(outputs))
      BY <2>2 DEF MultiSend
    <3>4. /\ InputOf(outputs) \in Coins /\ MultiSendFee(outputs) \in Coins
          /\ \A d \in Denoms :
               /\ MultiSendFee(outputs)[d] <= InputOf(outputs)[d]
               /\ FullPercentage * MultiSendFee(outputs)[d]
                    >= platformPercentage * InputOf(outputs)[d]
      BY <3>1, <3>2, MultiSendEffect
    <3> QED
      BY <3>3, <3>4, PaidStep
  <2>3. ASSUME NEW signer \in Users \cup {Authority}, NEW p \in Percentages,
               SetPlatformPercentage(signer, p)
        PROVE  PlatformPaid
    BY <2>3, NothingMoved DEF SetPlatformPercentage, history
  <2>4. ASSUME NEW signer \in Users \cup {Authority}, NEW m \in MinimumInputs,
               SetPlatformMinimum(signer, m)
        PROVE  PlatformPaid
    BY <2>4, NothingMoved DEF SetPlatformMinimum, history
  <2>5. ASSUME NEW payer \in Users, NEW fee \in CoinInputs, DeductFee(payer, fee)
        PROVE  PlatformPaid
    BY <2>5, NothingMoved DEF DeductFee
  <2>6. ASSUME NEW needed \in Provisions, BeginBlock(needed)
        PROVE  PlatformPaid
    BY <2>6, NothingMoved DEF BeginBlock
  <2> QED
    BY <2>1, <2>2, <2>3, <2>4, <2>5, <2>6 DEF Next
<1> QED
  BY <1>1, <1>2, <1>3, PTL DEF Spec, SplittingEvadesNoFee

(***************************************************************************)
(* Two ways to make one transfer: a Send, and a MultiSend of one output.   *)
(***************************************************************************)
\* One output alone: its total is itself.
LEMMA TotalCoinsOne ==
  ASSUME NEW cs \in [1..1 -> Coins]
  PROVE  TotalCoins(cs) = cs[1]
<1>1. Len(cs) = 1 /\ cs[1] \in Coins
  OBVIOUS
<1>2. ASSUME NEW d \in Denoms PROVE Total([i \in 1..1 |-> cs[i][d]]) = cs[1][d]
  <2> DEFINE s == [i \in 1..1 |-> cs[i][d]]
  <2>1. s \in [1..1 -> Nat] /\ s[1] = cs[1][d] /\ \A i \in 1..1 : i # 1 => s[i] = 0
    BY DEF Coins
  <2> HIDE DEF s
  <2>2. Total(s) = s[1]
    <3>1. 1 \in Nat /\ 1 \in 1..1
      OBVIOUS
    <3> QED
      BY <2>1, <3>1, TotalSingle
  <2> QED
    BY <2>1, <2>2 DEF s
<1> QED
  BY <1>1, <1>2 DEF TotalCoins, Coins

\* What one output, or one and the fee collector's, credit to an account.
LEMMA CreditToOne ==
  ASSUME NEW x \in [to : Accounts, coins : Coins], NEW a \in Accounts, NEW d \in Denoms
  PROVE  CreditTo(<<x>>, a)[d] = IF x.to = a THEN x.coins[d] ELSE 0
<1> DEFINE s == [i \in 1..1 |-> IF x.to = a THEN x.coins[d] ELSE 0]
<1>1. CreditTo(<<x>>, a)[d] = Total(s)
  <2>1. Len(<<x>>) = 1 /\ <<x>>[1] = x
    OBVIOUS
  <2>2. [i \in 1..Len(<<x>>) |-> IF <<x>>[i].to = a THEN <<x>>[i].coins[d] ELSE 0] = s
    BY <2>1
  <2> QED
    BY <2>2 DEF CreditTo
<1>2. /\ s \in [1..1 -> Nat] /\ s[1] = IF x.to = a THEN x.coins[d] ELSE 0
      /\ \A i \in 1..1 : i # 1 => s[i] = 0
      /\ 1 \in Nat /\ 1 \in 1..1
  BY DEF Coins
<1> HIDE DEF s
<1>3. Total(s) = s[1]
  BY <1>2, TotalSingle
<1> QED
  BY <1>1, <1>2, <1>3

\* What an account gets from two outputs.
LEMMA CreditToTwo ==
  ASSUME NEW x \in [to : Accounts, coins : Coins], NEW y \in [to : Accounts, coins : Coins],
         NEW a \in Accounts, NEW d \in Denoms
  PROVE  CreditTo(<<x, y>>, a)[d] = (IF x.to = a THEN x.coins[d] ELSE 0)
                                      + (IF y.to = a THEN y.coins[d] ELSE 0)
<1> DEFINE u == IF x.to = a THEN x.coins[d] ELSE 0
           v == IF y.to = a THEN y.coins[d] ELSE 0
           s == [i \in 1..1 |-> u]
           r == [i \in 1..(1+1) |-> IF i = 1 THEN u ELSE v]
<1>1. CreditTo(<<x, y>>, a)[d] = Total(r)
  <2>1. Len(<<x, y>>) = 1 + 1 /\ <<x, y>>[1] = x /\ <<x, y>>[2] = y
    OBVIOUS
  <2>2. [i \in 1..Len(<<x, y>>) |-> IF <<x, y>>[i].to = a THEN <<x, y>>[i].coins[d] ELSE 0] = r
    BY <2>1
  <2> QED
    BY <2>2 DEF CreditTo
<1>2. /\ u \in Nat /\ v \in Nat
      /\ s \in [1..1 -> Nat] /\ s[1] = u /\ \A i \in 1..1 : i # 1 => s[i] = 0
      /\ r \in [1..(1+1) -> Nat] /\ r[1+1] = v /\ \A i \in 1..1 : r[i] = s[i]
      /\ 1 \in Nat /\ 1 \in 1..1
  BY DEF Coins
<1> HIDE DEF s, r, u, v
<1>3. Total(s) = s[1]
  BY <1>2, TotalSingle
<1>4. Total(r) = Total(s) + r[1+1]
  BY <1>2, TotalAppend
<1> QED
  BY <1>1, <1>2, <1>3, <1>4 DEF u, v

\* Two lists of one output each make a list of two.
LEMMA PairOfSequences ==
  ASSUME NEW S, NEW x \in S, NEW y \in S
  PROVE  <<x>> \o <<y>> = <<x, y>>
<1> DEFINE s == <<x>> \o <<y>>
           t == <<x, y>>
<1>1. <<x>> \in Seq(S) /\ <<y>> \in Seq(S) /\ t \in Seq(S)
  OBVIOUS
<1>2. s \in Seq(S) /\ Len(s) = 2 /\ s[1] = x /\ s[2] = y
  BY <1>1
<1>3. Len(t) = 2 /\ t[1] = x /\ t[2] = y
  OBVIOUS
<1>4. \A i \in 1..Len(s) : s[i] = t[i]
  BY <1>2, <1>3
<1> HIDE DEF s, t
<1> QED
  BY <1>1, <1>2, <1>3, <1>4, SeqEqual DEF s, t

\* What two amounts of coins add up to.
LEMMA TotalCoinsTwo ==
  ASSUME NEW x \in Coins, NEW y \in Coins, NEW cs \in [1..(1+1) -> Coins],
         cs[1] = x, cs[1+1] = y
  PROVE  TotalCoins(cs) = Plus(x, y)
<1>1. Len(cs) = 1 + 1
  OBVIOUS
<1>2. ASSUME NEW d \in Denoms PROVE Total([i \in 1..(1+1) |-> cs[i][d]]) = x[d] + y[d]
  <2> DEFINE r == [i \in 1..(1+1) |-> cs[i][d]]
             s == [i \in 1..1 |-> x[d]]
  <2>1. /\ s \in [1..1 -> Nat] /\ s[1] = x[d] /\ \A i \in 1..1 : i # 1 => s[i] = 0
        /\ r \in [1..(1+1) -> Nat] /\ r[1+1] = y[d] /\ \A i \in 1..1 : r[i] = s[i]
        /\ 1 \in Nat /\ 1 \in 1..1
    BY DEF Coins
  <2> HIDE DEF s, r
  <2>2. Total(s) = s[1]
    BY <2>1, TotalSingle
  <2>3. Total(r) = Total(s) + r[1+1]
    BY <2>1, TotalAppend
  <2> QED
    BY <2>1, <2>2, <2>3 DEF r
<1> QED
  BY <1>1, <1>2 DEF TotalCoins, Plus

\* What becomes of one output: the rest of it, and the fee collector's output
\* when there is a fee.
LEMMA OneOutputCharged ==
  ASSUME platformPercentage \in 0..FullPercentage,
         NEW to \in Accounts, NEW amt \in Coins,
         NEW thru, thru = [to |-> to, coins |-> Minus(amt, SendFee(amt))],
         NEW own, own = [to |-> FeeCollector, coins |-> SendFee(amt)]
  PROVE  /\ SendFee(amt) \in Coins /\ Minus(amt, SendFee(amt)) \in Coins
         /\ \A d \in Denoms : Minus(amt, SendFee(amt))[d] = amt[d] - SendFee(amt)[d]
         /\ thru \in [to : Accounts, coins : Coins]
         /\ own \in [to : Accounts, coins : Coins]
         /\ MultiSendOutputs(<<[to |-> to, coins |-> amt]>>)
              = IF SendFee(amt) = ZeroCoins THEN <<thru>> ELSE <<thru, own>>
<1> DEFINE p == platformPercentage
           o == [to |-> to, coins |-> amt]
           fee == getPlatformCoins(amt, p)
<1>0. \A d \in Denoms : Minus(amt, SendFee(amt))[d] = amt[d] - SendFee(amt)[d]
  BY DEF Minus
<1>1. CASE p = 0
  <2>1. MultiSendOutputs(<<o>>) = <<o>> /\ SendFee(amt) = ZeroCoins
    BY <1>1 DEF MultiSendOutputs, SendFee
  <2>2. ZeroCoins \in Coins /\ Minus(amt, ZeroCoins) = amt
    <3>1. \A d \in Denoms : amt[d] \in Nat /\ amt[d] - ZeroCoins[d] = amt[d]
      BY DEF ZeroCoins, Coins
    <3>2. amt = [d \in Denoms |-> amt[d]]
      BY DEF Coins
    <3> QED
      BY <3>1, <3>2 DEF Minus, ZeroCoins, Coins
  <2> QED
    BY <1>0, <2>1, <2>2, AccountsDistinct
<1>2. CASE p # 0
  <2>1. SendFee(amt) = fee
    BY <1>2 DEF SendFee
  <2>2. fee \in Coins /\ Minus(amt, fee) \in Coins
    BY PlatformCoinsBounds
  <2>3. throughOutputs(<<o>>, p) = <<thru>>
    <3>1. Len(<<o>>) = 1 /\ <<o>>[1] = o /\ o.to = to /\ o.coins = amt
      OBVIOUS
    <3> QED
      BY <2>1, <3>1 DEF throughOutputs
  <2>4. totalPlatformCoins(<<o>>, p) = fee
    <3> DEFINE cs == [i \in 1..1 |-> fee]
    <3>1. Len(<<o>>) = 1 /\ <<o>>[1].coins = amt
      OBVIOUS
    <3>2. [i \in 1..Len(<<o>>) |-> getPlatformCoins(<<o>>[i].coins, p)] = cs
      BY <3>1
    <3>3. cs \in [1..1 -> Coins] /\ cs[1] = fee
      BY <2>2
    <3> HIDE DEF cs
    <3>4. TotalCoins(cs) = fee
      BY <3>3, TotalCoinsOne
    <3> QED
      BY <3>2, <3>4 DEF totalPlatformCoins
  <2>5. MultiSendOutputs(<<o>>) = <<thru>> \o (IF fee = ZeroCoins THEN << >> ELSE <<own>>)
    BY <1>2, <2>1, <2>3, <2>4 DEF MultiSendOutputs, chargedOutputs
  <2>6. thru \in [to : Accounts, coins : Coins] /\ own \in [to : Accounts, coins : Coins]
    BY <2>1, <2>2, AccountsDistinct
  <2>7. <<thru>> \o <<own>> = <<thru, own>>
    BY <2>6, PairOfSequences
  <2>8. <<thru>> \o << >> = <<thru>>
    OBVIOUS
  <2> HIDE DEF fee
  <2> QED
    BY <1>0, <2>1, <2>2, <2>5, <2>6, <2>7, <2>8
<1> QED
  BY <1>1, <1>2

\* The bank takes the charged outputs of one output exactly when the fee
\* leaves something of it.
LEMMA OneOutputValid ==
  ASSUME platformPercentage \in 0..FullPercentage, NEW to \in Accounts, NEW amt \in Coins
  PROVE  ValidateInputOutputs(amt, MultiSendOutputs(<<[to |-> to, coins |-> amt]>>))
           <=> Minus(amt, SendFee(amt)) # ZeroCoins
<1> DEFINE fee == SendFee(amt)
           rest == Minus(amt, fee)
           thru == [to |-> to, coins |-> rest]
           own == [to |-> FeeCollector, coins |-> fee]
           sent == MultiSendOutputs(<<[to |-> to, coins |-> amt]>>)
<1>1. /\ fee \in Coins /\ rest \in Coins
      /\ \A d \in Denoms : rest[d] = amt[d] - fee[d]
      /\ sent = IF fee = ZeroCoins THEN <<thru>> ELSE <<thru, own>>
  BY OneOutputCharged
<1>2. thru.coins = rest /\ own.coins = fee
  OBVIOUS
<1> HIDE DEF fee, rest, thru, own, sent
<1>3. CASE fee = ZeroCoins
  <2>1. sent = <<thru>> /\ Len(<<thru>>) = 1 /\ <<thru>>[1].coins = rest
    BY <1>1, <1>2, <1>3
  <2> DEFINE cs == [i \in 1..1 |-> rest]
  <2>2. [i \in 1..Len(sent) |-> sent[i].coins] = cs
    BY <2>1
  <2>3. cs \in [1..1 -> Coins] /\ cs[1] = rest
    BY <1>1
  <2> HIDE DEF cs
  <2>4. TotalCoins(cs) = rest
    BY <2>3, TotalCoinsOne
  <2>5. \A d \in Denoms : rest[d] = amt[d]
    BY <1>1, <1>3 DEF ZeroCoins, Coins
  <2>6. rest = amt
    BY <1>1, <2>5 DEF Coins
  <2>7. ValidateInputOutputs(amt, sent) <=> rest # ZeroCoins
    BY <2>1, <2>2, <2>4, <2>6 DEF ValidateInputOutputs
  <2> QED
    BY <2>7 DEF sent, rest, fee
<1>4. CASE fee # ZeroCoins
  <2>1. /\ sent = <<thru, own>> /\ Len(<<thru, own>>) = 1 + 1
        /\ <<thru, own>>[1].coins = rest /\ <<thru, own>>[1+1].coins = fee
    BY <1>1, <1>2, <1>4
  <2> DEFINE cs == [i \in 1..(1+1) |-> sent[i].coins]
  <2>2. [i \in 1..Len(sent) |-> sent[i].coins] = cs
    BY <2>1
  <2>3. cs[1] = rest /\ cs[1+1] = fee /\ cs \in [1..(1+1) -> Coins]
    <3>1. cs[1] = rest /\ cs[1+1] = fee
      BY <2>1
    <3>2. \A i \in 1..(1+1) : i = 1 \/ i = 1+1
      OBVIOUS
    <3>3. \A i \in 1..(1+1) : cs[i] \in Coins
      BY <1>1, <3>1, <3>2
    <3> QED
      BY <3>1, <3>3
  <2> HIDE DEF cs
  <2>4. TotalCoins(cs) = Plus(rest, fee)
    BY <1>1, <2>3, TotalCoinsTwo
  <2>5. \A d \in Denoms : rest[d] + fee[d] = amt[d]
    BY <1>1 DEF Coins
  <2>6. Plus(rest, fee) = amt
    BY <2>5 DEF Plus, Coins
  <2>7. ValidateInputOutputs(amt, sent) <=> rest # ZeroCoins
    <3>1. TotalCoins([i \in 1..Len(sent) |-> sent[i].coins]) = amt
      BY <2>2, <2>4, <2>6
    <3>2. (\A i \in 1..Len(sent) : sent[i].coins # ZeroCoins) <=> rest # ZeroCoins
      BY <1>4, <2>1
    <3> QED
      BY <3>1, <3>2 DEF ValidateInputOutputs
  <2> QED
    BY <2>7 DEF sent, rest, fee
<1> QED
  BY <1>3, <1>4

\* A MultiSend of one output credits the fee to the collector and the rest to
\* the recipient.
LEMMA OneOutputCredits ==
  ASSUME platformPercentage \in 0..FullPercentage,
         NEW to \in Accounts, to # FeeCollector, NEW amt \in Coins,
         NEW a \in Accounts, NEW d \in Denoms
  PROVE  CreditTo(MultiSendOutputs(<<[to |-> to, coins |-> amt]>>), a)[d]
           = IF a = to THEN amt[d] - SendFee(amt)[d]
             ELSE IF a = FeeCollector THEN SendFee(amt)[d] ELSE 0
<1> DEFINE fee == SendFee(amt)
           rest == Minus(amt, fee)
           thru == [to |-> to, coins |-> rest]
           own == [to |-> FeeCollector, coins |-> fee]
           sent == MultiSendOutputs(<<[to |-> to, coins |-> amt]>>)
<1>1. /\ fee \in Coins /\ rest \in Coins /\ rest[d] = amt[d] - fee[d]
      /\ thru \in [to : Accounts, coins : Coins] /\ own \in [to : Accounts, coins : Coins]
      /\ sent = IF fee = ZeroCoins THEN <<thru>> ELSE <<thru, own>>
  BY OneOutputCharged
<1>2. thru.to = to /\ thru.coins = rest /\ own.to = FeeCollector /\ own.coins = fee
  OBVIOUS
<1>3. fee[d] \in Nat /\ rest[d] \in Nat
  BY <1>1 DEF Coins
<1> HIDE DEF fee, rest, thru, own, sent
<1>4. CASE fee = ZeroCoins
  <2>1. sent = <<thru>> /\ fee[d] = 0
    BY <1>1, <1>4 DEF ZeroCoins
  <2>2. CreditTo(<<thru>>, a)[d] = IF thru.to = a THEN thru.coins[d] ELSE 0
    BY <1>1, CreditToOne
  <2> QED
    BY <1>1, <1>2, <2>1, <2>2 DEF sent, fee
<1>5. CASE fee # ZeroCoins
  <2>1. sent = <<thru, own>>
    BY <1>1, <1>5
  <2>2. CreditTo(<<thru, own>>, a)[d] = (IF thru.to = a THEN thru.coins[d] ELSE 0)
                                          + (IF own.to = a THEN own.coins[d] ELSE 0)
    BY <1>1, CreditToTwo
  <2>3. CreditTo(sent, a)[d] = IF a = to THEN amt[d] - fee[d]
                               ELSE IF a = FeeCollector THEN fee[d] ELSE 0
    BY <1>1, <1>2, <1>3, <2>1, <2>2
  <2> QED
    BY <2>3 DEF sent, fee
<1> QED
  BY <1>4, <1>5

\* The two paths accept the same transfers, but for the ones of which the fee
\* takes everything, and leave every account with the same.
LEMMA SendsAgreeAlways == TypeOK => SendsAgree
<1> SUFFICES ASSUME TypeOK, NEW from \in Users, NEW to \in Accounts, NEW amt \in CoinInputs
             PROVE  /\ MultiSendAccepted(from, <<[to |-> to, coins |-> amt]>>)
                         <=> SendAccepted(from, to, amt) /\ Minus(amt, SendFee(amt)) # ZeroCoins
                    /\ MultiSendAccepted(from, <<[to |-> to, coins |-> amt]>>)
                         => SendResult(from, to, amt)
                              = MultiSendResult(from, <<[to |-> to, coins |-> amt]>>)
  BY DEF SendsAgree
<1> DEFINE o == [to |-> to, coins |-> amt]
           outputs == <<o>>
           fee == SendFee(amt)
           paid == SendCoins(balance, from, FeeCollector, fee)
           rest == Minus(amt, fee)
<1>2. Len(outputs) = 1 /\ outputs[1] = o /\ o.to = to /\ o.coins = amt
  OBVIOUS
<1>0. SUFFICES ASSUME platformPercentage \in 0..FullPercentage
               PROVE  /\ MultiSendAccepted(from, outputs)
                           <=> SendAccepted(from, to, amt) /\ rest # ZeroCoins
                      /\ MultiSendAccepted(from, outputs)
                           => SendResult(from, to, amt) = MultiSendResult(from, outputs)
  <2>1. amt \in Coins /\ platformPercentage \in Nat
    BY CoinInputsType DEF TypeOK
  <2>2. SendAccepted(from, to, amt) => platformPercentage \in 0..FullPercentage
    BY <2>1, FeeCovered DEF SendAccepted, ValidAmount
  <2>3. MultiSendAccepted(from, outputs) => amt # ZeroCoins /\ Covers(amt, SendFee(amt))
    BY <1>2 DEF MultiSendAccepted, ValidateInputOutputs
  <2>4. MultiSendAccepted(from, outputs) => platformPercentage \in 0..FullPercentage
    BY <2>1, <2>3, FeeCovered
  <2> QED
    BY <2>2, <2>4
<1>1. /\ amt \in Coins /\ platformPercentage \in 0..FullPercentage
      /\ balance \in [Accounts -> Coins] /\ from \in Accounts /\ FeeCollector \in Accounts
      /\ from # FeeCollector
  BY <1>0, CoinInputsType, AccountsDistinct DEF TypeOK
<1>i. TotalCoins([i \in 1..Len(outputs) |-> outputs[i].coins]) = amt
  <2> DEFINE cs == [i \in 1..1 |-> amt]
  <2>1. [i \in 1..Len(outputs) |-> outputs[i].coins] = cs
    BY <1>2
  <2>2. cs \in [1..1 -> Coins] /\ cs[1] = amt
    BY <1>1
  <2> HIDE DEF cs
  <2>3. TotalCoins(cs) = amt
    BY <2>2, TotalCoinsOne
  <2> QED
    BY <2>1, <2>3
<1>3. InputOf(outputs) = amt
  BY <1>i DEF InputOf
<1>a. MultiSendAccepted(from, outputs)
        <=> SendAccepted(from, to, amt) /\ rest # ZeroCoins
  <2>1. ValidateInputOutputs(amt, MultiSendOutputs(outputs)) <=> rest # ZeroCoins
    BY <1>1, OneOutputValid
  <2>2. ValidateInputOutputs(amt, outputs) <=> ValidAmount(amt)
    BY <1>2, <1>i DEF ValidateInputOutputs, ValidAmount
  <2>3. (\A i \in 1..Len(outputs) : ~ BlockedAddr(outputs[i].to)) <=> ~ BlockedAddr(to)
    BY <1>2
  <2>4. outputs # << >>
    BY <1>2
  <2>5. (\A i \in 1..Len(outputs) : Covers(outputs[i].coins, SendFee(outputs[i].coins)))
          <=> Covers(amt, SendFee(amt))
    BY <1>2
  <2> HIDE DEF outputs, rest
  <2> QED
    BY <1>3, <2>1, <2>2, <2>3, <2>4, <2>5 DEF MultiSendAccepted, SendAccepted
<1>b. SUFFICES ASSUME MultiSendAccepted(from, outputs)
               PROVE  SendResult(from, to, amt) = MultiSendResult(from, outputs)
  BY <1>a
<1>4. SendAccepted(from, to, amt)
  BY <1>a, <1>b
<1>5. to # FeeCollector
  BY <1>4 DEF SendAccepted, BlockedAddr, ModuleAccounts
<1>6. /\ fee \in Coins /\ SendPayable(from, amt)
      /\ SendResult(from, to, amt) \in [Accounts -> Coins]
  BY <1>1, <1>4, SendEffect
<1>7. rest \in Coins /\ paid \in [Accounts -> Coins]
  BY <1>6 DEF SendPayable
<1>8. SendResult(from, to, amt) = SendCoins(paid, from, to, rest)
  BY DEF SendResult
<1>9. MultiSendResult(from, outputs)
        = [a \in Accounts |-> Plus([balance EXCEPT ![from] = Minus(@, amt)][a],
                                   CreditTo(MultiSendOutputs(outputs), a))]
  BY <1>3 DEF MultiSendResult, InputOutputCoins
<1>10. ASSUME NEW a \in Accounts
       PROVE  SendCoins(paid, from, to, rest)[a]
                = Plus([balance EXCEPT ![from] = Minus(@, amt)][a],
                       CreditTo(MultiSendOutputs(outputs), a))
  <2> DEFINE left == SendCoins(paid, from, to, rest)[a]
             credit == CreditTo(MultiSendOutputs(outputs), a)
  <2>1. ASSUME NEW d \in Denoms
        PROVE  left[d] = [balance EXCEPT ![from] = Minus(@, amt)][a][d] + credit[d]
    <3>1. credit[d] = IF a = to THEN amt[d] - fee[d] ELSE IF a = FeeCollector THEN fee[d] ELSE 0
      BY <1>1, <1>5, OneOutputCredits
    <3>2. amt[d] \in Nat /\ fee[d] \in Nat /\ balance[a][d] \in Nat /\ rest[d] = amt[d] - fee[d]
      BY <1>1, <1>6 DEF Coins, Minus
    <3>3. [balance EXCEPT ![from] = Minus(@, amt)][a][d]
            = IF a = from THEN balance[a][d] - amt[d] ELSE balance[a][d]
      BY <1>1 DEF Minus
    <3>4. paid[a][d] = IF a = from THEN balance[a][d] - fee[d]
                       ELSE IF a = FeeCollector THEN balance[a][d] + fee[d] ELSE balance[a][d]
      BY <1>1 DEF SendCoins, Minus, Plus
    <3> HIDE DEF paid, fee, rest, credit
    <3> DEFINE debited == [paid EXCEPT ![from] = Minus(@, rest)]
    <3>5. debited[a][d] = IF a = from THEN paid[a][d] - rest[d] ELSE paid[a][d]
      BY <1>7 DEF Minus
    <3>6. DOMAIN debited = Accounts
      BY <1>7
    <3>7. left[d] = IF a = to THEN debited[a][d] + rest[d] ELSE debited[a][d]
      BY <3>6 DEF SendCoins, Plus
    <3> HIDE DEF debited, left
    <3> QED
      BY <3>1, <3>2, <3>3, <3>4, <3>5, <3>7, <1>1, <1>5
  <2>2. left \in Coins
    BY <1>6, <1>8
  <2>3. Plus([balance EXCEPT ![from] = Minus(@, amt)][a], credit)
          = [d \in Denoms |-> [balance EXCEPT ![from] = Minus(@, amt)][a][d] + credit[d]]
    BY DEF Plus
  <2>4. left = [d \in Denoms |-> left[d]]
    BY <2>2 DEF Coins
  <2> HIDE DEF left, credit
  <2>5. left = [d \in Denoms |-> [balance EXCEPT ![from] = Minus(@, amt)][a][d] + credit[d]]
    BY <2>1, <2>4
  <2> QED
    BY <2>3, <2>5 DEF left, credit
<1>11. SendCoins(paid, from, to, rest) \in [Accounts -> Coins]
  BY <1>6, <1>8
<1> HIDE DEF paid, rest, fee, outputs
<1>12. SendCoins(paid, from, to, rest) = MultiSendResult(from, outputs)
  BY <1>9, <1>10, <1>11
<1> QED
  BY <1>8, <1>12

\* For every percentage, list of minimums and amount: a transfer passes as a
\* MultiSend of one output exactly when it passes as a Send of which the fee
\* leaves something, and then both do the same.
THEOREM SendPathsAgree == Spec => []SendsAgree
<1>1. Init => Inv
  BY InitInv
<1>2. Inv /\ [Next]_vars => Inv'
  BY NextInv
<1>3. Inv => SendsAgree
  BY SendsAgreeAlways DEF Inv
<1> QED
  BY <1>1, <1>2, <1>3, PTL DEF Spec
=============================================================================
