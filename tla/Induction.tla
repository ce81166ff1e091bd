----------------------------- MODULE Induction ------------------------------
(***************************************************************************)
(* Induction over the natural numbers in a form the provers can use: the   *)
(* theorems of NaturalsInduction have an operator as a parameter, which no *)
(* prover instantiates, so here the property is the set of the numbers     *)
(* that have it.  It follows from the well-foundedness of <.               *)
(***************************************************************************)
EXTENDS Integers, WellFoundedInduction, TLAPS

(* A set of natural numbers that is not empty has a least element. *)
LEMMA LeastElement ==
  ASSUME NEW S \in SUBSET Nat, S # {}
  PROVE  \E n \in S : \A m \in S : n <= m
<1> DEFINE Less == OpToRel(<, Nat)
<1>1. IsWellFoundedOn(Less, Nat)
  BY Zenon, NatLessThanWellFounded
<1>2. \A x, y \in Nat : x < y => <<x, y>> \in Less
  BY Zenon DEF OpToRel
<1> HIDE DEF Less
<1>3. PICK n \in S : \A m \in S : ~(<<m, n>> \in Less)
  BY <1>1, WFMin
<1>4. ASSUME NEW m \in S PROVE n <= m
  <2>1. m \in Nat /\ n \in Nat /\ ~(<<m, n>> \in Less)
    BY <1>3
  <2> QED BY <2>1, <1>2
<1> QED BY <1>4

(* What holds of the first number of an interval, and of the successor of  *)
(* each number it holds of, holds of the interval.                         *)
LEMMA IntervalInduction ==
  ASSUME NEW a \in Int, NEW b \in Int, NEW T,
         a <= b => a \in T, \A i \in a..(b - 1) : i \in T => i + 1 \in T
  PROVE  \A i \in a..b : i \in T
<1> DEFINE Missing == {k \in Nat : a + k <= b /\ a + k \notin T}
<1>1. SUFFICES ASSUME Missing # {} PROVE FALSE
  <2>1. ASSUME NEW i \in a..b, i \notin T PROVE i - a \in Missing
    <3>1. i - a \in Nat /\ a + (i - a) = i /\ i <= b
      OBVIOUS
    <3> QED BY <2>1, <3>1
  <2> QED BY <2>1
<1>2. PICK k \in Missing : \A m \in Missing : k <= m
  <2> HIDE DEF Missing
  <2>1. Missing \in SUBSET Nat
    BY DEF Missing
  <2> QED BY <1>1, <2>1, LeastElement
<1>3. k # 0 /\ k - 1 \in Nat /\ a + k <= b /\ a + k \notin T
  BY <1>2
<1>4. a + (k - 1) \in T
  BY <1>2, <1>3
<1>5. a + (k - 1) \in a..(b - 1) /\ (a + (k - 1)) + 1 = a + k
  BY <1>3
<1> QED BY <1>3, <1>4, <1>5

(***************************************************************************)
(* A definition f[k \in a..b] == IF k = a THEN s ELSE Step[k][f[k - 1]] has *)
(* a value: there is a function with this equation, for every start s and  *)
(* all steps from S to S, Step[k] for k.                                   *)
(***************************************************************************)
Stepwise(Step, a, b, S) == \A k \in (a + 1)..b : \A x \in S : Step[k][x] \in S

Follows(f, a, b, S, s, Step) ==
  /\ f \in [a..b -> S]
  /\ f[a] = s
  /\ \A k \in (a + 1)..b : f[k] = Step[k][f[k - 1]]

LEMMA PrimitiveRecursion ==
  ASSUME NEW a \in Int, NEW b \in Int, a <= b,
         NEW S, NEW s \in S, NEW Step, Stepwise(Step, a, b, S)
  PROVE  \E f : Follows(f, a, b, S, s, Step)
<1> DEFINE Good(m, f) == f[a] = s /\ \A k \in (a + 1)..m : f[k] = Step[k][f[k - 1]]
           T == {m \in a..b : \E f \in [a..m -> S] : Good(m, f)}
<1>1. a \in T
  <2> DEFINE f == [k \in a..a |-> s]
  <2>1. f \in [a..a -> S] /\ Good(a, f)
    OBVIOUS
  <2>2. a \in a..b
    OBVIOUS
  <2> HIDE DEF f, Good
  <2> QED BY <2>1, <2>2
<1>2. ASSUME NEW m \in a..(b - 1), m \in T PROVE m + 1 \in T
  <2>1. PICK f \in [a..m -> S] : Good(m, f)
    BY <1>2
  <2> DEFINE g == [k \in a..(m + 1) |-> IF k = m + 1 THEN Step[m + 1][f[m]] ELSE f[k]]
  <2>2. m \in a..m /\ m + 1 \in a..b /\ f[m] \in S /\ Step[m + 1][f[m]] \in S
    <3>1. m \in a..m /\ m + 1 \in a..b /\ m + 1 \in (a + 1)..b
      OBVIOUS
    <3> QED BY <3>1 DEF Stepwise
  <2>3. g \in [a..(m + 1) -> S]
    BY <2>2
  <2>4. \A k \in a..m : g[k] = f[k]
    OBVIOUS
  <2>5. g[m + 1] = Step[m + 1][g[m]]
    BY <2>2, <2>4
  <2>6. ASSUME NEW k \in (a + 1)..m PROVE g[k] = Step[k][g[k - 1]]
    <3>1. k \in a..m /\ k - 1 \in a..m
      OBVIOUS
    <3> QED BY <2>1, <2>4, <3>1
  <2>7. g[a] = s
    BY <2>1, <2>2, <2>4
  <2>8. Good(m + 1, g)
    <3>1. ASSUME NEW k \in (a + 1)..(m + 1) PROVE g[k] = Step[k][g[k - 1]]
      <4>1. CASE k = m + 1
        <5>1. k - 1 = m
          BY <4>1
        <5> HIDE DEF g
        <5> QED BY <2>5, <4>1, <5>1
      <4>2. CASE k # m + 1
        <5>1. k \in (a + 1)..m
          BY <4>2
        <5> QED BY <2>6, <5>1
      <4> QED BY <4>1, <4>2
    <3> QED BY <2>7, <3>1
  <2> QED BY <2>2, <2>3, <2>8
<1>3. b \in T
  <2> HIDE DEF T
  <2>1. \A m \in a..b : m \in T
    BY <1>1, <1>2, IntervalInduction
  <2> QED BY <2>1
<1> QED BY <1>3 DEF Follows

(* The same for a definition over all natural numbers.                      *)
LEMMA NaturalRecursion ==
  ASSUME NEW S, NEW s \in S, NEW Step, \A x \in S : Step[x] \in S
  PROVE  \E f \in [Nat -> S] : f[0] = s /\ \A k \in Nat \ {0} : f[k] = Step[f[k - 1]]
<1> DEFINE Steps(n) == [k \in 1..n |-> Step]
           Upto(n, f) == f \in [0..n -> S] /\ f[0] = s /\ \A k \in 1..n : f[k] = Step[f[k - 1]]
<1>1. ASSUME NEW n \in Nat PROVE \E f : Upto(n, f)
  <2>1. Stepwise(Steps(n), 0, n, S)
    BY DEF Stepwise
  <2>2. PICK f : Follows(f, 0, n, S, s, Steps(n))
    BY <2>1, PrimitiveRecursion
  <2>3. Upto(n, f)
    BY <2>2 DEF Follows
  <2> QED BY <2>3
<1>2. ASSUME NEW m \in Nat, NEW n \in Nat, m <= n, NEW f, NEW g, Upto(m, f), Upto(n, g)
      PROVE  f[m] = g[m]
  <2> DEFINE T == {i \in 0..m : f[i] = g[i]}
  <2>1. 0 \in T
    BY <1>2
  <2>2. ASSUME NEW i \in 0..(m - 1), i \in T PROVE i + 1 \in T
    <3>1. i + 1 \in 1..m /\ i + 1 \in 1..n /\ (i + 1) - 1 = i
      BY <1>2
    <3>2. f[i + 1] = Step[f[i]] /\ g[i + 1] = Step[g[i]]
      BY <1>2, <3>1
    <3> QED BY <2>2, <3>1, <3>2
  <2> HIDE DEF T
  <2>3. \A i \in 0..m : i \in T
    BY <2>1, <2>2, IntervalInduction
  <2>4. m \in T
    BY <2>3
  <2> QED BY <2>4 DEF T
<1> DEFINE F(n) == CHOOSE f : Upto(n, f)
           h == [n \in Nat |-> F(n)[n]]
<1>3. \A n \in Nat : Upto(n, F(n))
  BY <1>1
<1> HIDE DEF F
<1>4. h \in [Nat -> S] /\ h[0] = s
  <2>1. ASSUME NEW n \in Nat PROVE F(n)[n] \in S
    BY <1>3
  <2> QED BY <1>3, <2>1
<1>5. ASSUME NEW k \in Nat \ {0} PROVE h[k] = Step[h[k - 1]]
  <2>1. k - 1 \in Nat /\ k \in 1..k /\ k - 1 <= k
    OBVIOUS
  <2>2. F(k)[k] = Step[F(k)[k - 1]]
    BY <1>3, <2>1
  <2>3. F(k)[k - 1] = F(k - 1)[k - 1]
    <3>1. Upto(k - 1, F(k - 1)) /\ Upto(k, F(k))
      BY <1>3, <2>1
    <3> HIDE DEF Upto
    <3> QED BY <1>2, <2>1, <3>1
  <2> QED BY <2>1, <2>2, <2>3
<1> HIDE DEF h
<1> QED BY <1>4, <1>5

(***************************************************************************)
(* A walk along links, from first, that stays at null: it meets the        *)
(* elements of q when each links to the next one.                          *)
(***************************************************************************)
WalkAlong(first, next, null, n) ==
  LET at[i \in 1..n] ==
        IF i = 1 THEN first ELSE IF at[i - 1] = null THEN null ELSE next[at[i - 1]]
  IN  at

LEMMA WalkMeets ==
  ASSUME NEW first, NEW next, NEW null, NEW n \in Nat, NEW q,
         \A i \in 1..n : q[i] # null, n # 0 => first = q[1],
         \A i \in 1..(n - 1) : next[q[i]] = q[i + 1]
  PROVE  WalkAlong(first, next, null, n) = [i \in 1..n |-> q[i]]
<1> DEFINE Steps(at) ==
             [i \in 1..n |-> IF i = 1 THEN first
                             ELSE IF at[i - 1] = null THEN null ELSE next[at[i - 1]]]
           walk == CHOOSE at : at = Steps(at)
           met == [i \in 1..n |-> q[i]]
<1>1. met = Steps(met)
  <2>1. \A i \in 1..n : i # 1 => i - 1 \in 1..(n - 1) /\ (i - 1) + 1 = i
    OBVIOUS
  <2>2. \A i \in 1..n : i # 1 => q[i] = next[q[i - 1]] /\ q[i - 1] # null
    BY <2>1
  <2>3. 1 \in 1..n => q[1] = first
    OBVIOUS
  <2> QED BY <2>2, <2>3
<1>2. walk = Steps(walk)
  BY <1>1
<1>3. WalkAlong(first, next, null, n) = walk
  BY DEF WalkAlong
<1> HIDE DEF walk
<1> DEFINE T == {i \in 1..n : walk[i] = q[i]}
<1>4. 1 <= n => 1 \in T
  BY <1>2
<1>5. ASSUME NEW i \in 1..(n - 1), i \in T PROVE i + 1 \in T
  <2>1. walk[i] = q[i] /\ q[i] # null
    BY <1>5
  <2>2. walk[i + 1] = next[walk[i]]
    BY <1>2, <2>1
  <2>3. i + 1 \in 1..n /\ next[q[i]] = q[i + 1]
    OBVIOUS
  <2> QED BY <2>1, <2>2, <2>3
<1>6. \A i \in 1..n : i \in T
  <2> HIDE DEF T
  <2>1. 1 \in Int /\ n \in Int
    OBVIOUS
  <2> QED BY <1>4, <1>5, <2>1, IntervalInduction
<1>7. \A i \in 1..n : walk[i] = q[i]
  BY <1>6
<1> QED BY <1>2, <1>3, <1>7
=============================================================================
