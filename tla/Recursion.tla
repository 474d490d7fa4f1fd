----------------------------- MODULE Recursion -----------------------------
(***************************************************************************)
(* Induction over the naturals, stated with a set in place of a predicate, *)
(* and what it says of functions defined by recursion: that there is one.  *)
(* A module that defines a function by recursion instantiates this one     *)
(* with the step of the recursion.                                         *)
(***************************************************************************)
EXTENDS Integers, WellFoundedInduction, TLAPS

CONSTANT Step(_, _, _)     \* the context, the value so far, the index

LEMMA Least ==
  ASSUME NEW T \in SUBSET Nat, T # {}
  PROVE  \E n \in T : \A m \in T : n <= m
<1>1. PICK n \in T : \A m \in T : <<m, n>> \notin OpToRel(<, Nat)
  BY NatLessThanWellFounded, WFMin
<1>2. \A m \in T : ~(m < n)
  BY <1>1 DEF OpToRel
<1> QED BY <1>2

LEMMA Induction ==
  ASSUME NEW S \in SUBSET Nat, 0 \in S, \A n \in S : n + 1 \in S
  PROVE  S = Nat
<1> SUFFICES ASSUME Nat \ S # {} PROVE FALSE
  OBVIOUS
<1>1. PICK n \in Nat \ S : \A m \in Nat \ S : n <= m
  BY Least
<1>2. n # 0 /\ n - 1 \in Nat /\ n - 1 \in S
  BY <1>1
<1> QED BY <1>1, <1>2

\* Up to a bound, from any integer on.
LEMMA RangeInduction ==
  ASSUME NEW m \in Int, NEW n \in Int, NEW S, m \in S,
         \A k \in m + 1..n : k - 1 \in S => k \in S
  PROVE  \A k \in m..n : k \in S
<1> DEFINE T == {i \in Nat : m + i \in m..n => m + i \in S}
<1>1. 0 \in T
  OBVIOUS
<1>2. ASSUME NEW i \in T PROVE i + 1 \in T
  <2> SUFFICES ASSUME m + (i + 1) \in m..n PROVE m + (i + 1) \in S
    OBVIOUS
  <2>1. i \in Nat /\ (m + i \in m..n => m + i \in S)
    BY <1>2
  <2>2. m + i \in m..n /\ m + (i + 1) \in m + 1..n /\ (m + (i + 1)) - 1 = m + i
    BY <2>1
  <2> QED BY <2>1, <2>2
<1>3. T = Nat
  BY <1>1, <1>2, Induction
<1> SUFFICES ASSUME NEW k \in m..n PROVE k \in S
  OBVIOUS
<1>4. k - m \in Nat /\ m + (k - m) = k
  OBVIOUS
<1>5. k - m \in T
  BY <1>3, <1>4
<1> QED BY <1>4, <1>5

IsIteration(f, ctx, first, m, n) ==
  f = [k \in m..n |-> IF k = m THEN first ELSE Step(ctx, f[k - 1], k)]

\* From m up to n each value is made from the one before it.
THEOREM IterationExists ==
  ASSUME NEW ctx, NEW first, NEW m \in Int, NEW n \in Int
  PROVE  \E f : IsIteration(f, ctx, first, m, n)
<1> DEFINE S == {k \in m..n : \E f : IsIteration(f, ctx, first, m, k)}
<1>1. CASE m > n
  <2>1. m..n = {}
    BY <1>1
  <2>2. IsIteration([k \in m..n |-> k], ctx, first, m, n)
    BY <2>1 DEF IsIteration
  <2> QED BY <2>2
<1>2. CASE m <= n
  <2>1. m \in S
    <3>1. m..m = {m}
      OBVIOUS
    <3>2. IsIteration([k \in m..m |-> first], ctx, first, m, m)
      BY <3>1 DEF IsIteration
    <3> QED BY <1>2, <3>2
  <2>2. ASSUME NEW l \in m + 1..n, l - 1 \in S PROVE l \in S
    <3>1. PICK f : IsIteration(f, ctx, first, m, l - 1)
      BY <2>2
    <3> DEFINE g == [k \in m..l |-> IF k = l THEN Step(ctx, f[l - 1], l) ELSE f[k]]
    <3>2. \A k \in m..l : g[k] = IF k = m THEN first ELSE Step(ctx, g[k - 1], k)
      <4> SUFFICES ASSUME NEW k \in m..l
                   PROVE  g[k] = IF k = m THEN first ELSE Step(ctx, g[k - 1], k)
        OBVIOUS
      <4>1. CASE k = l
        <5>1. g[k] = Step(ctx, f[l - 1], k) /\ g[k - 1] = f[l - 1] /\ k # m
          BY <4>1
        <5> QED BY <5>1
      <4>2. CASE k # l
        <5>1. k \in m..l - 1 /\ g[k] = f[k] /\ (k # m => g[k - 1] = f[k - 1])
          BY <4>2
        <5>2. f[k] = IF k = m THEN first ELSE Step(ctx, f[k - 1], k)
          BY <3>1, <5>1 DEF IsIteration
        <5> QED BY <5>1, <5>2
      <4> QED BY <4>1, <4>2
    <3> HIDE DEF g
    <3>3. g = [k \in m..l |-> g[k]]
      BY DEF g
    <3>4. IsIteration(g, ctx, first, m, l)
      BY <3>2, <3>3 DEF IsIteration
    <3> QED BY <3>4
  <2>3. n \in m..n
    BY <1>2
  <2>4. \A k \in m..n : k \in S
    <3> HIDE DEF S
    <3> QED BY <2>1, <2>2, RangeInduction
  <2> QED BY <2>3, <2>4
<1> QED BY <1>1, <1>2

\* Loop of module Loops with this step.
Iterate(ctx, first, m, n) ==
  LET after[k \in m..n] == IF k = m THEN first ELSE Step(ctx, after[k - 1], k) IN after[n]

THEOREM LoopValues ==
  ASSUME NEW ctx, NEW first, NEW m \in Int, NEW n \in Int
  PROVE  \E f : IsIteration(f, ctx, first, m, n) /\ Iterate(ctx, first, m, n) = f[n]
<1> DEFINE after == CHOOSE f : f = [k \in m..n |-> IF k = m THEN first ELSE Step(ctx, f[k - 1], k)]
<1>1. Iterate(ctx, first, m, n) = after[n]
  BY Zenon DEF Iterate
<1>2. after = [k \in m..n |-> IF k = m THEN first ELSE Step(ctx, after[k - 1], k)]
  <2>1. \E f : f = [k \in m..n |-> IF k = m THEN first ELSE Step(ctx, f[k - 1], k)]
    <3>1. \E f : IsIteration(f, ctx, first, m, n)
      BY IterationExists
    <3> QED BY <3>1, Zenon DEF IsIteration
  <2> QED BY <2>1, Zenon
<1> HIDE DEF after
<1>3. IsIteration(after, ctx, first, m, n)
  BY <1>2, Zenon DEF IsIteration
<1> QED BY <1>1, <1>3

\* What is true before the loop, of its index and its value, and is kept by its body is
\* true after it: I is the set of the pairs of which it is true.
THEOREM LoopRule ==
  ASSUME NEW ctx, NEW first, NEW m \in Int, NEW n \in Int, m <= n, NEW I,
         <<m, first>> \in I,
         \A k \in m + 1..n : \A v : <<k - 1, v>> \in I => <<k, Step(ctx, v, k)>> \in I
  PROVE  <<n, Iterate(ctx, first, m, n)>> \in I
<1>1. PICK after : IsIteration(after, ctx, first, m, n) /\ Iterate(ctx, first, m, n) = after[n]
  BY LoopValues
<1> DEFINE S == {k \in m..n : <<k, after[k]>> \in I}
<1>2. after = [k \in m..n |-> IF k = m THEN first ELSE Step(ctx, after[k - 1], k)]
  BY <1>1, Zenon DEF IsIteration
<1>3. m \in S
  BY <1>2
<1>4. ASSUME NEW k \in m + 1..n, k - 1 \in S PROVE k \in S
  <2>1. after[k] = Step(ctx, after[k - 1], k)
    BY <1>2
  <2> QED BY <1>4, <2>1
<1>5. n \in S
  <2> HIDE DEF S
  <2>1. \A k \in m..n : k \in S
    BY <1>3, <1>4, RangeInduction
  <2> QED BY <2>1
<1> QED BY <1>1, <1>5
=============================================================================
