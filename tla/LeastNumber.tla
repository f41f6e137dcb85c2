----------------------------- MODULE LeastNumber -----------------------------
(***************************************************************************)
(* Induction and recursion over the natural numbers, stated about sets, so *)
(* that they can be cited without naming a predicate: least elements, sets *)
(* that hold every number, and that the functions which recursive          *)
(* definitions choose do exist.                                            *)
(***************************************************************************)
EXTENDS Naturals, FiniteSetTheorems, TLAPS

\* A set of numbers that is not empty has a least element: the intervals from 0 to
\* its elements are finite sets, and no chain of proper subsets of those goes on.
LEMMA Least ==
  ASSUME NEW T \in SUBSET Nat, T # {}
  PROVE  \E x \in T : \A y \in T : x <= y
<1> DEFINE U == { 0 .. x : x \in T }
           R == StrictSubsetOrdering(Nat)
<1>1. \A x \in T : 0 .. x \in FiniteSubsetsOf(Nat)
  BY FS_Interval DEF FiniteSubsetsOf
<1>2. IsWellFoundedOn(R, FiniteSubsetsOf(Nat))
  BY FS_StrictSubsetOrderingWellFounded
<1>3. U \subseteq FiniteSubsetsOf(Nat) /\ U # {}
  BY <1>1
<1>4. PICK I \in U : \A J \in U : <<J, I>> \notin R
  <2> HIDE DEF R, U
  <2> QED BY <1>2, <1>3, WFMin
<1>5. PICK x \in T : I = 0 .. x
  OBVIOUS
<1>6. ASSUME NEW y \in T, ~(x <= y) PROVE FALSE
  <2>1. <<0 .. y, 0 .. x>> \in (SUBSET Nat) \X (SUBSET Nat)
    OBVIOUS
  <2>2. 0 .. y \subseteq 0 .. x /\ x \in 0 .. x /\ x \notin 0 .. y
    BY <1>6
  <2>3. <<0 .. y, 0 .. x>> \in R
    BY <2>1, <2>2 DEF StrictSubsetOrdering
  <2> QED BY <1>4, <1>5, <2>3
<1> QED BY <1>6

\* A set that holds 0, and n + 1 with every n, holds every number.
LEMMA NatSets ==
  ASSUME NEW S, 0 \in S, \A n \in Nat : n \in S => n + 1 \in S
  PROVE  Nat \subseteq S
<1> SUFFICES ASSUME Nat \ S # {} PROVE FALSE
  OBVIOUS
<1>1. PICK x \in Nat \ S : \A y \in Nat \ S : x <= y
  BY Least
<1>2. x # 0 /\ x - 1 \in Nat
  BY <1>1
<1>3. x - 1 \in S
  BY <1>1, <1>2
<1> QED BY <1>1, <1>2, <1>3

-----------------------------------------------------------------------------
\* The functions on an interval that satisfy a recursion, whose step is a function.
Recursive(lo, k, S, a, step) ==
  { f \in [lo .. k -> S] : f[lo] = a /\ \A n \in lo + 1 .. k : f[n] = step[<<f[n - 1], n>>] }

\* A recursion has a solution.
LEMMA Recursion ==
  ASSUME NEW lo \in Nat, NEW k \in Nat, lo <= k,
         NEW S, NEW a \in S, NEW step,
         \A x \in S : \A n \in lo + 1 .. k : step[<<x, n>>] \in S
  PROVE  Recursive(lo, k, S, a, step) # {}
<1> DEFINE Upto(m) == { f \in [lo .. m -> S] :
             f[lo] = a /\ \A n \in lo + 1 .. m : f[n] = step[<<f[n - 1], n>>] }
           T == { d \in Nat : lo + d <= k => Upto(lo + d) # {} }
<1>1. 0 \in T
  <2>1. [n \in lo .. lo |-> a] \in Upto(lo)
    OBVIOUS
  <2>2. lo + 0 = lo
    OBVIOUS
  <2> HIDE DEF Upto
  <2> QED BY <2>1, <2>2
<1>2. ASSUME NEW d \in Nat, d \in T PROVE d + 1 \in T
  <2> SUFFICES ASSUME lo + (d + 1) <= k PROVE Upto(lo + (d + 1)) # {}
    OBVIOUS
  <2>1. Upto(lo + d) # {}
    BY <1>2
  <2>2. PICK f : f \in Upto(lo + d)
    BY <2>1
  <2> DEFINE m == lo + d
             b == step[<<f[m], m + 1>>]
             g == [n \in lo .. m + 1 |-> IF n = m + 1 THEN b ELSE f[n]]
  <2>3. m \in Nat /\ m + 1 = lo + (d + 1) /\ m >= lo /\ m \in lo .. m /\ m + 1 \in lo + 1 .. k
    OBVIOUS
  <2>4. f \in [lo .. m -> S] /\ f[m] \in S
    BY <2>2, <2>3
  <2>5. f[lo] = a /\ \A n \in lo + 1 .. m : f[n] = step[<<f[n - 1], n>>]
    BY <2>2
  <2>6. b \in S
    <3> HIDE DEF m
    <3> QED BY <2>3, <2>4
  <2> HIDE DEF m, b, Upto
  <2>7. g \in [lo .. m + 1 -> S]
    BY <2>3, <2>4, <2>6
  <2>8. g[lo] = a
    <3>1. lo \in lo .. m + 1 /\ lo # m + 1
      BY <2>3
    <3> QED BY <2>5, <3>1
  <2>9. ASSUME NEW n \in lo + 1 .. m + 1
        PROVE  g[n] = step[<<g[n - 1], n>>]
    <3>1. CASE n = m + 1
      <4>1. n - 1 = m /\ m \in lo .. m + 1 /\ m # m + 1 /\ n \in lo .. m + 1
        BY <2>3, <3>1
      <4>2. g[n - 1] = f[m] /\ g[n] = b
        BY <3>1, <4>1
      <4> QED BY <3>1, <4>2 DEF b
    <3>2. CASE n # m + 1
      <4>1. n \in lo + 1 .. m /\ n \in lo .. m + 1 /\ n - 1 \in lo .. m + 1 /\ n - 1 # m + 1
        BY <2>3, <3>2
      <4>2. g[n - 1] = f[n - 1] /\ g[n] = f[n]
        BY <3>2, <4>1
      <4> HIDE DEF g
      <4> QED BY <2>5, <4>1, <4>2
    <3> QED BY <3>1, <3>2
  <2> HIDE DEF g
  <2>10. g \in Upto(m + 1)
    BY <2>7, <2>8, <2>9 DEF Upto
  <2> QED BY <2>3, <2>10
<1> HIDE DEF Upto
<1>3. k - lo \in Nat /\ lo + (k - lo) = k
  OBVIOUS
<1>4. k - lo \in T
  <2> HIDE DEF T
  <2> QED BY <1>1, <1>2, <1>3, NatSets
<1>5. Upto(k) # {}
  BY <1>3, <1>4
<1> QED BY <1>5 DEF Upto, Recursive

\* The two ways in which a sequence is built: from nothing, or from its first element.
From0(k, S, a, step) ==
  { f \in [0 .. k -> S] : f[0] = a /\ \A n \in 1 .. k : f[n] = step[<<f[n - 1], n>>] }

From1(k, S, a, step) ==
  { f \in [1 .. k -> S] : f[1] = a /\ \A n \in 2 .. k : f[n] = step[<<f[n - 1], n>>] }

LEMMA RecursionFrom0 ==
  ASSUME NEW k \in Nat, NEW S, NEW a \in S, NEW step,
         \A x \in S : \A n \in 1 .. k : step[<<x, n>>] \in S
  PROVE  From0(k, S, a, step) # {}
<1>1. 0 \in Nat /\ 0 <= k /\ 0 + 1 .. k = 1 .. k
  OBVIOUS
<1>2. Recursive(0, k, S, a, step) # {}
  BY <1>1, Recursion
<1> QED BY <1>1, <1>2 DEF Recursive, From0

LEMMA RecursionFrom1 ==
  ASSUME NEW k \in Nat \ {0}, NEW S, NEW a \in S, NEW step,
         \A x \in S : \A n \in 2 .. k : step[<<x, n>>] \in S
  PROVE  From1(k, S, a, step) # {}
<1>1. 1 \in Nat /\ k \in Nat /\ 1 <= k /\ 1 + 1 .. k = 2 .. k
  OBVIOUS
<1>2. Recursive(1, k, S, a, step) # {}
  BY <1>1, Recursion
<1> QED BY <1>1, <1>2 DEF Recursive, From1

\* The functions on 0 .. n that are given at some places, and everywhere else by their
\* value at a place further on.
Chained(n, S, stop, a, next, join) ==
  { f \in [0 .. n -> S] :
      \A i \in 0 .. n : /\ i \in stop => f[i] = a
                        /\ i \notin stop => f[i] = join[<<i, f[next[i]]>>] }

\* Such a function exists: it is built from n downwards.
LEMMA ChainRecursion ==
  ASSUME NEW n \in Nat, NEW S, NEW a \in S, NEW stop, NEW next, NEW join,
         \A i \in 0 .. n : i \notin stop => next[i] \in i + 1 .. n,
         \A i \in 0 .. n : \A x \in S : join[<<i, x>>] \in S
  PROVE  Chained(n, S, stop, a, next, join) # {}
<1> DEFINE Good(f, i) == /\ i \in stop => f[i] = a
                         /\ i \notin stop => f[i] = join[<<i, f[next[i]]>>]
           From(d) == { f \in [0 .. n -> S] : \A i \in 0 .. n : n < i + d => Good(f, i) }
           T == { d \in Nat : From(d) # {} }
<1>1. 0 \in T
  <2>1. [i \in 0 .. n |-> a] \in From(0)
    <3>1. \A i \in 0 .. n : ~(n < i + 0)
      OBVIOUS
    <3>2. [i \in 0 .. n |-> a] \in [0 .. n -> S]
      OBVIOUS
    <3> HIDE DEF Good
    <3> QED BY <3>1, <3>2
  <2> HIDE DEF From
  <2> QED BY <2>1
<1>2. ASSUME NEW d \in Nat, d \in T PROVE d + 1 \in T
  <2>1. PICK f : f \in From(d)
    <3> HIDE DEF From
    <3> QED BY <1>2
  <2>2. f \in [0 .. n -> S] /\ \A i \in 0 .. n : n < i + d => Good(f, i)
    BY <2>1
  <2> DEFINE v(i) == IF i \in stop THEN a ELSE join[<<i, f[next[i]]>>]
             g == [i \in 0 .. n |-> IF n < i + d THEN f[i] ELSE v(i)]
  <2>3. ASSUME NEW i \in 0 .. n PROVE v(i) \in S
    <3>1. CASE i \notin stop
      <4>1. next[i] \in 0 .. n
        BY <3>1
      <4>2. f[next[i]] \in S
        BY <2>2, <4>1
      <4> QED BY <3>1, <4>2
    <3> QED BY <3>1
  <2>4. g \in [0 .. n -> S]
    <3> HIDE DEF v
    <3> QED BY <2>2, <2>3
  <2>5. ASSUME NEW i \in 0 .. n, n < i + (d + 1) PROVE Good(g, i)
    <3>1. CASE i \in stop
      <4>1. CASE n < i + d
        <5>1. g[i] = f[i] /\ f[i] = a
          BY <2>2, <3>1, <4>1
        <5> HIDE DEF g
        <5> QED BY <3>1, <5>1
      <4>2. CASE ~(n < i + d)
        <5>1. g[i] = v(i) /\ v(i) = a
          BY <3>1, <4>2
        <5> HIDE DEF g, v
        <5> QED BY <3>1, <5>1
      <4> QED BY <4>1, <4>2
    <3>2. CASE i \notin stop
      <4>1. next[i] \in 0 .. n /\ n < next[i] + d
        BY <2>5, <3>2
      <4>2. g[next[i]] = f[next[i]]
        BY <4>1
      <4>3. g[i] = join[<<i, f[next[i]]>>]
        <5>1. CASE n < i + d
          <6>1. g[i] = f[i] /\ f[i] = join[<<i, f[next[i]]>>]
            BY <2>2, <3>2, <5>1
          <6> QED BY <6>1
        <5>2. CASE ~(n < i + d)
          BY <3>2, <5>2
        <5> QED BY <5>1, <5>2
      <4> HIDE DEF g
      <4> QED BY <3>2, <4>2, <4>3
    <3> QED BY <3>1, <3>2
  <2> HIDE DEF g, Good
  <2>6. g \in From(d + 1)
    BY <2>4, <2>5
  <2> HIDE DEF From
  <2> QED BY <2>6
<1>3. n + 1 \in T
  <2> HIDE DEF T
  <2> QED BY <1>1, <1>2, NatSets
<1>4. PICK f : f \in From(n + 1)
  <2> HIDE DEF From
  <2> QED BY <1>3
<1>5. f \in [0 .. n -> S] /\ \A i \in 0 .. n : Good(f, i)
  <2>1. \A i \in 0 .. n : n < i + (n + 1)
    OBVIOUS
  <2> HIDE DEF Good
  <2> QED BY <1>4, <2>1
<1>6. f \in Chained(n, S, stop, a, next, join)
  BY <1>5 DEF Chained
<1> QED BY <1>6
=============================================================================
