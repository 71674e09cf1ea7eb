----------------------------- MODULE SetInduction -----------------------------
(***************************************************************************)
(* Induction over the natural numbers as a fact about sets: the theorems   *)
(* of the library take the formula to be proved as a parameter, which none *)
(* of the provers can instantiate; a set of numbers they can.              *)
(***************************************************************************)
EXTENDS Integers, WellFoundedInduction, TLAPS

\* A set of numbers has a least element.
LEMMA LeastNumber ==
  ASSUME NEW T \in SUBSET Nat, T # {}
  PROVE  \E x \in T : \A y \in T : ~(y < x)
  <1>1. PICK x \in T : \A y \in T : ~(<<y, x>> \in OpToRel(<, Nat))
    BY NatLessThanWellFounded, WFMin
  <1>2. ASSUME NEW y \in T, y < x PROVE FALSE
    <2>1. <<y, x>> \in OpToRel(<, Nat)
      BY <1>2 DEF OpToRel
    <2> QED
      BY <1>1, <2>1
  <1> QED
    BY <1>2

\* A set with zero that is closed under the successor has every number.
LEMMA Induction ==
  ASSUME NEW S \in SUBSET Nat, 0 \in S, \A n \in S : n + 1 \in S
  PROVE  S = Nat
  <1>1. SUFFICES ASSUME Nat \ S # {} PROVE FALSE
    OBVIOUS
  <1>2. PICK x \in Nat \ S : \A y \in Nat \ S : ~(y < x)
    BY <1>1, LeastNumber
  <1>3. x \in Nat /\ x # 0 /\ x - 1 \in Nat /\ x - 1 < x
    OBVIOUS
  <1>4. x - 1 \in S
    BY <1>2, <1>3
  <1>5. (x - 1) + 1 \in S /\ (x - 1) + 1 = x
    BY <1>4, <1>3
  <1> QED
    BY <1>2, <1>5

-----------------------------------------------------------------------------
(* Sums, as a recursive function computes them *)

\* f[i] is the sum of the first i elements of w.
AreSums(f, w, k) == f = [i \in 0 .. k |-> IF i = 0 THEN 0 ELSE f[i - 1] + w[i]]

\* There is a function that satisfies the recursion.
LEMMA SumsExist ==
  ASSUME NEW w, NEW k \in Nat
  PROVE  \E f : AreSums(f, w, k)
  <1> DEFINE S == {n \in Nat : \E f : AreSums(f, w, n)}
  <1>1. 0 \in S
    <2> DEFINE f == [i \in 0 .. 0 |-> 0]
    <2>1. AreSums(f, w, 0)
      BY DEF AreSums
    <2> QED
      BY <2>1
  <1>2. ASSUME NEW n \in S PROVE n + 1 \in S
    <2>1. PICK f : AreSums(f, w, n)
      OBVIOUS
    <2> DEFINE g == [i \in 0 .. n + 1 |-> IF i = n + 1 THEN f[n] + w[n + 1] ELSE f[i]]
    <2>2. ASSUME NEW i \in 0 .. n + 1
          PROVE  g[i] = IF i = 0 THEN 0 ELSE g[i - 1] + w[i]
      <3>1. CASE i = n + 1
        <4>1. i # 0 /\ i - 1 = n /\ n \in 0 .. n + 1 /\ n # n + 1
          BY <3>1
        <4> QED
          BY <3>1, <4>1
      <3>2. CASE i \in 0 .. n
        <4>1. f[i] = IF i = 0 THEN 0 ELSE f[i - 1] + w[i]
          BY <2>1, <3>2 DEF AreSums
        <4>2. g[i] = f[i] /\ (i # 0 => g[i - 1] = f[i - 1])
          BY <3>2
        <4> QED
          BY <4>1, <4>2
      <3> QED
        BY <3>1, <3>2
    <2>3. g = [i \in 0 .. n + 1 |-> IF i = 0 THEN 0 ELSE g[i - 1] + w[i]]
      <3> HIDE DEF g
      <3>1. g = [i \in 0 .. n + 1 |-> g[i]]
        BY DEF g
      <3> QED
        BY <2>2, <3>1
    <2>4. AreSums(g, w, n + 1)
      BY <2>3 DEF AreSums
    <2> HIDE DEF g
    <2> QED
      BY <2>4
  <1>3. S = Nat
    <2> HIDE DEF S
    <2>1. S \in SUBSET Nat
      BY DEF S
    <2> QED
      BY <1>1, <1>2, <2>1, Induction
  <1> QED
    BY <1>3

\* And only one, of which sums over fewer elements are a part; if the elements are numbers, so are the
\* sums.
LEMMA SumsAreUnique ==
  ASSUME NEW k \in Nat, NEW f, NEW v, AreSums(f, v, k),
         NEW m \in Nat, NEW g, NEW w, AreSums(g, w, m), k <= m, \A i \in 1 .. k : v[i] = w[i]
  PROVE  \A i \in 0 .. k : f[i] = g[i]
  <1> DEFINE S == {n \in Nat : n <= k => f[n] = g[n]}
  <1>1. 0 \in S
    BY DEF AreSums
  <1>2. ASSUME NEW n \in S PROVE n + 1 \in S
    <2>1. ASSUME n + 1 <= k PROVE f[n + 1] = g[n + 1]
      <3>1. n + 1 \in 0 .. k /\ n + 1 \in 0 .. m /\ n + 1 # 0 /\ (n + 1) - 1 = n /\ n + 1 \in 1 .. k
        BY <2>1
      <3>2. f[n + 1] = f[n] + v[n + 1] /\ g[n + 1] = g[n] + w[n + 1]
        BY <3>1 DEF AreSums
      <3> QED
        BY <2>1, <3>1, <3>2
    <2> QED
      BY <2>1
  <1>3. S = Nat
    <2> HIDE DEF S
    <2>1. S \in SUBSET Nat
      BY DEF S
    <2> QED
      BY <1>1, <1>2, <2>1, Induction
  <1> QED
    BY <1>3

LEMMA SumsAreNumbers ==
  ASSUME NEW k \in Nat, NEW f, NEW w, AreSums(f, w, k), \A i \in 1 .. k : w[i] \in Nat
  PROVE  \A i \in 0 .. k : f[i] \in Nat
  <1> DEFINE S == {n \in Nat : n <= k => f[n] \in Nat}
  <1>1. 0 \in S
    BY DEF AreSums
  <1>2. ASSUME NEW n \in S PROVE n + 1 \in S
    <2>1. ASSUME n + 1 <= k PROVE f[n + 1] \in Nat
      <3>1. n + 1 \in 0 .. k /\ n + 1 # 0 /\ (n + 1) - 1 = n /\ n + 1 \in 1 .. k
        BY <2>1
      <3>2. f[n + 1] = f[n] + w[n + 1]
        BY <3>1 DEF AreSums
      <3> QED
        BY <2>1, <3>1, <3>2
    <2> QED
      BY <2>1
  <1>3. S = Nat
    <2> HIDE DEF S
    <2>1. S \in SUBSET Nat
      BY DEF S
    <2> QED
      BY <1>1, <1>2, <2>1, Induction
  <1> QED
    BY <1>3
=============================================================================
