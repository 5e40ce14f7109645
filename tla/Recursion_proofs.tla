-------------------------- MODULE Recursion_proofs ---------------------------
(* Induction on natural numbers and definition by recursion, stated with sets  *)
(* and functions: what the proofs about lists and texts rest on.               *)
EXTENDS Integers, WellFoundedInduction, TLAPS

\* A set of natural numbers that is not empty has a least element.
LEMMA Smallest ==
  ASSUME NEW T, T \subseteq Nat, T # {}
  PROVE  \E m \in T : \A k \in T : m <= k
<1> DEFINE R == OpToRel(<, Nat)
<1>1. IsWellFoundedOn(R, Nat)
  BY NatLessThanWellFounded
<1>2. \A x, y \in Nat : x < y => <<x, y>> \in R
  BY DEF OpToRel
<1> HIDE DEF R
<1>3. PICK m \in T : \A y \in T : ~(<<y, m>> \in R)
  BY <1>1, WFMin
<1>4. \A y \in T : ~(y < m)
  BY <1>2, <1>3
<1> QED
  BY <1>3, <1>4

\* Induction: T is the set of the numbers that have the property.
LEMMA Induction ==
  ASSUME NEW T, T \subseteq Nat, 0 \in T, \A n \in T : n + 1 \in T
  PROVE  T = Nat
<1> SUFFICES ASSUME Nat \ T # {} PROVE FALSE
  OBVIOUS
<1>1. PICK m \in Nat \ T : \A k \in Nat \ T : m <= k
  BY Smallest
<1>2. m - 1 \in Nat /\ ~(m <= m - 1)
  BY <1>1
<1>3. m - 1 \in T
  BY <1>1, <1>2
<1>4. m - 1 + 1 \in T
  BY <1>3
<1> QED
  BY <1>1, <1>2, <1>4

\* Induction up to a bound.
LEMMA InductionUpTo ==
  ASSUME NEW N \in Nat, NEW T, 0 \in T, \A n \in 0 .. N - 1 : n \in T => n + 1 \in T
  PROVE  \A n \in 0 .. N : n \in T
<1> DEFINE U == {n \in Nat : n <= N => n \in T}
<1>1. U = Nat
  <2>1. U \subseteq Nat /\ 0 \in U
    OBVIOUS
  <2>2. \A n \in U : n + 1 \in U
    OBVIOUS
  <2> HIDE DEF U
  <2> QED
    BY <2>1, <2>2, Induction
<1> QED
  BY <1>1

\* f computes by recursion: from base, element i by step i from element i - 1.
Computes(f, N, base, step) ==
  f[0] = base /\ \A i \in 1 .. N : f[i] = step[i][f[i - 1]]

\* There is a function that is defined by recursion up to a bound.
LEMMA RecursionIsDefined ==
  ASSUME NEW N \in Nat, NEW D, NEW base \in D, NEW step \in [Nat -> [D -> D]]
  PROVE  \E f \in [0 .. N -> D] : Computes(f, N, base, step)
<1> DEFINE T == {n \in Nat : \E f \in [0 .. n -> D] : Computes(f, n, base, step)}
<1>1. 0 \in T
  <2> DEFINE f == [i \in 0 .. 0 |-> base]
  <2>1. f \in [0 .. 0 -> D] /\ Computes(f, 0, base, step)
    BY DEF Computes
  <2> QED
    BY <2>1
<1>2. ASSUME NEW n \in T PROVE n + 1 \in T
  <2>1. PICK f \in [0 .. n -> D] : Computes(f, n, base, step)
    OBVIOUS
  <2> DEFINE last == step[n + 1][f[n]]
             g == [i \in 0 .. n + 1 |-> IF i <= n THEN f[i] ELSE last]
  <2>2. last \in D
    BY <2>1
  <2>3. g \in [0 .. n + 1 -> D]
    BY <2>1, <2>2
  <2>4. \A i \in 1 .. n + 1 : g[i] = step[i][g[i - 1]]
    <3> TAKE i \in 1 .. n + 1
    <3>1. CASE i <= n
      BY <2>1, <3>1 DEF Computes
    <3>2. CASE i = n + 1
      BY <2>1, <3>2
    <3> QED
      BY <3>1, <3>2
  <2>5. g[0] = base
    BY <2>1 DEF Computes
  <2>6. Computes(g, n + 1, base, step)
    BY <2>4, <2>5 DEF Computes
  <2> HIDE DEF g
  <2>7. \E h \in [0 .. n + 1 -> D] : Computes(h, n + 1, base, step)
    BY <2>3, <2>6
  <2> QED
    BY <2>7
<1>3. T \subseteq Nat
  OBVIOUS
<1> HIDE DEF T
<1>4. T = Nat
  BY <1>1, <1>2, <1>3, Induction
<1> QED
  BY <1>4 DEF T

\* Complete induction.
LEMMA CompleteInduction ==
  ASSUME NEW N \in Nat, NEW T, \A n \in 0 .. N : (\A m \in 0 .. n - 1 : m \in T) => n \in T
  PROVE  \A n \in 0 .. N : n \in T
<1> DEFINE U == {n \in 0 .. N : n \notin T}
<1> SUFFICES ASSUME U # {} PROVE FALSE
  OBVIOUS
<1>1. U \subseteq Nat
  OBVIOUS
<1> HIDE DEF U
<1>2. PICK n \in U : \A k \in U : n <= k
  BY <1>1, Smallest
<1>3. n \in 0 .. N /\ n \notin T
  BY DEF U
<1>4. \A m \in 0 .. n - 1 : m \in T
  BY <1>2, <1>3 DEF U
<1> QED
  BY <1>3, <1>4

\* Each value of f is computed from the ones before it.
LooksBack(value, N, D) ==
  \A k \in 1 .. N : \A f, g \in [0 .. N -> D] :
    (\A j \in 0 .. k - 1 : f[j] = g[j]) => value[k][f] = value[k][g]

\* Each value of f after the first is computed from f.
Continues(f, N, base, value) == f[0] = base /\ \A k \in 1 .. N : f[k] = value[k][f]

\* There is a function each value of which is computed from the ones before it.
LEMMA CourseIsDefined ==
  ASSUME NEW N \in Nat, NEW D, NEW base \in D,
         NEW value \in [1 .. N -> [[0 .. N -> D] -> D]],
         LooksBack(value, N, D)
  PROVE  \E f \in [0 .. N -> D] : Continues(f, N, base, value)
<1> DEFINE E == [0 .. N -> D]
           start == [j \in 0 .. N |-> base]
           step == [i \in Nat |-> [t \in E |->
                      IF i \in 1 .. N THEN [t EXCEPT ![i] = value[i][t]] ELSE t]]
<1>1. start \in E
  OBVIOUS
<1>2. step \in [Nat -> [E -> E]]
  <2> SUFFICES ASSUME NEW i \in Nat, NEW t \in E
               PROVE  (IF i \in 1 .. N THEN [t EXCEPT ![i] = value[i][t]] ELSE t) \in E
    OBVIOUS
  <2>1. CASE i \in 1 .. N
    <3>1. value[i][t] \in D
      BY <2>1
    <3> QED
      BY <2>1, <3>1
  <2> QED
    BY <2>1
<1>3. PICK g \in [0 .. N -> E] : Computes(g, N, start, step)
  <2> HIDE DEF step, start, E
  <2> QED
    BY <1>1, <1>2, RecursionIsDefined
<1>4. g[0] = start /\ \A i \in 1 .. N : g[i] = [g[i - 1] EXCEPT ![i] = value[i][g[i - 1]]]
  <2>1. \A i \in 1 .. N : i \in Nat /\ i - 1 \in 0 .. N /\ g[i - 1] \in E
    BY <1>3
  <2> QED
    BY <1>3, <2>1 DEF Computes
<1> DEFINE f == g[N]
<1>5. f \in E
  BY <1>3
<1>6. \A i \in 1 .. N : \A j \in 0 .. N : j # i => g[i][j] = g[i - 1][j]
  <2> TAKE i \in 1 .. N
  <2> TAKE j \in 0 .. N
  <2>1. g[i - 1] \in E /\ g[i] = [g[i - 1] EXCEPT ![i] = value[i][g[i - 1]]]
    BY <1>3, <1>4
  <2> QED
    BY <2>1
<1>7. \A i \in 1 .. N : g[i][i] = value[i][g[i - 1]]
  <2> TAKE i \in 1 .. N
  <2>1. g[i - 1] \in E /\ g[i] = [g[i - 1] EXCEPT ![i] = value[i][g[i - 1]]]
    BY <1>3, <1>4
  <2> QED
    BY <2>1

\* What is entered stays.
<1>8. \A j \in 0 .. N : \A k \in 0 .. N : j <= k => g[k][j] = g[j][j]
  <2> TAKE j \in 0 .. N
  <2> DEFINE T == {k \in 0 .. N : j <= k => g[k][j] = g[j][j]}
  <2>1. 0 \in T
    OBVIOUS
  <2>2. \A k \in 0 .. N - 1 : k \in T => k + 1 \in T
    <3> SUFFICES ASSUME NEW k \in 0 .. N - 1, k \in T, j <= k + 1
                 PROVE  g[k + 1][j] = g[j][j]
      OBVIOUS
    <3>1. CASE j = k + 1
      BY <3>1
    <3>2. CASE j <= k
      <4>1. k + 1 \in 1 .. N /\ k + 1 - 1 = k /\ j # k + 1
        BY <3>2
      <4>2. g[k + 1][j] = g[k][j]
        BY <1>6, <4>1
      <4> QED
        BY <3>2, <4>2
    <3> QED
      BY <3>1, <3>2
  <2> HIDE DEF T
  <2>3. \A k \in 0 .. N : k \in T
    BY <2>1, <2>2, InductionUpTo
  <2> QED
    BY <2>3 DEF T
<1>9. f[0] = base
  <2>1. N \in 0 .. N /\ 0 \in 0 .. N
    OBVIOUS
  <2>2. g[N][0] = g[0][0]
    BY <1>8, <2>1
  <2> QED
    BY <1>4, <2>1, <2>2
<1>10. \A k \in 1 .. N : f[k] = value[k][f]
  <2> TAKE k \in 1 .. N
  <2>1. k \in 0 .. N /\ N \in 0 .. N /\ k <= N /\ k - 1 \in 0 .. N
    OBVIOUS
  <2>2. f[k] = value[k][g[k - 1]]
    BY <1>7, <1>8, <2>1
  <2>3. \A j \in 0 .. k - 1 : g[k - 1][j] = f[j]
    BY <1>8, <2>1
  <2>4. g[k - 1] \in E /\ f \in E
    BY <1>3, <1>5, <2>1
  <2> HIDE DEF f
  <2> QED
    BY <2>2, <2>3, <2>4 DEF LooksBack
<1> HIDE DEF f
<1> QED
  BY <1>5, <1>9, <1>10 DEF Continues
=============================================================================
