-------------------------- MODULE StateLists_proofs --------------------------
(* What the operators on the favorites and recents do to every list.           *)
EXTENDS StateLists, Recursion_proofs, FiniteSetTheorems, SequenceTheorems

(***************************************************************************)
(* Only.                                                                   *)
(***************************************************************************)

\* The recursion of Only is defined, and what it computes are sequences.
LEMMA OnlyUnfolds ==
  ASSUME NEW S, NEW s \in Seq(S), NEW T
  PROVE  \E f \in [0 .. Len(s) -> Seq(S)] :
           /\ Only(s, T) = f[Len(s)] /\ f[0] = <<>>
           /\ \A i \in 1 .. Len(s) :
                f[i] = IF s[i] \in T THEN Append(f[i - 1], s[i]) ELSE f[i - 1]
<1> DEFINE N == Len(s)
           step == [i \in Nat |-> [q \in Seq(S) |->
                      IF i \in 1 .. N /\ s[i] \in T THEN Append(q, s[i]) ELSE q]]
           Is(f) == f = [i \in 0 .. N |->
                           IF i = 0 THEN <<>>
                           ELSE IF s[i] \in T THEN Append(f[i - 1], s[i]) ELSE f[i - 1]]
           only == CHOOSE f : Is(f)
<1>1. N \in Nat /\ <<>> \in Seq(S) /\ \A i \in 1 .. N : s[i] \in S
  OBVIOUS
<1>2. step \in [Nat -> [Seq(S) -> Seq(S)]]
  BY <1>1
<1>3. PICK g \in [0 .. N -> Seq(S)] : Computes(g, N, <<>>, step)
  <2> HIDE DEF step, N
  <2> QED
    BY <1>1, <1>2, RecursionIsDefined
<1>4. \A i \in 0 .. N :
        g[i] = IF i = 0 THEN <<>>
               ELSE IF s[i] \in T THEN Append(g[i - 1], s[i]) ELSE g[i - 1]
  <2> TAKE i \in 0 .. N
  <2>1. CASE i = 0
    BY <1>3, <2>1 DEF Computes
  <2>2. CASE i # 0
    <3>1. i \in 1 .. N /\ i - 1 \in 0 .. N /\ i \in Nat /\ g[i - 1] \in Seq(S)
      BY <2>2
    <3>2. g[i] = step[i][g[i - 1]]
      BY <1>3, <3>1 DEF Computes
    <3> QED
      BY <2>2, <3>1, <3>2
  <2> QED
    BY <2>1, <2>2
<1>5. Is(g)
  BY <1>4
<1>6. Is(only)
  <2> HIDE DEF Is
  <2> QED
    BY <1>5
<1>7. Only(s, T) = only[N]
  BY DEF Only
<1> HIDE DEF only
<1>8. \A i \in 0 .. N :
        only[i] = IF i = 0 THEN <<>>
                  ELSE IF s[i] \in T THEN Append(only[i - 1], s[i]) ELSE only[i - 1]
  BY <1>6
<1> HIDE DEF Is, step, N
<1>9. \A i \in 0 .. N : only[i] \in Seq(S)
  <2> DEFINE U == {i \in 0 .. N : only[i] \in Seq(S)}
  <2>1. 0 \in U
    <3>1. 0 \in 0 .. N /\ only[0] = <<>>
      BY <1>1, <1>8
    <3> QED
      BY <1>1, <3>1
  <2>2. \A i \in 0 .. N - 1 : i \in U => i + 1 \in U
    <3> SUFFICES ASSUME NEW i \in 0 .. N - 1, i \in U PROVE i + 1 \in U
      OBVIOUS
    <3>1. i + 1 \in 0 .. N /\ i + 1 # 0 /\ i + 1 - 1 = i /\ i + 1 \in 1 .. N
      BY <1>1
    <3>2. only[i + 1] = IF s[i + 1] \in T THEN Append(only[i], s[i + 1]) ELSE only[i]
      BY <1>8, <3>1
    <3>3. s[i + 1] \in S /\ only[i] \in Seq(S)
      BY <1>1, <3>1
    <3>4. only[i + 1] \in Seq(S)
      BY <3>2, <3>3
    <3> QED
      BY <3>1, <3>4
  <2> HIDE DEF U
  <2>3. \A i \in 0 .. N : i \in U
    BY <1>1, <2>1, <2>2, InductionUpTo
  <2> QED
    BY <2>3 DEF U
<1>10. only \in [0 .. N -> Seq(S)]
  BY <1>6, <1>9 DEF Is
<1>11. only[0] = <<>> /\ \A i \in 1 .. N :
         only[i] = IF s[i] \in T THEN Append(only[i - 1], s[i]) ELSE only[i - 1]
  BY <1>1, <1>8
<1> QED
  BY <1>7, <1>10, <1>11 DEF N

\* q is what T leaves of the first n elements of s, in their order.
Leaves(q, s, n, T) ==
  \E h \in [1 .. Len(q) -> 1 .. n] :
    /\ \A i, j \in 1 .. Len(q) : i < j => h[i] < h[j]
    /\ \A i \in 1 .. Len(q) : q[i] = s[h[i]] /\ q[i] \in T
    /\ \A j \in 1 .. n : s[j] \in T => \E i \in 1 .. Len(q) : h[i] = j

LEMMA LeavesMore ==
  ASSUME NEW S, NEW s \in Seq(S), NEW T, NEW n \in 0 .. Len(s) - 1, NEW q \in Seq(S),
         Leaves(q, s, n, T)
  PROVE  Leaves(IF s[n + 1] \in T THEN Append(q, s[n + 1]) ELSE q, s, n + 1, T)
<1>1. PICK h \in [1 .. Len(q) -> 1 .. n] :
        /\ \A i, j \in 1 .. Len(q) : i < j => h[i] < h[j]
        /\ \A i \in 1 .. Len(q) : q[i] = s[h[i]] /\ q[i] \in T
        /\ \A j \in 1 .. n : s[j] \in T => \E i \in 1 .. Len(q) : h[i] = j
  BY DEF Leaves
<1>2. CASE s[n + 1] \notin T
  <2>1. h \in [1 .. Len(q) -> 1 .. n + 1]
    OBVIOUS
  <2>2. \A j \in 1 .. n + 1 : j \in 1 .. n \/ j = n + 1
    OBVIOUS
  <2>3. \A j \in 1 .. n + 1 : s[j] \in T => \E i \in 1 .. Len(q) : h[i] = j
    BY <1>1, <1>2, <2>2
  <2> QED
    BY ZenonT(60), <1>1, <1>2, <2>1, <2>3 DEF Leaves
<1>3. CASE s[n + 1] \in T
  <2> DEFINE k == Len(q)
             p == Append(q, s[n + 1])
             g == [i \in 1 .. k + 1 |-> IF i <= k THEN h[i] ELSE n + 1]
  <2>1. /\ k \in Nat /\ Len(p) = k + 1 /\ p[k + 1] = s[n + 1]
        /\ \A i \in 1 .. k : p[i] = q[i]
    OBVIOUS
  <2>2. h \in [1 .. k -> 1 .. n]
    OBVIOUS
  <2>3. /\ \A i, j \in 1 .. k : i < j => h[i] < h[j]
        /\ \A i \in 1 .. k : q[i] = s[h[i]] /\ q[i] \in T
        /\ \A j \in 1 .. n : s[j] \in T => \E i \in 1 .. k : h[i] = j
    BY <1>1
  <2> HIDE DEF k, p
  <2>4. g \in [1 .. k + 1 -> 1 .. n + 1]
    BY <2>1, <2>2
  <2>5. /\ \A i \in 1 .. k : g[i] = h[i] /\ g[i] \in 1 .. n
        /\ g[k + 1] = n + 1
    BY <2>1, <2>2
  <2> HIDE DEF g
  <2>6. \A i, j \in 1 .. k + 1 : i < j => g[i] < g[j]
    <3> SUFFICES ASSUME NEW i \in 1 .. k + 1, NEW j \in 1 .. k + 1, i < j
                 PROVE  g[i] < g[j]
      OBVIOUS
    <3>1. i \in 1 .. k /\ g[i] = h[i] /\ g[i] \in 1 .. n
      BY <2>1, <2>5
    <3>2. CASE j \in 1 .. k
      BY <2>3, <2>5, <3>1, <3>2
    <3>3. CASE j = k + 1
      BY <2>5, <3>1, <3>3
    <3> QED
      BY <2>1, <3>2, <3>3
  <2>7. \A i \in 1 .. k + 1 : p[i] = s[g[i]] /\ p[i] \in T
    <3> TAKE i \in 1 .. k + 1
    <3>1. CASE i \in 1 .. k
      BY <2>1, <2>3, <2>5, <3>1
    <3>2. CASE i = k + 1
      BY <1>3, <2>1, <2>5, <3>2
    <3> QED
      BY <2>1, <3>1, <3>2
  <2>8. \A j \in 1 .. n + 1 : s[j] \in T => \E i \in 1 .. k + 1 : g[i] = j
    <3> SUFFICES ASSUME NEW j \in 1 .. n + 1, s[j] \in T
                 PROVE  \E i \in 1 .. k + 1 : g[i] = j
      OBVIOUS
    <3>1. CASE j \in 1 .. n
      <4>1. PICK i \in 1 .. k : h[i] = j
        BY <2>3, <3>1
      <4>2. i \in 1 .. k + 1 /\ g[i] = j
        BY <2>1, <2>5, <4>1
      <4> QED
        BY <4>2
    <3>2. CASE j = n + 1
      BY <2>1, <2>5, <3>2
    <3> QED
      BY <3>1, <3>2
  <2>9. Leaves(p, s, n + 1, T)
    <3> DEFINE m == k + 1
    <3>1. /\ g \in [1 .. m -> 1 .. n + 1]
          /\ \A i, j \in 1 .. m : i < j => g[i] < g[j]
          /\ \A i \in 1 .. m : p[i] = s[g[i]] /\ p[i] \in T
          /\ \A j \in 1 .. n + 1 : s[j] \in T => \E i \in 1 .. m : g[i] = j
          /\ m = Len(p)
      BY <2>1, <2>4, <2>6, <2>7, <2>8
    <3> HIDE DEF m
    <3> QED
      BY ZenonT(60), <3>1 DEF Leaves
  <2> QED
    BY <1>3, <2>9 DEF p
<1> QED
  BY <1>2, <1>3

\* Only keeps the elements of T, all of them, in their order.
LEMMA OnlyLeaves ==
  ASSUME NEW S, NEW s \in Seq(S), NEW T
  PROVE  Only(s, T) \in Seq(S) /\ Leaves(Only(s, T), s, Len(s), T)
<1>1. PICK f \in [0 .. Len(s) -> Seq(S)] :
        /\ Only(s, T) = f[Len(s)] /\ f[0] = <<>>
        /\ \A i \in 1 .. Len(s) :
             f[i] = IF s[i] \in T THEN Append(f[i - 1], s[i]) ELSE f[i - 1]
  BY OnlyUnfolds
<1> DEFINE N == Len(s)
           U == {i \in 0 .. N : Leaves(f[i], s, i, T)}
<1>2. N \in Nat
  OBVIOUS
<1>3. 0 \in U
  <2> DEFINE h == [i \in 1 .. 0 |-> 1]
  <2>1. h \in [1 .. Len(<<>>) -> 1 .. 0]
    OBVIOUS
  <2>2. Leaves(<<>>, s, 0, T)
    BY <2>1 DEF Leaves
  <2> QED
    BY <1>1, <1>2, <2>2
<1>4. \A i \in 0 .. N - 1 : i \in U => i + 1 \in U
  <2> SUFFICES ASSUME NEW i \in 0 .. N - 1, i \in U PROVE i + 1 \in U
    OBVIOUS
  <2>1. /\ i + 1 \in 1 .. N /\ i + 1 \in 0 .. N /\ i + 1 - 1 = i /\ i \in 0 .. N
        /\ f[i] \in Seq(S)
    BY <1>2
  <2>2. f[i + 1] = IF s[i + 1] \in T THEN Append(f[i], s[i + 1]) ELSE f[i]
    BY <1>1, <2>1
  <2>3. Leaves(f[i], s, i, T)
    OBVIOUS
  <2>4. Leaves(f[i + 1], s, i + 1, T)
    BY <2>1, <2>2, <2>3, LeavesMore
  <2> QED
    BY <2>1, <2>4
<1> HIDE DEF U
<1>5. \A i \in 0 .. N : i \in U
  BY <1>2, <1>3, <1>4, InductionUpTo
<1>6. N \in U /\ f[N] \in Seq(S)
  BY <1>2, <1>5
<1> QED
  BY <1>1, <1>6 DEF U

\* What of Leaves the other proofs use: the elements, their number, no new doubles.
LEMMA OnlyProperties ==
  ASSUME NEW S, NEW s \in Seq(S), NEW T
  PROVE  /\ Only(s, T) \in Seq(S \cap T) /\ Len(Only(s, T)) <= Len(s)
         /\ Range(Only(s, T)) = Range(s) \cap T
         /\ Distinct(s) => Distinct(Only(s, T))
<1> DEFINE q == Only(s, T)
           m == Len(q)
           n == Len(s)
<1>1. q \in Seq(S) /\ m \in Nat /\ n \in Nat /\ Leaves(q, s, n, T)
  BY OnlyLeaves
<1> HIDE DEF q
<1>2. PICK h \in [1 .. m -> 1 .. n] :
        /\ \A i, j \in 1 .. m : i < j => h[i] < h[j]
        /\ \A i \in 1 .. m : q[i] = s[h[i]] /\ q[i] \in T
        /\ \A j \in 1 .. n : s[j] \in T => \E i \in 1 .. m : h[i] = j
  BY <1>1 DEF Leaves
<1>3. DOMAIN q = 1 .. m /\ DOMAIN s = 1 .. n
  BY <1>1
<1>4. q \in Seq(S \cap T)
  <2>1. \A i \in 1 .. m : q[i] \in S \cap T
    BY <1>1, <1>2
  <2> QED
    BY <1>1, <2>1, IsASeq
<1>5. Range(q) = Range(s) \cap T
  <2> HIDE DEF m, n
  <2> QED
    BY <1>2, <1>3 DEF Range
<1>6. \A i, j \in 1 .. m : h[i] = h[j] => i = j
  <2> HIDE DEF m, n
  <2> QED
    BY <1>1, <1>2
<1>7. m <= n
  <2> HIDE DEF m, n
  <2>1. IsFiniteSet(1 .. n) /\ Cardinality(1 .. n) = n /\ Cardinality(1 .. m) = m
    BY <1>1, FS_Interval
  <2>2. h \in Injection(1 .. m, 1 .. n)
    BY <1>2, <1>6 DEF Injection, IsInjective
  <2> QED
    BY <2>1, <2>2, FS_Injection
<1>8. ASSUME Distinct(s) PROVE Distinct(q)
  <2> HIDE DEF m, n
  <2>1. \A i, j \in 1 .. m : q[i] = q[j] => h[i] = h[j]
    BY <1>2, <1>3, <1>8 DEF Distinct
  <2> QED
    BY <1>3, <1>6, <2>1 DEF Distinct
<1> QED
  BY <1>4, <1>5, <1>7, <1>8 DEF q

(***************************************************************************)
(* Sorted.                                                                 *)
(***************************************************************************)

\* q is in the order of the recents.
InOrder(q) == \A i, j \in DOMAIN q : i < j => Before(q[i], q[j])

\* Before orders the entries of S one after the other.
Orders(S) ==
  /\ \A a \in S : ~Before(a, a)
  /\ \A a, b, c \in S : Before(a, b) /\ Before(b, c) => Before(a, c)
  /\ \A a, b \in S : a # b => Before(a, b) \/ Before(b, a)

\* Entries with numbers for fields are in order when no sequence occurs twice.
LEMMA EntriesAreOrdered ==
  ASSUME NEW S,
         \A a \in S : a.sequence \in Nat /\ a.useCount \in Nat /\ a.lastUsed \in Nat,
         \A a, b \in S : a.sequence = b.sequence => a = b
  PROVE  Orders(S)
<1>1. \A a \in S : ~Before(a, a)
  BY DEF Before
<1>2. \A a, b, c \in S : Before(a, b) /\ Before(b, c) => Before(a, c)
  BY DEF Before
<1>3. \A a, b \in S : a # b => Before(a, b) \/ Before(b, a)
  BY DEF Before
<1> QED
  BY <1>1, <1>2, <1>3 DEF Orders

\* There is a sorted list: each entry has its rank, the number of those before it.
LEMMA SortedExists ==
  ASSUME NEW S, IsFiniteSet(S), Orders(S)
  PROVE  \E q \in [1 .. Cardinality(S) -> S] : InOrder(q)
<1> DEFINE n == Cardinality(S)
           Lower(x) == {y \in S : Before(y, x)}
           rank == [x \in S |-> Cardinality(Lower(x)) + 1]
<1>1. n \in Nat /\ IsFiniteSet(1 .. n) /\ Cardinality(1 .. n) = n
  BY FS_CardinalityType, FS_Interval
<1>2. ASSUME NEW x \in S
      PROVE  IsFiniteSet(Lower(x)) /\ Cardinality(Lower(x)) \in Nat /\ Cardinality(Lower(x)) < n
  <2>1. Lower(x) \in SUBSET S /\ Lower(x) # S
    BY DEF Orders
  <2> HIDE DEF Lower
  <2>2. IsFiniteSet(Lower(x)) /\ Cardinality(Lower(x)) <= n /\ Cardinality(Lower(x)) # n
    BY <2>1, FS_Subset
  <2>3. Cardinality(Lower(x)) \in Nat
    BY <2>2, FS_CardinalityType
  <2> HIDE DEF n
  <2> QED
    BY <1>1, <2>2, <2>3
<1>3. ASSUME NEW x \in S, NEW y \in S, Before(x, y)
      PROVE  Cardinality(Lower(x)) < Cardinality(Lower(y))
  <2>1. Lower(x) \in SUBSET Lower(y) /\ Lower(x) # Lower(y)
    BY <1>3 DEF Orders
  <2> HIDE DEF Lower
  <2>2. /\ Cardinality(Lower(x)) <= Cardinality(Lower(y))
        /\ Cardinality(Lower(x)) # Cardinality(Lower(y))
    BY <1>2, <2>1, FS_Subset
  <2> QED
    BY <1>2, <2>2
<1> HIDE DEF n
<1>4. rank \in [S -> 1 .. n]
  <2> SUFFICES ASSUME NEW x \in S PROVE Cardinality(Lower(x)) + 1 \in 1 .. n
    OBVIOUS
  <2> HIDE DEF Lower
  <2> QED
    BY <1>1, <1>2
<1>5. \A x, y \in S : Before(x, y) => rank[x] < rank[y]
  <2> SUFFICES ASSUME NEW x \in S, NEW y \in S, Before(x, y) PROVE rank[x] < rank[y]
    OBVIOUS
  <2> HIDE DEF Lower
  <2> QED
    BY <1>2, <1>3
<1> HIDE DEF rank
<1>6. \A x, y \in S : rank[x] = rank[y] => x = y
  BY <1>1, <1>4, <1>5 DEF Orders
<1>7. rank \in Injection(S, 1 .. n)
  BY <1>4, <1>6 DEF Injection, IsInjective
<1>8. rank \in Surjection(S, 1 .. n)
  BY <1>1, <1>7, FS_Injection DEF n
<1>9. \A i \in 1 .. n : \E x \in S : rank[x] = i
  BY <1>8 DEF Surjection
<1> DEFINE q == [i \in 1 .. n |-> CHOOSE x \in S : rank[x] = i]
<1>10. \A i \in 1 .. n : q[i] \in S /\ rank[q[i]] = i
  BY <1>9
<1>11. q \in [1 .. n -> S]
  BY <1>10
<1> HIDE DEF q
<1>12. \A i, j \in 1 .. n : i < j => Before(q[i], q[j])
  <2> SUFFICES ASSUME NEW i \in 1 .. n, NEW j \in 1 .. n, i < j PROVE Before(q[i], q[j])
    OBVIOUS
  <2>1. q[i] \in S /\ q[j] \in S /\ rank[q[i]] = i /\ rank[q[j]] = j
    BY <1>10
  <2>2. q[i] # q[j] /\ ~Before(q[j], q[i])
    BY <1>1, <1>5, <2>1
  <2> QED
    BY <2>1, <2>2 DEF Orders
<1>13. InOrder(q)
  BY <1>11, <1>12 DEF InOrder
<1> QED
  BY <1>11, <1>13 DEF n

\* Sorting keeps every entry, once, and puts them in order.
LEMMA SortedProperties ==
  ASSUME NEW S, IsFiniteSet(S), Orders(S)
  PROVE  /\ Sorted(S) \in [1 .. Cardinality(S) -> S] /\ Cardinality(S) \in Nat
         /\ Range(Sorted(S)) = S /\ InOrder(Sorted(S))
<1> DEFINE n == Cardinality(S)
           q == Sorted(S)
<1>1. n \in Nat /\ IsFiniteSet(1 .. n) /\ Cardinality(1 .. n) = n
  BY FS_CardinalityType, FS_Interval
<1>2. q \in [1 .. n -> S] /\ InOrder(q)
  BY SortedExists DEF Sorted, InOrder
<1> HIDE DEF q, n
<1>3. \A i, j \in 1 .. n : q[i] = q[j] => i = j
  BY <1>1, <1>2 DEF InOrder, Orders
<1>4. q \in Injection(1 .. n, S)
  BY <1>2, <1>3 DEF Injection, IsInjective
<1>5. q \in Surjection(1 .. n, S)
  BY <1>1, <1>4, FS_Injection DEF n
<1>6. Range(q) = S
  BY <1>2, <1>5 DEF Range, Surjection
<1> QED
  BY <1>1, <1>2, <1>6 DEF q, n

(***************************************************************************)
(* The changes of the lists.                                               *)
(***************************************************************************)

\* Entries with counts in C and times in T.
EntriesOf(C, T) == [sequence : Sequences, useCount : C, lastUsed : T]

\* No sequence has two entries.
OneEach(q) == \A i, j \in DOMAIN q : q[i].sequence = q[j].sequence => i = j

\* What recordUse sorts.
AfterUse(s, e, now) == (Range(s.recents) \ Known(s, e)) \cup {Used(s, e, now)}

\* The counts and times of entries are natural numbers, and so are those of a use.
Countable(C, T, D) ==
  C \subseteq Nat /\ D \subseteq Nat /\ T \subseteq Nat /\ C \subseteq D /\ 1 \in D
    /\ \A c \in C : c + 1 \in D

LEMMA RangeIsFinite ==
  ASSUME NEW S, NEW q \in Seq(S)
  PROVE  /\ Range(q) \subseteq S /\ IsFiniteSet(Range(q))
         /\ Cardinality(Range(q)) \in Nat /\ Cardinality(Range(q)) <= Len(q)
<1> DEFINE n == Len(q)
<1>1. n \in Nat /\ q \in [1 .. n -> S]
  OBVIOUS
<1> HIDE DEF n
<1>2. IsFiniteSet(1 .. n) /\ Cardinality(1 .. n) = n
  BY <1>1, FS_Interval
<1>3. Range(q) \subseteq S /\ q \in Surjection(1 .. n, Range(q))
  BY <1>1 DEF Range, Surjection
<1>4. IsFiniteSet(Range(q)) /\ Cardinality(Range(q)) <= n
  BY <1>2, <1>3, FS_Surjection
<1> QED
  BY <1>3, <1>4, FS_CardinalityType DEF n

\* The entries after a use: those of the other emoji, as they were, and the one used.
LEMMA EntriesAfterUse ==
  ASSUME NEW C, NEW T, NEW D, Countable(C, T, D),
         NEW s \in Lists(EntriesOf(C, T)), OneEach(s.recents),
         NEW e \in Sequences, NEW now \in T
  PROVE  /\ AfterUse(s, e, now) \subseteq EntriesOf(D, T)
         /\ IsFiniteSet(AfterUse(s, e, now)) /\ Orders(AfterUse(s, e, now))
         /\ \A a, b \in AfterUse(s, e, now) : a.sequence = b.sequence => a = b
         /\ Cardinality(AfterUse(s, e, now)) \in Nat
         /\ Cardinality(AfterUse(s, e, now)) <= Len(s.recents) + 1
<1> DEFINE old == Range(s.recents)
           kept == old \ Known(s, e)
           used == Used(s, e, now)
           all == kept \cup {used}
<1>1. s.recents \in Seq(EntriesOf(C, T))
  BY DEF Lists
<1>2. old \subseteq EntriesOf(C, T) /\ IsFiniteSet(old) /\ Cardinality(old) \in Nat
      /\ Cardinality(old) <= Len(s.recents) /\ Len(s.recents) \in Nat
  BY <1>1, RangeIsFinite
<1>3. \A a, b \in old : a.sequence = b.sequence => a = b
  BY <1>1 DEF OneEach, Range
<1>4. used \in EntriesOf(D, T) /\ used.sequence = e
  <2>1. CASE Known(s, e) = {}
    BY <2>1 DEF Used, EntriesOf, Countable
  <2>2. CASE Known(s, e) # {}
    <3> DEFINE r == CHOOSE r \in Known(s, e) : TRUE
    <3>1. r \in Known(s, e)
      BY <2>2
    <3> HIDE DEF r
    <3>2. r \in EntriesOf(C, T)
      BY <1>2, <3>1 DEF Known
    <3>3. r.useCount + 1 \in D
      BY <3>2 DEF EntriesOf, Countable
    <3>4. used = [sequence |-> e, lastUsed |-> now, useCount |-> r.useCount + 1]
      BY <2>2 DEF Used, r
    <3> QED
      BY <3>3, <3>4 DEF EntriesOf
  <2> QED
    BY <2>1, <2>2
<1>5. kept \subseteq EntriesOf(D, T) /\ \A a \in kept : a.sequence # e
  BY <1>2 DEF EntriesOf, Known, Countable
<1> HIDE DEF used
<1>6. all \subseteq EntriesOf(D, T) /\ \A a, b \in all : a.sequence = b.sequence => a = b
  BY <1>3, <1>4, <1>5
<1>7. IsFiniteSet(all) /\ Cardinality(all) \in Nat /\ Cardinality(all) <= Len(s.recents) + 1
  <2>1. kept \in SUBSET old
    OBVIOUS
  <2> HIDE DEF kept, old
  <2>2. IsFiniteSet(kept) /\ Cardinality(kept) <= Cardinality(old)
    BY <1>2, <2>1, FS_Subset
  <2>3. Cardinality(kept) \in Nat
    BY <2>2, FS_CardinalityType
  <2>4. /\ IsFiniteSet(all)
        /\ Cardinality(all) = IF used \in kept THEN Cardinality(kept) ELSE Cardinality(kept) + 1
    BY <2>2, FS_AddElement
  <2> QED
    BY <1>2, <2>2, <2>3, <2>4
<1>8. \A a \in all : a.sequence \in Nat /\ a.useCount \in Nat /\ a.lastUsed \in Nat
  BY <1>6, ListAssumption DEF ListAssumption, EntriesOf, Countable
<1> HIDE DEF all
<1>9. Orders(all)
  BY <1>6, <1>8, EntriesAreOrdered
<1> QED
  BY <1>6, <1>7, <1>9 DEF all, used, AfterUse

\* recordUse changes the recents only. They are in order and never too many, with one
\* entry for each emoji and none that was not there or is of this use.
LEMMA RecordUseProperties ==
  ASSUME NEW C, NEW T, NEW D, Countable(C, T, D),
         NEW s \in Lists(EntriesOf(C, T)), OneEach(s.recents),
         NEW e \in Sequences, NEW now \in T
  PROVE  LET t == RecordUse(s, e, now) IN
         /\ t \in Lists(EntriesOf(D, T)) /\ t.favorites = s.favorites
         /\ InOrder(t.recents) /\ OneEach(t.recents) /\ Len(t.recents) <= MaximumEntries
         /\ \A r \in AfterUse(s, e, now) \ Range(t.recents) :
              /\ Len(s.recents) >= MaximumEntries
              /\ \A kept \in Range(t.recents) : Before(kept, r)
<1> DEFINE S == AfterUse(s, e, now)
           q == Sorted(S)
           n == Cardinality(S)
           m == IF n > MaximumEntries THEN MaximumEntries ELSE n
           p == IF Len(q) > MaximumEntries THEN SubSeq(q, 1, MaximumEntries) ELSE q
           t == RecordUse(s, e, now)
<1>1. /\ S \subseteq EntriesOf(D, T) /\ IsFiniteSet(S) /\ Orders(S)
      /\ \A a, b \in S : a.sequence = b.sequence => a = b
      /\ n \in Nat /\ n <= Len(s.recents) + 1
  BY EntriesAfterUse
<1>2. t = [s EXCEPT !.recents = p]
  BY DEF RecordUse, AfterUse
<1>3. s = [favorites |-> s.favorites, recents |-> s.recents] /\ s.favorites \in Seq(Sequences)
      /\ Len(s.recents) \in Nat
  BY DEF Lists
<1> HIDE DEF S
<1>4. q \in [1 .. n -> S] /\ Range(q) = S /\ InOrder(q)
  BY <1>1, SortedProperties
<1>5. MaximumEntries \in Nat /\ MaximumEntries >= 1
  BY ListAssumption DEF ListAssumption
<1> HIDE DEF q, n
<1>6. q \in Seq(S) /\ Len(q) = n
  BY <1>1, <1>4
<1>7. /\ p \in Seq(S) /\ Len(p) = m /\ m \in Nat /\ m <= MaximumEntries /\ m <= n
      /\ \A i \in 1 .. m : p[i] = q[i]
  <2>1. CASE n > MaximumEntries
    BY <1>1, <1>5, <1>6, <2>1
  <2>2. CASE ~(n > MaximumEntries)
    BY <1>1, <1>5, <1>6, <2>2
  <2> QED
    BY <2>1, <2>2
<1>8. t = [favorites |-> s.favorites, recents |-> p]
  BY <1>2, <1>3
<1> HIDE DEF p, t
<1>9. DOMAIN p = 1 .. m /\ \A i \in 1 .. m : i \in 1 .. n
  BY <1>1, <1>7
<1> HIDE DEF m
<1>10. InOrder(p)
  BY <1>4, <1>7, <1>9 DEF InOrder
<1>11. \A i, j \in 1 .. n : q[i] = q[j] => i = j
  BY <1>1, <1>4 DEF InOrder, Orders
<1>12. OneEach(p)
  BY <1>1, <1>4, <1>7, <1>9, <1>11 DEF OneEach
<1>13. t \in Lists(EntriesOf(D, T))
  <2>1. p \in Seq(EntriesOf(D, T))
    BY <1>1, <1>7, SeqMonotonic
  <2> QED
    BY <1>3, <1>8, <2>1 DEF Lists
<1>14. ASSUME NEW r \in S \ Range(p)
       PROVE  /\ Len(s.recents) >= MaximumEntries
              /\ \A kept \in Range(p) : Before(kept, r)
  <2>1. PICK j \in 1 .. n : r = q[j]
    BY <1>4 DEF Range
  <2>2. j \notin 1 .. m
    BY <1>7, <1>9, <2>1 DEF Range
  <2>3. n > MaximumEntries /\ m = MaximumEntries
    BY <1>1, <1>5, <2>2 DEF m
  <2>4. ASSUME NEW i \in 1 .. m PROVE Before(p[i], r)
    <3>1. i \in 1 .. n /\ i < j /\ p[i] = q[i]
      BY <1>1, <1>7, <1>9, <2>2
    <3> QED
      BY <1>4, <2>1, <3>1 DEF InOrder
  <2> QED
    BY <1>1, <1>3, <1>5, <1>9, <2>3, <2>4 DEF Range
<1> QED
  BY <1>3, <1>7, <1>8, <1>10, <1>12, <1>13, <1>14 DEF t, S

\* toggleFavorite changes the favorites only, by one emoji, and makes no doubles.
LEMMA ToggleProperties ==
  ASSUME NEW E, NEW s \in Lists(E), Distinct(s.favorites), NEW e \in Sequences
  PROVE  LET t == ToggleFavorite(s, e) IN
         /\ t \in Lists(E) /\ t.recents = s.recents /\ Distinct(t.favorites)
         /\ Range(t.favorites) = IF e \in Range(s.favorites) THEN Range(s.favorites) \ {e}
                                                             ELSE Range(s.favorites) \cup {e}
<1> DEFINE f == s.favorites
           g == IF Contains(f, e) THEN Only(f, Range(f) \ {e}) ELSE Append(f, e)
           t == ToggleFavorite(s, e)
<1>1. s = [favorites |-> f, recents |-> s.recents] /\ f \in Seq(Sequences) /\ s.recents \in Seq(E)
  BY DEF Lists
<1>2. t = [favorites |-> g, recents |-> s.recents]
  <2>1. t = [s EXCEPT !.favorites = g]
    BY DEF ToggleFavorite
  <2> HIDE DEF t, g
  <2> QED
    BY <1>1, <2>1
<1> HIDE DEF t, f
<1>3. Distinct(f)
  BY DEF f
<1>4. Contains(f, e) <=> e \in Range(f)
  BY <1>1 DEF Contains, Range
<1>5. /\ g \in Seq(Sequences) /\ Distinct(g)
      /\ Range(g) = IF e \in Range(f) THEN Range(f) \ {e} ELSE Range(f) \cup {e}
  <2>1. CASE e \in Range(f)
    <3> DEFINE others == Range(f) \ {e}
    <3>1. g = Only(f, others)
      BY <1>4, <2>1
    <3> HIDE DEF g, others
    <3>2. g \in Seq(Sequences)
      BY <1>1, <3>1, OnlyLeaves
    <3>3. Distinct(g) /\ Range(g) = Range(f) \cap others
      BY <1>1, <1>3, <3>1, OnlyProperties
    <3> QED
      BY <2>1, <3>2, <3>3 DEF others
  <2>2. CASE e \notin Range(f)
    <3> DEFINE n == Len(f)
    <3>1. g = Append(f, e)
      BY <1>4, <2>2
    <3> HIDE DEF g
    <3>2. /\ n \in Nat /\ g \in Seq(Sequences) /\ DOMAIN g = 1 .. n + 1 /\ g[n + 1] = e
          /\ DOMAIN f = 1 .. n /\ \A i \in 1 .. n : g[i] = f[i]
      BY <1>1, <3>1
    <3> HIDE DEF n
    <3>3. \A i \in 1 .. n + 1 : i \in 1 .. n \/ i = n + 1
      BY <3>2
    <3>4. \A i \in 1 .. n : f[i] # e
      BY <2>2, <3>2 DEF Range
    <3>5. Distinct(g)
      BY <1>3, <3>2, <3>3, <3>4 DEF Distinct
    <3>6. \A i \in 1 .. n : i \in 1 .. n + 1
      BY <3>2
    <3>7. n + 1 \in 1 .. n + 1
      BY <3>2
    <3>8. Range(g) = Range(f) \cup {e}
      BY <3>2, <3>3, <3>6, <3>7 DEF Range
    <3> QED
      BY <2>2, <3>2, <3>5, <3>8
  <2> QED
    BY <2>1, <2>2
<1> HIDE DEF g
<1> QED
  BY <1>1, <1>2, <1>5 DEF Lists, t, f
=============================================================================
