--------------------------- MODULE SetOrderProofs ---------------------------
(***************************************************************************)
(* Facts about the least element and the ordered enumeration of a set of   *)
(* naturals, which the loops of the kernel follow, about division, which   *)
(* takes an address to its page or block, and about the folds that go      *)
(* through a sequence or find a maximum.  Where an induction is needed it  *)
(* is done on the least counterexample, a set, so that it rests on the     *)
(* well-foundedness of < only.                                             *)
(***************************************************************************)
EXTENDS SetOrder, FiniteSetsExt, FiniteSetTheorems, FunctionTheorems,
        WellFoundedInduction, TLAPS

(* A nonempty set of naturals has a least element. *)
LEMMA LeastExists ==
  ASSUME NEW S, S \subseteq Nat, S # {}
  PROVE  \E x \in S : \A y \in S : x <= y
<1> DEFINE R == {ss \in Nat \X Nat : ss[1] < ss[2]}
<1>1. IsWellFoundedOn(R, Nat)
  BY NatLessThanWellFounded DEF OpToRel
<1> HIDE DEF R
<1>2. PICK x \in S : \A y \in S : ~ (<<y, x>> \in R)
  BY <1>1, WFMin, Zenon
<1>3. \A y \in S : ~ (y < x)
  BY <1>2 DEF R
<1> QED
  BY <1>3

(* Induction over the naturals, for a set. *)
LEMMA SetInduction ==
  ASSUME NEW S, 0 \in S, \A n \in Nat : n \in S => n + 1 \in S
  PROVE  \A n \in Nat : n \in S
<1>1. SUFFICES ASSUME Nat \ S # {} PROVE FALSE
  OBVIOUS
<1>2. PICK m \in Nat \ S : \A k \in Nat \ S : m <= k
  BY <1>1, LeastExists
<1>3. m # 0 /\ m - 1 \in Nat /\ m - 1 \in S
  BY <1>2
<1>4. (m - 1) + 1 = m
  BY <1>2
<1> QED
  BY <1>2, <1>3, <1>4

(* Min of a nonempty set of naturals is its least element. *)
LEMMA MinLeast ==
  ASSUME NEW S, S \subseteq Nat, S # {}
  PROVE  Min(S) \in S /\ \A y \in S : Min(S) <= y
BY LeastExists DEF Min

(* Every finite set of naturals can be enumerated in ascending order. *)
LEMMA AscendingExists ==
  ASSUME NEW S, S \subseteq Nat, IsFiniteSet(S)
  PROVE  \E f \in [1..Cardinality(S) -> S] :
            \A i, j \in 1..Cardinality(S) : i < j => f[i] < f[j]
<1> DEFINE Sorted(T, n) == \E f \in [1..n -> T] : \A i, j \in 1..n : i < j => f[i] < f[j]
           Bad == {n \in Nat : \E T \in SUBSET S : Cardinality(T) = n /\ ~Sorted(T, n)}
<1>1. SUFFICES ASSUME Bad # {} PROVE FALSE
  <2>1. Cardinality(S) \in Nat
    BY FS_CardinalityType
  <2>2. Cardinality(S) \notin Bad
    BY <1>1
  <2> QED
    BY <2>1, <2>2
<1>2. PICK n \in Bad : \A m \in Bad : n <= m
  <2> HIDE DEF Bad
  <2>1. Bad \subseteq Nat
    BY DEF Bad
  <2> QED
    BY <1>1, <2>1, LeastExists
<1>3. PICK T \in SUBSET S : Cardinality(T) = n /\ ~Sorted(T, n)
  OBVIOUS
<1>4. n \in Nat /\ IsFiniteSet(T)
  BY FS_Subset
<1>5. CASE n = 0
  <2>1. <<>> \in [1..n -> T]
    BY <1>5
  <2>2. \A i, j \in 1..n : i < j => <<>>[i] < <<>>[j]
    BY <1>5
  <2> QED
    BY <2>1, <2>2, <1>3
<1>6. CASE n # 0
  <2>1. T # {}
    BY <1>3, <1>4, <1>6, FS_EmptySet
  <2>2. PICK m \in T : \A y \in T : m <= y
    BY <2>1, <1>3, LeastExists
  <2>3. Cardinality(T \ {m}) = n - 1 /\ n - 1 \in Nat
    <3> HIDE DEF Sorted, Bad
    <3>1. Cardinality(T \ {m}) = Cardinality(T) - 1
      BY <1>4, FS_RemoveElement
    <3> QED
      BY <3>1, <1>3, <1>4, <1>6
  <2>4. n - 1 \notin Bad
    BY <1>2, <1>4
  <2>5. Sorted(T \ {m}, n - 1)
    BY <2>3, <2>4, <1>3
  <2>6. PICK g \in [1..(n - 1) -> T \ {m}] : \A i, j \in 1..(n - 1) : i < j => g[i] < g[j]
    BY <2>5
  <2> DEFINE f == [i \in 1..n |-> IF i = 1 THEN m ELSE g[i - 1]]
  <2>7. f \in [1..n -> T]
    BY <2>3, <2>6, <1>4
  <2>8. ASSUME NEW i \in 1..n, NEW j \in 1..n, i < j
        PROVE  f[i] < f[j]
    <3>1. j # 1 /\ j - 1 \in 1..(n - 1) /\ f[j] = g[j - 1] /\ g[j - 1] \in T \ {m}
      BY <2>8, <2>6, <1>4
    <3>2. CASE i = 1
      <4>1. f[i] = m
        BY <3>2
      <4>2. m <= f[j] /\ m # f[j] /\ m \in Nat /\ f[j] \in Nat
        BY <3>1, <2>2, <1>3
      <4> QED
        BY <4>1, <4>2
    <3>3. CASE i # 1
      BY <3>1, <3>3, <2>8, <2>6, <1>4
    <3> QED
      BY <3>2, <3>3
  <2> HIDE DEF f
  <2>9. Sorted(T, n)
    BY <2>7, <2>8
  <2> QED
    BY <2>9, <1>3
<1> QED
  BY <1>5, <1>6

(* Ascending(S) is a sequence that has every element of S once. *)
LEMMA AscendingFacts ==
  ASSUME NEW S, S \subseteq Nat, IsFiniteSet(S)
  PROVE  /\ Ascending(S) \in Seq(S)
         /\ Len(Ascending(S)) = Cardinality(S) /\ Cardinality(S) \in Nat
         /\ \A x \in S : \E i \in 1..Cardinality(S) : Ascending(S)[i] = x
         /\ \A i, j \in 1..Cardinality(S) : Ascending(S)[i] = Ascending(S)[j] => i = j
<1> DEFINE n == Cardinality(S)
           f == Ascending(S)
<1>1. n \in Nat
  BY FS_CardinalityType
<1>2. f \in [1..n -> S] /\ \A i, j \in 1..n : i < j => f[i] < f[j]
  BY AscendingExists DEF Ascending
<1>3. f \in Seq(S) /\ Len(f) = n
  BY <1>1, <1>2
<1>4. \A i, j \in 1..n : f[i] = f[j] => i = j
  <2> SUFFICES ASSUME NEW i \in 1..n, NEW j \in 1..n, f[i] = f[j] PROVE i = j
    OBVIOUS
  <2>1. f[i] \in Nat /\ f[j] \in Nat
    BY <1>2
  <2>2. ~(f[i] < f[j]) /\ ~(f[j] < f[i])
    BY <2>1
  <2> QED
    BY <1>1, <1>2, <2>2
<1>5. \A x \in S : \E i \in 1..n : f[i] = x
  <2>1. f \in Injection(1..n, S)
    BY <1>2, <1>4 DEF Injection, IsInjective
  <2>2. Cardinality(1..n) = n
    BY <1>1, FS_Interval
  <2>3. f \in Surjection(1..n, S)
    BY <2>1, <2>2, FS_Injection
  <2> QED
    BY <2>3 DEF Surjection
<1> QED
  BY <1>1, <1>3, <1>4, <1>5

-----------------------------------------------------------------------------
(* Division *)

(* Quotient and remainder are determined by what they stand for. *)
LEMMA DivMod ==
  ASSUME NEW b \in Nat \ {0}, NEW q \in Nat, NEW r \in Nat, r < b
  PROVE  (b * q + r) \div b = q /\ (b * q + r) % b = r
<1> DEFINE a == b * q + r
           d == a \div b
           m == a % b
<1>1. a \in Nat
  OBVIOUS
<1>2. d \in Nat /\ m \in 0..(b - 1) /\ a = b * d + m
  <2> HIDE DEF a
  <2> QED
    BY <1>1 DEF a
<1>3. b * q + r = b * d + m
  BY <1>2
<1> HIDE DEF d, m, a
<1>4. ~(d < q)
  <2> SUFFICES ASSUME d < q PROVE FALSE
    OBVIOUS
  <2>1. PICK e \in Nat : q = d + 1 + e
    <3>1. q - d - 1 \in Nat /\ q = d + 1 + (q - d - 1)
      BY <1>2
    <3> QED BY <3>1
  <2>2. b * q = b * d + b + b * e /\ b * e \in Nat
    BY <1>2, <2>1
  <2> QED
    BY <1>2, <1>3, <2>2
<1>5. ~(q < d)
  <2> SUFFICES ASSUME q < d PROVE FALSE
    OBVIOUS
  <2>1. PICK e \in Nat : d = q + 1 + e
    <3>1. d - q - 1 \in Nat /\ d = q + 1 + (d - q - 1)
      BY <1>2
    <3> QED BY <3>1
  <2>2. b * d = b * q + b + b * e /\ b * e \in Nat
    BY <1>2, <2>1
  <2> QED
    BY <1>2, <1>3, <2>2
<1>6. d = q
  BY <1>2, <1>4, <1>5
<1>7. m = r
  <2>1. b * d = b * q
    BY <1>6
  <2> QED
    BY <1>2, <1>3, <2>1
<1> QED
  BY <1>6, <1>7 DEF d, m, a

(* A number is its quotient times the divisor, plus the remainder. *)
LEMMA Divided ==
  ASSUME NEW a \in Nat, NEW b \in Nat \ {0}
  PROVE  a \div b \in Nat /\ a % b \in 0..(b - 1) /\ a = b * (a \div b) + (a % b)
OBVIOUS

-----------------------------------------------------------------------------
(* Folds.  FoldLeft is a function of sets of positions that takes the last *)
(* position off until none is left.  The modules with folds show that such *)
(* a function exists for the sets within 1..m, m by m; this is what they   *)
(* need of those sets.                                                     *)

(* A nonempty bounded set of naturals has a greatest element, which is Max. *)
LEMMA MaxOf ==
  ASSUME NEW n \in Nat, NEW T, T \subseteq 0..n, T # {}
  PROVE  Max(T) \in T /\ \A k \in T : k <= Max(T)
<1> DEFINE U == {k \in 0..n : \A j \in T : j <= k}
<1>1. n \in U /\ U \subseteq Nat
  OBVIOUS
<1>2. PICK m \in U : \A k \in U : m <= k
  BY <1>1, LeastExists
<1>3. PICK j \in T : TRUE
  OBVIOUS
<1>4. m \in T
  <2>1. CASE m = 0
    <3>1. j <= m /\ j \in 0..n
      BY <1>2
    <3> QED
      BY <2>1, <3>1
  <2>2. CASE m # 0
    <3>1. m - 1 \notin U
      <4>1. m - 1 \in U => m <= m - 1
        BY <1>2
      <4>2. m \in Nat
        BY <1>2
      <4> QED
        BY <4>1, <4>2
    <3>2. PICK i \in T : ~(i <= m - 1)
      BY <1>2, <2>2, <3>1
    <3>3. i = m
      BY <1>2, <3>2
    <3> QED
      BY <3>2, <3>3
  <2> QED
    BY <2>1, <2>2
<1> QED
  BY <1>2, <1>4 DEF Max

(* The greatest of 1..k is k. *)
LEMMA MaxUpTo ==
  ASSUME NEW k \in Nat \ {0}
  PROVE  Max(1..k) = k /\ (1..k) \ {Max(1..k)} = 1..(k - 1)
<1>1. Max(1..k) \in 1..k /\ \A j \in 1..k : j <= Max(1..k)
  <2>1. 1..k \subseteq 0..k /\ 1..k # {} /\ k \in Nat
    OBVIOUS
  <2> QED
    BY <2>1, MaxOf
<1> QED
  BY <1>1

(* The subsets of 1..n that lie within 1..m. *)
Within(m, n) == {s \in SUBSET (1..n) : s \subseteq 1..m}

(* A set within 1..(m + 1) lies within 1..m without its last element. *)
LEMMA WithinFacts ==
  ASSUME NEW n \in Nat
  PROVE  /\ Within(0, n) = {{}} /\ Within(n, n) = SUBSET (1..n)
         /\ \A m \in Nat : /\ Within(m, n) \subseteq Within(m + 1, n)
                           /\ \A s \in Within(m, n) : s # {} => s \ {Max(s)} \in Within(m, n)
                           /\ \A s \in Within(m + 1, n) : s # {} => s \ {Max(s)} \in Within(m, n)
<1>1. Within(0, n) = {{}} /\ Within(n, n) = SUBSET (1..n)
  BY DEF Within
<1>2. ASSUME NEW m \in Nat
      PROVE  /\ Within(m, n) \subseteq Within(m + 1, n)
             /\ \A s \in Within(m, n) : s # {} => s \ {Max(s)} \in Within(m, n)
             /\ \A s \in Within(m + 1, n) : s # {} => s \ {Max(s)} \in Within(m, n)
  <2>1. Within(m, n) \subseteq Within(m + 1, n)
    BY DEF Within
  <2>2. \A s \in Within(m, n) : s # {} => s \ {Max(s)} \in Within(m, n)
    BY DEF Within
  <2>3. ASSUME NEW s \in Within(m + 1, n), s # {} PROVE s \ {Max(s)} \in Within(m, n)
    <3>1. s \subseteq 1..(m + 1) /\ s \in SUBSET (1..n)
      BY DEF Within
    <3>2. Max(s) \in s /\ \A k \in s : k <= Max(s)
      <4>1. s \subseteq 0..(m + 1) /\ m + 1 \in Nat
        BY <3>1
      <4> QED
        BY <2>3, <4>1, MaxOf
    <3>3. ASSUME NEW k \in s \ {Max(s)} PROVE k \in 1..m
      <4> DEFINE x == Max(s)
      <4>1. x \in 1..(m + 1) /\ k \in 1..(m + 1) /\ k <= x /\ k # x
        BY <3>1, <3>2
      <4> HIDE DEF x
      <4> QED
        BY <4>1
    <3> QED
      BY <3>1, <3>3 DEF Within
  <2> QED
    BY <2>1, <2>2, <2>3
<1> QED
  BY <1>1, <1>2
=============================================================================
