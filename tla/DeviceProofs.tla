---------------------------- MODULE DeviceProofs ----------------------------
(***************************************************************************)
(* Proofs about the console (Console), the keyboard and the mouse (Ps2)    *)
(* and the start of the processors (Boot).                                 *)
(***************************************************************************)
EXTENDS Console, Ps2, Boot, SetOrderProofs, FiniteSetTheorems, SequenceTheorems, TLAPS

-----------------------------------------------------------------------------
(* Folds, operator by operator *)

(* What a page is after the characters q. *)
Typed(base, q) == FoldLeft(TypeOn, base, q)
TypedRun(f, base, q, n) ==
    f[0] = base /\ (\A k \in 1..n : f[k] = TypeOn(f[k - 1], q[k])) /\ Typed(base, q) = f[n]

(* Typing goes character by character. *)
LEMMA TypedFold ==
  ASSUME NEW base, NEW q, NEW n \in Nat, DOMAIN q = 1..n
  PROVE  \E f : TypedRun(f, base, q, n)
<1> DEFINE Eq(g, Ts) == g = [s \in Ts |-> IF s = {} THEN base ELSE TypeOn(g[s \ {Max(s)}], q[Max(s)])]
           S == {m \in Nat : \E g : Eq(g, Within(m, n))}
<1>1. 0 \in S
  <2> DEFINE g == [s \in {{}} |-> base]
  <2>1. Eq(g, {{}})
    <3>1. \A s \in {{}} : s = {}
      OBVIOUS
    <3> QED
      BY <3>1, Zenon
  <2> QED
    BY <2>1, WithinFacts
<1>2. ASSUME NEW m \in Nat, m \in S PROVE m + 1 \in S
  <2>1. PICK g : Eq(g, Within(m, n))
    BY <1>2
  <2> DEFINE h == [s \in Within(m + 1, n) |->
                     IF s = {} THEN base ELSE TypeOn(g[s \ {Max(s)}], q[Max(s)])]
  <2>2. \A s \in Within(m, n) : h[s] = g[s]
    <3>1. \A s \in Within(m, n) : h[s] = IF s = {} THEN base ELSE TypeOn(g[s \ {Max(s)}], q[Max(s)])
      BY WithinFacts, Zenon
    <3>2. \A s \in Within(m, n) : g[s] = IF s = {} THEN base ELSE TypeOn(g[s \ {Max(s)}], q[Max(s)])
      BY <2>1, Zenon
    <3> QED
      BY <3>1, <3>2, Zenon
  <2>3. \A s \in Within(m + 1, n) : s # {} => s \ {Max(s)} \in Within(m, n)
    BY WithinFacts
  <2>4. Eq(h, Within(m + 1, n))
    BY <2>2, <2>3, Zenon
  <2> HIDE DEF h
  <2>5. \E j : Eq(j, Within(m + 1, n))
    BY <2>4, Zenon
  <2> HIDE DEF Eq
  <2> QED
    BY <2>5
<1>3. PICK g : Eq(g, SUBSET (1..n))
  <2> HIDE DEF S
  <2>1. n \in S
    BY <1>1, <1>2, SetInduction
  <2> QED
    BY <2>1, WithinFacts DEF S
<1> DEFINE i == CHOOSE j : Eq(j, SUBSET (1..n))
<1>4. Eq(i, SUBSET (1..n))
  BY <1>3, Zenon
<1>5. Typed(base, q) = i[1..n]
  BY Zenon DEF Typed, FoldLeft, MapThenFoldSet
<1> HIDE DEF i
<1> DEFINE f == [k \in 0..n |-> i[1..k]]
<1>6. f[0] = base
  <2>1. 1..0 = {} /\ {} \in SUBSET (1..n)
    OBVIOUS
  <2>2. i[{}] = base
    BY <1>4, <2>1, Zenon
  <2> QED
    BY <2>1, <2>2
<1>7. ASSUME NEW k \in 1..n PROVE f[k] = TypeOn(f[k - 1], q[k])
  <2>1. 1..k \in SUBSET (1..n) /\ 1..k # {} /\ k \in Nat \ {0} /\ k \in 0..n /\ k - 1 \in 0..n
    OBVIOUS
  <2>2. i[1..k] = TypeOn(i[(1..k) \ {Max(1..k)}], q[Max(1..k)])
    BY <1>4, <2>1, Zenon
  <2>3. i[1..k] = TypeOn(i[1..(k - 1)], q[k])
    BY <2>1, <2>2, MaxUpTo
  <2> QED
    BY <2>1, <2>3
<1>8. Typed(base, q) = f[n]
  BY <1>5
<1> HIDE DEF f
<1>9. TypedRun(f, base, q, n)
  BY <1>6, <1>7, <1>8 DEF TypedRun
<1> QED
  BY <1>9, Zenon

(* There is only one such run. *)
LEMMA TypedFoldIs ==
  ASSUME NEW base, NEW q, NEW n \in Nat, DOMAIN q = 1..n,
         NEW h, h[0] = base, \A k \in 1..n : h[k] = TypeOn(h[k - 1], q[k])
  PROVE  Typed(base, q) = h[n]
<1>1. PICK f : TypedRun(f, base, q, n)
  BY TypedFold
<1> DEFINE S == {k \in Nat : k <= n => h[k] = f[k]}
<1>2. 0 \in S
  BY <1>1 DEF TypedRun
<1>3. ASSUME NEW k \in Nat, k \in S PROVE k + 1 \in S
  <2>1. SUFFICES ASSUME k + 1 <= n PROVE h[k + 1] = f[k + 1]
    OBVIOUS
  <2>2. k + 1 \in 1..n /\ (k + 1) - 1 = k /\ h[k] = f[k]
    BY <2>1, <1>3
  <2>3. h[k + 1] = TypeOn(h[k], q[k + 1]) /\ f[k + 1] = TypeOn(f[k], q[k + 1])
    BY <2>2, <1>1 DEF TypedRun
  <2> QED
    BY <2>2, <2>3
<1>4. n \in S
  <2> HIDE DEF S
  <2> QED
    BY <1>2, <1>3, SetInduction
<1> QED
  BY <1>1, <1>4 DEF TypedRun

(* No element, and one element. *)
LEMMA TypedFoldParts ==
  ASSUME NEW base
  PROVE  /\ Typed(base, <<>>) = base
         /\ \A x : Typed(base, <<x>>) = TypeOn(base, x)
<1>1. Typed(base, <<>>) = base
  <2>1. 0 \in Nat /\ DOMAIN <<>> = 1..0
    OBVIOUS
  <2> QED
    BY <2>1, TypedFold DEF TypedRun
<1>2. ASSUME NEW x PROVE Typed(base, <<x>>) = TypeOn(base, x)
  <2>1. 1 \in Nat /\ DOMAIN <<x>> = 1..1 /\ <<x>>[1] = x /\ 1 \in 1..1 /\ 1 - 1 = 0
    OBVIOUS
  <2>2. PICK f : TypedRun(f, base, <<x>>, 1)
    BY <2>1, TypedFold
  <2> QED
    BY <2>1, <2>2 DEF TypedRun
<1> QED
  BY <1>1, <1>2

(* Two parts. *)
LEMMA TypedFoldConcat ==
  ASSUME NEW base, NEW U, NEW q \in Seq(U), NEW r \in Seq(U)
  PROVE  Typed(base, q \o r) = Typed(Typed(base, q), r)
<1> DEFINE m == Len(q)
           n == Len(r)
           s == q \o r
<1>1. /\ m \in Nat /\ n \in Nat /\ m + n \in Nat /\ DOMAIN q = 1..m /\ DOMAIN r = 1..n
      /\ DOMAIN s = 1..(m + n) /\ (\A k \in 1..m : s[k] = q[k]) /\ \A k \in 1..n : s[m + k] = r[k]
  OBVIOUS
<1> HIDE DEF m, n, s
<1>2. PICK f : TypedRun(f, base, s, m + n)
  BY <1>1, TypedFold
<1>3. Typed(base, q) = f[m]
  <2>1. \A k \in 1..m : k \in 1..(m + n)
    BY <1>1
  <2>2. f[0] = base /\ \A k \in 1..m : f[k] = TypeOn(f[k - 1], q[k])
    BY <1>1, <1>2, <2>1 DEF TypedRun
  <2> QED
    BY <1>1, <2>2, TypedFoldIs, SMTT(30)
<1> DEFINE h == [k \in 0..n |-> f[m + k]]
<1>4. h[0] = f[m] /\ h[n] = f[m + n]
  BY <1>1
<1>5. ASSUME NEW k \in 1..n PROVE h[k] = TypeOn(h[k - 1], r[k])
  <2>1. PICK i \in 1..(m + n) : i = m + k /\ i - 1 = m + (k - 1)
    BY <1>1
  <2>2. f[i] = TypeOn(f[i - 1], s[i])
    BY <1>2, <2>1 DEF TypedRun
  <2>3. s[i] = r[k]
    BY <1>1, <2>1
  <2>4. k \in 0..n /\ k - 1 \in 0..n
    BY <1>1
  <2>5. h[k] = f[i] /\ h[k - 1] = f[i - 1]
    BY <2>1, <2>4
  <2> HIDE DEF h
  <2> QED
    BY <2>2, <2>3, <2>5
<1> HIDE DEF h
<1>6. Typed(f[m], r) = h[n]
  <2>1. PICK b : b = f[m]
    OBVIOUS
  <2>2. h[0] = b /\ \A k \in 1..n : h[k] = TypeOn(h[k - 1], r[k])
    BY <1>4, <1>5, <2>1
  <2>3. n \in Nat /\ DOMAIN r = 1..n
    BY <1>1
  <2>4. Typed(b, r) = h[n]
    BY <2>2, <2>3, TypedFoldIs
  <2> QED
    BY <2>1, <2>4, Zenon
<1>7. Typed(base, s) = f[m + n]
  BY <1>2 DEF TypedRun
<1>8. Typed(base, s) = Typed(f[m], r)
  BY <1>4, <1>6, <1>7, Zenon
<1>9. Typed(base, s) = Typed(Typed(base, q), r)
  BY <1>3, <1>8, Zenon
<1> QED
  BY <1>9, Zenon DEF s

(* A pen after the parameters q. *)
Applied(base, q) == FoldLeft(ApplyParam, base, q)
AppliedRun(f, base, q, n) ==
    f[0] = base /\ (\A k \in 1..n : f[k] = ApplyParam(f[k - 1], q[k])) /\ Applied(base, q) = f[n]

(* Parameters apply one by one. *)
LEMMA AppliedFold ==
  ASSUME NEW base, NEW q, NEW n \in Nat, DOMAIN q = 1..n
  PROVE  \E f : AppliedRun(f, base, q, n)
<1> DEFINE Eq(g, Ts) == g = [s \in Ts |-> IF s = {} THEN base ELSE ApplyParam(g[s \ {Max(s)}], q[Max(s)])]
           S == {m \in Nat : \E g : Eq(g, Within(m, n))}
<1>1. 0 \in S
  <2> DEFINE g == [s \in {{}} |-> base]
  <2>1. Eq(g, {{}})
    <3>1. \A s \in {{}} : s = {}
      OBVIOUS
    <3> QED
      BY <3>1, Zenon
  <2> QED
    BY <2>1, WithinFacts
<1>2. ASSUME NEW m \in Nat, m \in S PROVE m + 1 \in S
  <2>1. PICK g : Eq(g, Within(m, n))
    BY <1>2
  <2> DEFINE h == [s \in Within(m + 1, n) |->
                     IF s = {} THEN base ELSE ApplyParam(g[s \ {Max(s)}], q[Max(s)])]
  <2>2. \A s \in Within(m, n) : h[s] = g[s]
    <3>1. \A s \in Within(m, n) : h[s] = IF s = {} THEN base ELSE ApplyParam(g[s \ {Max(s)}], q[Max(s)])
      BY WithinFacts, Zenon
    <3>2. \A s \in Within(m, n) : g[s] = IF s = {} THEN base ELSE ApplyParam(g[s \ {Max(s)}], q[Max(s)])
      BY <2>1, Zenon
    <3> QED
      BY <3>1, <3>2, Zenon
  <2>3. \A s \in Within(m + 1, n) : s # {} => s \ {Max(s)} \in Within(m, n)
    BY WithinFacts
  <2>4. Eq(h, Within(m + 1, n))
    BY <2>2, <2>3, Zenon
  <2> HIDE DEF h
  <2>5. \E j : Eq(j, Within(m + 1, n))
    BY <2>4, Zenon
  <2> HIDE DEF Eq
  <2> QED
    BY <2>5
<1>3. PICK g : Eq(g, SUBSET (1..n))
  <2> HIDE DEF S
  <2>1. n \in S
    BY <1>1, <1>2, SetInduction
  <2> QED
    BY <2>1, WithinFacts DEF S
<1> DEFINE i == CHOOSE j : Eq(j, SUBSET (1..n))
<1>4. Eq(i, SUBSET (1..n))
  BY <1>3, Zenon
<1>5. Applied(base, q) = i[1..n]
  BY Zenon DEF Applied, FoldLeft, MapThenFoldSet
<1> HIDE DEF i
<1> DEFINE f == [k \in 0..n |-> i[1..k]]
<1>6. f[0] = base
  <2>1. 1..0 = {} /\ {} \in SUBSET (1..n)
    OBVIOUS
  <2>2. i[{}] = base
    BY <1>4, <2>1, Zenon
  <2> QED
    BY <2>1, <2>2
<1>7. ASSUME NEW k \in 1..n PROVE f[k] = ApplyParam(f[k - 1], q[k])
  <2>1. 1..k \in SUBSET (1..n) /\ 1..k # {} /\ k \in Nat \ {0} /\ k \in 0..n /\ k - 1 \in 0..n
    OBVIOUS
  <2>2. i[1..k] = ApplyParam(i[(1..k) \ {Max(1..k)}], q[Max(1..k)])
    BY <1>4, <2>1, Zenon
  <2>3. i[1..k] = ApplyParam(i[1..(k - 1)], q[k])
    BY <2>1, <2>2, MaxUpTo
  <2> QED
    BY <2>1, <2>3
<1>8. Applied(base, q) = f[n]
  BY <1>5
<1> HIDE DEF f
<1>9. AppliedRun(f, base, q, n)
  BY <1>6, <1>7, <1>8 DEF AppliedRun
<1> QED
  BY <1>9, Zenon

(* There is only one such run. *)
LEMMA AppliedFoldIs ==
  ASSUME NEW base, NEW q, NEW n \in Nat, DOMAIN q = 1..n,
         NEW h, h[0] = base, \A k \in 1..n : h[k] = ApplyParam(h[k - 1], q[k])
  PROVE  Applied(base, q) = h[n]
<1>1. PICK f : AppliedRun(f, base, q, n)
  BY AppliedFold
<1> DEFINE S == {k \in Nat : k <= n => h[k] = f[k]}
<1>2. 0 \in S
  BY <1>1 DEF AppliedRun
<1>3. ASSUME NEW k \in Nat, k \in S PROVE k + 1 \in S
  <2>1. SUFFICES ASSUME k + 1 <= n PROVE h[k + 1] = f[k + 1]
    OBVIOUS
  <2>2. k + 1 \in 1..n /\ (k + 1) - 1 = k /\ h[k] = f[k]
    BY <2>1, <1>3
  <2>3. h[k + 1] = ApplyParam(h[k], q[k + 1]) /\ f[k + 1] = ApplyParam(f[k], q[k + 1])
    BY <2>2, <1>1 DEF AppliedRun
  <2> QED
    BY <2>2, <2>3
<1>4. n \in S
  <2> HIDE DEF S
  <2> QED
    BY <1>2, <1>3, SetInduction
<1> QED
  BY <1>1, <1>4 DEF AppliedRun

(* No element, and one element. *)
LEMMA AppliedFoldParts ==
  ASSUME NEW base
  PROVE  /\ Applied(base, <<>>) = base
         /\ \A x : Applied(base, <<x>>) = ApplyParam(base, x)
<1>1. Applied(base, <<>>) = base
  <2>1. 0 \in Nat /\ DOMAIN <<>> = 1..0
    OBVIOUS
  <2> QED
    BY <2>1, AppliedFold DEF AppliedRun
<1>2. ASSUME NEW x PROVE Applied(base, <<x>>) = ApplyParam(base, x)
  <2>1. 1 \in Nat /\ DOMAIN <<x>> = 1..1 /\ <<x>>[1] = x /\ 1 \in 1..1 /\ 1 - 1 = 0
    OBVIOUS
  <2>2. PICK f : AppliedRun(f, base, <<x>>, 1)
    BY <2>1, AppliedFold
  <2> QED
    BY <2>1, <2>2 DEF AppliedRun
<1> QED
  BY <1>1, <1>2

(* Two parts. *)
LEMMA AppliedFoldConcat ==
  ASSUME NEW base, NEW U, NEW q \in Seq(U), NEW r \in Seq(U)
  PROVE  Applied(base, q \o r) = Applied(Applied(base, q), r)
<1> DEFINE m == Len(q)
           n == Len(r)
           s == q \o r
<1>1. /\ m \in Nat /\ n \in Nat /\ m + n \in Nat /\ DOMAIN q = 1..m /\ DOMAIN r = 1..n
      /\ DOMAIN s = 1..(m + n) /\ (\A k \in 1..m : s[k] = q[k]) /\ \A k \in 1..n : s[m + k] = r[k]
  OBVIOUS
<1> HIDE DEF m, n, s
<1>2. PICK f : AppliedRun(f, base, s, m + n)
  BY <1>1, AppliedFold
<1>3. Applied(base, q) = f[m]
  <2>1. \A k \in 1..m : k \in 1..(m + n)
    BY <1>1
  <2>2. f[0] = base /\ \A k \in 1..m : f[k] = ApplyParam(f[k - 1], q[k])
    BY <1>1, <1>2, <2>1 DEF AppliedRun
  <2> QED
    BY <1>1, <2>2, AppliedFoldIs, SMTT(30)
<1> DEFINE h == [k \in 0..n |-> f[m + k]]
<1>4. h[0] = f[m] /\ h[n] = f[m + n]
  BY <1>1
<1>5. ASSUME NEW k \in 1..n PROVE h[k] = ApplyParam(h[k - 1], r[k])
  <2>1. PICK i \in 1..(m + n) : i = m + k /\ i - 1 = m + (k - 1)
    BY <1>1
  <2>2. f[i] = ApplyParam(f[i - 1], s[i])
    BY <1>2, <2>1 DEF AppliedRun
  <2>3. s[i] = r[k]
    BY <1>1, <2>1
  <2>4. k \in 0..n /\ k - 1 \in 0..n
    BY <1>1
  <2>5. h[k] = f[i] /\ h[k - 1] = f[i - 1]
    BY <2>1, <2>4
  <2> HIDE DEF h
  <2> QED
    BY <2>2, <2>3, <2>5
<1> HIDE DEF h
<1>6. Applied(f[m], r) = h[n]
  <2>1. PICK b : b = f[m]
    OBVIOUS
  <2>2. h[0] = b /\ \A k \in 1..n : h[k] = ApplyParam(h[k - 1], r[k])
    BY <1>4, <1>5, <2>1
  <2>3. n \in Nat /\ DOMAIN r = 1..n
    BY <1>1
  <2>4. Applied(b, r) = h[n]
    BY <2>2, <2>3, AppliedFoldIs
  <2> QED
    BY <2>1, <2>4, Zenon
<1>7. Applied(base, s) = f[m + n]
  BY <1>2 DEF AppliedRun
<1>8. Applied(base, s) = Applied(f[m], r)
  BY <1>4, <1>6, <1>7, Zenon
<1>9. Applied(base, s) = Applied(Applied(base, q), r)
  BY <1>3, <1>8, Zenon
<1> QED
  BY <1>9, Zenon DEF s

(* The numbers after the characters q. *)
Spelled(base, q) == FoldLeft(Spell, base, q)
SpelledRun(f, base, q, n) ==
    f[0] = base /\ (\A k \in 1..n : f[k] = Spell(f[k - 1], q[k])) /\ Spelled(base, q) = f[n]

(* Numbers are spelled character by character. *)
LEMMA SpelledFold ==
  ASSUME NEW base, NEW q, NEW n \in Nat, DOMAIN q = 1..n
  PROVE  \E f : SpelledRun(f, base, q, n)
<1> DEFINE Eq(g, Ts) == g = [s \in Ts |-> IF s = {} THEN base ELSE Spell(g[s \ {Max(s)}], q[Max(s)])]
           S == {m \in Nat : \E g : Eq(g, Within(m, n))}
<1>1. 0 \in S
  <2> DEFINE g == [s \in {{}} |-> base]
  <2>1. Eq(g, {{}})
    <3>1. \A s \in {{}} : s = {}
      OBVIOUS
    <3> QED
      BY <3>1, Zenon
  <2> QED
    BY <2>1, WithinFacts
<1>2. ASSUME NEW m \in Nat, m \in S PROVE m + 1 \in S
  <2>1. PICK g : Eq(g, Within(m, n))
    BY <1>2
  <2> DEFINE h == [s \in Within(m + 1, n) |->
                     IF s = {} THEN base ELSE Spell(g[s \ {Max(s)}], q[Max(s)])]
  <2>2. \A s \in Within(m, n) : h[s] = g[s]
    <3>1. \A s \in Within(m, n) : h[s] = IF s = {} THEN base ELSE Spell(g[s \ {Max(s)}], q[Max(s)])
      BY WithinFacts, Zenon
    <3>2. \A s \in Within(m, n) : g[s] = IF s = {} THEN base ELSE Spell(g[s \ {Max(s)}], q[Max(s)])
      BY <2>1, Zenon
    <3> QED
      BY <3>1, <3>2, Zenon
  <2>3. \A s \in Within(m + 1, n) : s # {} => s \ {Max(s)} \in Within(m, n)
    BY WithinFacts
  <2>4. Eq(h, Within(m + 1, n))
    BY <2>2, <2>3, Zenon
  <2> HIDE DEF h
  <2>5. \E j : Eq(j, Within(m + 1, n))
    BY <2>4, Zenon
  <2> HIDE DEF Eq
  <2> QED
    BY <2>5
<1>3. PICK g : Eq(g, SUBSET (1..n))
  <2> HIDE DEF S
  <2>1. n \in S
    BY <1>1, <1>2, SetInduction
  <2> QED
    BY <2>1, WithinFacts DEF S
<1> DEFINE i == CHOOSE j : Eq(j, SUBSET (1..n))
<1>4. Eq(i, SUBSET (1..n))
  BY <1>3, Zenon
<1>5. Spelled(base, q) = i[1..n]
  BY Zenon DEF Spelled, FoldLeft, MapThenFoldSet
<1> HIDE DEF i
<1> DEFINE f == [k \in 0..n |-> i[1..k]]
<1>6. f[0] = base
  <2>1. 1..0 = {} /\ {} \in SUBSET (1..n)
    OBVIOUS
  <2>2. i[{}] = base
    BY <1>4, <2>1, Zenon
  <2> QED
    BY <2>1, <2>2
<1>7. ASSUME NEW k \in 1..n PROVE f[k] = Spell(f[k - 1], q[k])
  <2>1. 1..k \in SUBSET (1..n) /\ 1..k # {} /\ k \in Nat \ {0} /\ k \in 0..n /\ k - 1 \in 0..n
    OBVIOUS
  <2>2. i[1..k] = Spell(i[(1..k) \ {Max(1..k)}], q[Max(1..k)])
    BY <1>4, <2>1, Zenon
  <2>3. i[1..k] = Spell(i[1..(k - 1)], q[k])
    BY <2>1, <2>2, MaxUpTo
  <2> QED
    BY <2>1, <2>3
<1>8. Spelled(base, q) = f[n]
  BY <1>5
<1> HIDE DEF f
<1>9. SpelledRun(f, base, q, n)
  BY <1>6, <1>7, <1>8 DEF SpelledRun
<1> QED
  BY <1>9, Zenon

(* There is only one such run. *)
LEMMA SpelledFoldIs ==
  ASSUME NEW base, NEW q, NEW n \in Nat, DOMAIN q = 1..n,
         NEW h, h[0] = base, \A k \in 1..n : h[k] = Spell(h[k - 1], q[k])
  PROVE  Spelled(base, q) = h[n]
<1>1. PICK f : SpelledRun(f, base, q, n)
  BY SpelledFold
<1> DEFINE S == {k \in Nat : k <= n => h[k] = f[k]}
<1>2. 0 \in S
  BY <1>1 DEF SpelledRun
<1>3. ASSUME NEW k \in Nat, k \in S PROVE k + 1 \in S
  <2>1. SUFFICES ASSUME k + 1 <= n PROVE h[k + 1] = f[k + 1]
    OBVIOUS
  <2>2. k + 1 \in 1..n /\ (k + 1) - 1 = k /\ h[k] = f[k]
    BY <2>1, <1>3
  <2>3. h[k + 1] = Spell(h[k], q[k + 1]) /\ f[k + 1] = Spell(f[k], q[k + 1])
    BY <2>2, <1>1 DEF SpelledRun
  <2> QED
    BY <2>2, <2>3
<1>4. n \in S
  <2> HIDE DEF S
  <2> QED
    BY <1>2, <1>3, SetInduction
<1> QED
  BY <1>1, <1>4 DEF SpelledRun

(* No element, and one element. *)
LEMMA SpelledFoldParts ==
  ASSUME NEW base
  PROVE  /\ Spelled(base, <<>>) = base
         /\ \A x : Spelled(base, <<x>>) = Spell(base, x)
<1>1. Spelled(base, <<>>) = base
  <2>1. 0 \in Nat /\ DOMAIN <<>> = 1..0
    OBVIOUS
  <2> QED
    BY <2>1, SpelledFold DEF SpelledRun
<1>2. ASSUME NEW x PROVE Spelled(base, <<x>>) = Spell(base, x)
  <2>1. 1 \in Nat /\ DOMAIN <<x>> = 1..1 /\ <<x>>[1] = x /\ 1 \in 1..1 /\ 1 - 1 = 0
    OBVIOUS
  <2>2. PICK f : SpelledRun(f, base, <<x>>, 1)
    BY <2>1, SpelledFold
  <2> QED
    BY <2>1, <2>2 DEF SpelledRun
<1> QED
  BY <1>1, <1>2

(* Two parts. *)
LEMMA SpelledFoldConcat ==
  ASSUME NEW base, NEW U, NEW q \in Seq(U), NEW r \in Seq(U)
  PROVE  Spelled(base, q \o r) = Spelled(Spelled(base, q), r)
<1> DEFINE m == Len(q)
           n == Len(r)
           s == q \o r
<1>1. /\ m \in Nat /\ n \in Nat /\ m + n \in Nat /\ DOMAIN q = 1..m /\ DOMAIN r = 1..n
      /\ DOMAIN s = 1..(m + n) /\ (\A k \in 1..m : s[k] = q[k]) /\ \A k \in 1..n : s[m + k] = r[k]
  OBVIOUS
<1> HIDE DEF m, n, s
<1>2. PICK f : SpelledRun(f, base, s, m + n)
  BY <1>1, SpelledFold
<1>3. Spelled(base, q) = f[m]
  <2>1. \A k \in 1..m : k \in 1..(m + n)
    BY <1>1
  <2>2. f[0] = base /\ \A k \in 1..m : f[k] = Spell(f[k - 1], q[k])
    BY <1>1, <1>2, <2>1 DEF SpelledRun
  <2> QED
    BY <1>1, <2>2, SpelledFoldIs, SMTT(30)
<1> DEFINE h == [k \in 0..n |-> f[m + k]]
<1>4. h[0] = f[m] /\ h[n] = f[m + n]
  BY <1>1
<1>5. ASSUME NEW k \in 1..n PROVE h[k] = Spell(h[k - 1], r[k])
  <2>1. PICK i \in 1..(m + n) : i = m + k /\ i - 1 = m + (k - 1)
    BY <1>1
  <2>2. f[i] = Spell(f[i - 1], s[i])
    BY <1>2, <2>1 DEF SpelledRun
  <2>3. s[i] = r[k]
    BY <1>1, <2>1
  <2>4. k \in 0..n /\ k - 1 \in 0..n
    BY <1>1
  <2>5. h[k] = f[i] /\ h[k - 1] = f[i - 1]
    BY <2>1, <2>4
  <2> HIDE DEF h
  <2> QED
    BY <2>2, <2>3, <2>5
<1> HIDE DEF h
<1>6. Spelled(f[m], r) = h[n]
  <2>1. PICK b : b = f[m]
    OBVIOUS
  <2>2. h[0] = b /\ \A k \in 1..n : h[k] = Spell(h[k - 1], r[k])
    BY <1>4, <1>5, <2>1
  <2>3. n \in Nat /\ DOMAIN r = 1..n
    BY <1>1
  <2>4. Spelled(b, r) = h[n]
    BY <2>2, <2>3, SpelledFoldIs
  <2> QED
    BY <2>1, <2>4, Zenon
<1>7. Spelled(base, s) = f[m + n]
  BY <1>2 DEF SpelledRun
<1>8. Spelled(base, s) = Spelled(f[m], r)
  BY <1>4, <1>6, <1>7, Zenon
<1>9. Spelled(base, s) = Spelled(Spelled(base, q), r)
  BY <1>3, <1>8, Zenon
<1> QED
  BY <1>9, Zenon DEF s

-----------------------------------------------------------------------------
(* The console.  A page in progress is what has been put on the screen so  *)
(* far: the screen is its window, and once the rest of the text is typed   *)
(* it becomes the page the text asks for.                                  *)

Glyph == STRING \cup {" "}
CellOf == [ch : Glyph, fg : 0..16, bg : 0..15]
Line == [1..Cols -> CellOf]
Page == {pg \in [lines : Seq(Line), col : 0..Cols, pen : Pen] : Len(pg.lines) >= 1}

Top(pg) == IF Len(pg.lines) > Rows THEN Len(pg.lines) - Rows ELSE 0
RowOf(pg) == Len(pg.lines) - Top(pg) - 1
Win(pg) == [r \in 1..Rows |-> IF Top(pg) + r <= Len(pg.lines) THEN pg.lines[Top(pg) + r]
                              ELSE BlankLine(DefaultPen)]

(* The window of q is that of pg, or what becomes of it. *)
Same(q, pg) == q \in Page /\ Win(q) = Win(pg) /\ RowOf(q) = RowOf(pg) /\ q.pen = pg.pen
Inked(q, pg, k, ch) ==
    /\ q \in Page /\ RowOf(q) = RowOf(pg) /\ q.pen = pg.pen
    /\ Win(q) = [Win(pg) EXCEPT ![RowOf(pg) + 1][k] = Cell(ch, pg.pen)]
Scrolled(w, p) == [r \in 1..Rows |-> IF r < Rows THEN w[r + 1] ELSE BlankLine(p)]
Fed(q, pg) ==
    /\ q \in Page /\ q.pen = pg.pen /\ q.col = 0
    /\ RowOf(pg) + 1 >= Rows => Win(q) = Scrolled(Win(pg), pg.pen) /\ RowOf(q) = Rows - 1
    /\ RowOf(pg) + 1 < Rows => Win(q) = Win(pg) /\ RowOf(q) = RowOf(pg) + 1

LEMMA ConsoleConstants ==
  /\ Cols \in Nat /\ Cols >= 1 /\ Rows \in Nat /\ Rows >= 1 /\ NParams \in Nat /\ NParams >= 1
  /\ ParamWidth \in Nat /\ ParamWidth > 107 /\ MaxTexts \in Nat
BY ConsoleAssumption

LEMMA PenType ==
  /\ DefaultPen \in Pen
  /\ \A p \in Pen : p.fg \in 0..16 /\ p.bg \in 0..15 /\ p = [fg |-> p.fg, bg |-> p.bg]
BY DEF Pen, DefaultPen, FgDefault, BgDefault

LEMMA CellType ==
  ASSUME NEW p \in Pen
  PROVE  (\A ch \in Glyph : Cell(ch, p) \in CellOf) /\ BlankLine(p) \in Line
<1>1. ASSUME NEW ch \in Glyph PROVE Cell(ch, p) \in CellOf
  <2>1. p.fg \in 0..16 /\ p.bg \in 0..15 /\ p.bg \in 0..16
    BY PenType
  <2> QED
    BY <2>1 DEF Cell, CellOf
<1>2. BlankLine(p) \in Line
  <2>1. p.bg \in 0..15 /\ p.bg \in 0..16
    BY PenType
  <2>2. Cell(" ", p) \in CellOf
    BY <2>1 DEF Cell, CellOf, Glyph
  <2> QED
    BY <2>2 DEF BlankLine, Line
<1> QED
  BY <1>1, <1>2

(* A parameter makes a pen of a pen. *)
LEMMA ApplyType ==
  ASSUME NEW p \in Pen, NEW n
  PROVE  ApplyParam(p, n) \in Pen
<1>1. p.fg \in 0..16 /\ p.bg \in 0..15 /\ p = [fg |-> p.fg, bg |-> p.bg]
  BY PenType
<1>2. CASE n = 0
  BY <1>2, PenType DEF ApplyParam
<1>3. CASE n # 0
  <2>1. ApplyParam(p, n) \in {DefaultPen, [p EXCEPT !.fg = p.fg + 8], [p EXCEPT !.fg = n - 30],
           [p EXCEPT !.fg = n - 90 + 8], [p EXCEPT !.bg = n - 40], [p EXCEPT !.bg = n - 100 + 8], p}
    BY <1>3 DEF ApplyParam
  <2>2. n = 1 /\ p.fg \in 0..7 => [p EXCEPT !.fg = p.fg + 8] \in Pen
    BY <1>1 DEF Pen
  <2>3. n \in 30..37 => [p EXCEPT !.fg = n - 30] \in Pen
    BY <1>1 DEF Pen
  <2>4. n \in 90..97 => [p EXCEPT !.fg = n - 90 + 8] \in Pen
    BY <1>1 DEF Pen
  <2>5. n \in 40..47 => [p EXCEPT !.bg = n - 40] \in Pen
    BY <1>1 DEF Pen
  <2>6. n \in 100..107 => [p EXCEPT !.bg = n - 100 + 8] \in Pen
    BY <1>1 DEF Pen
  <2> QED
    BY <1>3, <2>2, <2>3, <2>4, <2>5, <2>6 DEF ApplyParam
<1> QED
  BY <1>2, <1>3

LEMMA AppliedType ==
  ASSUME NEW p \in Pen, NEW q, NEW n \in Nat, DOMAIN q = 1..n
  PROVE  Applied(p, q) \in Pen
<1>1. PICK f : AppliedRun(f, p, q, n)
  BY AppliedFold
<1> DEFINE S == {k \in Nat : k <= n => f[k] \in Pen}
<1>2. 0 \in S
  BY <1>1 DEF AppliedRun
<1>3. ASSUME NEW k \in Nat, k \in S PROVE k + 1 \in S
  <2>1. SUFFICES ASSUME k + 1 <= n PROVE f[k + 1] \in Pen
    OBVIOUS
  <2>2. k + 1 \in 1..n /\ (k + 1) - 1 = k /\ f[k] \in Pen
    BY <2>1, <1>3
  <2>3. f[k + 1] = ApplyParam(f[k], q[k + 1])
    BY <2>2, <1>1 DEF AppliedRun
  <2>4. ApplyParam(f[k], q[k + 1]) \in Pen
    BY <2>2, ApplyType
  <2> QED
    BY <2>3, <2>4
<1>4. n \in S
  <2> HIDE DEF S
  <2> QED
    BY <1>2, <1>3, SetInduction
<1> QED
  BY <1>1, <1>4 DEF AppliedRun

(* A page and its window. *)
LEMMA PageFacts ==
  ASSUME NEW pg \in Page
  PROVE  /\ pg = [lines |-> pg.lines, col |-> pg.col, pen |-> pg.pen]
         /\ pg.lines \in Seq(Line) /\ pg.col \in 0..Cols /\ pg.pen \in Pen
         /\ Len(pg.lines) \in Nat /\ Len(pg.lines) >= 1 /\ DOMAIN pg.lines = 1..Len(pg.lines)
         /\ Top(pg) \in Nat /\ RowOf(pg) \in 0..(Rows - 1)
         /\ Top(pg) + (RowOf(pg) + 1) = Len(pg.lines)
         /\ Win(pg) \in [1..Rows -> Line]
<1>1. /\ pg = [lines |-> pg.lines, col |-> pg.col, pen |-> pg.pen]
      /\ pg.lines \in Seq(Line) /\ pg.col \in 0..Cols /\ pg.pen \in Pen /\ Len(pg.lines) >= 1
  BY DEF Page
<1>2. PICK n : n = Len(pg.lines)
  OBVIOUS
<1>3. n \in Nat /\ n >= 1 /\ DOMAIN pg.lines = 1..n /\ \A i \in 1..n : pg.lines[i] \in Line
  BY <1>1, <1>2
<1>4. PICK t : t = Top(pg)
  OBVIOUS
<1>5. t = IF n > Rows THEN n - Rows ELSE 0
  BY <1>2, <1>4 DEF Top
<1>6. t \in Nat /\ t <= n /\ n - t - 1 \in 0..(Rows - 1)
  BY <1>3, <1>5, ConsoleConstants
<1>7. RowOf(pg) = n - t - 1
  BY <1>2, <1>4 DEF RowOf
<1>8. Win(pg) \in [1..Rows -> Line]
  <2>1. Win(pg) = [r \in 1..Rows |-> IF t + r <= n THEN pg.lines[t + r] ELSE BlankLine(DefaultPen)]
    BY <1>2, <1>4, Zenon DEF Win
  <2>2. BlankLine(DefaultPen) \in Line
    BY PenType, CellType
  <2>3. ASSUME NEW r \in 1..Rows, t + r <= n PROVE pg.lines[t + r] \in Line
    <3>1. t + r \in 1..n
      BY <1>3, <1>6, <2>3, ConsoleConstants
    <3> QED
      BY <1>3, <3>1
  <2> QED
    BY <2>1, <2>2, <2>3
<1> QED
  BY <1>1, <1>2, <1>3, <1>4, <1>6, <1>7, <1>8

(* Moving the cursor or taking another pen leaves the lines alone. *)
LEMMA MoveCol ==
  ASSUME NEW pg \in Page, NEW c \in 0..Cols
  PROVE  Same([pg EXCEPT !.col = c], pg) /\ [pg EXCEPT !.col = c].col = c
<1>1. PICK q : q = [pg EXCEPT !.col = c]
  OBVIOUS
<1>2. q = [lines |-> pg.lines, col |-> c, pen |-> pg.pen]
  BY <1>1, PageFacts
<1>3. q.lines = pg.lines /\ q.col = c /\ q.pen = pg.pen
  BY <1>2
<1>4. q \in Page
  BY <1>2, PageFacts DEF Page
<1>5. Top(q) = Top(pg)
  BY <1>3 DEF Top
<1>6. Win(q) = Win(pg) /\ RowOf(q) = RowOf(pg)
  BY <1>3, <1>5 DEF Win, RowOf
<1>7. Same(q, pg)
  BY <1>3, <1>4, <1>6 DEF Same
<1> QED
  BY <1>1, <1>3, <1>7

LEMMA MovePen ==
  ASSUME NEW pg \in Page, NEW p \in Pen, NEW q, q = [pg EXCEPT !.pen = p]
  PROVE  q \in Page /\ q.lines = pg.lines /\ q.col = pg.col /\ q.pen = p
         /\ Win(q) = Win(pg) /\ RowOf(q) = RowOf(pg)
<1>2. q = [lines |-> pg.lines, col |-> pg.col, pen |-> p]
  BY PageFacts
<1>3. q.lines = pg.lines /\ q.col = pg.col /\ q.pen = p
  BY <1>2
<1>4. q \in Page
  BY <1>2, PageFacts DEF Page
<1>5. Top(q) = Top(pg)
  BY <1>3 DEF Top
<1>6. Win(q) = Win(pg) /\ RowOf(q) = RowOf(pg)
  BY <1>3, <1>5 DEF Win, RowOf
<1> QED
  BY <1>3, <1>4, <1>6

(* One cell changes. *)
LEMMA InkFacts ==
  ASSUME NEW pg \in Page, NEW k \in 1..Cols, NEW ch \in Glyph
  PROVE  Inked(Ink(pg, k, ch), pg, k, ch) /\ Ink(pg, k, ch).col = pg.col
<1>1. PICK n, c, w, ls : n = Len(pg.lines) /\ c = Cell(ch, pg.pen) /\ w = Win(pg) /\ ls = pg.lines
  OBVIOUS
<1>2. PICK q : q = Ink(pg, k, ch)
  OBVIOUS
<1>3. /\ n \in Nat /\ n >= 1 /\ ls \in Seq(Line) /\ n \in DOMAIN ls /\ DOMAIN ls = 1..n /\ c \in CellOf
      /\ ls[n] \in Line
  BY <1>1, PageFacts, CellType
<1>4. PICK l : l = [ls EXCEPT ![n] = [ls[n] EXCEPT ![k] = c]]
  OBVIOUS
<1>5. q = [lines |-> l, col |-> pg.col, pen |-> pg.pen]
  <2>1. q = [pg EXCEPT !.lines = l]
    BY <1>1, <1>2, <1>4, Zenon DEF Ink
  <2>2. pg = [lines |-> pg.lines, col |-> pg.col, pen |-> pg.pen]
    BY PageFacts
  <2> QED
    BY <2>1, <2>2
<1>6. [ls[n] EXCEPT ![k] = c] \in Line
  BY <1>3 DEF Line
<1>7. l \in Seq(Line) /\ Len(l) = n
  BY <1>1, <1>3, <1>4, <1>6
<1>8. q.lines = l /\ q.col = pg.col /\ q.pen = pg.pen
  BY <1>5
<1>9. q \in Page
  BY <1>3, <1>5, <1>7, PageFacts DEF Page
<1>10. Top(q) = Top(pg) /\ RowOf(q) = RowOf(pg)
  BY <1>1, <1>7, <1>8 DEF Top, RowOf
<1>11. Win(q) = [w EXCEPT ![RowOf(pg) + 1][k] = c]
  <2>1. PICK t, m : t = Top(pg) /\ m = RowOf(pg)
    OBVIOUS
  <2>2. t \in Nat /\ m \in 0..(Rows - 1) /\ t + (m + 1) = n /\ w \in [1..Rows -> Line] /\ Rows \in Nat
    BY <1>1, <2>1, PageFacts, ConsoleConstants
  <2>3. w = [r \in 1..Rows |-> IF t + r <= n THEN ls[t + r] ELSE BlankLine(DefaultPen)]
    BY <1>1, <2>1, Zenon DEF Win
  <2>4. Win(q) = [r \in 1..Rows |-> IF t + r <= n THEN l[t + r] ELSE BlankLine(DefaultPen)]
    <3>1. Top(q) = t /\ q.lines = l /\ Len(q.lines) = n
      BY <1>7, <1>8, <1>10, <2>1
    <3> QED
      BY <3>1, Zenon DEF Win
  <2>5. m + 1 \in 1..Rows /\ w[m + 1] = ls[n]
    BY <2>2, <2>3
  <2>6. ASSUME NEW r \in 1..Rows
        PROVE  Win(q)[r] = IF r = m + 1 THEN [w[m + 1] EXCEPT ![k] = c] ELSE w[r]
    <3>1. CASE r = m + 1
      <4>1. t + r = n
        BY <2>2, <3>1
      <4>2. Win(q)[r] = l[n]
        BY <2>4, <4>1, <1>3
      <4>3. l[n] = [ls[n] EXCEPT ![k] = c]
        BY <1>3, <1>4
      <4> QED
        BY <2>5, <3>1, <4>2, <4>3
    <3>2. CASE r # m + 1
      <4>1. PICK i : i = t + r
        OBVIOUS
      <4>2. i # n /\ i \in Nat /\ i >= 1
        BY <2>2, <3>2, <4>1
      <4>3. i <= n => l[i] = ls[i]
        BY <1>3, <1>4, <4>2
      <4> QED
        BY <2>3, <2>4, <3>2, <4>1, <4>3
    <3> QED
      BY <3>1, <3>2
  <2>7. Win(q) = [r \in 1..Rows |-> IF r = m + 1 THEN [w[m + 1] EXCEPT ![k] = c] ELSE w[r]]
    <3>1. Win(q) = [r \in 1..Rows |-> Win(q)[r]]
      BY <2>4
    <3> QED
      BY <2>6, <3>1
  <2>8. [w EXCEPT ![m + 1][k] = c] = [r \in 1..Rows |-> IF r = m + 1 THEN [w[m + 1] EXCEPT ![k] = c] ELSE w[r]]
    BY <2>2
  <2> QED
    BY <2>1, <2>7, <2>8
<1> QED
  BY <1>1, <1>2, <1>8, <1>9, <1>10, <1>11 DEF Inked

(* A line is added. *)
LEMMA NewLineFacts ==
  ASSUME NEW pg \in Page
  PROVE  Fed(NewLine(pg), pg)
<1>1. PICK n, ls, p, w : n = Len(pg.lines) /\ ls = pg.lines /\ p = pg.pen /\ w = Win(pg)
  OBVIOUS
<1>2. PICK q : q = NewLine(pg)
  OBVIOUS
<1>3. /\ n \in Nat /\ n >= 1 /\ ls \in Seq(Line) /\ n = Len(ls) /\ DOMAIN ls = 1..n /\ p \in Pen
      /\ Rows \in Nat /\ Rows >= 1 /\ 0 \in 0..Cols
  BY <1>1, PageFacts, ConsoleConstants
<1>4. PICK b : b = BlankLine(IF n < Rows THEN DefaultPen ELSE p)
  OBVIOUS
<1>5. b \in Line /\ (n < Rows => b = BlankLine(DefaultPen)) /\ (n >= Rows => b = BlankLine(p))
  BY <1>3, <1>4, CellType, PenType
<1>6. PICK l : l = Append(ls, b)
  OBVIOUS
<1>7. /\ l \in Seq(Line) /\ Len(l) = n + 1 /\ l[n + 1] = b
      /\ \A i \in 1..n : l[i] = ls[i]
  BY <1>3, <1>5, <1>6
<1>8. q = [lines |-> l, col |-> 0, pen |-> p]
  <2>1. q = [pg EXCEPT !.col = 0, !.lines = l]
    BY <1>1, <1>2, <1>4, <1>6 DEF NewLine
  <2>2. pg = [lines |-> pg.lines, col |-> pg.col, pen |-> pg.pen]
    BY PageFacts
  <2>3. p = pg.pen
    BY <1>1
  <2> QED
    BY <2>1, <2>2, <2>3
<1>9. q.lines = l /\ q.col = 0 /\ q.pen = p
  BY <1>8
<1>10. q \in Page
  BY <1>3, <1>7, <1>8 DEF Page
<1>11. PICK t, m, tb : t = Top(pg) /\ m = RowOf(pg) /\ tb = Top(q)
  OBVIOUS
<1>12. /\ t = IF n > Rows THEN n - Rows ELSE 0
       /\ tb = IF n + 1 > Rows THEN (n + 1) - Rows ELSE 0
       /\ m = n - t - 1 /\ RowOf(q) = (n + 1) - tb - 1
  BY <1>1, <1>7, <1>9, <1>11 DEF Top, RowOf
<1>13. w = [r \in 1..Rows |-> IF t + r <= n THEN ls[t + r] ELSE BlankLine(DefaultPen)]
  BY <1>1, <1>11, Zenon DEF Win
<1>14. Win(q) = [r \in 1..Rows |-> IF tb + r <= n + 1 THEN l[tb + r] ELSE BlankLine(DefaultPen)]
  BY <1>7, <1>9, <1>11, Zenon DEF Win
<1>15. ASSUME m + 1 >= Rows PROVE Win(q) = Scrolled(w, p) /\ RowOf(q) = Rows - 1
  <2>1. n >= Rows /\ tb = t + 1 /\ RowOf(q) = Rows - 1 /\ t + Rows = n /\ t \in Nat
    BY <1>3, <1>12, <1>15
  <2>2. ASSUME NEW r \in 1..Rows
        PROVE  Win(q)[r] = IF r < Rows THEN w[r + 1] ELSE BlankLine(p)
    <3>1. PICK i : i = tb + r
      OBVIOUS
    <3>2. i = t + (r + 1) /\ i \in Nat /\ i >= 1 /\ i <= n + 1 /\ (i <= n <=> r < Rows)
      BY <1>3, <2>1, <3>1
    <3>3. Win(q)[r] = l[i]
      BY <1>14, <3>1, <3>2
    <3>4. CASE r < Rows
      <4>1. r + 1 \in 1..Rows /\ i \in 1..n
        BY <3>2, <3>4, <1>3
      <4>2. w[r + 1] = ls[i]
        BY <1>13, <3>2, <4>1
      <4> QED
        BY <1>7, <3>3, <3>4, <4>1, <4>2
    <3>5. CASE ~(r < Rows)
      <4>1. i = n + 1
        BY <3>2, <3>5, <1>3
      <4> QED
        BY <1>5, <1>7, <2>1, <3>3, <3>5, <4>1
    <3> QED
      BY <3>4, <3>5
  <2>3. Win(q) = [r \in 1..Rows |-> Win(q)[r]]
    BY <1>14
  <2> QED
    <3>1. Win(q) = [r \in 1..Rows |-> IF r < Rows THEN w[r + 1] ELSE BlankLine(p)]
      BY <2>2, <2>3
    <3> QED
      BY <2>1, <3>1 DEF Scrolled
<1>16. ASSUME m + 1 < Rows PROVE Win(q) = w /\ RowOf(q) = m + 1
  <2>1. n < Rows /\ t = 0 /\ tb = 0 /\ RowOf(q) = m + 1
    <3>1. n < Rows
      BY <1>3, <1>12, <1>16
    <3>2. t = 0 /\ tb = 0
      BY <1>3, <1>12, <3>1
    <3>3. RowOf(q) = (n + 1) - 0 - 1 /\ m = n - 0 - 1
      BY <1>12, <3>2
    <3> QED
      BY <1>3, <3>1, <3>2, <3>3
  <2>2. ASSUME NEW r \in 1..Rows PROVE Win(q)[r] = w[r]
    <3>1. r \in Nat /\ r >= 1 /\ t + r = r /\ tb + r = r
      BY <2>1
    <3>2. CASE r <= n
      BY <1>3, <1>7, <1>13, <1>14, <3>1, <3>2
    <3>3. CASE r = n + 1
      BY <1>3, <1>5, <1>7, <1>13, <1>14, <2>1, <3>1, <3>3
    <3>4. CASE r > n + 1
      BY <1>3, <1>13, <1>14, <3>1, <3>4
    <3> QED
      BY <1>3, <3>1, <3>2, <3>3, <3>4
  <2>3. Win(q) = [r \in 1..Rows |-> Win(q)[r]] /\ w = [r \in 1..Rows |-> w[r]]
    BY <1>13, <1>14
  <2>4. Win(q) = w
    BY <2>2, <2>3
  <2> QED
    BY <2>1, <2>4
<1> QED
  BY <1>1, <1>2, <1>9, <1>10, <1>11, <1>15, <1>16 DEF Fed

(* One character that shows: the screen follows the page. *)
Window(pg) ==
    /\ pg \in Page /\ pg.col < Cols
    /\ screen = Win(pg) /\ cur_row = RowOf(pg) /\ cur_col = pg.col /\ pen = pg.pen
WindowNext(pg) ==
    /\ pg \in Page /\ pg.col < Cols
    /\ screen' = Win(pg) /\ cur_row' = RowOf(pg) /\ cur_col' = pg.col /\ pen' = pg.pen

(* Down, from the window of q, which is as wide as that of pg. *)
LEMMA DownWindow ==
  ASSUME NEW pg, Window(pg), NEW q \in Page, RowOf(q) = RowOf(pg), q.pen = pg.pen,
         Down(Win(q)), pen' = pen
  PROVE  WindowNext(NewLine(q))
<1>1. PICK n : n = NewLine(q)
  OBVIOUS
<1>2. Fed(n, q)
  BY <1>1, NewLineFacts
<1>3. PICK r : r = RowOf(q)
  OBVIOUS
<1>4. r = cur_row /\ pen = q.pen
  BY <1>3 DEF Window
<1>5. cur_col' = n.col /\ n.col < Cols /\ n \in Page /\ pen' = n.pen
  BY <1>2, <1>4, ConsoleConstants DEF Down, Fed
<1>6. screen' = Win(n) /\ cur_row' = RowOf(n)
  <2>1. r \in Nat /\ Rows \in Nat
    BY <1>3, PageFacts, ConsoleConstants
  <2>2. CASE r + 1 >= Rows
    <3>1. screen' = fb_scroll(Win(q)) /\ cur_row' = Rows - 1
      BY <1>4, <2>2 DEF Down
    <3>2. fb_scroll(Win(q)) = Scrolled(Win(q), q.pen)
      BY <1>4, Zenon DEF fb_scroll, Scrolled
    <3> QED
      BY <1>2, <1>3, <2>2, <3>1, <3>2 DEF Fed
  <2>3. CASE ~(r + 1 >= Rows)
    <3>1. screen' = Win(q) /\ cur_row' = r + 1
      BY <1>4, <2>3 DEF Down
    <3>2. r + 1 < Rows
      BY <2>1, <2>3
    <3> QED
      BY <1>2, <1>3, <3>1, <3>2 DEF Fed
  <2> QED
    BY <2>2, <2>3
<1> QED
  BY <1>1, <1>5, <1>6 DEF WindowNext

LEMMA PlainWindow ==
  ASSUME NEW pg, Window(pg), NEW ch \in STRING, ch \notin {"esc", "nul"}, Plain(ch)
  PROVE  WindowNext(TypeOn(pg, ch)) /\ esc_state' = "none"
<1>1. /\ pg \in Page /\ pg.col \in 0..Cols /\ pg.col < Cols /\ pg.pen \in Pen /\ Cols \in Nat
      /\ screen = Win(pg) /\ cur_row = RowOf(pg) /\ cur_col = pg.col /\ pen = pg.pen /\ pen' = pen
      /\ esc_state' = "none"
  BY PageFacts, ConsoleConstants DEF Window, Plain
<1>2. PICK c : c = pg.col
  OBVIOUS
<1>3. c \in Nat /\ c \in 0..Cols /\ c < Cols /\ cur_col = c /\ Cols \in Nat
  BY <1>1, <1>2
<1>4. CASE ch = "cr"
  <2>1. TypeOn(pg, ch) = [pg EXCEPT !.col = 0]
    BY <1>4 DEF TypeOn
  <2>2. 0 \in 0..Cols /\ 0 < Cols
    BY ConsoleConstants
  <2>3. cur_col' = 0 /\ cur_row' = cur_row /\ screen' = screen
    BY <1>4 DEF Plain, Control
  <2>4. PICK q : q = [pg EXCEPT !.col = 0]
    OBVIOUS
  <2>5. Same(q, pg) /\ q.col = 0
    BY <1>1, <2>2, <2>4, MoveCol
  <2> QED
    BY <1>1, <2>1, <2>2, <2>3, <2>4, <2>5 DEF WindowNext, Same
<1>5. CASE ch = "lf"
  <2>1. TypeOn(pg, ch) = NewLine(pg)
    BY <1>5 DEF TypeOn
  <2>2. Down(Win(pg))
    BY <1>1, <1>5 DEF Plain, Control
  <2> QED
    BY <1>1, <2>1, <2>2, DownWindow
<1>6. CASE ch = "bs" /\ c = 0
  <2>1. TypeOn(pg, ch) = pg
    BY <1>2, <1>6 DEF TypeOn
  <2>2. cur_col' = cur_col /\ cur_row' = cur_row /\ screen' = screen
    <3>1. ~(cur_col > 0)
      BY <1>3, <1>6
    <3> QED
      BY <1>6, <3>1 DEF Plain, Control
  <2> QED
    BY <1>1, <2>1, <2>2 DEF WindowNext
<1>7. CASE ch = "bs" /\ c # 0
  <2>1. PICK i : i = Ink(pg, c, " ")
    OBVIOUS
  <2>2. c \in 1..Cols /\ c - 1 \in 0..Cols /\ c - 1 < Cols /\ cur_col > 0 /\ cur_col # 0
    BY <1>3, <1>7
  <2>3. Inked(i, pg, c, " ") /\ i.col = c
    BY <1>1, <1>2, <2>1, <2>2, InkFacts DEF Glyph
  <2>4. PICK q : q = [i EXCEPT !.col = c - 1]
    OBVIOUS
  <2>5. Same(q, i) /\ q.col = c - 1
    BY <2>2, <2>3, <2>4, MoveCol DEF Inked
  <2>6. TypeOn(pg, ch) = q
    BY <1>2, <1>7, <2>1, <2>3, <2>4 DEF TypeOn
  <2>7. cur_col' = cur_col - 1 /\ cur_row' = cur_row /\ screen' = fb_draw_glyph(cur_col - 1, cur_row, " ")
    BY <1>7, <2>2 DEF Plain, Control
  <2>8. (cur_col - 1) + 1 = c
    BY <1>3
  <2>9. screen' = Win(i)
    BY <1>1, <2>3, <2>7, <2>8 DEF fb_draw_glyph, Inked
  <2> QED
    BY <1>1, <1>3, <2>2, <2>3, <2>5, <2>6, <2>7, <2>9 DEF WindowNext, Same, Inked
<1>8. CASE ch \notin Control
  <2>1. PICK i : i = Ink(pg, c + 1, ch)
    OBVIOUS
  <2>2. c + 1 \in 1..Cols /\ c + 1 \in 0..Cols /\ ch \notin {"lf", "cr", "bs"}
    BY <1>3, <1>8 DEF Control
  <2>3. Inked(i, pg, c + 1, ch) /\ i.col = c
    BY <1>1, <1>2, <2>1, <2>2, InkFacts DEF Glyph
  <2>4. PICK q : q = [i EXCEPT !.col = c + 1]
    OBVIOUS
  <2>5. Same(q, i) /\ q.col = c + 1
    BY <2>2, <2>3, <2>4, MoveCol DEF Inked
  <2>6. TypeOn(pg, ch) = IF q.col = Cols THEN NewLine(q) ELSE q
    BY <1>2, <2>1, <2>2, <2>3, <2>4 DEF TypeOn
  <2>7. fb_draw_glyph(cur_col, cur_row, ch) = Win(i)
    BY <1>1, <1>3, <2>3 DEF fb_draw_glyph, Inked
  <2>8. q \in Page /\ Win(q) = Win(i) /\ RowOf(q) = RowOf(pg) /\ q.pen = pg.pen
    BY <2>3, <2>5 DEF Same, Inked
  <2>9. CASE c + 1 = Cols
    <3>1. cur_col + 1 >= Cols /\ ~(cur_col + 1 < Cols)
      BY <1>3, <2>9
    <3>2. Down(Win(q))
      BY <1>8, <2>7, <2>8, <3>1 DEF Plain, Control
    <3>3. TypeOn(pg, ch) = NewLine(q)
      BY <2>5, <2>6, <2>9
    <3> QED
      BY <1>1, <2>8, <3>2, <3>3, DownWindow
  <2>10. CASE c + 1 # Cols
    <3>1. cur_col + 1 < Cols /\ ~(cur_col + 1 >= Cols) /\ c + 1 < Cols
      BY <1>3, <2>10
    <3>2. screen' = Win(q) /\ cur_col' = c + 1 /\ cur_row' = cur_row
      BY <1>3, <1>8, <2>7, <2>8, <3>1 DEF Plain, Control
    <3>3. TypeOn(pg, ch) = q
      BY <2>5, <2>6, <2>10
    <3> QED
      BY <1>1, <2>5, <2>8, <3>1, <3>2, <3>3 DEF WindowNext
  <2> QED
    BY <2>9, <2>10
<1> QED
  <2>1. ch \in {"cr", "lf", "bs"} \/ ch \notin Control
    BY DEF Control
  <2> QED
    BY <1>1, <1>4, <1>5, <1>6, <1>7, <1>8, <2>1

-----------------------------------------------------------------------------
(* The escape parser.  t is the text being written and k the characters of *)
(* it that have been read; a text whose opening has been read goes on as   *)
(* the text of what it shows.                                              *)

Plainly(q) == [chars |-> q, sgr |-> <<>>, ink |-> q]
Shown(pg, t) == Typed([pg EXCEPT !.pen = Applied(pg.pen, Honoured(t.sgr))], t.ink)

Left(q, k, s) ==
    /\ s \in Seq(STRING) /\ k \in Nat /\ k <= Len(q) /\ Len(s) = Len(q) - k
    /\ \A i \in 1..Len(s) : s[i] = q[k + i]

(* esc_params holds the numbers ns, the last in place of those in excess. *)
Count(ns) == IF Len(ns) <= NParams THEN Len(ns) ELSE NParams
Collected(ns, ps, m) ==
    /\ ns \in Seq(Nat) /\ Len(ns) >= 1 /\ m \in Nat /\ m + 1 = Count(ns)
    /\ ps \in [0..(NParams - 1) -> 0..(ParamWidth - 1)]
    /\ \A i \in 0..m : ps[i] = IF i = m THEN ns[Len(ns)] ELSE ns[i + 1]

SoFar(t, k) == Spelled(<<0>>, SubSeq(Opening(t), 3, k))
ReadTo(t, k) ==
    /\ k > 0 => k < Len(Opening(t))
    /\ k = 0 => esc_state = "none"
    /\ k = 1 => esc_state = "esc"
    /\ k >= 2 => esc_state = "bracket" /\ Collected(SoFar(t, k), esc_params, esc_nparam)

TextInv(pg, t, k) ==
    IsText(t) /\ Left(t.chars, k, todo) /\ Window(pg) /\ page = Shown(pg, t) /\ ReadTo(t, k)

OpenInk(t, q, n) ==
    /\ t.chars \in Seq(STRING) /\ t.ink \in Seq(STRING) /\ q \in Seq(STRING) /\ n \in Nat
    /\ Len(t.ink) \in Nat /\ Len(t.chars) = n + Len(t.ink)
    /\ \A i \in 1..n : t.chars[i] = q[i]
    /\ \A i \in 1..Len(t.ink) : t.chars[n + i] = t.ink[i]
    /\ \A i \in 1..Len(t.ink) : t.ink[i] \notin {"esc", "nul"}
    /\ n < 3 => t.sgr = <<>>

LEMMA TextFacts ==
  ASSUME NEW t, IsText(t), NEW q, q = Opening(t), NEW n, n = Len(q)
  PROVE  OpenInk(t, q, n)
<1>1. PICK c, s : c = t.chars /\ s = t.ink
  OBVIOUS
<1>2. /\ c \in Seq(STRING) /\ s \in Seq(STRING) /\ Len(s) <= Len(c) /\ c = q \o s
      /\ Range(s) \cap {"esc", "nul"} = {} /\ q = SubSeq(c, 1, Len(c) - Len(s))
      /\ t.sgr = IF n >= 3 /\ q[n] = "m" THEN Numbers(SubSeq(q, 3, n - 1)) ELSE <<>>
  BY <1>1 DEF IsText, Opening
<1>3. PICK a, b : a = Len(c) /\ b = Len(c) - Len(s)
  OBVIOUS
<1>4. a \in Nat /\ 1 \in 1..(a + 1) /\ b \in (1 - 1)..a
  BY <1>2, <1>3
<1>5. q \in Seq(STRING)
  <2>1. SubSeq(c, 1, b) \in Seq(STRING)
    BY <1>2, <1>3, <1>4, SubSeqProperties
  <2> QED
    BY <1>2, <1>3, <2>1
<1>6. n \in Nat /\ Len(s) \in Nat
  BY <1>2, <1>5
<1>7. /\ Len(c) = n + Len(s) /\ \A i \in 1..n : c[i] = q[i]
      /\ \A i \in 1..Len(s) : c[n + i] = s[i]
  BY <1>2, <1>5, <1>6
<1>8. \A i \in 1..Len(s) : s[i] \notin {"esc", "nul"}
  <2>1. \A i \in 1..Len(s) : s[i] \in Range(s)
    BY <1>2 DEF Range
  <2> QED
    BY <1>2, <2>1
<1>9. n < 3 => t.sgr = <<>>
  BY <1>2, <1>6
<1> QED
  BY <1>1, <1>2, <1>5, <1>6, <1>7, <1>8, <1>9 DEF OpenInk

(* What a text shows is a text. *)
LEMMA SayText ==
  ASSUME NEW s \in Seq(STRING), \A i \in 1..Len(s) : s[i] \notin {"esc", "nul"}
  PROVE  IsText(Plainly(s)) /\ Len(Opening(Plainly(s))) = 0
<1>1. PICK t : t = Plainly(s)
  OBVIOUS
<1>2. t.chars = s /\ t.ink = s /\ t.sgr = <<>>
  BY <1>1 DEF Plainly
<1>3. Opening(t) = <<>>
  <2>1. Len(s) - Len(s) = 0
    OBVIOUS
  <2>2. SubSeq(s, 1, 0) = <<>>
    OBVIOUS
  <2> QED
    BY <1>2, <2>1, <2>2 DEF Opening
<1>4. Range(s) \cap {"esc", "nul"} = {}
  BY DEF Range
<1>5. s = <<>> \o s /\ Len(s) <= Len(s) /\ Len(<<>>) = 0 /\ ~(0 >= 3)
  OBVIOUS
<1>6. IsText(t)
  <2>1. /\ t.chars \in Seq(STRING) /\ t.ink \in Seq(STRING) /\ Len(t.ink) <= Len(t.chars)
        /\ t.chars = Opening(t) \o t.ink /\ Range(t.ink) \cap {"esc", "nul"} = {}
        /\ Len(Opening(t)) = 0 /\ ~(Len(Opening(t)) >= 3)
    BY <1>2, <1>3, <1>4, <1>5, Zenon
  <2> QED
    BY <1>2, <2>1, Zenon DEF IsText
<1> QED
  BY <1>1, <1>3, <1>5, <1>6

LEMMA ShownSay ==
  ASSUME NEW pg \in Page, NEW s
  PROVE  Shown(pg, Plainly(s)) = Typed(pg, s)
<1>1. Honoured(<<>>) = <<>>
  BY ConsoleConstants DEF Honoured
<1>2. Applied(pg.pen, <<>>) = pg.pen
  BY AppliedFoldParts
<1>3. [pg EXCEPT !.pen = pg.pen] = pg
  BY PageFacts
<1>4. Plainly(s).sgr = <<>> /\ Plainly(s).ink = s
  BY DEF Plainly
<1> QED
  BY <1>1, <1>2, <1>3, <1>4, Zenon DEF Shown

(* The next character of a text. *)
LEMMA NextChar ==
  ASSUME NEW c \in Seq(STRING), NEW k, Left(c, k, todo), todo # <<>>, todo' = Tail(todo)
  PROVE  /\ k \in Nat /\ k + 1 \in 1..Len(c) /\ Head(todo) = c[k + 1] /\ Head(todo) \in STRING
         /\ Left(c, k + 1, todo')
<1>1. PICK s : s = todo
  OBVIOUS
<1>2. /\ s \in Seq(STRING) /\ k \in Nat /\ Len(c) \in Nat /\ k <= Len(c) /\ Len(s) = Len(c) - k
      /\ (\A i \in 1..Len(s) : s[i] = c[k + i]) /\ s # <<>>
  <2>1. Len(c) \in Nat
    OBVIOUS
  <2> QED
    BY <1>1, <2>1, Zenon DEF Left
<1>3. Len(s) >= 1
  BY <1>2
<1>4. Head(s) = s[1] /\ Head(s) \in STRING /\ Tail(s) \in Seq(STRING) /\ Len(Tail(s)) = Len(s) - 1
      /\ \A i \in 1..(Len(s) - 1) : Tail(s)[i] = s[i + 1]
  BY <1>2, <1>3
<1>5. s[1] = c[k + 1]
  BY <1>2, <1>3
<1>6. Left(c, k + 1, Tail(s))
  <2>1. k + 1 \in Nat /\ k + 1 <= Len(c) /\ Len(Tail(s)) = Len(c) - (k + 1)
    BY <1>2, <1>3, <1>4
  <2>2. ASSUME NEW i \in 1..Len(Tail(s)) PROVE Tail(s)[i] = c[(k + 1) + i]
    <3>1. i \in 1..(Len(s) - 1) /\ i + 1 \in 1..Len(s) /\ k + (i + 1) = (k + 1) + i
      BY <1>2, <1>4, <2>2
    <3>2. s[i + 1] = c[k + (i + 1)]
      BY <1>2, <3>1
    <3> QED
      BY <1>4, <3>1, <3>2
  <2> QED
    BY <1>4, <2>1, <2>2 DEF Left
<1> QED
  BY <1>1, <1>2, <1>3, <1>4, <1>5, <1>6

(* The numbers as they are spelled. *)
LEMMA SpellNext ==
  ASSUME NEW t, IsText(t), NEW k \in Nat, k >= 2, k + 1 <= Len(Opening(t))
  PROVE  SoFar(t, k + 1) = Spell(SoFar(t, k), Opening(t)[k + 1])
<1>1. PICK q, n, x : q = Opening(t) /\ n = Len(q) /\ x = q[k + 1]
  OBVIOUS
<1>2. q \in Seq(STRING) /\ n \in Nat
  BY <1>1, TextFacts DEF OpenInk
<1>3. PICK a, b : a = SubSeq(q, 3, k) /\ b = SubSeq(q, 3, k + 1)
  OBVIOUS
<1>4. a \in Seq(STRING) /\ <<x>> \in Seq(STRING) /\ b = a \o <<x>>
  <2>1. k + 1 \in 1..Len(q) /\ k + 1 \in 3..Len(q) /\ 3 \in 1..Len(q) /\ (k + 1) - 1 = k
    BY <1>1, <1>2
  <2>2. SubSeq(q, 3, k + 1) = SubSeq(q, 3, (k + 1) - 1) \o <<q[k + 1]>>
    BY <1>2, <2>1, SubSeqRecursiveSecond
  <2>3. a \in Seq(STRING)
    <3>1. 3 \in Int /\ k \in Int /\ \A i \in 3..k : q[i] \in STRING
      BY <1>1, <1>2, <2>1
    <3> QED
      BY <1>3, <3>1, SubSeqProperties
  <2>4. x \in STRING
    BY <1>1, <1>2, <2>1
  <2> QED
    BY <1>1, <1>3, <2>1, <2>2, <2>3, <2>4
<1>5. Spelled(<<0>>, b) = Spelled(Spelled(<<0>>, a), <<x>>)
  <2>1. PICK u, z : u = <<x>> /\ z = <<0>>
    OBVIOUS
  <2>2. a \in Seq(STRING) /\ u \in Seq(STRING)
    BY <1>4, <2>1
  <2>3. Spelled(z, a \o u) = Spelled(Spelled(z, a), u)
    BY <2>2, SpelledFoldConcat
  <2> QED
    BY <1>4, <2>1, <2>3, Zenon
<1>6. Spelled(Spelled(<<0>>, a), <<x>>) = Spell(Spelled(<<0>>, a), x)
  BY SpelledFoldParts
<1> QED
  BY <1>1, <1>3, <1>5, <1>6 DEF SoFar

LEMMA CountFacts ==
  ASSUME NEW ns \in Seq(Nat), Len(ns) >= 1
  PROVE  /\ Count(ns) \in 1..NParams /\ Count(ns) <= Len(ns) /\ Len(ns) \in Nat
         /\ Len(ns) <= NParams => Count(ns) = Len(ns)
         /\ Len(ns) > NParams => Count(ns) = NParams
<1>1. Len(ns) \in Nat /\ NParams \in Nat /\ NParams >= 1
  BY ConsoleConstants
<1> QED
  BY <1>1 DEF Count

LEMMA DigitValueType ==
  ASSUME NEW ch, IsDigit(ch)
  PROVE  DigitValue(ch) \in 0..9
<1>1. DOMAIN DigitChars = 1..10
  BY DEF DigitChars
<1>2. PICK i \in DOMAIN DigitChars : DigitChars[i] = ch
  BY DEF IsDigit, Range
<1>3. PICK j : j = CHOOSE x \in DOMAIN DigitChars : DigitChars[x] = ch
  OBVIOUS
<1>4. j \in DOMAIN DigitChars
  BY <1>2, <1>3
<1>5. j \in 1..10 /\ DigitValue(ch) = j - 1
  BY <1>1, <1>3, <1>4, Zenon DEF DigitValue
<1> QED
  BY <1>5

IsSemi(ch) == ch = ";"
InRange(ns) == \A i \in DOMAIN ns : ns[i] < ParamWidth

LEMMA SmallMod ==
  ASSUME NEW a \in Nat, NEW b \in Nat, a < b
  PROVE  a % b = a
BY SMT

(* A digit goes to the last number, a semicolon starts another, m takes    *)
(* the numbers that are honoured.                                          *)
LEMMA HoldsDigit ==
  ASSUME NEW ns, NEW ps, NEW m, Collected(ns, ps, m), NEW ch, IsDigit(ch), ~IsSemi(ch),
         InRange(Spell(ns, ch))
  PROVE  Collected(Spell(ns, ch), [ps EXCEPT ![m] = (ps[m] * 10 + DigitValue(ch)) % ParamWidth], m)
<1>1. PICK n, d, x, v : n = Len(ns) /\ d = DigitValue(ch) /\ x = ns[n] /\ v = x * 10 + d
  OBVIOUS
<1>2. /\ ns \in Seq(Nat) /\ n \in Nat /\ n >= 1 /\ m + 1 = Count(ns) /\ Count(ns) \in 1..NParams
      /\ ps \in [0..(NParams - 1) -> 0..(ParamWidth - 1)]
      /\ \A i \in 0..m : ps[i] = IF i = m THEN ns[n] ELSE ns[i + 1]
  BY <1>1, CountFacts DEF Collected
<1>3. x \in Nat /\ d \in Nat /\ v \in Nat
  <2>1. n \in 1..n /\ n = Len(ns)
    BY <1>1, <1>2
  <2>2. ns[n] \in Nat
    BY <1>2, <2>1
  <2>3. d \in 0..9
    BY <1>1, DigitValueType
  <2>4. x \in Nat /\ d \in Nat
    BY <1>1, <2>2, <2>3
  <2> QED
    BY <1>1, <2>4
<1>4. PICK r : r = [ns EXCEPT ![n] = v]
  OBVIOUS
<1>5. r = Spell(ns, ch)
  BY <1>1, <1>4, Zenon DEF Spell, IsSemi
<1>6. /\ r \in Seq(Nat) /\ Len(r) = n /\ r[n] = v /\ DOMAIN r = 1..n
      /\ \A i \in 1..n : i # n => r[i] = ns[i]
  <2>1. n = Len(ns) /\ DOMAIN ns = 1..n /\ n \in 1..n
    BY <1>1, <1>2
  <2> QED
    BY <1>2, <1>3, <1>4, <2>1
<1>7. v < ParamWidth /\ v % ParamWidth = v
  <2>1. n \in DOMAIN r
    BY <1>2, <1>6
  <2>2. v < ParamWidth
    BY <1>5, <1>6, <2>1 DEF InRange
  <2> QED
    BY <1>3, <2>2, ConsoleConstants, SmallMod
<1>8. m \in Nat /\ m \in 0..(NParams - 1) /\ m \in 0..m /\ m + 1 <= n
  <2>1. m + 1 \in 1..NParams /\ Count(ns) <= n /\ m \in Nat
    BY <1>1, <1>2, CountFacts DEF Collected
  <2>2. Count(ns) = m + 1 /\ n \in Nat /\ NParams \in Nat
    BY <1>2, ConsoleConstants
  <2> QED
    BY <2>1, <2>2
<1>9. ps[m] = x
  BY <1>1, <1>2, <1>8
<1>10. PICK qs : qs = [ps EXCEPT ![m] = v]
  OBVIOUS
<1>11. qs \in [0..(NParams - 1) -> 0..(ParamWidth - 1)] /\ qs[m] = v
       /\ \A i \in 0..m : i # m => qs[i] = ps[i]
  <2>1. v \in 0..(ParamWidth - 1)
    BY <1>3, <1>7, ConsoleConstants
  <2>2. \A i \in 0..m : i \in 0..(NParams - 1)
    BY <1>8, ConsoleConstants
  <2> QED
    BY <1>2, <1>8, <1>10, <2>1, <2>2
<1>12. \A i \in 0..m : qs[i] = IF i = m THEN r[n] ELSE r[i + 1]
  <2> SUFFICES ASSUME NEW i \in 0..m PROVE qs[i] = IF i = m THEN r[n] ELSE r[i + 1]
    OBVIOUS
  <2>1. CASE i = m
    BY <1>6, <1>11, <2>1
  <2>2. CASE i # m
    <3>1. i + 1 \in 1..n /\ i + 1 # n
      BY <1>2, <1>8, <2>2
    <3>2. r[i + 1] = ns[i + 1]
      BY <1>6, <3>1
    <3>3. qs[i] = ps[i] /\ ps[i] = ns[i + 1]
      BY <1>2, <1>11, <2>2
    <3> QED
      BY <2>2, <3>2, <3>3
  <2> QED
    BY <2>1, <2>2
<1>13. Count(r) = Count(ns)
  BY <1>1, <1>6 DEF Count
<1>14. Collected(r, qs, m)
  BY <1>2, <1>6, <1>11, <1>12, <1>13 DEF Collected
<1>15. qs = [ps EXCEPT ![m] = (ps[m] * 10 + DigitValue(ch)) % ParamWidth]
  BY <1>1, <1>7, <1>9, <1>10
<1> QED
  BY <1>5, <1>14, <1>15

LEMMA HoldsSemi ==
  ASSUME NEW ns, NEW ps, NEW m, Collected(ns, ps, m), NEW ch, IsSemi(ch),
         NEW m2, m2 = IF m < NParams - 1 THEN m + 1 ELSE m
  PROVE  Collected(Spell(ns, ch), [ps EXCEPT ![m2] = 0], m2)
<1>1. PICK n, r, qs : n = Len(ns) /\ r = Append(ns, 0) /\ qs = [ps EXCEPT ![m2] = 0]
  OBVIOUS
<1>2. /\ ns \in Seq(Nat) /\ n \in Nat /\ n >= 1 /\ m \in Nat /\ m + 1 = Count(ns)
      /\ Count(ns) \in 1..NParams /\ Count(ns) <= n /\ NParams \in Nat
      /\ (n <= NParams => Count(ns) = n) /\ (n > NParams => Count(ns) = NParams)
      /\ ps \in [0..(NParams - 1) -> 0..(ParamWidth - 1)]
      /\ \A i \in 0..m : ps[i] = IF i = m THEN ns[n] ELSE ns[i + 1]
  BY <1>1, CountFacts, ConsoleConstants DEF Collected
<1>3. r = Spell(ns, ch)
  BY <1>1, Zenon DEF Spell, IsSemi
<1>4. /\ r \in Seq(Nat) /\ Len(r) = n + 1 /\ r[n + 1] = 0
      /\ \A i \in 1..n : r[i] = ns[i]
  BY <1>1, <1>2
<1>5. m2 \in 0..(NParams - 1) /\ m2 \in Nat /\ m2 + 1 <= n + 1 /\ m2 <= m + 1
  BY <1>2
<1>6. m2 + 1 = Count(r)
  BY <1>2, <1>4 DEF Count
<1>7. 0 \in 0..(ParamWidth - 1)
  BY ConsoleConstants
<1>8. qs \in [0..(NParams - 1) -> 0..(ParamWidth - 1)] /\ qs[m2] = 0
      /\ \A i \in 0..(NParams - 1) : i # m2 => qs[i] = ps[i]
  BY <1>1, <1>2, <1>5, <1>7
<1>9. ASSUME NEW i \in 0..m2 PROVE qs[i] = IF i = m2 THEN r[n + 1] ELSE r[i + 1]
  <2>1. CASE i = m2
    BY <1>4, <1>8, <2>1
  <2>2. CASE i # m2
    <3>1. i \in 0..(NParams - 1) /\ i \in 0..m /\ i + 1 \in 1..n /\ i < m2
      BY <1>2, <1>5, <2>2
    <3>2. qs[i] = ps[i]
      BY <1>8, <2>2, <3>1
    <3>3. r[i + 1] = ns[i + 1]
      BY <1>4, <3>1
    <3>4. ps[i] = ns[i + 1]
      <4>1. CASE i = m
        <5>1. m2 = m + 1
          BY <1>2, <3>1, <4>1
        <5>2. m + 1 = n
          BY <1>2, <5>1
        <5> QED
          BY <1>2, <3>1, <4>1, <5>2
      <4>2. CASE i # m
        BY <1>2, <3>1, <4>2
      <4> QED
        BY <4>1, <4>2
    <3> QED
      BY <2>2, <3>2, <3>3, <3>4
  <2> QED
    BY <2>1, <2>2
<1>10. Len(r) >= 1
  BY <1>2, <1>4
<1>11. Collected(r, qs, m2)
  <2>1. \A i \in 0..m2 : qs[i] = IF i = m2 THEN r[Len(r)] ELSE r[i + 1]
    BY <1>4, <1>9
  <2> QED
    BY <1>4, <1>5, <1>6, <1>8, <1>10, <2>1 DEF Collected
<1> QED
  BY <1>1, <1>3, <1>11

LEMMA HoldsFirst ==
  ASSUME NEW ps \in [0..(NParams - 1) -> 0..(ParamWidth - 1)]
  PROVE  Collected(<<0>>, [ps EXCEPT ![0] = 0], 0)
<1>1. PICK qs, z : qs = [ps EXCEPT ![0] = 0] /\ z = <<0>>
  OBVIOUS
<1>2. 0 \in 0..(NParams - 1) /\ 0 \in 0..(ParamWidth - 1)
  BY ConsoleConstants
<1>3. qs \in [0..(NParams - 1) -> 0..(ParamWidth - 1)] /\ qs[0] = 0
  BY <1>1, <1>2
<1>4. z \in Seq(Nat) /\ Len(z) = 1 /\ z[1] = 0
  BY <1>1
<1>5. Count(z) = 1
  BY <1>4, ConsoleConstants DEF Count
<1>6. Collected(z, qs, 0)
  <2>1. \A i \in 0..0 : qs[i] = IF i = 0 THEN z[Len(z)] ELSE z[i + 1]
    BY <1>3, <1>4
  <2>2. Len(z) >= 1 /\ 0 \in Nat /\ 0 + 1 = Count(z)
    BY <1>4, <1>5
  <2> QED
    BY <1>3, <1>4, <2>1, <2>2 DEF Collected
<1> QED
  BY <1>1, <1>6

LEMMA HoldsHonoured ==
  ASSUME NEW ns, NEW ps, NEW m, Collected(ns, ps, m)
  PROVE  [k \in 1..(m + 1) |-> ps[k - 1]] = Honoured(ns)
<1>1. PICK n, h : n = Len(ns) /\ h = Honoured(ns)
  OBVIOUS
<1>2. /\ ns \in Seq(Nat) /\ n \in Nat /\ n >= 1 /\ m \in Nat /\ m + 1 = Count(ns)
      /\ Count(ns) \in 1..NParams /\ Count(ns) <= n /\ NParams \in Nat
      /\ (n <= NParams => Count(ns) = n) /\ (n > NParams => Count(ns) = NParams)
      /\ \A i \in 0..m : ps[i] = IF i = m THEN ns[n] ELSE ns[i + 1]
  BY <1>1, CountFacts, ConsoleConstants DEF Collected
<1>3. /\ h = [k \in 1..(m + 1) |-> h[k]]
      /\ \A k \in 1..(m + 1) : h[k] = IF k = m + 1 THEN ns[n] ELSE ns[k]
  <2>1. CASE n <= NParams
    <3>1. h = ns /\ m + 1 = n
      BY <1>1, <1>2, <2>1 DEF Honoured
    <3>2. ns = [k \in 1..n |-> ns[k]]
      BY <1>1, <1>2
    <3> QED
      BY <1>2, <3>1, <3>2
  <2>2. CASE n > NParams
    <3>1. PICK s, x, b : s = SubSeq(ns, 1, NParams - 1) /\ x = ns[n] /\ b = NParams - 1
      OBVIOUS
    <3>2. b \in Nat /\ m = b /\ b + 1 = NParams /\ b < n
      BY <1>2, <2>2, <3>1, ConsoleConstants
    <3>3. s \in Seq(Nat) /\ Len(s) = b /\ \A i \in 1..b : s[i] = ns[i]
      <4>1. 1 \in Int /\ b \in Int /\ \A i \in 1..b : ns[i] \in Nat
        BY <1>1, <1>2, <3>2
      <4>2. /\ SubSeq(ns, 1, b) \in Seq(Nat) /\ Len(SubSeq(ns, 1, b)) = IF 1 <= b THEN b - 1 + 1 ELSE 0
            /\ \A i \in 1..(b - 1 + 1) : SubSeq(ns, 1, b)[i] = ns[1 + i - 1]
        BY <4>1, SubSeqProperties
      <4>3. s = SubSeq(ns, 1, b) /\ b - 1 + 1 = b
        BY <3>1, <3>2
      <4> QED
        BY <3>2, <4>2, <4>3
    <3>4. h = s \o <<x>>
      <4>1. Last(ns) = x /\ ~(n <= NParams)
        BY <1>1, <1>2, <2>2, <3>1 DEF Last
      <4> QED
        BY <1>1, <3>1, <4>1 DEF Honoured
    <3>5. x \in Nat
      BY <1>1, <1>2, <3>1
    <3>6. h \in Seq(Nat) /\ Len(h) = b + 1 /\ h[b + 1] = x /\ \A i \in 1..b : h[i] = s[i]
      BY <3>2, <3>3, <3>4, <3>5
    <3>7. h = [k \in 1..(b + 1) |-> h[k]]
      BY <3>6
    <3>8. ASSUME NEW k \in 1..(m + 1) PROVE h[k] = IF k = m + 1 THEN ns[n] ELSE ns[k]
      <4>1. k = b + 1 \/ k \in 1..b
        BY <3>2
      <4> QED
        BY <3>1, <3>2, <3>3, <3>6, <4>1
    <3> QED
      BY <3>2, <3>7, <3>8
  <2> QED
    BY <1>2, <2>1, <2>2
<1>4. ASSUME NEW k \in 1..(m + 1) PROVE ps[k - 1] = h[k]
  <2>1. k - 1 \in 0..m /\ (k - 1) + 1 = k /\ (k - 1 = m <=> k = m + 1)
    BY <1>2
  <2>2. ps[k - 1] = IF k - 1 = m THEN ns[n] ELSE ns[(k - 1) + 1]
    BY <1>2, <2>1
  <2> QED
    BY <1>3, <2>1, <2>2
<1> QED
  BY <1>1, <1>3, <1>4

(* One character of a text. *)
EscType ==
    /\ esc_params \in [0..(NParams - 1) -> 0..(ParamWidth - 1)] /\ esc_nparam \in 0..NParams
    /\ nwritten \in 0..MaxTexts
TextNext(pg, t, k) == TextInv(pg, t, k)'
Goes == EscType' /\ \E pg, t, k : TextNext(pg, t, k)
Still == screen' = screen /\ cur_row' = cur_row /\ cur_col' = cur_col /\ page' = page
Keeps == esc_params' = esc_params /\ esc_nparam' = esc_nparam

LEMMA ShownPlain ==
  ASSUME NEW pg \in Page, NEW t, t.sgr = <<>>
  PROVE  Shown(pg, t) = Typed(pg, t.ink)
<1>1. Honoured(<<>>) = <<>>
  BY ConsoleConstants DEF Honoured
<1>2. Applied(pg.pen, <<>>) = pg.pen
  BY AppliedFoldParts
<1>3. [pg EXCEPT !.pen = pg.pen] = pg
  BY PageFacts
<1> QED
  BY <1>1, <1>2, <1>3, Zenon DEF Shown

(* The opening has been read: what is left is the text of what is shown. *)
LEMMA OpeningDone ==
  ASSUME NEW t, IsText(t), Left(t.chars, Len(Opening(t)), todo'), NEW pg, Window(pg),
         page = Shown(pg, t), Still, pen' = Applied(pen, Honoured(t.sgr)), pen' \in Pen,
         esc_state' = "none"
  PROVE  \E pg2, tb, k2 : TextNext(pg2, tb, k2)
<1>1. PICK q, n, s : q = Opening(t) /\ n = Len(q) /\ s = t.ink
  OBVIOUS
<1>2. /\ t.chars \in Seq(STRING) /\ s \in Seq(STRING) /\ n \in Nat /\ Len(s) \in Nat
      /\ Len(t.chars) = n + Len(s) /\ (\A i \in 1..Len(s) : t.chars[n + i] = s[i])
      /\ \A i \in 1..Len(s) : s[i] \notin {"esc", "nul"}
  <2>1. /\ t.chars \in Seq(STRING) /\ t.ink \in Seq(STRING) /\ n \in Nat /\ Len(t.ink) \in Nat
        /\ Len(t.chars) = n + Len(t.ink) /\ (\A i \in 1..Len(t.ink) : t.chars[n + i] = t.ink[i])
        /\ \A i \in 1..Len(t.ink) : t.ink[i] \notin {"esc", "nul"}
    <3>1. OpenInk(t, q, n)
      BY <1>1, TextFacts
    <3> QED
      BY <3>1 DEF OpenInk
  <2> QED
    BY <1>1, <2>1
<1>3. PICK p2 : p2 = [pg EXCEPT !.pen = pen']
  OBVIOUS
<1>4. pg \in Page /\ pg.col < Cols /\ pen = pg.pen
  BY DEF Window
<1>5. p2 \in Page /\ p2.col = pg.col /\ p2.pen = pen' /\ Win(p2) = Win(pg) /\ RowOf(p2) = RowOf(pg)
  BY <1>3, <1>4, MovePen
<1>6. WindowNext(p2)
  BY <1>4, <1>5 DEF Window, WindowNext, Still
<1>7. PICK u : u = Plainly(s)
  OBVIOUS
<1>8. IsText(u) /\ Len(Opening(u)) = 0 /\ u.chars = s /\ u.ink = s /\ u.sgr = <<>>
  BY <1>2, <1>7, SayText DEF Plainly
<1>9. page' = Shown(p2, u)
  <2>1. Shown(p2, u) = Typed(p2, s)
    BY <1>5, <1>7, ShownSay
  <2>2. Shown(pg, t) = Typed(p2, s)
    BY <1>1, <1>3, <1>4, Zenon DEF Shown
  <2> QED
    BY <2>1, <2>2 DEF Still
<1>10. Left(s, 0, todo')
  <2>1. PICK l : l = todo'
    OBVIOUS
  <2>2. /\ l \in Seq(STRING) /\ Len(l) = Len(t.chars) - n
        /\ \A i \in 1..Len(l) : l[i] = t.chars[n + i]
    BY <1>1, <2>1 DEF Left
  <2>3. Len(l) = Len(s)
    BY <1>2, <2>2
  <2>4. Left(s, 0, l)
    <3>1. \A i \in 1..Len(l) : l[i] = s[0 + i]
      BY <1>2, <2>2, <2>3
    <3>2. 0 \in Nat /\ 0 <= Len(s) /\ Len(l) = Len(s) - 0
      BY <1>2, <2>3
    <3> QED
      BY <2>2, <3>1, <3>2 DEF Left
  <2> QED
    BY <2>1, <2>4
<1>11. TextNext(p2, u, 0)
  <2>1. ~(0 > 0) /\ 0 # 1 /\ ~(0 >= 2)
    OBVIOUS
  <2> QED
    BY <1>6, <1>8, <1>9, <1>10, <2>1, Zenon DEF TextNext, TextInv, ReadTo, Window, WindowNext
<1> QED
  BY <1>11

(* A character of the opening is read and another one follows. *)
LEMMA OpeningGoes ==
  ASSUME NEW t, IsText(t), NEW k, Left(t.chars, k, todo'), NEW pg, Window(pg),
         page = Shown(pg, t), Still, pen' = pen, ReadTo(t, k)'
  PROVE  \E pg2, tb, k2 : TextNext(pg2, tb, k2)
<1>1. WindowNext(pg)
  BY DEF Window, WindowNext, Still
<1>2. page' = Shown(pg, t)
  BY DEF Still
<1>3. TextNext(pg, t, k)
  BY <1>1, <1>2, Zenon DEF TextNext, TextInv, Window, WindowNext
<1> QED
  BY <1>3

LEMMA PutcCases ==
  ASSUME kconsole_putc, NEW ch, ch = Head(todo)
  PROVE  /\ todo # <<>> /\ todo' = Tail(todo) /\ page' = page /\ nwritten' = nwritten
         /\ esc_state = "none" => Plain(ch)
         /\ esc_state = "esc" => EscEsc(ch)
         /\ esc_state = "bracket" => EscDigit(ch) \/ EscSemi(ch) \/ EscFinal(ch)
<1>1. todo # <<>> /\ todo' = Tail(todo) /\ page' = page /\ nwritten' = nwritten
  BY DEF kconsole_putc
<1>2. EscEsc(ch) \/ EscDigit(ch) \/ EscSemi(ch) \/ EscFinal(ch) \/ Plain(ch)
  BY Zenon DEF kconsole_putc
<1>3. /\ EscEsc(ch) => esc_state = "esc"
      /\ EscDigit(ch) \/ EscSemi(ch) \/ EscFinal(ch) => esc_state = "bracket"
      /\ Plain(ch) => esc_state = "none"
  BY Zenon DEF EscEsc, EscDigit, EscSemi, EscFinal, Plain
<1>4. "esc" # "none" /\ "esc" # "bracket" /\ "none" # "bracket"
  OBVIOUS
<1> QED
  BY <1>1, <1>2, <1>3, <1>4

(* What shows. *)
LEMMA InkGoes ==
  ASSUME NEW pg, NEW t, TextInv(pg, t, 0), EscType, kconsole_putc, Len(Opening(t)) = 0
  PROVE  Goes
<1>1. PICK ch, s : ch = Head(todo) /\ s = t.ink
  OBVIOUS
<1>2. IsText(t) /\ Left(t.chars, 0, todo) /\ Window(pg) /\ page = Shown(pg, t) /\ esc_state = "none"
  BY DEF TextInv, ReadTo
<1>3. todo # <<>> /\ todo' = Tail(todo) /\ page' = page /\ nwritten' = nwritten /\ Plain(ch)
  BY <1>1, <1>2, PutcCases
<1>4. /\ t.chars \in Seq(STRING) /\ s \in Seq(STRING) /\ Len(s) \in Nat
      /\ Len(t.chars) = 0 + Len(s) /\ (\A i \in 1..Len(s) : t.chars[0 + i] = s[i])
      /\ (\A i \in 1..Len(s) : s[i] \notin {"esc", "nul"}) /\ t.sgr = <<>>
  <2>1. PICK q, n : q = Opening(t) /\ n = Len(q)
    OBVIOUS
  <2>2. n = 0 /\ n < 3
    BY <2>1
  <2> QED
    BY <1>1, <1>2, <2>1, <2>2, TextFacts DEF OpenInk
<1>5. 0 + 1 \in 1..Len(t.chars) /\ ch = t.chars[0 + 1] /\ ch \in STRING /\ Left(t.chars, 0 + 1, todo')
  BY <1>1, <1>2, <1>3, <1>4, NextChar
<1>6. 1 \in 1..Len(s) /\ ch = s[1] /\ ch \notin {"esc", "nul"} /\ s # <<>>
  BY <1>4, <1>5
<1>7. PICK p2, r : p2 = TypeOn(pg, ch) /\ r = Tail(s)
  OBVIOUS
<1>8. WindowNext(p2) /\ esc_state' = "none"
  BY <1>2, <1>3, <1>5, <1>6, <1>7, PlainWindow
<1>9. r \in Seq(STRING) /\ Len(r) = Len(s) - 1 /\ (\A i \in 1..Len(r) : r[i] = s[i + 1])
      /\ s = <<ch>> \o r /\ Len(r) \in Nat
  BY <1>4, <1>6, <1>7
<1>10. PICK u : u = Plainly(r)
  OBVIOUS
<1>11. IsText(u) /\ Len(Opening(u)) = 0 /\ u.chars = r
  <2>1. \A i \in 1..Len(r) : r[i] \notin {"esc", "nul"}
    BY <1>4, <1>9
  <2> QED
    BY <1>9, <1>10, <2>1, SayText DEF Plainly
<1>12. page' = Shown(p2, u)
  <2>1. pg \in Page /\ p2 \in Page
    BY <1>2, <1>8 DEF Window, WindowNext
  <2>2. Shown(p2, u) = Typed(p2, r)
    BY <1>10, <2>1, ShownSay
  <2>3. Shown(pg, t) = Typed(pg, s)
    BY <1>1, <1>4, <2>1, ShownPlain
  <2>4. Typed(pg, s) = Typed(p2, r)
    <3>1. PICK x : x = <<ch>>
      OBVIOUS
    <3>2. x \in Seq(STRING)
      BY <1>5, <3>1
    <3>3. Typed(pg, x \o r) = Typed(Typed(pg, x), r)
      BY <1>9, <3>2, TypedFoldConcat
    <3>4. Typed(pg, x) = p2
      BY <1>7, <3>1, TypedFoldParts
    <3> QED
      BY <1>9, <3>1, <3>3, <3>4, Zenon
  <2> QED
    BY <1>2, <1>3, <2>2, <2>3, <2>4
<1>13. Left(r, 0, todo')
  <2>1. PICK l : l = todo'
    OBVIOUS
  <2>2. /\ l \in Seq(STRING) /\ Len(l) = Len(t.chars) - (0 + 1)
        /\ \A i \in 1..Len(l) : l[i] = t.chars[(0 + 1) + i]
    BY <1>5, <2>1 DEF Left
  <2>3. Len(l) = Len(r)
    BY <1>4, <1>9, <2>2
  <2>4. ASSUME NEW i \in 1..Len(l) PROVE l[i] = r[0 + i]
    <3>1. i \in 1..Len(r) /\ i + 1 \in 1..Len(s) /\ (0 + 1) + i = 0 + (i + 1) /\ 0 + i = i
      BY <1>9, <2>3
    <3>2. t.chars[0 + (i + 1)] = s[i + 1]
      BY <1>4, <3>1
    <3> QED
      BY <1>9, <2>2, <3>1, <3>2
  <2>5. 0 \in Nat /\ 0 <= Len(r) /\ Len(l) = Len(r) - 0
    BY <1>9, <2>3
  <2> QED
    BY <2>1, <2>2, <2>4, <2>5 DEF Left
<1>14. TextNext(p2, u, 0)
  BY <1>8, <1>11, <1>12, <1>13, Zenon DEF TextNext, TextInv, ReadTo, Window, WindowNext
<1>15. EscType'
  BY <1>3 DEF EscType, Plain
<1> QED
  BY <1>14, <1>15 DEF Goes

(* The opening. *)
LEMMA OpeningBegins ==
  ASSUME NEW pg, NEW t, TextInv(pg, t, 0), EscType, kconsole_putc, Len(Opening(t)) # 0
  PROVE  Goes
<1>1. PICK ch, q, n : ch = Head(todo) /\ q = Opening(t) /\ n = Len(q)
  OBVIOUS
<1>2. IsText(t) /\ Left(t.chars, 0, todo) /\ Window(pg) /\ page = Shown(pg, t) /\ esc_state = "none"
  BY DEF TextInv, ReadTo
<1>3. todo # <<>> /\ todo' = Tail(todo) /\ page' = page /\ nwritten' = nwritten /\ Plain(ch)
  BY <1>1, <1>2, PutcCases
<1>4. /\ t.chars \in Seq(STRING) /\ q \in Seq(STRING) /\ n \in Nat /\ n # 0
      /\ (\A i \in 1..n : t.chars[i] = q[i]) /\ (n < 3 => t.sgr = <<>>)
  BY <1>1, <1>2, TextFacts DEF OpenInk
<1>5. 0 + 1 \in 1..Len(t.chars) /\ ch = t.chars[0 + 1] /\ Left(t.chars, 0 + 1, todo')
  BY <1>1, <1>2, <1>3, <1>4, NextChar
<1>6. ch = q[1] /\ 1 \in 1..n /\ Left(t.chars, 1, todo')
  BY <1>4, <1>5
<1>7. \/ n = 1 /\ ch = "nul"
      \/ n >= 2 /\ ch = "esc"
  <2>1. q = <<"nul">> \/ (n = 2 /\ q[1] = "esc") \/ IsSequence(q)
    BY <1>1, <1>2, <1>4, Zenon DEF IsText
  <2>2. q = <<"nul">> => n = 1 /\ q[1] = "nul"
    BY <1>1
  <2>3. IsSequence(q) => n >= 3 /\ q[1] = "esc"
    BY <1>1, Zenon DEF IsSequence
  <2> QED
    BY <1>4, <1>6, <2>1, <2>2, <2>3
<1>8. EscType'
  BY <1>3 DEF EscType, Plain
<1>9. Still /\ pen' = pen /\ esc_state' = (IF ch = "esc" THEN "esc" ELSE "none")
  <2>1. ch \in {"esc", "nul"}
    BY <1>7
  <2> QED
    BY <1>3, <2>1 DEF Still, Plain, Control
<1>10. CASE n = 1
  <2>1. ch = "nul" /\ t.sgr = <<>>
    BY <1>4, <1>7, <1>10
  <2>2. pen' = Applied(pen, Honoured(t.sgr))
    <3>1. Honoured(<<>>) = <<>>
      BY ConsoleConstants DEF Honoured
    <3> QED
      BY <1>9, <2>1, <3>1, AppliedFoldParts, Zenon
  <2>3. pen' \in Pen
    BY <1>2, <1>9, PageFacts DEF Window
  <2>4. esc_state' = "none" /\ Left(t.chars, Len(Opening(t)), todo')
    BY <1>1, <1>6, <1>9, <1>10, <2>1
  <2>5. \E pg2, tb, k2 : TextNext(pg2, tb, k2)
    BY <1>2, <1>9, <2>2, <2>3, <2>4, OpeningDone
  <2> QED
    BY <1>8, <2>5 DEF Goes
<1>11. CASE n # 1
  <2>1. n >= 2 /\ esc_state' = "esc"
    BY <1>4, <1>7, <1>9, <1>11
  <2>2. ReadTo(t, 1)'
    <3>1. 1 < Len(Opening(t)) /\ 1 # 0 /\ ~(1 >= 2)
      BY <1>1, <2>1, <1>4
    <3> QED
      BY <2>1, <3>1, Zenon DEF ReadTo
  <2>3. \E pg2, tb, k2 : TextNext(pg2, tb, k2)
    BY <1>2, <1>6, <1>9, <2>2, OpeningGoes
  <2> QED
    BY <1>8, <2>3 DEF Goes
<1> QED
  BY <1>10, <1>11

LEMMA OpeningSecond ==
  ASSUME NEW pg, NEW t, TextInv(pg, t, 1), EscType, kconsole_putc
  PROVE  Goes
<1>1. PICK ch, q, n : ch = Head(todo) /\ q = Opening(t) /\ n = Len(q)
  OBVIOUS
<1>2. /\ IsText(t) /\ Left(t.chars, 1, todo) /\ Window(pg) /\ page = Shown(pg, t) /\ esc_state = "esc"
      /\ 1 < n
  BY <1>1 DEF TextInv, ReadTo
<1>3. todo # <<>> /\ todo' = Tail(todo) /\ page' = page /\ nwritten' = nwritten /\ EscEsc(ch)
  BY <1>1, <1>2, PutcCases
<1>4. /\ t.chars \in Seq(STRING) /\ q \in Seq(STRING) /\ n \in Nat
      /\ (\A i \in 1..n : t.chars[i] = q[i]) /\ (n < 3 => t.sgr = <<>>)
  BY <1>1, <1>2, TextFacts DEF OpenInk
<1>5. 1 + 1 \in 1..Len(t.chars) /\ ch = t.chars[1 + 1] /\ Left(t.chars, 1 + 1, todo')
  BY <1>1, <1>2, <1>3, <1>4, NextChar
<1>6. ch = q[2] /\ 2 \in 1..n /\ Left(t.chars, 2, todo')
  BY <1>2, <1>4, <1>5
<1>7. Still /\ pen' = pen
  BY <1>3 DEF Still, EscEsc
<1>8. CASE n = 2
  <2>1. ch # "["
    <3>1. ~(n >= 3) /\ n # 0
      BY <1>8
    <3>2. q = <<"nul">> \/ (n = 2 /\ q[1] = "esc" /\ q[2] # "[") \/ IsSequence(q)
      BY <1>1, <1>2, <3>1, Zenon DEF IsText
    <3>3. q = <<"nul">> => n = 1
      BY <1>1
    <3>4. ~IsSequence(q)
      BY <1>1, <3>1, Zenon DEF IsSequence
    <3> QED
      BY <1>6, <1>8, <3>2, <3>3, <3>4
  <2>2. esc_state' = "none" /\ esc_params' = esc_params /\ esc_nparam' = esc_nparam
    BY <1>3, <2>1 DEF EscEsc
  <2>3. t.sgr = <<>>
    BY <1>4, <1>8
  <2>4. pen' = Applied(pen, Honoured(t.sgr))
    <3>1. Honoured(<<>>) = <<>>
      BY ConsoleConstants DEF Honoured
    <3> QED
      BY <1>7, <2>3, <3>1, AppliedFoldParts, Zenon
  <2>5. pen' \in Pen
    BY <1>2, <1>7, PageFacts DEF Window
  <2>6. Left(t.chars, Len(Opening(t)), todo')
    BY <1>1, <1>6, <1>8
  <2>7. \E pg2, tb, k2 : TextNext(pg2, tb, k2)
    BY <1>2, <1>7, <2>2, <2>4, <2>5, <2>6, OpeningDone
  <2>8. EscType'
    BY <1>3, <2>2 DEF EscType
  <2> QED
    BY <2>7, <2>8 DEF Goes
<1>9. CASE n # 2
  <2>1. n >= 3 /\ ch = "["
    <3>1. n >= 3 /\ n # 0 /\ n # 1
      BY <1>2, <1>4, <1>9
    <3>2. IsSequence(q)
      <4>1. q = <<"nul">> => n = 1
        BY <1>1
      <4> QED
        BY <1>1, <1>2, <1>9, <3>1, <4>1, Zenon DEF IsText
    <3> QED
      BY <1>6, <3>1, <3>2, Zenon DEF IsSequence
  <2>2. esc_state' = "bracket" /\ esc_nparam' = 0 /\ esc_params' = [esc_params EXCEPT ![0] = 0]
    BY <1>3, <2>1 DEF EscEsc
  <2>3. Collected(<<0>>, esc_params', esc_nparam')
    BY <2>2, HoldsFirst DEF EscType
  <2>4. SoFar(t, 2) = <<0>>
    <3>1. 3 \in Int /\ 2 \in Int /\ 2 < 3
      OBVIOUS
    <3>2. SubSeq(q, 3, 2) = <<>>
      BY <3>1, SubSeqEmpty
    <3> QED
      BY <1>1, <3>2, SpelledFoldParts DEF SoFar
  <2>5. ReadTo(t, 2)'
    <3>1. 2 < Len(Opening(t)) /\ 2 # 0 /\ 2 # 1
      BY <1>1, <1>4, <2>1
    <3> QED
      BY <2>2, <2>3, <2>4, <3>1, Zenon DEF ReadTo
  <2>6. \E pg2, tb, k2 : TextNext(pg2, tb, k2)
    BY <1>2, <1>6, <1>7, <2>5, OpeningGoes
  <2>7. EscType'
    <3>1. 0 \in 0..NParams
      BY ConsoleConstants
    <3> QED
      BY <1>3, <2>2, <2>3, <3>1 DEF EscType, Collected
  <2> QED
    BY <2>6, <2>7 DEF Goes
<1> QED
  BY <1>8, <1>9

LEMMA DigitNotSemi ==
  ASSUME NEW ch, IsDigit(ch)
  PROVE  ~IsSemi(ch)
<1>1. DOMAIN DigitChars = 1..10
  BY DEF DigitChars
<1>2. PICK i \in 1..10 : DigitChars[i] = ch
  BY <1>1, Zenon DEF IsDigit, Range
<1>3. i \in {1, 2, 3, 4, 5, 6, 7, 8, 9, 10}
  BY <1>2
<1>4. ch \in {"0", "1", "2", "3", "4", "5", "6", "7", "8", "9"}
  BY <1>2, <1>3 DEF DigitChars
<1>5. ASSUME NEW x \in {"0", "1", "2", "3", "4", "5", "6", "7", "8", "9"} PROVE x # ";"
  BY <1>5, Zenon
<1> QED
  BY <1>4, <1>5, Zenon DEF IsSemi

LEMMA OpeningSpells ==
  ASSUME NEW pg, NEW t, NEW k, TextInv(pg, t, k), k \in Nat, k >= 2, EscType, kconsole_putc
  PROVE  Goes
<1>1. PICK ch, q, n, ns : ch = Head(todo) /\ q = Opening(t) /\ n = Len(q) /\ ns = SoFar(t, k)
  OBVIOUS
<1>2. /\ IsText(t) /\ Left(t.chars, k, todo) /\ Window(pg) /\ page = Shown(pg, t) /\ esc_state = "bracket"
      /\ k < n /\ Collected(ns, esc_params, esc_nparam)
  <2>1. k > 0
    OBVIOUS
  <2> QED
    BY <1>1, <2>1 DEF TextInv, ReadTo
<1>3. todo # <<>> /\ todo' = Tail(todo) /\ page' = page /\ nwritten' = nwritten
      /\ (EscDigit(ch) \/ EscSemi(ch) \/ EscFinal(ch))
  BY <1>1, <1>2, PutcCases
<1>4. /\ t.chars \in Seq(STRING) /\ q \in Seq(STRING) /\ n \in Nat
      /\ (\A i \in 1..n : t.chars[i] = q[i])
  BY <1>1, <1>2, TextFacts DEF OpenInk
<1>5. k + 1 \in 1..Len(t.chars) /\ ch = t.chars[k + 1] /\ Left(t.chars, k + 1, todo')
  BY <1>1, <1>2, <1>3, <1>4, NextChar
<1>6. k + 1 \in Nat /\ k + 1 \in 1..n /\ k + 1 \in 3..n /\ ch = q[k + 1] /\ k + 1 >= 2 /\ n >= 3
  BY <1>2, <1>4, <1>5
<1>7. IsSequence(q)
  <2>1. n # 0 /\ n # 1 /\ n # 2
    BY <1>6
  <2>2. q = <<"nul">> => n = 1
    BY <1>1
  <2> QED
    BY <1>1, <1>2, <2>1, <2>2, Zenon DEF IsText
<1>8. /\ (IsDigit(ch) \/ IsSemi(ch)) <=> k + 1 < n
      /\ t.sgr = IF q[n] = "m" THEN SoFar(t, n - 1) ELSE <<>>
  <2>1. \A i \in 3..n : (IsDigit(q[i]) \/ IsSemi(q[i])) <=> i < n
    BY <1>1, <1>7, Zenon DEF IsSequence, IsSemi
  <2>2. t.sgr = IF q[n] = "m" THEN SoFar(t, n - 1) ELSE <<>>
    <3>1. Spelled(<<0>>, SubSeq(q, 3, n - 1)) = Numbers(SubSeq(q, 3, n - 1))
      BY Zenon DEF Spelled, Numbers
    <3> QED
      BY <1>1, <1>2, <1>6, <3>1, Zenon DEF IsText, SoFar
  <2> QED
    BY <1>6, <2>1, <2>2
<1>9. CASE k + 1 < n
  <2>1. SoFar(t, k + 1) = Spell(ns, ch)
    BY <1>1, <1>2, <1>6, SpellNext
  <2>2. InRange(Spell(ns, ch))
    <3>1. \A i \in 2..(n - 1) : \A x \in Range(Numbers(SubSeq(q, 3, i))) : x < ParamWidth
      BY <1>1, <1>7, Zenon DEF IsSequence
    <3>2. k + 1 \in 2..(n - 1)
      BY <1>4, <1>6, <1>9
    <3>3. Numbers(SubSeq(q, 3, k + 1)) = Spell(ns, ch)
      BY <1>1, <2>1, Zenon DEF Numbers, SoFar, Spelled
    <3>4. \A x \in Range(Spell(ns, ch)) : x < ParamWidth
      BY <3>1, <3>2, <3>3
    <3> QED
      BY <3>4 DEF InRange, Range
  <2>3. Still /\ pen' = pen /\ esc_state' = "bracket" /\ Collected(Spell(ns, ch), esc_params', esc_nparam')
    <3>1. CASE EscDigit(ch)
      <4>1. /\ IsDigit(ch) /\ ~IsSemi(ch) /\ esc_nparam' = esc_nparam
            /\ esc_params' = [esc_params EXCEPT ![esc_nparam] =
                                (esc_params[esc_nparam] * 10 + DigitValue(ch)) % ParamWidth]
        BY <3>1, DigitNotSemi, Zenon DEF EscDigit
      <4>2. Collected(Spell(ns, ch), esc_params', esc_nparam')
        BY <1>2, <2>2, <4>1, HoldsDigit
      <4>3. Still /\ pen' = pen /\ esc_state' = "bracket"
        BY <1>2, <1>3, <3>1 DEF EscDigit, Still
      <4> QED
        BY <4>2, <4>3
    <3>2. CASE EscSemi(ch)
      <4>1. /\ IsSemi(ch) /\ UNCHANGED <<screen, cur_col, cur_row, pen, esc_state>>
            /\ esc_nparam' = IF esc_nparam < NParams - 1 THEN esc_nparam + 1 ELSE esc_nparam
            /\ esc_params' = [esc_params EXCEPT ![esc_nparam'] = 0]
        BY <3>2, Zenon DEF EscSemi, IsSemi
      <4>2. Collected(Spell(ns, ch), esc_params', esc_nparam')
        BY <1>2, <4>1, HoldsSemi
      <4>3. Still /\ pen' = pen /\ esc_state' = "bracket"
        BY <1>2, <1>3, <4>1 DEF Still
      <4> QED
        BY <4>2, <4>3
    <3>3. ~EscFinal(ch)
      BY <1>8, <1>9, Zenon DEF EscFinal, IsSemi
    <3> QED
      BY <1>3, <3>1, <3>2, <3>3
  <2>4. ReadTo(t, k + 1)'
    <3>1. k + 1 < Len(Opening(t)) /\ k + 1 # 0 /\ k + 1 # 1
      BY <1>1, <1>9, <1>6
    <3> QED
      BY <2>1, <2>3, <3>1, Zenon DEF ReadTo
  <2>5. \E pg2, tb, k2 : TextNext(pg2, tb, k2)
    BY <1>2, <1>5, <2>3, <2>4, OpeningGoes
  <2>6. EscType'
    <3>1. esc_nparam' \in 0..NParams
      <4>1. PICK spelt, m : spelt = Spell(ns, ch) /\ m = esc_nparam'
        OBVIOUS
      <4>2. spelt \in Seq(Nat) /\ Len(spelt) >= 1 /\ m \in Nat /\ m + 1 = Count(spelt)
        BY <2>3, <4>1 DEF Collected
      <4>3. Count(spelt) \in 1..NParams
        BY <4>2, CountFacts
      <4> QED
        BY <4>1, <4>2, <4>3, ConsoleConstants
    <3> QED
      BY <1>3, <2>3, <3>1 DEF EscType, Collected
  <2> QED
    BY <2>5, <2>6 DEF Goes
<1>10. CASE ~(k + 1 < n)
  <2>1. k + 1 = n /\ k = n - 1
    BY <1>4, <1>6, <1>10
  <2>2. EscFinal(ch)
    BY <1>3, <1>8, <1>10, Zenon DEF EscDigit, EscSemi, IsSemi
  <2>3. /\ esc_nparam' = esc_nparam + 1 /\ esc_state' = "none" /\ esc_params' = esc_params /\ Still
        /\ IF ch = "m" THEN fb_apply_sgr(esc_nparam') ELSE UNCHANGED pen
    BY <1>3, <2>2, Zenon DEF EscFinal, Still
  <2>4. [i \in 1..(esc_nparam + 1) |-> esc_params[i - 1]] = Honoured(ns)
    BY <1>2, HoldsHonoured
  <2>5. pen' = Applied(pen, Honoured(t.sgr))
    <3>1. CASE ch = "m"
      <4>1. t.sgr = ns
        BY <1>1, <1>6, <1>8, <2>1, <3>1
      <4>2. pen' = FoldLeft(ApplyParam, pen, [i \in 1..(esc_nparam + 1) |-> esc_params[i - 1]])
        BY <2>3, <3>1, Zenon DEF fb_apply_sgr
      <4>3. pen' = Applied(pen, [i \in 1..(esc_nparam + 1) |-> esc_params[i - 1]])
        BY <4>2, Zenon DEF Applied
      <4> QED
        BY <2>4, <4>1, <4>3, Zenon
    <3>2. CASE ch # "m"
      <4>1. t.sgr = <<>> /\ pen' = pen
        BY <1>6, <1>8, <2>1, <2>3, <3>2
      <4>2. Honoured(<<>>) = <<>>
        BY ConsoleConstants DEF Honoured
      <4> QED
        BY <4>1, <4>2, AppliedFoldParts, Zenon
    <3> QED
      BY <3>1, <3>2
  <2>6. pen' \in Pen
    <3>1. pen \in Pen
      BY <1>2, PageFacts DEF Window
    <3>2. CASE ch = "m"
      <4>1. PICK h, m : h = Honoured(ns) /\ m = esc_nparam + 1
        OBVIOUS
      <4>2. m \in Nat /\ DOMAIN h = 1..m
        <5>1. esc_nparam \in Nat
          BY <1>2 DEF Collected
        <5>2. h = [i \in 1..m |-> esc_params[i - 1]]
          BY <2>4, <4>1
        <5> QED
          BY <4>1, <5>1, <5>2
      <4>3. Applied(pen, h) \in Pen
        BY <3>1, <4>2, AppliedType
      <4>4. t.sgr = ns
        BY <1>1, <1>6, <1>8, <2>1, <3>2
      <4> QED
        BY <2>5, <4>1, <4>3, <4>4
    <3>3. CASE ch # "m"
      BY <2>3, <3>1, <3>3
    <3> QED
      BY <3>2, <3>3
  <2>7. Left(t.chars, Len(Opening(t)), todo')
    BY <1>1, <1>5, <2>1
  <2>8. \E pg2, tb, k2 : TextNext(pg2, tb, k2)
    BY <1>2, <2>3, <2>5, <2>6, <2>7, OpeningDone
  <2>9. EscType'
    <3>1. esc_nparam + 1 \in 0..NParams
      <4>1. ns \in Seq(Nat) /\ Len(ns) >= 1 /\ esc_nparam \in Nat /\ esc_nparam + 1 = Count(ns)
        BY <1>2 DEF Collected
      <4>2. Count(ns) \in 1..NParams
        BY <4>1, CountFacts
      <4> QED
        BY <4>1, <4>2, ConsoleConstants
    <3> QED
      BY <1>3, <2>3, <3>1 DEF EscType
  <2> QED
    BY <2>8, <2>9 DEF Goes
<1> QED
  BY <1>9, <1>10

ConsoleInv == EscType /\ \E pg, t, k : TextInv(pg, t, k)

LEMMA BlankFacts ==
  /\ BlankPage \in Page /\ BlankPage.col = 0 /\ BlankPage.pen = DefaultPen
  /\ RowOf(BlankPage) = 0 /\ Win(BlankPage) = [r \in 1..Rows |-> BlankLine(DefaultPen)]
<1>1. PICK b, ls, pg : b = BlankLine(DefaultPen) /\ ls = <<b>> /\ pg = [lines |-> ls, col |-> 0, pen |-> DefaultPen]
  OBVIOUS
<1>2. pg = BlankPage
  BY <1>1, Zenon DEF BlankPage
<1>3. b \in Line /\ DefaultPen \in Pen
  BY <1>1, PenType, CellType
<1>4. ls \in Seq(Line) /\ Len(ls) = 1 /\ ls[1] = b
  BY <1>1, <1>3
<1>5. 0 \in 0..Cols
  BY ConsoleConstants
<1>6. pg.lines = ls /\ pg.col = 0 /\ pg.pen = DefaultPen
  BY <1>1
<1>11. Len(pg.lines) = 1
  BY <1>4, <1>6
<1>7. pg \in Page
  <2>1. pg \in [lines : Seq(Line), col : 0..Cols, pen : Pen]
    BY <1>1, <1>3, <1>4, <1>5
  <2> QED
    BY <2>1, <1>11 DEF Page
<1>8. Top(pg) = 0
  <2>1. Rows \in Nat /\ Rows > 0
    BY ConsoleConstants
  <2>2. ~(1 > Rows)
    BY <2>1
  <2> QED
    BY <1>11, <2>2, Zenon DEF Top
<1>9. RowOf(pg) = 0
  BY <1>4, <1>6, <1>8 DEF RowOf
<1>10. Win(pg) = [r \in 1..Rows |-> b]
  <2>1. Win(pg) = [r \in 1..Rows |-> IF 0 + r <= 1 THEN ls[0 + r] ELSE b]
    BY <1>1, <1>4, <1>6, <1>8, Zenon DEF Win
  <2>2. ASSUME NEW r \in 1..Rows PROVE (IF 0 + r <= 1 THEN ls[0 + r] ELSE b) = b
    <3>1. 0 + r = r /\ (r <= 1 => r = 1)
      BY ConsoleConstants
    <3> QED
      BY <1>4, <3>1
  <2> QED
    BY <2>1, <2>2, Zenon
<1> QED
  BY <1>1, <1>2, <1>6, <1>7, <1>9, <1>10

LEMMA ConsoleStarts == ConsoleInit => ConsoleInv
<1> SUFFICES ASSUME ConsoleInit PROVE ConsoleInv
  OBVIOUS
<1>1. PICK z, t : z = <<>> /\ t = Plainly(z)
  OBVIOUS
<1>2. z \in Seq(STRING) /\ Len(z) = 0
  BY <1>1
<1>3. IsText(t) /\ Len(Opening(t)) = 0 /\ t.chars = z
  <2>1. \A i \in 1..Len(z) : z[i] \notin {"esc", "nul"}
    BY <1>2
  <2>2. IsText(Plainly(z)) /\ Len(Opening(Plainly(z))) = 0
    BY <1>2, <2>1, SayText
  <2> QED
    BY <1>1, <2>2 DEF Plainly
<1>4. Left(z, 0, todo)
  BY <1>1, <1>2 DEF Left, ConsoleInit
<1>5. Window(BlankPage)
  <2>1. 0 < Cols
    BY ConsoleConstants
  <2> QED
    BY <2>1, BlankFacts DEF Window, ConsoleInit
<1>6. page = Shown(BlankPage, t)
  <2>1. Shown(BlankPage, t) = Typed(BlankPage, z)
    BY <1>1, BlankFacts, ShownSay
  <2>2. Typed(BlankPage, z) = BlankPage
    BY <1>1, TypedFoldParts
  <2> QED
    BY <2>1, <2>2 DEF ConsoleInit
<1>7. ReadTo(t, 0)
  BY DEF ReadTo, ConsoleInit
<1>8. EscType
  <2>1. 0 \in 0..(ParamWidth - 1) /\ 0 \in 0..NParams /\ 0 \in 0..MaxTexts
    BY ConsoleConstants
  <2> QED
    BY <2>1 DEF EscType, ConsoleInit
<1>9. TextInv(BlankPage, t, 0)
  BY <1>3, <1>4, <1>5, <1>6, <1>7 DEF TextInv
<1> QED
  BY <1>8, <1>9 DEF ConsoleInv

(* Between texts the page in progress is the page. *)
LEMMA BetweenTexts ==
  ASSUME NEW pg, NEW t, NEW k, TextInv(pg, t, k), todo = <<>>
  PROVE  page = pg /\ Window(page) /\ esc_state = "none"
<1>1. PICK q, n : q = Opening(t) /\ n = Len(q)
  OBVIOUS
<1>2. IsText(t) /\ Left(t.chars, k, todo) /\ Window(pg) /\ page = Shown(pg, t) /\ ReadTo(t, k)
  BY DEF TextInv
<1>3. OpenInk(t, q, n)
  BY <1>1, <1>2, TextFacts
<1>4. n \in Nat /\ Len(t.ink) \in Nat /\ Len(t.chars) = n + Len(t.ink) /\ t.ink \in Seq(STRING)
      /\ (n < 3 => t.sgr = <<>>)
  BY <1>3 DEF OpenInk
<1>5. k \in Nat /\ k = Len(t.chars)
  <2>1. Len(todo) = 0
    OBVIOUS
  <2>2. k \in Nat /\ Len(todo) = Len(t.chars) - k
    BY <1>2 DEF Left
  <2> QED
    BY <1>4, <2>1, <2>2
<1>6. k > 0 => k < n
  BY <1>1, <1>2 DEF ReadTo
<1>7. k = 0 /\ n = 0 /\ Len(t.ink) = 0
  BY <1>4, <1>5, <1>6
<1>8. t.ink = <<>> /\ t.sgr = <<>>
  BY <1>4, <1>7
<1>9. pg \in Page
  BY <1>2 DEF Window
<1>10. page = pg
  <2>1. Shown(pg, t) = Typed(pg, <<>>)
    BY <1>8, <1>9, ShownPlain
  <2> QED
    BY <1>2, <2>1, TypedFoldParts
<1>11. esc_state = "none"
  BY <1>2, <1>7 DEF ReadTo
<1> QED
  BY <1>2, <1>10, <1>11

LEMMA WriteGoes ==
  ASSUME ConsoleInv, NEW t \in Texts, cons_write(t)
  PROVE  ConsoleInv'
<1>1. PICK pg, t0, k : TextInv(pg, t0, k)
  BY DEF ConsoleInv
<1>2. /\ todo = <<>> /\ todo' = t.chars /\ nwritten < MaxTexts /\ nwritten' = nwritten + 1
      /\ screen' = screen /\ cur_col' = cur_col /\ cur_row' = cur_row /\ pen' = pen
      /\ esc_state' = esc_state /\ esc_params' = esc_params /\ esc_nparam' = esc_nparam
  BY DEF cons_write
<1>3. Window(page) /\ esc_state = "none"
  BY <1>1, <1>2, BetweenTexts
<1>4. page' = Shown(page, t)
  BY Zenon DEF cons_write, Shown, Typed, Applied
<1>5. IsText(t)
  BY TextsAssumption
<1>6. Left(t.chars, 0, todo')
  <2>1. t.chars \in Seq(STRING)
    BY <1>5 DEF IsText
  <2> QED
    BY <1>2, <2>1 DEF Left
<1>7. PICK p : p = page
  OBVIOUS
<1>8. WindowNext(p)
  BY <1>2, <1>3, <1>7 DEF Window, WindowNext
<1>9. ReadTo(t, 0)'
  BY <1>2, <1>3 DEF ReadTo
<1>10. TextNext(p, t, 0)
  BY <1>4, <1>5, <1>6, <1>7, <1>8, <1>9, Zenon DEF TextNext, TextInv, Window, WindowNext
<1>11. EscType'
  BY <1>2, ConsoleConstants DEF EscType, ConsoleInv
<1> QED
  BY <1>10, <1>11, Zenon DEF ConsoleInv, TextNext

LEMMA PutcGoes ==
  ASSUME ConsoleInv, kconsole_putc
  PROVE  ConsoleInv'
<1>1. EscType
  BY DEF ConsoleInv
<1>2. PICK pg, t, k : TextInv(pg, t, k)
  BY DEF ConsoleInv
<1>3. k \in Nat
  BY <1>2 DEF TextInv, Left
<1>4. Goes
  <2>1. CASE k = 0
    BY <1>1, <1>2, <2>1, InkGoes, OpeningBegins
  <2>2. CASE k = 1
    BY <1>1, <1>2, <2>2, OpeningSecond
  <2>3. CASE k >= 2
    BY <1>1, <1>2, <1>3, <2>3, OpeningSpells
  <2> QED
    BY <1>3, <2>1, <2>2, <2>3
<1> QED
  BY <1>4, Zenon DEF Goes, ConsoleInv, TextNext

LEMMA ConsoleStep == ConsoleInv /\ [ConsoleNext]_ConsoleVars => ConsoleInv'
<1> SUFFICES ASSUME ConsoleInv, [ConsoleNext]_ConsoleVars PROVE ConsoleInv'
  OBVIOUS
<1>1. CASE kconsole_putc
  BY <1>1, PutcGoes
<1>2. ASSUME NEW t \in Texts, cons_write(t) PROVE ConsoleInv'
  BY <1>2, WriteGoes
<1>3. CASE UNCHANGED ConsoleVars
  <2>1. /\ screen' = screen /\ cur_col' = cur_col /\ cur_row' = cur_row /\ pen' = pen
        /\ esc_state' = esc_state /\ esc_params' = esc_params /\ esc_nparam' = esc_nparam
        /\ todo' = todo /\ page' = page /\ nwritten' = nwritten
    BY <1>3 DEF ConsoleVars
  <2>2. PICK pg, t, k : TextInv(pg, t, k)
    BY DEF ConsoleInv
  <2>3. Window(pg)' /\ Left(t.chars, k, todo') /\ ReadTo(t, k)' /\ page' = Shown(pg, t) /\ IsText(t)
    BY <2>1, <2>2, Zenon DEF TextInv, Window, ReadTo
  <2>4. TextNext(pg, t, k)
    BY <2>3, Zenon DEF TextNext, TextInv
  <2>5. EscType'
    BY <2>1, Zenon DEF EscType, ConsoleInv
  <2> QED
    BY <2>4, <2>5, Zenon DEF ConsoleInv, TextNext
<1> QED
  BY <1>1, <1>2, <1>3 DEF ConsoleNext

LEMMA ConsoleTyped == ConsoleInv => ConsoleTypeOK
<1> SUFFICES ASSUME ConsoleInv PROVE ConsoleTypeOK
  OBVIOUS
<1>1. PICK pg, t, k : TextInv(pg, t, k)
  BY DEF ConsoleInv
<1>2. EscType
  BY DEF ConsoleInv
<1>3. Window(pg) /\ ReadTo(t, k) /\ k \in Nat
  BY <1>1 DEF TextInv, Left
<1>4. /\ Win(pg) \in [1..Rows -> Line] /\ pg.col \in 0..Cols /\ pg.pen \in Pen /\ RowOf(pg) \in 0..(Rows - 1)
      /\ pg.col < Cols /\ screen = Win(pg) /\ cur_row = RowOf(pg) /\ cur_col = pg.col /\ pen = pg.pen
  BY <1>3, PageFacts DEF Window
<1>5. \A r \in 1..Rows, c \in 1..Cols : [fg |-> screen[r][c].fg, bg |-> screen[r][c].bg] \in Pen
  <2> SUFFICES ASSUME NEW r \in 1..Rows, NEW c \in 1..Cols
               PROVE  [fg |-> screen[r][c].fg, bg |-> screen[r][c].bg] \in Pen
    OBVIOUS
  <2>1. screen[r] \in Line
    BY <1>4
  <2>2. screen[r][c] \in CellOf
    BY <2>1 DEF Line
  <2> QED
    BY <2>2 DEF CellOf, Pen
<1>6. cur_col \in 0..(Cols - 1) /\ cur_row \in 0..(Rows - 1) /\ pen \in Pen
  BY <1>4, ConsoleConstants
<1>7. esc_state \in {"none", "esc", "bracket"}
  BY <1>3 DEF ReadTo
<1>8. esc_state = "bracket" => esc_nparam < NParams
  <2>1. SUFFICES ASSUME esc_state = "bracket" PROVE esc_nparam < NParams
    OBVIOUS
  <2>2. k >= 2
    BY <1>3, <2>1 DEF ReadTo
  <2>3. PICK ns : ns = SoFar(t, k)
    OBVIOUS
  <2>4. ns \in Seq(Nat) /\ Len(ns) >= 1 /\ esc_nparam \in Nat /\ esc_nparam + 1 = Count(ns)
    BY <1>3, <2>2, <2>3 DEF ReadTo, Collected
  <2>5. Count(ns) \in 1..NParams
    BY <2>4, CountFacts
  <2> QED
    BY <2>4, <2>5, ConsoleConstants
<1> QED
  BY <1>2, <1>5, <1>6, <1>7, <1>8 DEF ConsoleTypeOK, EscType

LEMMA ConsoleShows == ConsoleInv => ScreenIsWindow
<1> SUFFICES ASSUME ConsoleInv PROVE ScreenIsWindow
  OBVIOUS
<1>1. SUFFICES ASSUME todo = <<>>
               PROVE  Window(page)
  BY Zenon DEF ScreenIsWindow, Window, Win, RowOf, Top
<1>2. PICK pg, t, k : TextInv(pg, t, k)
  BY DEF ConsoleInv
<1> QED
  BY <1>1, <1>2, BetweenTexts

(* Type correctness of the console (kconsole.c), for any size of screen    *)
(* and any number of parameters: the cursor stays on the screen and the    *)
(* escape parser in esc_params, whatever texts are written.                *)
THEOREM ConsoleTypeSafe == ConsoleSpec => []ConsoleTypeOK
<1>1. ConsoleSpec => []ConsoleInv
  BY ConsoleStarts, ConsoleStep, PTL DEF ConsoleSpec
<1> QED
  BY <1>1, ConsoleTyped, PTL

(* Between texts the screen is the last Rows lines of what was written, in *)
(* the colours asked for, with the cursor where the next character goes:   *)
(* wrapping, scrolling, backspaces and colour sequences (kconsole_putc)    *)
(* lose nothing and leave nothing behind.                                  *)
THEOREM ScreenFollows == ConsoleSpec => []ScreenIsWindow
<1>1. ConsoleSpec => []ConsoleInv
  BY ConsoleStarts, ConsoleStep, PTL DEF ConsoleSpec
<1> QED
  BY <1>1, ConsoleShows, PTL

-----------------------------------------------------------------------------
(* Input: each device's bytes, in the one buffer *)

(* What the mouse's handler does with a byte while the mouse is enabled.   *)
MouseOn(m, data) ==
    IF m.buf = <<>> /\ ~Bit(data, 8) THEN m
    ELSE IF Len(m.buf) < 2 THEN [m EXCEPT !.buf = Append(@, data)]
    ELSE LET dx == Delta(m.buf[2], m.buf[1], 16, 64)
             dy == -Delta(data, m.buf[1], 32, 128)
         IN  [buf |-> <<>>, x |-> m.x + dx, y |-> m.y + dy, buttons |-> m.buf[1] % 8,
              out |-> Append(m.out, [dx |-> dx, dy |-> dy, buttons |-> m.buf[1] % 8])]

(* What will become of a byte of the buffer, whichever comes first.  The   *)
(* mouse's first byte is skipped when ps2_init will read it as an answer.  *)
KbdTakes(k, b) == IF b.aux THEN k ELSE kbd_handle_scancode(k, b.byte)
MouseTakes(m, b) == IF ~b.aux THEN m
                    ELSE IF m.skip THEN [skip |-> FALSE, st |-> m.st]
                    ELSE [skip |-> FALSE, st |-> MouseOn(m.st, b.byte)]

(* What scancodes q do. *)
Scanned(base, q) == FoldLeft(kbd_handle_scancode, base, q)
ScannedRun(f, base, q, n) ==
    f[0] = base /\ (\A k \in 1..n : f[k] = kbd_handle_scancode(f[k - 1], q[k])) /\ Scanned(base, q) = f[n]

(* Scancodes are handled one by one. *)
LEMMA ScannedFold ==
  ASSUME NEW base, NEW q, NEW n \in Nat, DOMAIN q = 1..n
  PROVE  \E f : ScannedRun(f, base, q, n)
<1> DEFINE Eq(g, Ts) == g = [s \in Ts |-> IF s = {} THEN base ELSE kbd_handle_scancode(g[s \ {Max(s)}], q[Max(s)])]
           S == {m \in Nat : \E g : Eq(g, Within(m, n))}
<1>1. 0 \in S
  <2> DEFINE g == [s \in {{}} |-> base]
  <2>1. Eq(g, {{}})
    <3>1. \A s \in {{}} : s = {}
      OBVIOUS
    <3> QED
      BY <3>1, Zenon
  <2> QED
    BY <2>1, WithinFacts
<1>2. ASSUME NEW m \in Nat, m \in S PROVE m + 1 \in S
  <2>1. PICK g : Eq(g, Within(m, n))
    BY <1>2
  <2> DEFINE h == [s \in Within(m + 1, n) |->
                     IF s = {} THEN base ELSE kbd_handle_scancode(g[s \ {Max(s)}], q[Max(s)])]
  <2>2. \A s \in Within(m, n) : h[s] = g[s]
    <3>1. \A s \in Within(m, n) : h[s] = IF s = {} THEN base ELSE kbd_handle_scancode(g[s \ {Max(s)}], q[Max(s)])
      BY WithinFacts, Zenon
    <3>2. \A s \in Within(m, n) : g[s] = IF s = {} THEN base ELSE kbd_handle_scancode(g[s \ {Max(s)}], q[Max(s)])
      BY <2>1, Zenon
    <3> QED
      BY <3>1, <3>2, Zenon
  <2>3. \A s \in Within(m + 1, n) : s # {} => s \ {Max(s)} \in Within(m, n)
    BY WithinFacts
  <2>4. Eq(h, Within(m + 1, n))
    BY <2>2, <2>3, Zenon
  <2> HIDE DEF h
  <2>5. \E j : Eq(j, Within(m + 1, n))
    BY <2>4, Zenon
  <2> HIDE DEF Eq
  <2> QED
    BY <2>5
<1>3. PICK g : Eq(g, SUBSET (1..n))
  <2> HIDE DEF S
  <2>1. n \in S
    BY <1>1, <1>2, SetInduction
  <2> QED
    BY <2>1, WithinFacts DEF S
<1> DEFINE i == CHOOSE j : Eq(j, SUBSET (1..n))
<1>4. Eq(i, SUBSET (1..n))
  BY <1>3, Zenon
<1>5. Scanned(base, q) = i[1..n]
  BY Zenon DEF Scanned, FoldLeft, MapThenFoldSet
<1> HIDE DEF i
<1> DEFINE f == [k \in 0..n |-> i[1..k]]
<1>6. f[0] = base
  <2>1. 1..0 = {} /\ {} \in SUBSET (1..n)
    OBVIOUS
  <2>2. i[{}] = base
    BY <1>4, <2>1, Zenon
  <2> QED
    BY <2>1, <2>2
<1>7. ASSUME NEW k \in 1..n PROVE f[k] = kbd_handle_scancode(f[k - 1], q[k])
  <2>1. 1..k \in SUBSET (1..n) /\ 1..k # {} /\ k \in Nat \ {0} /\ k \in 0..n /\ k - 1 \in 0..n
    OBVIOUS
  <2>2. i[1..k] = kbd_handle_scancode(i[(1..k) \ {Max(1..k)}], q[Max(1..k)])
    BY <1>4, <2>1, Zenon
  <2>3. i[1..k] = kbd_handle_scancode(i[1..(k - 1)], q[k])
    BY <2>1, <2>2, MaxUpTo
  <2> QED
    BY <2>1, <2>3
<1>8. Scanned(base, q) = f[n]
  BY <1>5
<1> HIDE DEF f
<1>9. ScannedRun(f, base, q, n)
  BY <1>6, <1>7, <1>8 DEF ScannedRun
<1> QED
  BY <1>9, Zenon

(* What bytes q of the mouse do. *)
Moused(base, q) == FoldLeft(mouse_byte, base, q)
MousedRun(f, base, q, n) ==
    f[0] = base /\ (\A k \in 1..n : f[k] = mouse_byte(f[k - 1], q[k])) /\ Moused(base, q) = f[n]

(* The mouse's bytes are handled one by one. *)
LEMMA MousedFold ==
  ASSUME NEW base, NEW q, NEW n \in Nat, DOMAIN q = 1..n
  PROVE  \E f : MousedRun(f, base, q, n)
<1> DEFINE Eq(g, Ts) == g = [s \in Ts |-> IF s = {} THEN base ELSE mouse_byte(g[s \ {Max(s)}], q[Max(s)])]
           S == {m \in Nat : \E g : Eq(g, Within(m, n))}
<1>1. 0 \in S
  <2> DEFINE g == [s \in {{}} |-> base]
  <2>1. Eq(g, {{}})
    <3>1. \A s \in {{}} : s = {}
      OBVIOUS
    <3> QED
      BY <3>1, Zenon
  <2> QED
    BY <2>1, WithinFacts
<1>2. ASSUME NEW m \in Nat, m \in S PROVE m + 1 \in S
  <2>1. PICK g : Eq(g, Within(m, n))
    BY <1>2
  <2> DEFINE h == [s \in Within(m + 1, n) |->
                     IF s = {} THEN base ELSE mouse_byte(g[s \ {Max(s)}], q[Max(s)])]
  <2>2. \A s \in Within(m, n) : h[s] = g[s]
    <3>1. \A s \in Within(m, n) : h[s] = IF s = {} THEN base ELSE mouse_byte(g[s \ {Max(s)}], q[Max(s)])
      BY WithinFacts, Zenon
    <3>2. \A s \in Within(m, n) : g[s] = IF s = {} THEN base ELSE mouse_byte(g[s \ {Max(s)}], q[Max(s)])
      BY <2>1, Zenon
    <3> QED
      BY <3>1, <3>2, Zenon
  <2>3. \A s \in Within(m + 1, n) : s # {} => s \ {Max(s)} \in Within(m, n)
    BY WithinFacts
  <2>4. Eq(h, Within(m + 1, n))
    BY <2>2, <2>3, Zenon
  <2> HIDE DEF h
  <2>5. \E j : Eq(j, Within(m + 1, n))
    BY <2>4, Zenon
  <2> HIDE DEF Eq
  <2> QED
    BY <2>5
<1>3. PICK g : Eq(g, SUBSET (1..n))
  <2> HIDE DEF S
  <2>1. n \in S
    BY <1>1, <1>2, SetInduction
  <2> QED
    BY <2>1, WithinFacts DEF S
<1> DEFINE i == CHOOSE j : Eq(j, SUBSET (1..n))
<1>4. Eq(i, SUBSET (1..n))
  BY <1>3, Zenon
<1>5. Moused(base, q) = i[1..n]
  BY Zenon DEF Moused, FoldLeft, MapThenFoldSet
<1> HIDE DEF i
<1> DEFINE f == [k \in 0..n |-> i[1..k]]
<1>6. f[0] = base
  <2>1. 1..0 = {} /\ {} \in SUBSET (1..n)
    OBVIOUS
  <2>2. i[{}] = base
    BY <1>4, <2>1, Zenon
  <2> QED
    BY <2>1, <2>2
<1>7. ASSUME NEW k \in 1..n PROVE f[k] = mouse_byte(f[k - 1], q[k])
  <2>1. 1..k \in SUBSET (1..n) /\ 1..k # {} /\ k \in Nat \ {0} /\ k \in 0..n /\ k - 1 \in 0..n
    OBVIOUS
  <2>2. i[1..k] = mouse_byte(i[(1..k) \ {Max(1..k)}], q[Max(1..k)])
    BY <1>4, <2>1, Zenon
  <2>3. i[1..k] = mouse_byte(i[1..(k - 1)], q[k])
    BY <2>1, <2>2, MaxUpTo
  <2> QED
    BY <2>1, <2>3
<1>8. Moused(base, q) = f[n]
  BY <1>5
<1> HIDE DEF f
<1>9. MousedRun(f, base, q, n)
  BY <1>6, <1>7, <1>8 DEF MousedRun
<1> QED
  BY <1>9, Zenon

(* What the bytes q of the buffer will do to the keyboard's state. *)
Keyed(base, q) == FoldLeft(KbdTakes, base, q)
KeyedRun(f, base, q, n) ==
    f[0] = base /\ (\A k \in 1..n : f[k] = KbdTakes(f[k - 1], q[k])) /\ Keyed(base, q) = f[n]

(* The keyboard's bytes take effect one by one. *)
LEMMA KeyedFold ==
  ASSUME NEW base, NEW q, NEW n \in Nat, DOMAIN q = 1..n
  PROVE  \E f : KeyedRun(f, base, q, n)
<1> DEFINE Eq(g, Ts) == g = [s \in Ts |-> IF s = {} THEN base ELSE KbdTakes(g[s \ {Max(s)}], q[Max(s)])]
           S == {m \in Nat : \E g : Eq(g, Within(m, n))}
<1>1. 0 \in S
  <2> DEFINE g == [s \in {{}} |-> base]
  <2>1. Eq(g, {{}})
    <3>1. \A s \in {{}} : s = {}
      OBVIOUS
    <3> QED
      BY <3>1, Zenon
  <2> QED
    BY <2>1, WithinFacts
<1>2. ASSUME NEW m \in Nat, m \in S PROVE m + 1 \in S
  <2>1. PICK g : Eq(g, Within(m, n))
    BY <1>2
  <2> DEFINE h == [s \in Within(m + 1, n) |->
                     IF s = {} THEN base ELSE KbdTakes(g[s \ {Max(s)}], q[Max(s)])]
  <2>2. \A s \in Within(m, n) : h[s] = g[s]
    <3>1. \A s \in Within(m, n) : h[s] = IF s = {} THEN base ELSE KbdTakes(g[s \ {Max(s)}], q[Max(s)])
      BY WithinFacts, Zenon
    <3>2. \A s \in Within(m, n) : g[s] = IF s = {} THEN base ELSE KbdTakes(g[s \ {Max(s)}], q[Max(s)])
      BY <2>1, Zenon
    <3> QED
      BY <3>1, <3>2, Zenon
  <2>3. \A s \in Within(m + 1, n) : s # {} => s \ {Max(s)} \in Within(m, n)
    BY WithinFacts
  <2>4. Eq(h, Within(m + 1, n))
    BY <2>2, <2>3, Zenon
  <2> HIDE DEF h
  <2>5. \E j : Eq(j, Within(m + 1, n))
    BY <2>4, Zenon
  <2> HIDE DEF Eq
  <2> QED
    BY <2>5
<1>3. PICK g : Eq(g, SUBSET (1..n))
  <2> HIDE DEF S
  <2>1. n \in S
    BY <1>1, <1>2, SetInduction
  <2> QED
    BY <2>1, WithinFacts DEF S
<1> DEFINE i == CHOOSE j : Eq(j, SUBSET (1..n))
<1>4. Eq(i, SUBSET (1..n))
  BY <1>3, Zenon
<1>5. Keyed(base, q) = i[1..n]
  BY Zenon DEF Keyed, FoldLeft, MapThenFoldSet
<1> HIDE DEF i
<1> DEFINE f == [k \in 0..n |-> i[1..k]]
<1>6. f[0] = base
  <2>1. 1..0 = {} /\ {} \in SUBSET (1..n)
    OBVIOUS
  <2>2. i[{}] = base
    BY <1>4, <2>1, Zenon
  <2> QED
    BY <2>1, <2>2
<1>7. ASSUME NEW k \in 1..n PROVE f[k] = KbdTakes(f[k - 1], q[k])
  <2>1. 1..k \in SUBSET (1..n) /\ 1..k # {} /\ k \in Nat \ {0} /\ k \in 0..n /\ k - 1 \in 0..n
    OBVIOUS
  <2>2. i[1..k] = KbdTakes(i[(1..k) \ {Max(1..k)}], q[Max(1..k)])
    BY <1>4, <2>1, Zenon
  <2>3. i[1..k] = KbdTakes(i[1..(k - 1)], q[k])
    BY <2>1, <2>2, MaxUpTo
  <2> QED
    BY <2>1, <2>3
<1>8. Keyed(base, q) = f[n]
  BY <1>5
<1> HIDE DEF f
<1>9. KeyedRun(f, base, q, n)
  BY <1>6, <1>7, <1>8 DEF KeyedRun
<1> QED
  BY <1>9, Zenon

(* There is only one such run. *)
LEMMA KeyedFoldIs ==
  ASSUME NEW base, NEW q, NEW n \in Nat, DOMAIN q = 1..n,
         NEW h, h[0] = base, \A k \in 1..n : h[k] = KbdTakes(h[k - 1], q[k])
  PROVE  Keyed(base, q) = h[n]
<1>1. PICK f : KeyedRun(f, base, q, n)
  BY KeyedFold
<1> DEFINE S == {k \in Nat : k <= n => h[k] = f[k]}
<1>2. 0 \in S
  BY <1>1 DEF KeyedRun
<1>3. ASSUME NEW k \in Nat, k \in S PROVE k + 1 \in S
  <2>1. SUFFICES ASSUME k + 1 <= n PROVE h[k + 1] = f[k + 1]
    OBVIOUS
  <2>2. k + 1 \in 1..n /\ (k + 1) - 1 = k /\ h[k] = f[k]
    BY <2>1, <1>3
  <2>3. h[k + 1] = KbdTakes(h[k], q[k + 1]) /\ f[k + 1] = KbdTakes(f[k], q[k + 1])
    BY <2>2, <1>1 DEF KeyedRun
  <2> QED
    BY <2>2, <2>3
<1>4. n \in S
  <2> HIDE DEF S
  <2> QED
    BY <1>2, <1>3, SetInduction
<1> QED
  BY <1>1, <1>4 DEF KeyedRun

(* No element, and one element. *)
LEMMA KeyedFoldParts ==
  ASSUME NEW base
  PROVE  /\ Keyed(base, <<>>) = base
         /\ \A x : Keyed(base, <<x>>) = KbdTakes(base, x)
<1>1. Keyed(base, <<>>) = base
  <2>1. 0 \in Nat /\ DOMAIN <<>> = 1..0
    OBVIOUS
  <2> QED
    BY <2>1, KeyedFold DEF KeyedRun
<1>2. ASSUME NEW x PROVE Keyed(base, <<x>>) = KbdTakes(base, x)
  <2>1. 1 \in Nat /\ DOMAIN <<x>> = 1..1 /\ <<x>>[1] = x /\ 1 \in 1..1 /\ 1 - 1 = 0
    OBVIOUS
  <2>2. PICK f : KeyedRun(f, base, <<x>>, 1)
    BY <2>1, KeyedFold
  <2> QED
    BY <2>1, <2>2 DEF KeyedRun
<1> QED
  BY <1>1, <1>2

(* Two parts. *)
LEMMA KeyedFoldConcat ==
  ASSUME NEW base, NEW U, NEW q \in Seq(U), NEW r \in Seq(U)
  PROVE  Keyed(base, q \o r) = Keyed(Keyed(base, q), r)
<1> DEFINE m == Len(q)
           n == Len(r)
           s == q \o r
<1>1. /\ m \in Nat /\ n \in Nat /\ m + n \in Nat /\ DOMAIN q = 1..m /\ DOMAIN r = 1..n
      /\ DOMAIN s = 1..(m + n) /\ (\A k \in 1..m : s[k] = q[k]) /\ \A k \in 1..n : s[m + k] = r[k]
  OBVIOUS
<1> HIDE DEF m, n, s
<1>2. PICK f : KeyedRun(f, base, s, m + n)
  BY <1>1, KeyedFold
<1>3. Keyed(base, q) = f[m]
  <2>1. \A k \in 1..m : k \in 1..(m + n)
    BY <1>1
  <2>2. f[0] = base /\ \A k \in 1..m : f[k] = KbdTakes(f[k - 1], q[k])
    BY <1>1, <1>2, <2>1 DEF KeyedRun
  <2> QED
    BY <1>1, <2>2, KeyedFoldIs, SMTT(30)
<1> DEFINE h == [k \in 0..n |-> f[m + k]]
<1>4. h[0] = f[m] /\ h[n] = f[m + n]
  BY <1>1
<1>5. ASSUME NEW k \in 1..n PROVE h[k] = KbdTakes(h[k - 1], r[k])
  <2>1. PICK i \in 1..(m + n) : i = m + k /\ i - 1 = m + (k - 1)
    BY <1>1
  <2>2. f[i] = KbdTakes(f[i - 1], s[i])
    BY <1>2, <2>1 DEF KeyedRun
  <2>3. s[i] = r[k]
    BY <1>1, <2>1
  <2>4. k \in 0..n /\ k - 1 \in 0..n
    BY <1>1
  <2>5. h[k] = f[i] /\ h[k - 1] = f[i - 1]
    BY <2>1, <2>4
  <2> HIDE DEF h
  <2> QED
    BY <2>2, <2>3, <2>5
<1> HIDE DEF h
<1>6. Keyed(f[m], r) = h[n]
  <2>1. PICK b : b = f[m]
    OBVIOUS
  <2>2. h[0] = b /\ \A k \in 1..n : h[k] = KbdTakes(h[k - 1], r[k])
    BY <1>4, <1>5, <2>1
  <2>3. n \in Nat /\ DOMAIN r = 1..n
    BY <1>1
  <2>4. Keyed(b, r) = h[n]
    BY <2>2, <2>3, KeyedFoldIs
  <2> QED
    BY <2>1, <2>4, Zenon
<1>7. Keyed(base, s) = f[m + n]
  BY <1>2 DEF KeyedRun
<1>8. Keyed(base, s) = Keyed(f[m], r)
  BY <1>4, <1>6, <1>7, Zenon
<1>9. Keyed(base, s) = Keyed(Keyed(base, q), r)
  BY <1>3, <1>8, Zenon
<1> QED
  BY <1>9, Zenon DEF s

(* What the bytes q of the buffer will do to the mouse's state. *)
Packed(base, q) == FoldLeft(MouseTakes, base, q)
PackedRun(f, base, q, n) ==
    f[0] = base /\ (\A k \in 1..n : f[k] = MouseTakes(f[k - 1], q[k])) /\ Packed(base, q) = f[n]

(* The mouse's bytes take effect one by one. *)
LEMMA PackedFold ==
  ASSUME NEW base, NEW q, NEW n \in Nat, DOMAIN q = 1..n
  PROVE  \E f : PackedRun(f, base, q, n)
<1> DEFINE Eq(g, Ts) == g = [s \in Ts |-> IF s = {} THEN base ELSE MouseTakes(g[s \ {Max(s)}], q[Max(s)])]
           S == {m \in Nat : \E g : Eq(g, Within(m, n))}
<1>1. 0 \in S
  <2> DEFINE g == [s \in {{}} |-> base]
  <2>1. Eq(g, {{}})
    <3>1. \A s \in {{}} : s = {}
      OBVIOUS
    <3> QED
      BY <3>1, Zenon
  <2> QED
    BY <2>1, WithinFacts
<1>2. ASSUME NEW m \in Nat, m \in S PROVE m + 1 \in S
  <2>1. PICK g : Eq(g, Within(m, n))
    BY <1>2
  <2> DEFINE h == [s \in Within(m + 1, n) |->
                     IF s = {} THEN base ELSE MouseTakes(g[s \ {Max(s)}], q[Max(s)])]
  <2>2. \A s \in Within(m, n) : h[s] = g[s]
    <3>1. \A s \in Within(m, n) : h[s] = IF s = {} THEN base ELSE MouseTakes(g[s \ {Max(s)}], q[Max(s)])
      BY WithinFacts, Zenon
    <3>2. \A s \in Within(m, n) : g[s] = IF s = {} THEN base ELSE MouseTakes(g[s \ {Max(s)}], q[Max(s)])
      BY <2>1, Zenon
    <3> QED
      BY <3>1, <3>2, Zenon
  <2>3. \A s \in Within(m + 1, n) : s # {} => s \ {Max(s)} \in Within(m, n)
    BY WithinFacts
  <2>4. Eq(h, Within(m + 1, n))
    BY <2>2, <2>3, Zenon
  <2> HIDE DEF h
  <2>5. \E j : Eq(j, Within(m + 1, n))
    BY <2>4, Zenon
  <2> HIDE DEF Eq
  <2> QED
    BY <2>5
<1>3. PICK g : Eq(g, SUBSET (1..n))
  <2> HIDE DEF S
  <2>1. n \in S
    BY <1>1, <1>2, SetInduction
  <2> QED
    BY <2>1, WithinFacts DEF S
<1> DEFINE i == CHOOSE j : Eq(j, SUBSET (1..n))
<1>4. Eq(i, SUBSET (1..n))
  BY <1>3, Zenon
<1>5. Packed(base, q) = i[1..n]
  BY Zenon DEF Packed, FoldLeft, MapThenFoldSet
<1> HIDE DEF i
<1> DEFINE f == [k \in 0..n |-> i[1..k]]
<1>6. f[0] = base
  <2>1. 1..0 = {} /\ {} \in SUBSET (1..n)
    OBVIOUS
  <2>2. i[{}] = base
    BY <1>4, <2>1, Zenon
  <2> QED
    BY <2>1, <2>2
<1>7. ASSUME NEW k \in 1..n PROVE f[k] = MouseTakes(f[k - 1], q[k])
  <2>1. 1..k \in SUBSET (1..n) /\ 1..k # {} /\ k \in Nat \ {0} /\ k \in 0..n /\ k - 1 \in 0..n
    OBVIOUS
  <2>2. i[1..k] = MouseTakes(i[(1..k) \ {Max(1..k)}], q[Max(1..k)])
    BY <1>4, <2>1, Zenon
  <2>3. i[1..k] = MouseTakes(i[1..(k - 1)], q[k])
    BY <2>1, <2>2, MaxUpTo
  <2> QED
    BY <2>1, <2>3
<1>8. Packed(base, q) = f[n]
  BY <1>5
<1> HIDE DEF f
<1>9. PackedRun(f, base, q, n)
  BY <1>6, <1>7, <1>8 DEF PackedRun
<1> QED
  BY <1>9, Zenon

(* There is only one such run. *)
LEMMA PackedFoldIs ==
  ASSUME NEW base, NEW q, NEW n \in Nat, DOMAIN q = 1..n,
         NEW h, h[0] = base, \A k \in 1..n : h[k] = MouseTakes(h[k - 1], q[k])
  PROVE  Packed(base, q) = h[n]
<1>1. PICK f : PackedRun(f, base, q, n)
  BY PackedFold
<1> DEFINE S == {k \in Nat : k <= n => h[k] = f[k]}
<1>2. 0 \in S
  BY <1>1 DEF PackedRun
<1>3. ASSUME NEW k \in Nat, k \in S PROVE k + 1 \in S
  <2>1. SUFFICES ASSUME k + 1 <= n PROVE h[k + 1] = f[k + 1]
    OBVIOUS
  <2>2. k + 1 \in 1..n /\ (k + 1) - 1 = k /\ h[k] = f[k]
    BY <2>1, <1>3
  <2>3. h[k + 1] = MouseTakes(h[k], q[k + 1]) /\ f[k + 1] = MouseTakes(f[k], q[k + 1])
    BY <2>2, <1>1 DEF PackedRun
  <2> QED
    BY <2>2, <2>3
<1>4. n \in S
  <2> HIDE DEF S
  <2> QED
    BY <1>2, <1>3, SetInduction
<1> QED
  BY <1>1, <1>4 DEF PackedRun

(* No element, and one element. *)
LEMMA PackedFoldParts ==
  ASSUME NEW base
  PROVE  /\ Packed(base, <<>>) = base
         /\ \A x : Packed(base, <<x>>) = MouseTakes(base, x)
<1>1. Packed(base, <<>>) = base
  <2>1. 0 \in Nat /\ DOMAIN <<>> = 1..0
    OBVIOUS
  <2> QED
    BY <2>1, PackedFold DEF PackedRun
<1>2. ASSUME NEW x PROVE Packed(base, <<x>>) = MouseTakes(base, x)
  <2>1. 1 \in Nat /\ DOMAIN <<x>> = 1..1 /\ <<x>>[1] = x /\ 1 \in 1..1 /\ 1 - 1 = 0
    OBVIOUS
  <2>2. PICK f : PackedRun(f, base, <<x>>, 1)
    BY <2>1, PackedFold
  <2> QED
    BY <2>1, <2>2 DEF PackedRun
<1> QED
  BY <1>1, <1>2

(* Two parts. *)
LEMMA PackedFoldConcat ==
  ASSUME NEW base, NEW U, NEW q \in Seq(U), NEW r \in Seq(U)
  PROVE  Packed(base, q \o r) = Packed(Packed(base, q), r)
<1> DEFINE m == Len(q)
           n == Len(r)
           s == q \o r
<1>1. /\ m \in Nat /\ n \in Nat /\ m + n \in Nat /\ DOMAIN q = 1..m /\ DOMAIN r = 1..n
      /\ DOMAIN s = 1..(m + n) /\ (\A k \in 1..m : s[k] = q[k]) /\ \A k \in 1..n : s[m + k] = r[k]
  OBVIOUS
<1> HIDE DEF m, n, s
<1>2. PICK f : PackedRun(f, base, s, m + n)
  BY <1>1, PackedFold
<1>3. Packed(base, q) = f[m]
  <2>1. \A k \in 1..m : k \in 1..(m + n)
    BY <1>1
  <2>2. f[0] = base /\ \A k \in 1..m : f[k] = MouseTakes(f[k - 1], q[k])
    BY <1>1, <1>2, <2>1 DEF PackedRun
  <2> QED
    BY <1>1, <2>2, PackedFoldIs, SMTT(30)
<1> DEFINE h == [k \in 0..n |-> f[m + k]]
<1>4. h[0] = f[m] /\ h[n] = f[m + n]
  BY <1>1
<1>5. ASSUME NEW k \in 1..n PROVE h[k] = MouseTakes(h[k - 1], r[k])
  <2>1. PICK i \in 1..(m + n) : i = m + k /\ i - 1 = m + (k - 1)
    BY <1>1
  <2>2. f[i] = MouseTakes(f[i - 1], s[i])
    BY <1>2, <2>1 DEF PackedRun
  <2>3. s[i] = r[k]
    BY <1>1, <2>1
  <2>4. k \in 0..n /\ k - 1 \in 0..n
    BY <1>1
  <2>5. h[k] = f[i] /\ h[k - 1] = f[i - 1]
    BY <2>1, <2>4
  <2> HIDE DEF h
  <2> QED
    BY <2>2, <2>3, <2>5
<1> HIDE DEF h
<1>6. Packed(f[m], r) = h[n]
  <2>1. PICK b : b = f[m]
    OBVIOUS
  <2>2. h[0] = b /\ \A k \in 1..n : h[k] = MouseTakes(h[k - 1], r[k])
    BY <1>4, <1>5, <2>1
  <2>3. n \in Nat /\ DOMAIN r = 1..n
    BY <1>1
  <2>4. Packed(b, r) = h[n]
    BY <2>2, <2>3, PackedFoldIs
  <2> QED
    BY <2>1, <2>4, Zenon
<1>7. Packed(base, s) = f[m + n]
  BY <1>2 DEF PackedRun
<1>8. Packed(base, s) = Packed(f[m], r)
  BY <1>4, <1>6, <1>7, Zenon
<1>9. Packed(base, s) = Packed(Packed(base, q), r)
  BY <1>3, <1>8, Zenon
<1> QED
  BY <1>9, Zenon DEF s

(* How far the events q go. *)
Summed(base, q) == FoldLeft(Travel, base, q)
SummedRun(f, base, q, n) ==
    f[0] = base /\ (\A k \in 1..n : f[k] = Travel(f[k - 1], q[k])) /\ Summed(base, q) = f[n]

(* Events add up one by one. *)
LEMMA SummedFold ==
  ASSUME NEW base, NEW q, NEW n \in Nat, DOMAIN q = 1..n
  PROVE  \E f : SummedRun(f, base, q, n)
<1> DEFINE Eq(g, Ts) == g = [s \in Ts |-> IF s = {} THEN base ELSE Travel(g[s \ {Max(s)}], q[Max(s)])]
           S == {m \in Nat : \E g : Eq(g, Within(m, n))}
<1>1. 0 \in S
  <2> DEFINE g == [s \in {{}} |-> base]
  <2>1. Eq(g, {{}})
    <3>1. \A s \in {{}} : s = {}
      OBVIOUS
    <3> QED
      BY <3>1, Zenon
  <2> QED
    BY <2>1, WithinFacts
<1>2. ASSUME NEW m \in Nat, m \in S PROVE m + 1 \in S
  <2>1. PICK g : Eq(g, Within(m, n))
    BY <1>2
  <2> DEFINE h == [s \in Within(m + 1, n) |->
                     IF s = {} THEN base ELSE Travel(g[s \ {Max(s)}], q[Max(s)])]
  <2>2. \A s \in Within(m, n) : h[s] = g[s]
    <3>1. \A s \in Within(m, n) : h[s] = IF s = {} THEN base ELSE Travel(g[s \ {Max(s)}], q[Max(s)])
      BY WithinFacts, Zenon
    <3>2. \A s \in Within(m, n) : g[s] = IF s = {} THEN base ELSE Travel(g[s \ {Max(s)}], q[Max(s)])
      BY <2>1, Zenon
    <3> QED
      BY <3>1, <3>2, Zenon
  <2>3. \A s \in Within(m + 1, n) : s # {} => s \ {Max(s)} \in Within(m, n)
    BY WithinFacts
  <2>4. Eq(h, Within(m + 1, n))
    BY <2>2, <2>3, Zenon
  <2> HIDE DEF h
  <2>5. \E j : Eq(j, Within(m + 1, n))
    BY <2>4, Zenon
  <2> HIDE DEF Eq
  <2> QED
    BY <2>5
<1>3. PICK g : Eq(g, SUBSET (1..n))
  <2> HIDE DEF S
  <2>1. n \in S
    BY <1>1, <1>2, SetInduction
  <2> QED
    BY <2>1, WithinFacts DEF S
<1> DEFINE i == CHOOSE j : Eq(j, SUBSET (1..n))
<1>4. Eq(i, SUBSET (1..n))
  BY <1>3, Zenon
<1>5. Summed(base, q) = i[1..n]
  BY Zenon DEF Summed, FoldLeft, MapThenFoldSet
<1> HIDE DEF i
<1> DEFINE f == [k \in 0..n |-> i[1..k]]
<1>6. f[0] = base
  <2>1. 1..0 = {} /\ {} \in SUBSET (1..n)
    OBVIOUS
  <2>2. i[{}] = base
    BY <1>4, <2>1, Zenon
  <2> QED
    BY <2>1, <2>2
<1>7. ASSUME NEW k \in 1..n PROVE f[k] = Travel(f[k - 1], q[k])
  <2>1. 1..k \in SUBSET (1..n) /\ 1..k # {} /\ k \in Nat \ {0} /\ k \in 0..n /\ k - 1 \in 0..n
    OBVIOUS
  <2>2. i[1..k] = Travel(i[(1..k) \ {Max(1..k)}], q[Max(1..k)])
    BY <1>4, <2>1, Zenon
  <2>3. i[1..k] = Travel(i[1..(k - 1)], q[k])
    BY <2>1, <2>2, MaxUpTo
  <2> QED
    BY <2>1, <2>3
<1>8. Summed(base, q) = f[n]
  BY <1>5
<1> HIDE DEF f
<1>9. SummedRun(f, base, q, n)
  BY <1>6, <1>7, <1>8 DEF SummedRun
<1> QED
  BY <1>9, Zenon

(* There is only one such run. *)
LEMMA SummedFoldIs ==
  ASSUME NEW base, NEW q, NEW n \in Nat, DOMAIN q = 1..n,
         NEW h, h[0] = base, \A k \in 1..n : h[k] = Travel(h[k - 1], q[k])
  PROVE  Summed(base, q) = h[n]
<1>1. PICK f : SummedRun(f, base, q, n)
  BY SummedFold
<1> DEFINE S == {k \in Nat : k <= n => h[k] = f[k]}
<1>2. 0 \in S
  BY <1>1 DEF SummedRun
<1>3. ASSUME NEW k \in Nat, k \in S PROVE k + 1 \in S
  <2>1. SUFFICES ASSUME k + 1 <= n PROVE h[k + 1] = f[k + 1]
    OBVIOUS
  <2>2. k + 1 \in 1..n /\ (k + 1) - 1 = k /\ h[k] = f[k]
    BY <2>1, <1>3
  <2>3. h[k + 1] = Travel(h[k], q[k + 1]) /\ f[k + 1] = Travel(f[k], q[k + 1])
    BY <2>2, <1>1 DEF SummedRun
  <2> QED
    BY <2>2, <2>3
<1>4. n \in S
  <2> HIDE DEF S
  <2> QED
    BY <1>2, <1>3, SetInduction
<1> QED
  BY <1>1, <1>4 DEF SummedRun

(* No element, and one element. *)
LEMMA SummedFoldParts ==
  ASSUME NEW base
  PROVE  /\ Summed(base, <<>>) = base
         /\ \A x : Summed(base, <<x>>) = Travel(base, x)
<1>1. Summed(base, <<>>) = base
  <2>1. 0 \in Nat /\ DOMAIN <<>> = 1..0
    OBVIOUS
  <2> QED
    BY <2>1, SummedFold DEF SummedRun
<1>2. ASSUME NEW x PROVE Summed(base, <<x>>) = Travel(base, x)
  <2>1. 1 \in Nat /\ DOMAIN <<x>> = 1..1 /\ <<x>>[1] = x /\ 1 \in 1..1 /\ 1 - 1 = 0
    OBVIOUS
  <2>2. PICK f : SummedRun(f, base, <<x>>, 1)
    BY <2>1, SummedFold
  <2> QED
    BY <2>1, <2>2 DEF SummedRun
<1> QED
  BY <1>1, <1>2

(* Two parts. *)
LEMMA SummedFoldConcat ==
  ASSUME NEW base, NEW U, NEW q \in Seq(U), NEW r \in Seq(U)
  PROVE  Summed(base, q \o r) = Summed(Summed(base, q), r)
<1> DEFINE m == Len(q)
           n == Len(r)
           s == q \o r
<1>1. /\ m \in Nat /\ n \in Nat /\ m + n \in Nat /\ DOMAIN q = 1..m /\ DOMAIN r = 1..n
      /\ DOMAIN s = 1..(m + n) /\ (\A k \in 1..m : s[k] = q[k]) /\ \A k \in 1..n : s[m + k] = r[k]
  OBVIOUS
<1> HIDE DEF m, n, s
<1>2. PICK f : SummedRun(f, base, s, m + n)
  BY <1>1, SummedFold
<1>3. Summed(base, q) = f[m]
  <2>1. \A k \in 1..m : k \in 1..(m + n)
    BY <1>1
  <2>2. f[0] = base /\ \A k \in 1..m : f[k] = Travel(f[k - 1], q[k])
    BY <1>1, <1>2, <2>1 DEF SummedRun
  <2> QED
    BY <1>1, <2>2, SummedFoldIs, SMTT(30)
<1> DEFINE h == [k \in 0..n |-> f[m + k]]
<1>4. h[0] = f[m] /\ h[n] = f[m + n]
  BY <1>1
<1>5. ASSUME NEW k \in 1..n PROVE h[k] = Travel(h[k - 1], r[k])
  <2>1. PICK i \in 1..(m + n) : i = m + k /\ i - 1 = m + (k - 1)
    BY <1>1
  <2>2. f[i] = Travel(f[i - 1], s[i])
    BY <1>2, <2>1 DEF SummedRun
  <2>3. s[i] = r[k]
    BY <1>1, <2>1
  <2>4. k \in 0..n /\ k - 1 \in 0..n
    BY <1>1
  <2>5. h[k] = f[i] /\ h[k - 1] = f[i - 1]
    BY <2>1, <2>4
  <2> HIDE DEF h
  <2> QED
    BY <2>2, <2>3, <2>5
<1> HIDE DEF h
<1>6. Summed(f[m], r) = h[n]
  <2>1. PICK b : b = f[m]
    OBVIOUS
  <2>2. h[0] = b /\ \A k \in 1..n : h[k] = Travel(h[k - 1], r[k])
    BY <1>4, <1>5, <2>1
  <2>3. n \in Nat /\ DOMAIN r = 1..n
    BY <1>1
  <2>4. Summed(b, r) = h[n]
    BY <2>2, <2>3, SummedFoldIs
  <2> QED
    BY <2>1, <2>4, Zenon
<1>7. Summed(base, s) = f[m + n]
  BY <1>2 DEF SummedRun
<1>8. Summed(base, s) = Summed(f[m], r)
  BY <1>4, <1>6, <1>7, Zenon
<1>9. Summed(base, s) = Summed(Summed(base, q), r)
  BY <1>3, <1>8, Zenon
<1> QED
  BY <1>9, Zenon DEF s

-----------------------------------------------------------------------------
(* The keyboard's handler *)

Byte == 0..255
KeyMods == {"shift", "ctrl", "alt", "caps"}
Runes == {"a", "A", "1", "!", " ", ""}
KbdType == [m : SUBSET KeyMods, e0 : BOOLEAN, out : Seq(Runes)]

(* t begins with s. *)
Grew(s, t) == Len(s) <= Len(t) /\ \A i \in 1..Len(s) : t[i] = s[i]

(* The tables. *)
LEMMA KeyMap ==
  ASSUME NEW k \in 0..127
  PROVE  /\ k \in {42, 54} => modifier_scancodes[k] = {"shift"}
         /\ k = 29 => modifier_scancodes[k] = {"ctrl"}
         /\ k = 56 => modifier_scancodes[k] = {"alt"}
         /\ k \notin {42, 54, 29, 56} => modifier_scancodes[k] = {}
         /\ k \in {42, 54, 29, 56, 58} => scancode_to_rune[k] = "" /\ scancode_to_rune_shift[k] = ""
         /\ scancode_to_rune[k] \in Runes /\ scancode_to_rune_shift[k] \in Runes
<1>1. modifier_scancodes[k] = CASE k \in {42, 54} -> {"shift"} [] k = 29 -> {"ctrl"} [] k = 56 -> {"alt"}
                                [] OTHER -> {}
  BY Zenon DEF modifier_scancodes
<1>2. scancode_to_rune[k] = CASE k = 30 -> "a" [] k = 2 -> "1" [] k = 57 -> " " [] OTHER -> ""
  BY Zenon DEF scancode_to_rune
<1>3. scancode_to_rune_shift[k] = CASE k = 30 -> "A" [] k = 2 -> "!" [] OTHER -> ""
  BY Zenon DEF scancode_to_rune_shift
<1>4. scancode_to_rune[k] \in Runes /\ scancode_to_rune_shift[k] \in Runes
  BY <1>2, <1>3 DEF Runes
<1>5. k \in {42, 54, 29, 56, 58} => k # 30 /\ k # 2 /\ k # 57
  OBVIOUS
<1>6. k \in {42, 54, 29, 56, 58} => scancode_to_rune[k] = "" /\ scancode_to_rune_shift[k] = ""
  BY <1>2, <1>3, <1>5
<1>7. /\ k \in {42, 54} => modifier_scancodes[k] = {"shift"}
      /\ k = 29 => modifier_scancodes[k] = {"ctrl"}
      /\ k = 56 => modifier_scancodes[k] = {"alt"}
      /\ k \notin {42, 54, 29, 56} => modifier_scancodes[k] = {}
  BY <1>1
<1> QED
  BY <1>4, <1>6, <1>7

(* The rune of a key that is pressed. *)
LEMMA RuneFacts ==
  ASSUME NEW m, NEW key \in 0..127
  PROVE  /\ Rune(m, key) \in Runes /\ Meant(key) \in Runes
         /\ key \in {42, 54, 29, 56, 58} => Meant(key) = ""
         /\ ("shift" \in m <=> shift_held) /\ ("caps" \in m <=> caps_lock)
            /\ shift_held \in BOOLEAN /\ caps_lock \in BOOLEAN => Rune(m, key) = Meant(key)
<1>1. PICK b, u, x : b = scancode_to_rune[key] /\ u = scancode_to_rune_shift[key] /\ x = ""
  BY Zenon
<1>2. Rune(m, key) = IF b \in Letters THEN IF ("shift" \in m) # ("caps" \in m) /\ u # x THEN u ELSE b
                     ELSE IF "shift" \in m /\ u # x THEN u ELSE b
  BY <1>1, Zenon DEF Rune
<1>3. Meant(key) = IF (IF b \in Letters THEN shift_held # caps_lock ELSE shift_held) /\ u # x THEN u ELSE b
  BY <1>1, Zenon DEF Meant
<1>4. Rune(m, key) \in {b, u} /\ Meant(key) \in {b, u}
  BY <1>2, <1>3, Zenon
<1>5. b \in Runes /\ u \in Runes /\ (key \in {42, 54, 29, 56, 58} => b = "" /\ u = "")
  BY <1>1, KeyMap
<1>6. key \in {42, 54, 29, 56, 58} => Meant(key) = ""
  BY <1>4, <1>5, Zenon
<1>7. ASSUME "shift" \in m <=> shift_held, "caps" \in m <=> caps_lock, shift_held \in BOOLEAN, caps_lock \in BOOLEAN
      PROVE  Rune(m, key) = Meant(key)
  <2>1. (("shift" \in m) # ("caps" \in m)) <=> (shift_held # caps_lock)
    BY <1>7
  <2>2. CASE b \in Letters /\ (("shift" \in m) # ("caps" \in m))
    <3>1. Rune(m, key) = IF u # x THEN u ELSE b
      BY <1>2, <2>2, Zenon
    <3>2. shift_held # caps_lock
      BY <2>1, <2>2, Zenon
    <3>3. Meant(key) = IF u # x THEN u ELSE b
      BY <1>3, <2>2, <3>2, Zenon
    <3> QED
      BY <3>1, <3>3
  <2>3. CASE b \in Letters /\ ~(("shift" \in m) # ("caps" \in m))
    <3>1. Rune(m, key) = b /\ ~(shift_held # caps_lock)
      BY <1>2, <2>1, <2>3, Zenon
    <3>2. Meant(key) = b
      BY <1>3, <2>3, <3>1, Zenon
    <3> QED
      BY <3>1, <3>2
  <2>4. CASE b \notin Letters
    <3>1. Rune(m, key) = IF "shift" \in m /\ u # x THEN u ELSE b
      BY <1>2, <2>4, Zenon
    <3>2. Meant(key) = IF shift_held /\ u # x THEN u ELSE b
      BY <1>3, <2>4, Zenon
    <3>3. CASE shift_held
      <4>1. "shift" \in m
        BY <1>7, <3>3, Zenon
      <4> QED
        BY <3>1, <3>2, <3>3, <4>1
    <3>4. CASE ~shift_held
      <4>1. "shift" \notin m
        BY <1>7, <3>4, Zenon
      <4> QED
        BY <3>1, <3>2, <3>4, <4>1
    <3> QED
      BY <3>3, <3>4, Zenon
  <2> QED
    BY <2>2, <2>3, <2>4, Zenon
<1> QED
  BY <1>4, <1>5, <1>6, <1>7, Zenon

(* What the handler makes of a scancode. *)
KbdIs(r, m, e, o) == r = [m |-> m, e0 |-> e, out |-> o]
Steady(m, n) == n \in SUBSET KeyMods /\ ("shift" \in n <=> "shift" \in m) /\ ("caps" \in n <=> "caps" \in m)

ScanShape(k, b, key, release, r) ==
    /\ b = 224 => KbdIs(r, k.m, TRUE, k.out)
    /\ b # 224 /\ k.e0 => \E n : Steady(k.m, n) /\ KbdIs(r, n, FALSE, k.out)
    /\ b # 224 /\ ~k.e0 /\ key = 58 =>
         \E n \in SUBSET KeyMods : /\ KbdIs(r, n, FALSE, k.out) /\ ("shift" \in n <=> "shift" \in k.m)
                                   /\ ("caps" \in n <=> IF release THEN "caps" \in k.m ELSE "caps" \notin k.m)
    /\ b # 224 /\ ~k.e0 /\ key \in {42, 54} =>
         \E n \in SUBSET KeyMods : /\ KbdIs(r, n, FALSE, k.out) /\ ("shift" \in n <=> ~release)
                                   /\ ("caps" \in n <=> "caps" \in k.m)
    /\ b # 224 /\ ~k.e0 /\ key \in {29, 56} => \E n : Steady(k.m, n) /\ KbdIs(r, n, FALSE, k.out)
    /\ b # 224 /\ ~k.e0 /\ key \notin {42, 54, 29, 56, 58} =>
         KbdIs(r, k.m, FALSE, IF release \/ Rune(k.m, key) = "" THEN k.out
                              ELSE Append(k.out, Rune(k.m, key)))

LEMMA ScanIs ==
  ASSUME NEW k \in KbdType, NEW b \in Byte, NEW r, r = kbd_handle_scancode(k, b)
  PROVE  ScanShape(k, b, b % 128, b >= 128, r)
<1>0. PICK key, release : key = b % 128 /\ release = (b >= 128)
  OBVIOUS
<1>1. key \in 0..127
  BY <1>0 DEF Byte
<1>2. PICK m, e, o : m = k.m /\ e = k.e0 /\ o = k.out /\ k = [m |-> m, e0 |-> e, out |-> o]
                     /\ m \in SUBSET KeyMods /\ e \in BOOLEAN
  BY DEF KbdType
<1>3. \A n, f, p : /\ [k EXCEPT !.m = n] = [m |-> n, e0 |-> e, out |-> o]
                   /\ [k EXCEPT !.e0 = f] = [m |-> m, e0 |-> f, out |-> o]
                   /\ [k EXCEPT !.out = p] = [m |-> m, e0 |-> e, out |-> p]
  BY <1>2
<1>4. \A f, n : /\ [[k EXCEPT !.e0 = f] EXCEPT !.m = n] = [m |-> n, e0 |-> f, out |-> o]
                /\ [k EXCEPT !.e0 = f].m = m
  <2>1. \A f, n : /\ [[m |-> m, e0 |-> f, out |-> o] EXCEPT !.m = n] = [m |-> n, e0 |-> f, out |-> o]
                  /\ [m |-> m, e0 |-> f, out |-> o].m = m
    OBVIOUS
  <2> QED
    BY <1>3, <2>1, Zenon
<1>5. r = CASE b = 224 -> [k EXCEPT !.e0 = TRUE]
            [] b # 224 /\ k.e0 ->
                 CASE key = 29 -> SetModifier([k EXCEPT !.e0 = FALSE], {"ctrl"}, release)
                   [] key = 56 -> SetModifier([k EXCEPT !.e0 = FALSE], {"alt"}, release)
                   [] OTHER -> [k EXCEPT !.e0 = FALSE]
            [] b # 224 /\ ~k.e0 /\ key = 58 ->
                 IF release THEN k
                 ELSE IF "caps" \in k.m THEN [k EXCEPT !.m = k.m \ {"caps"}]
                 ELSE [k EXCEPT !.m = k.m \cup {"caps"}]
            [] b # 224 /\ ~k.e0 /\ key # 58 /\ modifier_scancodes[key] # {} ->
                 SetModifier(k, modifier_scancodes[key], release)
            [] OTHER -> IF release \/ Rune(k.m, key) = "" THEN k
                        ELSE [k EXCEPT !.out = Append(k.out, Rune(k.m, key))]
  BY <1>0, Zenon DEF kbd_handle_scancode
<1>6. \A s \in SUBSET KeyMods : (m \ s) \in SUBSET KeyMods /\ (m \cup s) \in SUBSET KeyMods
  BY <1>2
<1>7. \A s : /\ SetModifier(k, s, release) = [m |-> IF release THEN m \ s ELSE m \cup s, e0 |-> e, out |-> o]
             /\ SetModifier([k EXCEPT !.e0 = FALSE], s, release) =
                  [m |-> IF release THEN m \ s ELSE m \cup s, e0 |-> FALSE, out |-> o]
  BY <1>2, <1>3, <1>4, Zenon DEF SetModifier
<1>8. \A s \in {{"ctrl"}, {"alt"}} : Steady(m, IF release THEN m \ s ELSE m \cup s)
  BY <1>2 DEF Steady, KeyMods
<1>9. ASSUME b = 224 PROVE KbdIs(r, k.m, TRUE, k.out)
  BY <1>2, <1>3, <1>5, <1>9, Zenon DEF KbdIs
<1>10. ASSUME b # 224, k.e0 PROVE \E n : Steady(k.m, n) /\ KbdIs(r, n, FALSE, k.out)
  <2>1. r = CASE key = 29 -> SetModifier([k EXCEPT !.e0 = FALSE], {"ctrl"}, release)
              [] key = 56 -> SetModifier([k EXCEPT !.e0 = FALSE], {"alt"}, release)
              [] OTHER -> [k EXCEPT !.e0 = FALSE]
    BY <1>5, <1>10, Zenon
  <2>2. ASSUME NEW s \in {{"ctrl"}, {"alt"}}, r = SetModifier([k EXCEPT !.e0 = FALSE], s, release)
        PROVE  \E n : Steady(k.m, n) /\ KbdIs(r, n, FALSE, k.out)
    <3>1. PICK n : n = IF release THEN m \ s ELSE m \cup s
      OBVIOUS
    <3>2. Steady(m, n) /\ KbdIs(r, n, FALSE, o)
      BY <1>7, <1>8, <2>2, <3>1, Zenon DEF KbdIs
    <3> QED
      BY <1>2, <3>2, Zenon
  <2>3. CASE key = 29 \/ key = 56
    <3>1. ~(56 = 29)
      OBVIOUS
    <3>2. \E s \in {{"ctrl"}, {"alt"}} : r = SetModifier([k EXCEPT !.e0 = FALSE], s, release)
      BY <2>1, <2>3, <3>1, Zenon
    <3> QED
      BY <2>2, <3>2, Zenon
  <2>4. CASE key # 29 /\ key # 56
    <3>1. r = [m |-> m, e0 |-> FALSE, out |-> o] /\ Steady(m, m)
      BY <1>2, <1>3, <2>1, <2>4, Zenon DEF Steady
    <3> QED
      BY <1>2, <3>1, Zenon DEF KbdIs
  <2> QED
    BY <2>3, <2>4, Zenon
<1>11. ASSUME b # 224, ~k.e0, key = 58
       PROVE  \E n \in SUBSET KeyMods : /\ KbdIs(r, n, FALSE, k.out) /\ ("shift" \in n <=> "shift" \in k.m)
                                        /\ ("caps" \in n <=> IF release THEN "caps" \in k.m ELSE "caps" \notin k.m)
  <2>1. r = IF release THEN k ELSE IF "caps" \in k.m THEN [k EXCEPT !.m = k.m \ {"caps"}]
                              ELSE [k EXCEPT !.m = k.m \cup {"caps"}]
    BY <1>5, <1>11, Zenon
  <2>2. e = FALSE
    BY <1>2, <1>11
  <2>3. CASE release
    BY <1>2, <2>1, <2>2, <2>3, Zenon DEF KbdIs
  <2>4. CASE ~release /\ "caps" \in m
    <3>1. KbdIs(r, m \ {"caps"}, FALSE, o)
      BY <1>2, <1>3, <2>1, <2>2, <2>4, Zenon DEF KbdIs
    <3>2. (m \ {"caps"}) \in SUBSET KeyMods /\ ("shift" \in m \ {"caps"} <=> "shift" \in m) /\ "caps" \notin m \ {"caps"}
      BY <1>2
    <3> QED
      BY <1>2, <2>4, <3>1, <3>2, Zenon
  <2>5. CASE ~release /\ "caps" \notin m
    <3>1. KbdIs(r, m \cup {"caps"}, FALSE, o)
      BY <1>2, <1>3, <2>1, <2>2, <2>5, Zenon DEF KbdIs
    <3>2. (m \cup {"caps"}) \in SUBSET KeyMods /\ ("shift" \in m \cup {"caps"} <=> "shift" \in m) /\ "caps" \in m \cup {"caps"}
      BY <1>2 DEF KeyMods
    <3> QED
      BY <1>2, <2>5, <3>1, <3>2, Zenon
  <2> QED
    BY <1>2, <2>3, <2>4, <2>5, Zenon
<1>12. ASSUME b # 224, ~k.e0, key # 58, modifier_scancodes[key] # {}
       PROVE  r = [m |-> IF release THEN m \ modifier_scancodes[key] ELSE m \cup modifier_scancodes[key],
                   e0 |-> FALSE, out |-> o]
  <2>1. e = FALSE
    BY <1>2, <1>12
  <2>2. r = SetModifier(k, modifier_scancodes[key], release)
    BY <1>5, <1>12, Zenon
  <2> QED
    BY <1>7, <2>1, <2>2, Zenon
<1>13. ASSUME b # 224, ~k.e0, key \in {42, 54}
       PROVE  \E n \in SUBSET KeyMods : /\ KbdIs(r, n, FALSE, k.out) /\ ("shift" \in n <=> ~release)
                                        /\ ("caps" \in n <=> "caps" \in k.m)
  <2>1. PICK n : n = IF release THEN m \ {"shift"} ELSE m \cup {"shift"}
    OBVIOUS
  <2>2. KbdIs(r, n, FALSE, o)
    <3>1. key # 58 /\ {"shift"} # {}
      BY <1>13
    <3>2. modifier_scancodes[key] = {"shift"}
      BY <1>1, <1>13, KeyMap, Zenon
    <3> QED
      BY <1>12, <1>13, <2>1, <3>1, <3>2, ZenonT(60) DEF KbdIs
  <2>3. n \in SUBSET KeyMods /\ ("shift" \in n <=> ~release) /\ ("caps" \in n <=> "caps" \in m)
    BY <1>2, <2>1 DEF KeyMods
  <2> QED
    BY <1>2, <2>2, <2>3, Zenon
<1>14. ASSUME b # 224, ~k.e0, key \in {29, 56} PROVE \E n : Steady(k.m, n) /\ KbdIs(r, n, FALSE, k.out)
  <2>3. modifier_scancodes[key] \in {{"ctrl"}, {"alt"}}
    <3>1. key = 29 \/ key = 56
      BY <1>14
    <3>2. /\ key = 29 => modifier_scancodes[key] = {"ctrl"}
          /\ key = 56 => modifier_scancodes[key] = {"alt"}
      BY <1>1, KeyMap, Zenon
    <3> QED
      BY <3>1, <3>2, Zenon
  <2>1. PICK s \in {{"ctrl"}, {"alt"}} : modifier_scancodes[key] = s /\ s # {} /\ key # 58
    BY <1>14, <2>3
  <2>2. KbdIs(r, IF release THEN m \ s ELSE m \cup s, FALSE, o)
    BY <1>12, <1>14, <2>1, Zenon DEF KbdIs
  <2> QED
    BY <1>2, <1>8, <2>2, Zenon
<1>15. ASSUME b # 224, ~k.e0, key \notin {42, 54, 29, 56, 58}
       PROVE  KbdIs(r, k.m, FALSE, IF release \/ Rune(k.m, key) = "" THEN k.out
                                   ELSE Append(k.out, Rune(k.m, key)))
  <2>1. modifier_scancodes[key] = {} /\ key # 58
    BY <1>1, <1>15, KeyMap
  <2>2. r = IF release \/ Rune(k.m, key) = "" THEN k
            ELSE [k EXCEPT !.out = Append(k.out, Rune(k.m, key))]
    BY <1>5, <1>15, <2>1, Zenon
  <2>3. e = FALSE
    BY <1>2, <1>15
  <2> QED
    BY <1>2, <1>3, <2>2, <2>3, Zenon DEF KbdIs
<1>16. ScanShape(k, b, key, release, r)
  BY <1>9, <1>10, <1>11, <1>13, <1>14, <1>15, Zenon DEF ScanShape
<1> QED
  BY <1>0, <1>16, Zenon

(* Runes are only added. *)
LEMMA GrewFacts ==
  ASSUME NEW U, NEW s \in Seq(U)
  PROVE  /\ Grew(s, s)
         /\ \A t \in Seq(U), u \in Seq(U) : Grew(s, t) /\ Grew(t, u) => Grew(s, u)
         /\ \A x : Grew(s, Append(s, x))
         /\ \A t \in Seq(U) : Grew(s, t) => IsPrefix(s, t)
<1>1. Grew(s, s)
  BY DEF Grew
<1>2. ASSUME NEW t \in Seq(U), NEW u \in Seq(U), Grew(s, t), Grew(t, u) PROVE Grew(s, u)
  <2>1. Len(s) \in Nat /\ Len(t) \in Nat /\ Len(u) \in Nat /\ Len(s) <= Len(u)
    BY <1>2 DEF Grew
  <2>2. \A i \in 1..Len(s) : i \in 1..Len(t)
    BY <1>2, <2>1 DEF Grew
  <2> QED
    BY <1>2, <2>1, <2>2, Zenon DEF Grew
<1>3. ASSUME NEW x PROVE Grew(s, Append(s, x))
  BY DEF Grew
<1>4. ASSUME NEW t \in Seq(U), Grew(s, t) PROVE IsPrefix(s, t)
  <2>1. Len(s) <= Len(t) /\ s = SubSeq(t, 1, Len(s))
    BY <1>4 DEF Grew
  <2>2. SubSeq(s, 1, Len(s)) = s
    OBVIOUS
  <2>3. DOMAIN s = 1..Len(s)
    OBVIOUS
  <2> QED
    BY <2>1, <2>2, <2>3 DEF IsPrefix
<1> QED
  BY <1>1, <1>2, <1>3, <1>4

LEMMA ScanGoes ==
  ASSUME NEW k \in KbdType, NEW b \in Byte, NEW r, r = kbd_handle_scancode(k, b)
  PROVE  r \in KbdType /\ Grew(k.out, r.out)
<1>1. PICK key, release : key = b % 128 /\ release = (b >= 128) /\ key \in 0..127
  BY DEF Byte
<1>0. ScanShape(k, b, key, release, r)
  <2>1. ScanShape(k, b, b % 128, b >= 128, r)
    BY ScanIs
  <2> QED
    BY <1>1, <2>1, Zenon
<1>2. k.m \in SUBSET KeyMods /\ k.e0 \in BOOLEAN /\ k.out \in Seq(Runes)
  BY DEF KbdType
<1>3. ASSUME NEW n \in SUBSET KeyMods, NEW e \in BOOLEAN, NEW o \in Seq(Runes), Grew(k.out, o), KbdIs(r, n, e, o)
      PROVE  r \in KbdType /\ Grew(k.out, r.out)
  BY <1>3 DEF KbdIs, KbdType
<1>4. Grew(k.out, k.out)
  BY <1>2, GrewFacts
<1>5. CASE b = 224
  <2>1. KbdIs(r, k.m, TRUE, k.out)
    BY <1>0, <1>5, Zenon DEF ScanShape
  <2> QED
    BY <1>2, <1>3, <1>4, <2>1
<1>6. CASE \E n \in SUBSET KeyMods : KbdIs(r, n, FALSE, k.out)
  BY <1>2, <1>3, <1>4, <1>6
<1>7. CASE b # 224 /\ (k.e0 \/ key \in {42, 54, 29, 56, 58})
  <2>1. key \in {42, 54, 29, 56, 58} => key = 58 \/ key \in {42, 54} \/ key \in {29, 56}
    OBVIOUS
  <2>2. \E n \in SUBSET KeyMods : KbdIs(r, n, FALSE, k.out)
    <3>1. CASE k.e0
      BY <1>0, <1>7, <3>1, Zenon DEF ScanShape, Steady
    <3>2. CASE ~k.e0 /\ key = 58
      <4>1. \E n \in SUBSET KeyMods :
               /\ KbdIs(r, n, FALSE, k.out) /\ ("shift" \in n <=> "shift" \in k.m)
               /\ ("caps" \in n <=> IF release THEN "caps" \in k.m ELSE "caps" \notin k.m)
        BY <1>0, <1>7, <3>2, Zenon DEF ScanShape
      <4> QED
        BY <4>1
    <3>3. CASE ~k.e0 /\ key \in {42, 54}
      <4>1. \E n \in SUBSET KeyMods : /\ KbdIs(r, n, FALSE, k.out) /\ ("shift" \in n <=> ~release)
                                      /\ ("caps" \in n <=> "caps" \in k.m)
        BY <1>0, <1>7, <3>3, Zenon DEF ScanShape
      <4> QED
        BY <4>1
    <3>4. CASE ~k.e0 /\ key \in {29, 56}
      <4>1. \E n : Steady(k.m, n) /\ KbdIs(r, n, FALSE, k.out)
        BY <1>0, <1>7, <3>4, Zenon DEF ScanShape
      <4> QED
        BY <4>1, Zenon DEF Steady
    <3> QED
      BY <1>7, <2>1, <3>1, <3>2, <3>3, <3>4, Zenon
  <2> QED
    BY <1>6, <2>2
<1>8. CASE b # 224 /\ ~k.e0 /\ key \notin {42, 54, 29, 56, 58}
  <2>1. KbdIs(r, k.m, FALSE, IF release \/ Rune(k.m, key) = "" THEN k.out ELSE Append(k.out, Rune(k.m, key)))
    BY <1>0, <1>8, Zenon DEF ScanShape
  <2>2. PICK x \in Runes : x = Rune(k.m, key)
    BY <1>1, RuneFacts
  <2>3. Append(k.out, x) \in Seq(Runes) /\ Grew(k.out, Append(k.out, x))
    BY <1>2, <2>2, GrewFacts
  <2>4. KbdIs(r, k.m, FALSE, k.out) \/ KbdIs(r, k.m, FALSE, Append(k.out, x))
    BY <2>1, <2>2, Zenon
  <2> QED
    BY <1>2, <1>3, <1>4, <2>3, <2>4
<1> QED
  BY <1>5, <1>7, <1>8

(* What waits in the buffer. *)
InByte == [aux : BOOLEAN, byte : Byte]

LEMMA KeyedFacts ==
  ASSUME NEW k \in KbdType, NEW q \in Seq(InByte), NEW r, r = Keyed(k, q)
  PROVE  r \in KbdType /\ Grew(k.out, r.out)
<1>1. PICK n : n = Len(q) /\ n \in Nat /\ DOMAIN q = 1..n
  OBVIOUS
<1>2. PICK f : KeyedRun(f, k, q, n)
  BY <1>1, KeyedFold
<1> DEFINE S == {i \in Nat : i <= n => f[i] \in KbdType /\ Grew(k.out, f[i].out)}
<1>3. 0 \in S
  <2>1. k.out \in Seq(Runes) /\ f[0] = k
    BY <1>2 DEF KbdType, KeyedRun
  <2> QED
    BY <2>1, GrewFacts
<1>4. ASSUME NEW i \in Nat, i \in S PROVE i + 1 \in S
  <2>1. SUFFICES ASSUME i + 1 <= n PROVE f[i + 1] \in KbdType /\ Grew(k.out, f[i + 1].out)
    OBVIOUS
  <2>2. i + 1 \in 1..n /\ (i + 1) - 1 = i /\ f[i] \in KbdType /\ Grew(k.out, f[i].out)
    BY <1>1, <1>4, <2>1
  <2>3. PICK b \in InByte : b = q[i + 1]
    BY <1>1, <2>2
  <2>4. PICK g, h : g = f[i] /\ h = f[i + 1]
    OBVIOUS
  <2>5. h = KbdTakes(g, b)
    BY <1>2, <2>2, <2>3, <2>4, Zenon DEF KeyedRun
  <2>6. g \in KbdType /\ Grew(k.out, g.out) /\ b.byte \in Byte
    BY <2>2, <2>3, <2>4 DEF InByte
  <2>7. CASE b.aux
    BY <2>4, <2>5, <2>6, <2>7, Zenon DEF KbdTakes
  <2>8. CASE ~b.aux
    <3>1. h = kbd_handle_scancode(g, b.byte)
      BY <2>5, <2>8, Zenon DEF KbdTakes
    <3>2. h \in KbdType /\ Grew(g.out, h.out)
      BY <2>6, <3>1, ScanGoes, Zenon
    <3>3. k.out \in Seq(Runes) /\ g.out \in Seq(Runes) /\ h.out \in Seq(Runes)
      BY <2>6, <3>2 DEF KbdType
    <3>4. Grew(k.out, h.out)
      BY <2>6, <3>2, <3>3, GrewFacts, Zenon
    <3> QED
      BY <2>4, <3>2, <3>4
  <2> QED
    BY <2>7, <2>8
<1>5. n \in S
  <2> HIDE DEF S
  <2> QED
    BY <1>1, <1>3, <1>4, SetInduction
<1> QED
  BY <1>1, <1>2, <1>5 DEF KeyedRun

(* Its own bytes are all the keyboard's handler needs, and the mouse's do  *)
(* nothing to the keyboard.                                                *)
LEMMA KeyedRead ==
  ASSUME NEW k, NEW q, NEW n \in Nat, DOMAIN q = 1..n
  PROVE  /\ (\A i \in 1..n : q[i].aux) => Keyed(k, q) = k
         /\ (\A i \in 1..n : ~q[i].aux) =>
              \A bs : bs = [i \in 1..n |-> q[i].byte] => Scanned(k, bs) = Keyed(k, q)
<1>1. ASSUME \A i \in 1..n : q[i].aux PROVE Keyed(k, q) = k
  <2> DEFINE h == [i \in 0..n |-> k]
  <2>1. h[0] = k /\ h[n] = k /\ \A i \in 1..n : h[i] = k /\ h[i - 1] = k
    OBVIOUS
  <2> HIDE DEF h
  <2>2. \A i \in 1..n : h[i] = KbdTakes(h[i - 1], q[i])
    BY <1>1, <2>1, Zenon DEF KbdTakes
  <2> QED
    BY <2>1, <2>2, KeyedFoldIs
<1>2. ASSUME \A i \in 1..n : ~q[i].aux, NEW bs, bs = [i \in 1..n |-> q[i].byte]
      PROVE  Scanned(k, bs) = Keyed(k, q)
  <2>1. DOMAIN bs = 1..n /\ \A i \in 1..n : bs[i] = q[i].byte
    BY <1>2
  <2>2. PICK f : ScannedRun(f, k, bs, n)
    BY <2>1, ScannedFold
  <2>3. f[0] = k /\ (\A i \in 1..n : f[i] = kbd_handle_scancode(f[i - 1], bs[i])) /\ Scanned(k, bs) = f[n]
    BY <2>2 DEF ScannedRun
  <2>4. \A i \in 1..n : f[i] = KbdTakes(f[i - 1], q[i])
    BY <1>2, <2>1, <2>3, Zenon DEF KbdTakes
  <2>5. Keyed(k, q) = f[n]
    BY <2>3, <2>4, KeyedFoldIs
  <2> QED
    BY <2>3, <2>5
<1> QED
  BY <1>1, <1>2

-----------------------------------------------------------------------------
(* A key *)

(* The keyboard's state k is what the user left: runes o, shift s, caps    *)
(* lock c.                                                                 *)
KbdSays(k, o, s, c) ==
    /\ k \in KbdType /\ ~k.e0 /\ k.out = o
    /\ "shift" \in k.m <=> s
    /\ "caps" \in k.m <=> c

(* The last byte of a key's code. *)
LastByte(k, release) == IF release THEN k + 128 ELSE k

Codes(b, k, release) == b \in Byte /\ b # 224 /\ k = b % 128 /\ (release <=> b >= 128)

LEMMA LastByteFacts ==
  ASSUME NEW k \in 0..127 \ {96}, NEW release \in BOOLEAN
  PROVE  Codes(LastByte(k, release), k, release)
<1>0. PICK b : b = LastByte(k, release)
  OBVIOUS
<1>1. CASE release
  <2>1. b = k + 128
    BY <1>0, <1>1 DEF LastByte
  <2>2. (k + 128) % 128 = k
    OBVIOUS
  <2>3. b >= 128 /\ b \in Byte /\ b # 224
    BY <2>1 DEF Byte
  <2> QED
    BY <1>1, <2>1, <2>2, <2>3, <1>0, Zenon DEF Codes
<1>2. CASE ~release
  <2>1. b = k
    BY <1>0, <1>2 DEF LastByte
  <2>2. k % 128 = k
    OBVIOUS
  <2>3. ~(b >= 128) /\ b \in Byte /\ b # 224
    BY <2>1 DEF Byte
  <2> QED
    BY <1>2, <2>1, <2>2, <2>3, <1>0, Zenon DEF Codes
<1> QED
  BY <1>1, <1>2

(* What a key k does to the state of modifiers m, giving r. *)
KeySays(k, release, m, r, o, s, c) ==
    /\ k = 58 => KbdSays(r, o, s, IF release THEN c ELSE ~c)
    /\ k \in {42, 54} => KbdSays(r, o, ~release, c)
    /\ k \in {29, 56} => KbdSays(r, o, s, c)
    /\ k \notin {42, 54, 29, 56, 58} =>
         KbdSays(r, IF release \/ Rune(m, k) = "" THEN o ELSE Append(o, Rune(m, k)), s, c)

(* A key without prefix, by what it is. *)
LEMMA SingleKey ==
  ASSUME NEW k \in 0..127 \ {96}, NEW release \in BOOLEAN, NEW b, b = LastByte(k, release),
         NEW g, NEW o, NEW s \in BOOLEAN, NEW c \in BOOLEAN, KbdSays(g, o, s, c),
         NEW r, r = kbd_handle_scancode(g, b)
  PROVE  KeySays(k, release, g.m, r, o, s, c)
<1>1. b \in Byte /\ b # 224 /\ k = b % 128 /\ (release <=> b >= 128)
  <2>1. Codes(LastByte(k, release), k, release)
    BY LastByteFacts
  <2>2. Codes(b, k, release)
    BY <2>1
  <2> QED
    BY <2>2, Zenon DEF Codes
<1>0. release = (b >= 128)
  BY <1>1
<1>2. /\ g \in KbdType /\ ~g.e0 /\ g.out = o
      /\ "shift" \in g.m <=> s
      /\ "caps" \in g.m <=> c
  BY Zenon DEF KbdSays
<1>3. ScanShape(g, b, k, release, r) /\ r \in KbdType
  <2>1. ScanShape(g, b, b % 128, b >= 128, r) /\ r \in KbdType
    BY <1>1, <1>2, ScanIs, ScanGoes
  <2> QED
    BY <1>0, <1>1, <2>1, Zenon
<1>5. \A n, p, t, d : KbdIs(r, n, FALSE, p) /\ ("shift" \in n <=> t) /\ ("caps" \in n <=> d) => KbdSays(r, p, t, d)
  <2>1. ASSUME NEW n, NEW p, KbdIs(r, n, FALSE, p) PROVE r.m = n /\ r.out = p /\ ~r.e0
    BY <2>1 DEF KbdIs
  <2> QED
    BY <1>3, <2>1, Zenon DEF KbdSays
<1>6. ASSUME k = 58 PROVE KbdSays(r, o, s, IF release THEN c ELSE ~c)
  <2>1. PICK n \in SUBSET KeyMods :
                 /\ KbdIs(r, n, FALSE, g.out) /\ ("shift" \in n <=> "shift" \in g.m)
                 /\ ("caps" \in n <=> IF release THEN "caps" \in g.m ELSE "caps" \notin g.m)
    BY <1>1, <1>2, <1>3, <1>6, Zenon DEF ScanShape
  <2>2. KbdIs(r, n, FALSE, o) /\ ("shift" \in n <=> s)
    BY <1>2, <2>1, Zenon
  <2>3. CASE release
    BY <1>2, <1>5, <2>1, <2>2, <2>3, Zenon
  <2>4. CASE ~release
    <3>1. "caps" \in n <=> ~c
      BY <1>2, <2>1, <2>4, Zenon
    <3>2. (IF release THEN c ELSE ~c) = ~c
      BY <2>4, Zenon
    <3>3. KbdSays(r, o, s, ~c)
      BY <1>5, <2>2, <3>1, Zenon
    <3> QED
      BY <3>2, <3>3, Zenon
  <2> QED
    BY <2>3, <2>4, Zenon
<1>7. ASSUME k \in {42, 54} PROVE KbdSays(r, o, ~release, c)
  <2>1. PICK n \in SUBSET KeyMods : /\ KbdIs(r, n, FALSE, g.out) /\ ("shift" \in n <=> ~release)
                                    /\ ("caps" \in n <=> "caps" \in g.m)
    BY <1>1, <1>2, <1>3, <1>7, Zenon DEF ScanShape
  <2> QED
    BY <1>2, <1>5, <2>1, Zenon
<1>8. ASSUME k \in {29, 56} PROVE KbdSays(r, o, s, c)
  <2>1. \E n : Steady(g.m, n) /\ KbdIs(r, n, FALSE, g.out)
    BY <1>1, <1>2, <1>3, <1>8, Zenon DEF ScanShape
  <2> QED
    BY <1>2, <1>5, <2>1, Zenon DEF Steady
<1>9. ASSUME k \notin {42, 54, 29, 56, 58}
      PROVE  KbdSays(r, IF release \/ Rune(g.m, k) = "" THEN o ELSE Append(o, Rune(g.m, k)), s, c)
  <2>1. KbdIs(r, g.m, FALSE, IF release \/ Rune(g.m, k) = "" THEN o ELSE Append(o, Rune(g.m, k)))
    BY <1>1, <1>2, <1>3, <1>9, Zenon DEF ScanShape
  <2> QED
    BY <1>2, <1>5, <2>1, Zenon
<1> QED
  BY <1>6, <1>7, <1>8, <1>9, Zenon DEF KeySays

(* After the prefix a code means no rune, no shift and no caps lock. *)
LEMMA PrefixedKey ==
  ASSUME NEW k \in 0..127 \ {96}, NEW release \in BOOLEAN, NEW b, b = LastByte(k, release),
         NEW g, NEW o, NEW s, NEW c, KbdSays(g, o, s, c),
         NEW p, p = kbd_handle_scancode(g, 224),
         NEW r, r = kbd_handle_scancode(p, b)
  PROVE  KbdSays(r, o, s, c)
<1>1. b \in Byte /\ b # 224 /\ k = b % 128 /\ (release <=> b >= 128)
  <2>1. Codes(LastByte(k, release), k, release)
    BY LastByteFacts
  <2>2. Codes(b, k, release)
    BY <2>1
  <2> QED
    BY <2>2, Zenon DEF Codes
<1>0. release = (b >= 128)
  BY <1>1
<1>2. /\ g \in KbdType /\ ~g.e0 /\ g.out = o
      /\ "shift" \in g.m <=> s
      /\ "caps" \in g.m <=> c
  BY DEF KbdSays
<1>3. p \in KbdType /\ p.m = g.m /\ p.e0 = TRUE /\ p.out = o
  <2>1. 224 \in Byte
    BY DEF Byte
  <2>3. ScanShape(g, 224, 224 % 128, 224 >= 128, p) /\ p \in KbdType
    BY <1>2, <2>1, ScanIs, ScanGoes, Zenon
  <2>4. KbdIs(p, g.m, TRUE, g.out)
    BY <2>3, Zenon DEF ScanShape
  <2> QED
    BY <1>2, <2>3, <2>4 DEF KbdIs
<1>4. ScanShape(p, b, k, release, r) /\ r \in KbdType
  <2>1. p \in KbdType /\ b \in Byte
    BY <1>1, <1>3
  <2>2. ScanShape(p, b, b % 128, b >= 128, r) /\ r \in KbdType
    BY <2>1, ScanIs, ScanGoes, ZenonT(60)
  <2> QED
    BY <1>0, <1>1, <2>2, Zenon
<1>5. \E n : Steady(p.m, n) /\ KbdIs(r, n, FALSE, p.out)
  BY <1>1, <1>3, <1>4, Zenon DEF ScanShape
<1>6. PICK n : Steady(g.m, n) /\ KbdIs(r, n, FALSE, o)
  BY <1>3, <1>5
<1>7. r.m = n /\ r.out = o /\ r.e0 = FALSE
  BY <1>6 DEF KbdIs
<1> QED
  BY <1>2, <1>4, <1>6, <1>7 DEF KbdSays, Steady

-----------------------------------------------------------------------------
(* The mouse's handler *)

Event == [dx : Int, dy : Int, buttons : 0..7]
MouseType == {m \in [buf : Seq(Byte), x : Int, y : Int, buttons : 0..7, out : Seq(Event)] :
                Len(m.buf) < 3 /\ m.x = Travelled(m.out)}

LEMMA ByteFacts ==
  /\ \A n \in Nat : n < 3 => n < 2 \/ n = 2
  /\ \A b \in Byte : b % 8 \in 0..7
  /\ <<>> \in Seq(Byte) /\ Len(<<>>) < 3
BY DEF Byte

LEMMA AppendFacts ==
  ASSUME NEW U, NEW q \in Seq(U), NEW x
  PROVE  /\ Len(q) \in Nat /\ Len(Append(q, x)) = Len(q) + 1 /\ Append(q, x)[Len(q) + 1] = x
         /\ \A i \in 1..Len(q) : Append(q, x)[i] = q[i] /\ q[i] \in U
OBVIOUS

LEMMA ThirdByte ==
  ASSUME NEW q \in Seq(Byte), Len(q) = 2, NEW x
  PROVE  /\ q # <<>> /\ q[1] \in Byte /\ q[2] \in Byte /\ ~(Len(q) < 2) /\ ~(Len(Append(q, x)) < 3)
         /\ Append(q, x)[1] = q[1] /\ Append(q, x)[2] = q[2] /\ Append(q, x)[3] = x
<1>1. 1 \in 1..2 /\ 2 \in 1..2 /\ 2 + 1 = 3 /\ ~(3 < 3) /\ ~(2 < 2) /\ Len(<<>>) = 0 /\ 0 # 2
  OBVIOUS
<1>2. \A n : Len(q) = n => /\ Len(Append(q, x)) = n + 1 /\ Append(q, x)[n + 1] = x
                          /\ \A i \in 1..n : Append(q, x)[i] = q[i] /\ q[i] \in Byte
  <2>1. /\ Len(Append(q, x)) = Len(q) + 1 /\ Append(q, x)[Len(q) + 1] = x
        /\ \A i \in 1..Len(q) : Append(q, x)[i] = q[i] /\ q[i] \in Byte
    BY AppendFacts
  <2> QED
    BY <2>1, Zenon
<1>3. /\ Len(Append(q, x)) = 2 + 1 /\ Append(q, x)[2 + 1] = x
      /\ \A i \in 1..2 : Append(q, x)[i] = q[i] /\ q[i] \in Byte
  BY <1>2, Zenon
<1> QED
  BY <1>1, <1>3, Zenon

LEMMA TravelFacts ==
  ASSUME NEW es \in Seq(Event), NEW e \in Event
  PROVE  Travelled(<<>>) = 0 /\ Travelled(Append(es, e)) = Travelled(es) + e.dx
<1>1. Travelled(<<>>) = 0
  BY SummedFoldParts DEF Travelled, Summed
<1>2. Append(es, e) = es \o <<e>> /\ <<e>> \in Seq(Event)
  OBVIOUS
<1>3. Summed(0, es \o <<e>>) = Summed(Summed(0, es), <<e>>)
  <2>1. PICK r : r = <<e>> /\ r \in Seq(Event)
    BY <1>2
  <2>3. PICK z : z = 0
    OBVIOUS
  <2>4. r \in Seq(Event)
    BY <2>1
  <2>2. Summed(z, es \o r) = Summed(Summed(z, es), r)
    BY <2>4, SummedFoldConcat
  <2> QED
    BY <2>1, <2>2, <2>3, Zenon
<1>4. Summed(Summed(0, es), <<e>>) = Travel(Summed(0, es), e)
  BY SummedFoldParts
<1> QED
  BY <1>1, <1>2, <1>3, <1>4, Zenon DEF Travelled, Summed, Travel

LEMMA DeltaType ==
  ASSUME NEW b \in Byte, NEW flags, NEW sign, NEW overflow
  PROVE  Delta(b, flags, sign, overflow) \in Int
<1>1. 0 \in Int /\ b - 256 \in Int /\ b \in Int
  BY DEF Byte
<1> QED
  BY <1>1, Zenon DEF Delta, Signed

(* The packet that a third byte completes. *)
EventOf(buf, data) ==
    [dx |-> Delta(buf[2], buf[1], 16, 64), dy |-> -Delta(data, buf[1], 32, 128), buttons |-> buf[1] % 8]

LEMMA MouseOnIs ==
  ASSUME NEW m \in MouseType, NEW data \in Byte, NEW r, r = MouseOn(m, data)
  PROVE  /\ m.buf = <<>> /\ ~Bit(data, 8) => r = m
         /\ Len(m.buf) < 2 /\ ~(m.buf = <<>> /\ ~Bit(data, 8)) =>
              r = [buf |-> Append(m.buf, data), x |-> m.x, y |-> m.y, buttons |-> m.buttons, out |-> m.out]
         /\ Len(m.buf) = 2 =>
              /\ r = [buf |-> <<>>, x |-> m.x + EventOf(m.buf, data).dx, y |-> m.y + EventOf(m.buf, data).dy,
                      buttons |-> EventOf(m.buf, data).buttons, out |-> Append(m.out, EventOf(m.buf, data))]
              /\ EventOf(m.buf, data) \in Event
<1>1. PICK buf, x, y, buttons, out : /\ m = [buf |-> buf, x |-> x, y |-> y, buttons |-> buttons, out |-> out]
                                     /\ buf \in Seq(Byte)
  BY DEF MouseType
<1>2. m.buf = buf /\ m.x = x /\ m.y = y /\ m.buttons = buttons /\ m.out = out
  BY <1>1
<1>3. ASSUME Len(buf) < 2, ~(buf = <<>> /\ ~Bit(data, 8))
      PROVE  r = [buf |-> Append(buf, data), x |-> x, y |-> y, buttons |-> buttons, out |-> out]
  <2>1. r = [m EXCEPT !.buf = Append(buf, data)]
    BY <1>2, <1>3, Zenon DEF MouseOn
  <2> QED
    BY <1>1, <2>1
<1>4. ASSUME Len(buf) = 2
      PROVE  /\ r = [buf |-> <<>>, x |-> x + EventOf(buf, data).dx, y |-> y + EventOf(buf, data).dy,
                     buttons |-> EventOf(buf, data).buttons, out |-> Append(out, EventOf(buf, data))]
             /\ EventOf(buf, data) \in Event
  <2>1. buf # <<>> /\ ~(Len(buf) < 2) /\ buf[1] \in Byte /\ buf[2] \in Byte /\ buf[1] % 8 \in 0..7
    <3>1. PICK q : q = buf /\ q \in Seq(Byte) /\ Len(q) = 2
      BY <1>1, <1>4
    <3>2. q # <<>> /\ q[1] \in Byte /\ q[2] \in Byte
      BY <3>1
    <3>3. q[1] % 8 \in 0..7
      BY <3>2, ByteFacts, Zenon
    <3> QED
      BY <1>4, <3>1, <3>2, <3>3
  <2>2. PICK dx, dy, bs : /\ dx = Delta(buf[2], buf[1], 16, 64) /\ dy = -Delta(data, buf[1], 32, 128)
                          /\ bs = buf[1] % 8
    OBVIOUS
  <2>3. r = [buf |-> <<>>, x |-> x + dx, y |-> y + dy, buttons |-> bs,
             out |-> Append(out, [dx |-> dx, dy |-> dy, buttons |-> bs])]
    BY <1>2, <2>1, <2>2, Zenon DEF MouseOn
  <2>4. EventOf(buf, data) = [dx |-> dx, dy |-> dy, buttons |-> bs]
    BY <2>2, Zenon DEF EventOf
  <2>5. Delta(buf[2], buf[1], 16, 64) \in Int /\ Delta(data, buf[1], 32, 128) \in Int
    BY <2>1, DeltaType
  <2>6. dx \in Int /\ dy \in Int
    BY <2>2, <2>5
  <2>7. EventOf(buf, data) \in Event
    BY <2>1, <2>2, <2>4, <2>6 DEF Event
  <2>8. EventOf(buf, data).dx = dx /\ EventOf(buf, data).dy = dy /\ EventOf(buf, data).buttons = bs
    BY <2>4
  <2> QED
    BY <2>3, <2>4, <2>7, <2>8, Zenon
<1>5. buf = <<>> /\ ~Bit(data, 8) => r = m
  BY <1>2, Zenon DEF MouseOn
<1> QED
  BY <1>2, <1>3, <1>4, <1>5, Zenon

LEMMA MouseOnGoes ==
  ASSUME NEW m \in MouseType, NEW data \in Byte, NEW r, r = MouseOn(m, data)
  PROVE  r \in MouseType /\ Grew(m.out, r.out)
<1>1. /\ m.buf \in Seq(Byte) /\ m.x \in Int /\ m.y \in Int /\ m.buttons \in 0..7 /\ m.out \in Seq(Event)
      /\ Len(m.buf) \in Nat /\ Len(m.buf) < 3 /\ m.x = Travelled(m.out)
  BY DEF MouseType
<1>2. Grew(m.out, m.out)
  BY <1>1, GrewFacts
<1>3. CASE m.buf = <<>> /\ ~Bit(data, 8)
  <2>1. r = m
    BY <1>3, MouseOnIs, Zenon
  <2> QED
    BY <1>2, <2>1
<1>4. CASE Len(m.buf) < 2 /\ ~(m.buf = <<>> /\ ~Bit(data, 8))
  <2>1. r = [buf |-> Append(m.buf, data), x |-> m.x, y |-> m.y, buttons |-> m.buttons, out |-> m.out]
    BY <1>4, MouseOnIs, Zenon
  <2>2. PICK b : b = Append(m.buf, data) /\ b \in Seq(Byte) /\ Len(b) < 3
    <3>1. PICK q : q = m.buf /\ q \in Seq(Byte) /\ Len(q) < 2
      BY <1>1, <1>4, Zenon
    <3>2. Append(q, data) \in Seq(Byte) /\ Len(Append(q, data)) < 3
      BY <3>1
    <3> QED
      BY <3>1, <3>2
  <2>3. r.out = m.out /\ r.buf = b /\ r.x = m.x
    BY <2>1, <2>2
  <2>4. r \in [buf : Seq(Byte), x : Int, y : Int, buttons : 0..7, out : Seq(Event)]
    BY <1>1, <2>1, <2>2
  <2> QED
    BY <1>1, <1>2, <2>2, <2>3, <2>4, Zenon DEF MouseType
<1>5. CASE Len(m.buf) = 2
  <2>1. PICK e \in Event : r = [buf |-> <<>>, x |-> m.x + e.dx, y |-> m.y + e.dy, buttons |-> e.buttons,
                                out |-> Append(m.out, e)]
    BY <1>5, MouseOnIs, Zenon
  <2>2. PICK o : o = Append(m.out, e) /\ o \in Seq(Event) /\ Grew(m.out, o)
    <3>1. PICK q \in Seq(Event) : q = m.out
      BY <1>1, Zenon
    <3>2. Append(q, e) \in Seq(Event)
      BY <3>1
    <3>3. Grew(q, Append(q, e))
      BY GrewFacts, Zenon
    <3> QED
      BY <3>1, <3>2, <3>3
  <2>3. r.out = o /\ r.buf = <<>> /\ r.x = m.x + e.dx /\ Len(<<>>) < 3
    BY <2>1, <2>2
  <2>4. r \in [buf : Seq(Byte), x : Int, y : Int, buttons : 0..7, out : Seq(Event)]
    <3>1. m.x + e.dx \in Int /\ m.y + e.dy \in Int /\ e.buttons \in 0..7 /\ <<>> \in Seq(Byte)
      BY <1>1 DEF Event
    <3> QED
      BY <2>1, <2>2, <3>1
  <2>5. Travelled(o) = Travelled(m.out) + e.dx
    BY <1>1, <2>2, TravelFacts
  <2> QED
    BY <1>1, <2>2, <2>3, <2>4, <2>5, Zenon DEF MouseType
<1>6. Len(m.buf) < 2 \/ Len(m.buf) = 2
  <2>1. PICK n \in Nat : n = Len(m.buf) /\ n < 3
    BY <1>1, Zenon
  <2>2. n < 2 \/ n = 2
    BY <2>1, ByteFacts, Zenon
  <2> QED
    BY <2>1, <2>2, Zenon
<1> QED
  BY <1>3, <1>4, <1>5, <1>6, Zenon

(* While mousectl has the mouse off a packet is dropped. *)
LEMMA MouseByteIs ==
  ASSUME NEW m \in MouseType, NEW data \in Byte, NEW r, r = mouse_byte(m, data)
  PROVE  /\ mouse_enabled => r = MouseOn(m, data)
         /\ r \in MouseType /\ Grew(m.out, r.out)
<1>1. /\ m.buf \in Seq(Byte) /\ m.out \in Seq(Event) /\ Len(m.buf) \in Nat /\ Len(m.buf) < 3
      /\ m.x = Travelled(m.out)
  BY DEF MouseType
<1>2. PICK b : b = Append(m.buf, data) /\ Len(b) = Len(m.buf) + 1
  <2>1. PICK q \in Seq(Byte) : q = m.buf
    BY <1>1, Zenon
  <2>2. Len(Append(q, data)) = Len(q) + 1
    OBVIOUS
  <2> QED
    BY <2>1, <2>2, Zenon
<1>3. r = CASE m.buf = <<>> /\ ~Bit(data, 8) -> m
            [] Len(b) < 3 /\ (m.buf # <<>> \/ Bit(data, 8)) -> [m EXCEPT !.buf = b]
            [] OTHER -> IF mouse_enabled
                        THEN [buf |-> <<>>, x |-> m.x + Delta(b[2], b[1], 16, 64),
                              y |-> m.y + -Delta(b[3], b[1], 32, 128), buttons |-> b[1] % 8,
                              out |-> Append(m.out, [dx |-> Delta(b[2], b[1], 16, 64),
                                                     dy |-> -Delta(b[3], b[1], 32, 128), buttons |-> b[1] % 8])]
                        ELSE [m EXCEPT !.buf = <<>>]
  BY <1>2, Zenon DEF mouse_byte
<1>4. MouseOn(m, data) \in MouseType /\ Grew(m.out, MouseOn(m, data).out)
  BY MouseOnGoes, Zenon
<1>5. CASE m.buf = <<>> /\ ~Bit(data, 8)
  <2>1. r = m /\ MouseOn(m, data) = m
    BY <1>3, <1>5, Zenon DEF MouseOn
  <2> QED
    BY <1>4, <2>1
<1>6. CASE Len(m.buf) < 2 /\ ~(m.buf = <<>> /\ ~Bit(data, 8))
  <2>1. Len(b) < 3
    BY <1>1, <1>2, <1>6
  <2>2. r = [m EXCEPT !.buf = b]
    BY <1>3, <1>6, <2>1, Zenon
  <2>3. MouseOn(m, data) = [m EXCEPT !.buf = b]
    BY <1>2, <1>6, Zenon DEF MouseOn
  <2> QED
    BY <1>4, <2>2, <2>3
<1>7. CASE Len(m.buf) = 2
  <2>1. ~(Len(b) < 3) /\ m.buf # <<>> /\ b[1] = m.buf[1] /\ b[2] = m.buf[2] /\ b[3] = data /\ ~(Len(m.buf) < 2)
    <3>1. PICK q \in Seq(Byte) : q = m.buf
      BY <1>1, Zenon
    <3>2. Len(q) = 2 /\ b = Append(q, data)
      BY <1>2, <1>7, <3>1, Zenon
    <3>3. ~(Len(b) < 3) /\ q # <<>> /\ b[1] = q[1] /\ b[2] = q[2] /\ b[3] = data /\ ~(Len(q) < 2)
      BY <3>2, ThirdByte, Zenon
    <3> QED
      BY <3>1, <3>3, Zenon
  <2>2. CASE mouse_enabled
    <3>1. r = [buf |-> <<>>, x |-> m.x + Delta(b[2], b[1], 16, 64),
               y |-> m.y + -Delta(b[3], b[1], 32, 128), buttons |-> b[1] % 8,
               out |-> Append(m.out, [dx |-> Delta(b[2], b[1], 16, 64),
                                      dy |-> -Delta(b[3], b[1], 32, 128), buttons |-> b[1] % 8])]
      BY <1>3, <2>1, <2>2, Zenon
    <3>2. r = MouseOn(m, data)
      BY <2>1, <3>1, Zenon DEF MouseOn
    <3> QED
      BY <1>4, <3>2
  <2>3. CASE ~mouse_enabled
    <3>1. r = [m EXCEPT !.buf = <<>>]
      BY <1>3, <2>1, <2>3, Zenon
    <3>2. r \in [buf : Seq(Byte), x : Int, y : Int, buttons : 0..7, out : Seq(Event)] /\ r.buf = <<>>
          /\ r.out = m.out /\ r.x = m.x /\ Len(<<>>) < 3
      <4>1. PICK z : z = <<>> /\ z \in Seq(Byte) /\ Len(z) < 3
        BY ByteFacts, Zenon
      <4>2. m \in [buf : Seq(Byte), x : Int, y : Int, buttons : 0..7, out : Seq(Event)]
        BY DEF MouseType
      <4>3. r = [m EXCEPT !.buf = z]
        BY <3>1, <4>1, Zenon
      <4>4. /\ r \in [buf : Seq(Byte), x : Int, y : Int, buttons : 0..7, out : Seq(Event)] /\ r.buf = z
            /\ r.out = m.out /\ r.x = m.x
        BY <4>1, <4>2, <4>3
      <4> QED
        BY <4>1, <4>4, Zenon
    <3>3. r \in MouseType
      BY <1>1, <3>2, Zenon DEF MouseType
    <3> QED
      BY <1>1, <2>3, <3>2, <3>3, GrewFacts
  <2> QED
    BY <2>2, <2>3
<1>8. Len(m.buf) < 2 \/ Len(m.buf) = 2
  <2>1. PICK n \in Nat : n = Len(m.buf) /\ n < 3
    BY <1>1, Zenon
  <2>2. n < 2 \/ n = 2
    BY <2>1, ByteFacts, Zenon
  <2> QED
    BY <2>1, <2>2, Zenon
<1> QED
  BY <1>5, <1>6, <1>7, <1>8, Zenon

(* What the bytes of the buffer will do to the mouse's state, which only   *)
(* gets more events.                                                       *)
PackType == [skip : BOOLEAN, st : MouseType]

LEMMA TakesGoes ==
  ASSUME NEW p \in PackType, NEW b \in InByte, NEW r, r = MouseTakes(p, b)
  PROVE  r \in PackType /\ Grew(p.st.out, r.st.out)
<1>1. PICK m : m = p.st /\ m \in MouseType
  BY DEF PackType
<1>2. m.out \in Seq(Event)
  BY <1>1 DEF MouseType
<1>3. Grew(m.out, m.out)
  BY <1>2, GrewFacts
<1>4. CASE ~b.aux
  BY <1>1, <1>3, <1>4, Zenon DEF MouseTakes
<1>5. ASSUME NEW n \in MouseType, r = [skip |-> FALSE, st |-> n] PROVE r \in PackType /\ r.st = n
  BY <1>5 DEF PackType
<1>6. CASE b.aux /\ p.skip
  <2>1. r = [skip |-> FALSE, st |-> m]
    BY <1>1, <1>6, Zenon DEF MouseTakes
  <2> QED
    BY <1>1, <1>3, <1>5, <2>1, Zenon
<1>7. CASE b.aux /\ ~p.skip
  <2>1. PICK n : n = MouseOn(m, b.byte)
    OBVIOUS
  <2>2. b.byte \in Byte
    BY DEF InByte
  <2>3. n \in MouseType /\ Grew(m.out, n.out)
    BY <1>1, <2>1, <2>2, MouseOnGoes, Zenon
  <2>4. r = [skip |-> FALSE, st |-> n]
    BY <1>1, <1>7, <2>1, Zenon DEF MouseTakes
  <2> QED
    BY <1>1, <1>5, <2>3, <2>4, Zenon
<1> QED
  BY <1>4, <1>6, <1>7, Zenon

LEMMA PackedFacts ==
  ASSUME NEW p \in PackType, NEW q \in Seq(InByte), NEW r, r = Packed(p, q)
  PROVE  r \in PackType /\ Grew(p.st.out, r.st.out)
<1>1. PICK n : n = Len(q) /\ n \in Nat /\ DOMAIN q = 1..n
  OBVIOUS
<1>2. PICK f : PackedRun(f, p, q, n)
  BY <1>1, PackedFold
<1>0. \A g \in PackType : g.st.out \in Seq(Event)
  BY DEF PackType, MouseType
<1> DEFINE S == {i \in Nat : i <= n => f[i] \in PackType /\ Grew(p.st.out, f[i].st.out)}
<1>3. 0 \in S
  <2>1. p.st.out \in Seq(Event) /\ f[0] = p
    BY <1>0, <1>2 DEF PackedRun
  <2> QED
    BY <2>1, GrewFacts
<1>4. ASSUME NEW i \in Nat, i \in S PROVE i + 1 \in S
  <2>1. SUFFICES ASSUME i + 1 <= n PROVE f[i + 1] \in PackType /\ Grew(p.st.out, f[i + 1].st.out)
    OBVIOUS
  <2>2. i + 1 \in 1..n /\ (i + 1) - 1 = i /\ f[i] \in PackType /\ Grew(p.st.out, f[i].st.out)
    BY <1>1, <1>4, <2>1
  <2>3. PICK b \in InByte : b = q[i + 1]
    BY <1>1, <2>2
  <2>4. PICK g, h : g = f[i] /\ h = f[i + 1]
    OBVIOUS
  <2>5. h = MouseTakes(g, b)
    BY <1>2, <2>2, <2>3, <2>4, Zenon DEF PackedRun
  <2>6. g \in PackType /\ Grew(p.st.out, g.st.out)
    BY <2>2, <2>4, Zenon
  <2>7. h \in PackType /\ Grew(g.st.out, h.st.out)
    BY <2>5, <2>6, TakesGoes, Zenon
  <2>8. p.st.out \in Seq(Event) /\ g.st.out \in Seq(Event) /\ h.st.out \in Seq(Event)
    BY <1>0, <2>6, <2>7, Zenon
  <2>9. Grew(p.st.out, h.st.out)
    <3>1. PICK a, c, d : a = p.st.out /\ c = g.st.out /\ d = h.st.out
      OBVIOUS
    <3>2. a \in Seq(Event) /\ c \in Seq(Event) /\ d \in Seq(Event) /\ Grew(a, c) /\ Grew(c, d)
      BY <2>6, <2>7, <2>8, <3>1, Zenon
    <3>3. Grew(a, d)
      BY <3>2, GrewFacts, Zenon
    <3> QED
      BY <3>1, <3>3, Zenon
  <2> QED
    BY <2>4, <2>7, <2>9, Zenon
<1>5. n \in S
  <2> HIDE DEF S
  <2> QED
    BY <1>1, <1>3, <1>4, SetInduction
<1> QED
  BY <1>1, <1>2, <1>5 DEF PackedRun

(* Its own bytes are all the mouse's handler needs, and the keyboard's do  *)
(* nothing to the mouse.                                                   *)
LEMMA PackedRead ==
  ASSUME NEW p, NEW q, NEW n \in Nat, DOMAIN q = 1..n, \A i \in 1..n : ~q[i].aux
  PROVE  Packed(p, q) = p
<1> DEFINE h == [i \in 0..n |-> p]
<1>1. h[0] = p /\ h[n] = p /\ \A i \in 1..n : h[i] = p /\ h[i - 1] = p
  OBVIOUS
<1> HIDE DEF h
<1>2. \A i \in 1..n : h[i] = MouseTakes(h[i - 1], q[i])
  BY <1>1, Zenon DEF MouseTakes
<1> QED
  BY <1>1, <1>2, PackedFoldIs

LEMMA MousedFacts ==
  ASSUME NEW m \in MouseType, NEW q, NEW n \in Nat, DOMAIN q = 1..n, \A i \in 1..n : q[i].aux /\ q[i].byte \in Byte,
         NEW bs, bs = [i \in 1..n |-> q[i].byte], NEW r, r = Moused(m, bs)
  PROVE  /\ r \in MouseType /\ Grew(m.out, r.out)
         /\ mouse_enabled => Packed([skip |-> FALSE, st |-> m], q) = [skip |-> FALSE, st |-> r]
<1>1. DOMAIN bs = 1..n /\ \A i \in 1..n : bs[i] = q[i].byte
  OBVIOUS
<1>2. PICK f : MousedRun(f, m, bs, n)
  BY <1>1, MousedFold
<1>3. f[0] = m /\ (\A i \in 1..n : f[i] = mouse_byte(f[i - 1], bs[i])) /\ r = f[n]
  BY <1>2 DEF MousedRun
<1>0. \A g \in MouseType : g.out \in Seq(Event)
  BY DEF MouseType
<1> DEFINE S == {i \in Nat : i <= n => f[i] \in MouseType /\ Grew(m.out, f[i].out)}
<1>4. 0 \in S
  <2>1. m.out \in Seq(Event)
    BY <1>0
  <2> QED
    BY <1>3, <2>1, GrewFacts
<1>5. ASSUME NEW i \in Nat, i \in S PROVE i + 1 \in S
  <2>1. SUFFICES ASSUME i + 1 <= n PROVE f[i + 1] \in MouseType /\ Grew(m.out, f[i + 1].out)
    OBVIOUS
  <2>2. i + 1 \in 1..n /\ (i + 1) - 1 = i /\ f[i] \in MouseType /\ Grew(m.out, f[i].out)
    BY <1>5, <2>1
  <2>3. PICK b \in Byte : b = bs[i + 1]
    BY <1>1, <2>2
  <2>4. PICK g, h : g = f[i] /\ h = f[i + 1]
    OBVIOUS
  <2>5. h = mouse_byte(g, b)
    BY <1>3, <2>2, <2>3, <2>4, Zenon
  <2>6. g \in MouseType /\ Grew(m.out, g.out)
    BY <2>2, <2>4, Zenon
  <2>7. h \in MouseType /\ Grew(g.out, h.out)
    BY <2>5, <2>6, MouseByteIs, Zenon
  <2>8. m.out \in Seq(Event) /\ g.out \in Seq(Event) /\ h.out \in Seq(Event)
    BY <1>0, <2>6, <2>7, Zenon
  <2>9. Grew(m.out, h.out)
    BY <2>6, <2>7, <2>8, GrewFacts, Zenon
  <2> QED
    BY <2>4, <2>7, <2>9, Zenon
<1>6. \A i \in Nat : i \in S
  <2> HIDE DEF S
  <2> QED
    BY <1>4, <1>5, SetInduction
<1>7. \A i \in 0..n : f[i] \in MouseType /\ Grew(m.out, f[i].out)
  BY <1>6
<1> HIDE DEF S
<1>8. ASSUME mouse_enabled PROVE Packed([skip |-> FALSE, st |-> m], q) = [skip |-> FALSE, st |-> r]
  <2> DEFINE h == [i \in 0..n |-> [skip |-> FALSE, st |-> f[i]]]
  <2>1. \A i \in 0..n : h[i] = [skip |-> FALSE, st |-> f[i]]
    OBVIOUS
  <2>2. 0 \in 0..n /\ n \in 0..n /\ \A i \in 1..n : i \in 0..n /\ i - 1 \in 0..n
    OBVIOUS
  <2> HIDE DEF h
  <2>3. ASSUME NEW i \in 1..n PROVE h[i] = MouseTakes(h[i - 1], q[i])
    <3>1. PICK g, b : g = f[i - 1] /\ b = q[i].byte
      OBVIOUS
    <3>2. g \in MouseType /\ b \in Byte
      BY <1>7, <2>2, <3>1, Zenon
    <3>3. f[i] = MouseOn(g, b)
      BY <1>1, <1>3, <1>8, <3>1, <3>2, MouseByteIs, Zenon
    <3>4. h[i - 1] = [skip |-> FALSE, st |-> g] /\ h[i] = [skip |-> FALSE, st |-> f[i]]
      BY <2>1, <2>2, <3>1, Zenon
    <3>5. h[i - 1].skip = FALSE /\ h[i - 1].st = g
      BY <3>4
    <3> QED
      BY <3>1, <3>3, <3>4, <3>5, Zenon DEF MouseTakes
  <2>4. PICK base : base = [skip |-> FALSE, st |-> m] /\ h[0] = base /\ h[n] = [skip |-> FALSE, st |-> r]
    BY <1>3, <2>1, <2>2
  <2>5. Packed(base, q) = h[n]
    BY <2>3, <2>4, PackedFoldIs
  <2> QED
    BY <2>4, <2>5, Zenon
<1>9. n \in 0..n
  OBVIOUS
<1> QED
  BY <1>3, <1>7, <1>8, <1>9, Zenon

-----------------------------------------------------------------------------
(* The controller's buffer *)

Irqs == {"kbd", "mouse"}

LEMMA FromFacts ==
  ASSUME NEW bs \in Seq(Byte)
  PROVE  /\ FromKbd(bs) \in Seq(InByte) /\ DOMAIN FromKbd(bs) = 1..Len(bs)
         /\ \A i \in 1..Len(bs) : ~FromKbd(bs)[i].aux /\ FromKbd(bs)[i].byte = bs[i]
         /\ FromMouse(bs) \in Seq(InByte) /\ DOMAIN FromMouse(bs) = 1..Len(bs)
         /\ \A i \in 1..Len(bs) : FromMouse(bs)[i].aux /\ FromMouse(bs)[i].byte = bs[i]
         /\ Len(bs) \in Nat /\ Len(FromMouse(bs)) = Len(bs)
<1>1. PICK n \in Nat : n = Len(bs) /\ DOMAIN bs = 1..n /\ \A i \in 1..n : bs[i] \in Byte
  OBVIOUS
<1>2. ASSUME NEW a \in BOOLEAN, NEW q, q = [i \in DOMAIN bs |-> [aux |-> a, byte |-> bs[i]]]
      PROVE  /\ q \in Seq(InByte) /\ DOMAIN q = 1..n /\ Len(q) = n
             /\ \A i \in 1..n : (q[i].aux <=> a) /\ q[i].byte = bs[i]
  <2>1. q = [i \in 1..n |-> [aux |-> a, byte |-> bs[i]]]
    BY <1>1, <1>2
  <2>2. \A i \in 1..n : [aux |-> a, byte |-> bs[i]] \in InByte
    BY <1>1 DEF InByte
  <2>3. q \in [1..n -> InByte]
    BY <2>1, <2>2
  <2>4. DOMAIN q = 1..n /\ \A i \in 1..n : q[i] = [aux |-> a, byte |-> bs[i]]
    BY <2>1
  <2>5. q \in Seq(InByte) /\ Len(q) = n
    BY <1>1, <2>3
  <2> QED
    BY <2>4, <2>5
<1>3. FromKbd(bs) = [i \in DOMAIN bs |-> [aux |-> FALSE, byte |-> bs[i]]]
  BY Zenon DEF FromKbd
<1>4. FromMouse(bs) = [i \in DOMAIN bs |-> [aux |-> TRUE, byte |-> bs[i]]]
  BY Zenon DEF FromMouse
<1>5. FALSE \in BOOLEAN /\ TRUE \in BOOLEAN
  OBVIOUS
<1>6. PICK q : q = FromKbd(bs)
  OBVIOUS
<1>7. q \in Seq(InByte) /\ DOMAIN q = 1..n /\ \A i \in 1..n : ~q[i].aux /\ q[i].byte = bs[i]
  BY <1>2, <1>3, <1>5, <1>6, Zenon
<1>8. PICK r : r = FromMouse(bs)
  OBVIOUS
<1>9. r \in Seq(InByte) /\ DOMAIN r = 1..n /\ Len(r) = n /\ \A i \in 1..n : r[i].aux /\ r[i].byte = bs[i]
  BY <1>2, <1>4, <1>5, <1>8, Zenon
<1> QED
  BY <1>1, <1>6, <1>7, <1>8, <1>9, Zenon

LEMMA QueueGoes ==
  ASSUME obuf \in Seq(InByte), irqs \subseteq Irqs, NEW r \in Seq(InByte), Queue(r)
  PROVE  obuf' = obuf \o r /\ obuf' \in Seq(InByte) /\ irqs' \subseteq Irqs
<1>1. obuf' = obuf \o r /\ irqs' = IF obuf = <<>> THEN irqs \cup Raised(r) ELSE irqs
  BY Zenon DEF Queue
<1>2. Raised(r) \subseteq Irqs
  <2>1. \A b : IrqOf(b) \in Irqs
    BY DEF IrqOf, Irqs
  <2> QED
    BY <2>1, Zenon DEF Raised
<1>3. irqs' \subseteq Irqs
  BY <1>1, <1>2
<1>4. obuf' \in Seq(InByte)
  BY <1>1
<1> QED
  BY <1>1, <1>3, <1>4

(* A handler takes only bytes of its device. *)
LEMMA TakenFacts ==
  ASSUME obuf \in Seq(InByte), NEW aux \in BOOLEAN, NEW n, n = Taken(aux)
  PROVE  n \in Nat /\ n <= Burst /\ n <= Len(obuf) /\ \A i \in 1..n : obuf[i].aux = aux
<1> DEFINE Stops(k) == k = Burst \/ k = Len(obuf) \/ obuf[k + 1].aux # aux
           S == {k \in Nat : Stops(k)}
           Good(k) == /\ k <= Len(obuf) /\ \A i \in 1..k : obuf[i].aux = aux
                      /\ k < Burst /\ k < Len(obuf) => obuf[k + 1].aux # aux
<1>1. Burst \in Nat /\ Len(obuf) \in Nat
  BY Ps2Assumption
<1>2. PICK k \in S : \A j \in S : k <= j
  <2>1. Burst \in S
    BY <1>1
  <2> HIDE DEF S
  <2>2. S \subseteq Nat
    BY DEF S
  <2> QED
    BY <2>1, <2>2, LeastExists
<1>3. k \in Nat /\ Stops(k) /\ \A j \in Nat : j < k => ~Stops(j)
  BY <1>2
<1>4. k <= Burst /\ k <= Len(obuf)
  <2>1. Stops(Burst) /\ Stops(Len(obuf))
    OBVIOUS
  <2> HIDE DEF Stops
  <2> QED
    BY <1>1, <1>3, <2>1
<1>5. \A i \in 1..k : obuf[i].aux = aux
  <2> SUFFICES ASSUME NEW i \in 1..k PROVE obuf[i].aux = aux
    OBVIOUS
  <2>1. i - 1 \in Nat /\ i - 1 < k /\ (i - 1) + 1 = i
    BY <1>3
  <2>2. ~Stops(i - 1)
    BY <1>3, <2>1
  <2> QED
    BY <2>1, <2>2
<1>6. Good(k) /\ k \in 0..Burst
  BY <1>1, <1>3, <1>4, <1>5
<1> HIDE DEF Good, Stops, S
<1>7. n = CHOOSE j \in 0..Burst : Good(j)
  BY Zenon DEF Taken, Good
<1>8. n \in 0..Burst /\ Good(n)
  BY <1>6, <1>7, Zenon
<1> QED
  BY <1>1, <1>8 DEF Good

(* A sequence in two parts. *)
Cut(s, q, r) ==
    /\ Len(q) + Len(r) = Len(s)
    /\ \A i \in 1..Len(q) : q[i] = s[i]
    /\ \A i \in 1..Len(r) : r[i] = s[Len(q) + i]

LEMMA TwoParts ==
  ASSUME NEW U, NEW s \in Seq(U), NEW q \in Seq(U), NEW r \in Seq(U), Cut(s, q, r)
  PROVE  s = q \o r
<1>1. PICK t, n, m, k : t = q \o r /\ n = Len(q) /\ m = Len(s) /\ k = Len(r)
  OBVIOUS
<1>2. /\ k \in Nat /\ n \in Nat /\ m \in Nat /\ Len(r) = k /\ Len(s) = m /\ Len(q) = n /\ n + k = m
      /\ (\A i \in 1..n : q[i] = s[i]) /\ \A i \in 1..k : r[i] = s[n + i]
  BY <1>1 DEF Cut
<1>3. t \in Seq(U) /\ Len(t) = m /\ (\A i \in 1..n : t[i] = q[i]) /\ \A i \in 1..k : t[n + i] = r[i]
  <2>1. /\ q \o r \in Seq(U) /\ Len(q \o r) = Len(q) + Len(r)
        /\ \A i \in 1..(Len(q) + Len(r)) : (q \o r)[i] = IF i <= Len(q) THEN q[i] ELSE r[i - Len(q)]
    BY ConcatProperties
  <2>7. 1..(Len(q) + Len(r)) = 1..m /\ Len(q) = n
    BY <1>2
  <2>2. \A i \in 1..m : t[i] = IF i <= n THEN q[i] ELSE r[i - n]
    BY <1>1, <2>1, <2>7, Zenon
  <2>3. \A i \in 1..n : i \in 1..m /\ i <= n
    BY <1>2
  <2>4. \A i \in 1..k : n + i \in 1..m /\ ~(n + i <= n) /\ (n + i) - n = i
    BY <1>2
  <2>5. \A i \in 1..n : t[i] = q[i]
    BY <2>2, <2>3, Zenon
  <2>6. \A i \in 1..k : t[n + i] = r[i]
    BY <2>2, <2>4, Zenon
  <2>8. Len(t) = m
    BY <1>1, <1>2, <2>1
  <2> QED
    BY <1>1, <2>1, <2>5, <2>6, <2>8, Zenon
<1>4. ASSUME NEW i \in 1..m PROVE t[i] = s[i]
  <2>1. CASE i \in 1..n
    BY <1>2, <1>3, <2>1, Zenon
  <2>2. CASE i \notin 1..n
    <3>1. PICK j \in 1..k : i = n + j
      <4>1. i - n \in 1..k /\ i = n + (i - n)
        BY <1>2, <2>2
      <4> QED
        BY <4>1
    <3> QED
      BY <1>2, <1>3, <3>1, Zenon
  <2> QED
    BY <2>1, <2>2, Zenon
<1>5. s = t
  <2>1. Len(s) = Len(t) /\ \A i \in 1..Len(s) : s[i] = t[i]
    BY <1>2, <1>3, <1>4, Zenon
  <2> QED
    BY <1>3, <2>1, SeqEqual
<1> QED
  BY <1>1, <1>5

(* The bytes a handler takes, and the rest. *)
LEMMA HandleGoes ==
  ASSUME obuf \in Seq(InByte), irqs \subseteq Irqs, NEW ir, NEW n \in Nat, n <= Len(obuf), Handle(ir, n)
  PROVE  \E q : /\ step = "on" /\ irqs' \subseteq Irqs
               /\ obuf' \in Seq(InByte) /\ obuf = q \o obuf' /\ q \in Seq(InByte) /\ DOMAIN q = 1..n
               /\ (\A i \in 1..n : q[i] = obuf[i])
               /\ Bytes(n) = [i \in 1..n |-> q[i].byte]
<1>1. ASSUME NEW q, q = SubSeq(obuf, 1, n)
      PROVE  /\ step = "on" /\ irqs' \subseteq Irqs
             /\ obuf' \in Seq(InByte) /\ obuf = q \o obuf' /\ q \in Seq(InByte) /\ DOMAIN q = 1..n
             /\ (\A i \in 1..n : q[i] = obuf[i])
             /\ Bytes(n) = [i \in 1..n |-> q[i].byte]
  <2>1. step = "on" /\ obuf' = SubSeq(obuf, n + 1, Len(obuf))
        /\ irqs' = (irqs \ {ir}) \cup {IrqOf(obuf[i]) : i \in 2..(n + 1) \cap DOMAIN obuf}
    BY Zenon DEF Handle
  <2>2. irqs' \subseteq Irqs
    <3>1. \A b : IrqOf(b) \in Irqs
      BY DEF IrqOf, Irqs
    <3> QED
      BY <2>1, <3>1
  <2>3. PICK m \in Nat : m = Len(obuf) /\ DOMAIN obuf = 1..m /\ \A i \in 1..m : obuf[i] \in InByte
    OBVIOUS
  <2>4. q \in Seq(InByte) /\ Len(q) = n /\ DOMAIN q = 1..n /\ \A i \in 1..n : q[i] = obuf[i]
    BY <1>1, <2>3
  <2>5. PICK r : r = SubSeq(obuf, n + 1, m)
    OBVIOUS
  <2>6. r \in Seq(InByte) /\ Len(r) = m - n /\ \A i \in 1..(m - n) : r[i] = obuf[n + i]
    BY <2>3, <2>5
  <2>7. obuf = q \o r
    <3>1. n + (m - n) = m
      BY <1>1, <2>3
    <3>2. Cut(obuf, q, r)
      BY <2>3, <2>4, <2>6, <3>1, Zenon DEF Cut
    <3> QED
      BY <2>4, <2>6, <3>2, TwoParts, Zenon
  <2>8. Bytes(n) = [i \in 1..n |-> q[i].byte]
    BY <2>4 DEF Bytes
  <2> QED
    BY <2>1, <2>2, <2>3, <2>4, <2>5, <2>6, <2>7, <2>8
<1> QED
  BY <1>1, Zenon

(* One, two and three bytes. *)
LEMMA FewBytes ==
  ASSUME NEW g, NEW q
  PROVE  /\ DOMAIN q = 1..1 => Keyed(g, q) = KbdTakes(g, q[1]) /\ Packed(g, q) = MouseTakes(g, q[1])
         /\ DOMAIN q = 1..2 => Keyed(g, q) = KbdTakes(KbdTakes(g, q[1]), q[2])
         /\ DOMAIN q = 1..3 => Packed(g, q) = MouseTakes(MouseTakes(MouseTakes(g, q[1]), q[2]), q[3])
<1>1. 1 \in Nat /\ 2 \in Nat /\ 3 \in Nat /\ 1 - 1 = 0 /\ 2 - 1 = 1 /\ 3 - 1 = 2
  OBVIOUS
<1>2. 1 \in 1..1 /\ 1 \in 1..2 /\ 2 \in 1..2 /\ 1 \in 1..3 /\ 2 \in 1..3 /\ 3 \in 1..3
  OBVIOUS
<1>3. ASSUME DOMAIN q = 1..1 PROVE Keyed(g, q) = KbdTakes(g, q[1]) /\ Packed(g, q) = MouseTakes(g, q[1])
  <2>1. PICK f : KeyedRun(f, g, q, 1)
    BY <1>1, <1>3, KeyedFold, Zenon
  <2>2. PICK h : PackedRun(h, g, q, 1)
    BY <1>1, <1>3, PackedFold, Zenon
  <2> QED
    BY <1>1, <1>2, <2>1, <2>2, Zenon DEF KeyedRun, PackedRun
<1>4. ASSUME DOMAIN q = 1..2 PROVE Keyed(g, q) = KbdTakes(KbdTakes(g, q[1]), q[2])
  <2>1. PICK f : KeyedRun(f, g, q, 2)
    BY <1>1, <1>4, KeyedFold, Zenon
  <2>2. f[1] = KbdTakes(g, q[1]) /\ f[2] = KbdTakes(f[1], q[2]) /\ Keyed(g, q) = f[2]
    BY <1>1, <1>2, <2>1, Zenon DEF KeyedRun
  <2> QED
    BY <2>2, Zenon
<1>5. ASSUME DOMAIN q = 1..3 PROVE Packed(g, q) = MouseTakes(MouseTakes(MouseTakes(g, q[1]), q[2]), q[3])
  <2>1. PICK f : PackedRun(f, g, q, 3)
    BY <1>1, <1>5, PackedFold, Zenon
  <2>2. f[1] = MouseTakes(g, q[1]) /\ f[2] = MouseTakes(f[1], q[2]) /\ f[3] = MouseTakes(f[2], q[3])
        /\ Packed(g, q) = f[3]
    BY <1>1, <1>2, <2>1, Zenon DEF PackedRun
  <2> QED
    BY <2>2, Zenon
<1> QED
  BY <1>3, <1>4, <1>5, Zenon

-----------------------------------------------------------------------------
(* The invariant: what waits in the buffer makes up what is missing *)

(* A movement of less than 128 upwards or to the right. *)
SmallMotion(p, i, sign, overflow) == Bit(p[1], overflow) \/ Bit(p[1], sign) \/ p[i] < 128
SmallMotions == \A p \in Packets : SmallMotion(p, 2, 16, 64) /\ SmallMotion(p, 3, 32, 128)

KbdState == [m |-> kbd_modifiers, e0 |-> e0, out |-> runes]
MouseState == [buf |-> mouse_buf, x |-> mouse_x, y |-> mouse_y, buttons |-> mouse_buttons, out |-> events]
PackState == [skip |-> step = "read 3", st |-> MouseState]

(* The mouse's state p has no packet begun, and the events o. *)
MouseSays(p, o) == p \in PackType /\ ~p.skip /\ p.st.buf = <<>> /\ p.st.out = o

KbdInv == "kbd" \in calm => KbdSays(Keyed(KbdState, obuf), typed_runes, shift_held, caps_lock)
MouseInv == SmallMotions /\ "mouse" \in calm /\ reports /\ nctl = 0 => MouseSays(Packed(PackState, obuf), moves)

Steps == {"disable", "flush", "reset", "read 1", "read 2", "enable", "read 3", "on"}

CtlTypes == /\ step \in Steps /\ kbd_on \in BOOLEAN /\ mouse_on \in BOOLEAN /\ reports \in BOOLEAN
            /\ calm \subseteq Irqs
BufTypes == obuf \in Seq(InByte) /\ irqs \subseteq Irqs
UserTypes == /\ typed_runes \in Seq(Runes) /\ shift_held \in BOOLEAN /\ caps_lock \in BOOLEAN
             /\ down \subseteq Keys /\ nkeys \in 0..MaxKeys
MoveTypes == moves \in Seq(Event) /\ npackets \in 0..MaxPackets
CtrTypes == nctl \in 0..MaxCtl /\ mouse_enabled \in BOOLEAN
UpInv == /\ reports <=> step \in {"read 3", "on"}
         /\ step \notin {"read 3", "on"} => moves = <<>>
         /\ step # "on" => events = <<>> /\ mouse_buf = <<>> /\ nctl = 0
         /\ nctl = 0 => mouse_enabled

Ps2Inv == /\ CtlTypes /\ BufTypes /\ UserTypes /\ MoveTypes /\ CtrTypes
          /\ KbdState \in KbdType /\ MouseState \in MouseType
          /\ UpInv /\ KbdInv /\ MouseInv

(* The mouse's bytes leave what the keyboard's will do, and the other way  *)
(* round.                                                                  *)
LEMMA KbdKept ==
  ASSUME KbdInv, NEW q \in Seq(InByte), NEW r \in Seq(InByte), q = obuf, obuf' = q \o r,
         \A i \in 1..Len(r) : r[i].aux,
         NEW g, g = KbdState, KbdState' = g, calm' \subseteq calm,
         typed_runes' = typed_runes, shift_held' = shift_held, caps_lock' = caps_lock
  PROVE  KbdInv'
<1>1. Keyed(g, q \o r) = Keyed(Keyed(g, q), r)
  BY KeyedFoldConcat
<1>2. Keyed(Keyed(g, q), r) = Keyed(g, q)
  <2>1. PICK n \in Nat : n = Len(r) /\ DOMAIN r = 1..n
    OBVIOUS
  <2> QED
    BY <2>1, KeyedRead
<1>3. Keyed(g, q \o r) = Keyed(g, q)
  BY <1>1, <1>2, Zenon
<1>4. ASSUME "kbd" \in calm' PROVE KbdSays(Keyed(g, q \o r), typed_runes, shift_held, caps_lock)
  <2>1. "kbd" \in calm
    BY <1>4
  <2> QED
    BY <1>3, <2>1, Zenon DEF KbdInv
<1> QED
  BY <1>4, Zenon DEF KbdInv

LEMMA MouseKept ==
  ASSUME MouseInv, NEW q \in Seq(InByte), NEW r \in Seq(InByte), q = obuf, obuf' = q \o r,
         \A i \in 1..Len(r) : ~r[i].aux,
         NEW g, g = PackState, PackState' = g, calm' \subseteq calm,
         moves' = moves, reports' = reports, nctl' = nctl
  PROVE  MouseInv'
<1>1. Packed(g, q \o r) = Packed(Packed(g, q), r)
  BY PackedFoldConcat
<1>2. Packed(Packed(g, q), r) = Packed(g, q)
  <2>1. PICK n \in Nat : n = Len(r) /\ DOMAIN r = 1..n
    OBVIOUS
  <2> QED
    BY <2>1, PackedRead
<1>3. Packed(g, q \o r) = Packed(g, q)
  BY <1>1, <1>2, Zenon
<1>4. ASSUME SmallMotions, "mouse" \in calm', reports', nctl' = 0 PROVE MouseSays(Packed(g, q \o r), moves)
  <2>1. "mouse" \in calm
    BY <1>4
  <2>2. reports /\ nctl = 0
    BY <1>4, Zenon
  <2> QED
    BY <1>3, <1>4, <2>1, <2>2, Zenon DEF MouseInv
<1> QED
  BY <1>4, Zenon DEF MouseInv, SmallMotions, SmallMotion


LEMMA ItemFacts ==
  ASSUME NEW U, NEW q \in Seq(U), NEW n \in Nat, Len(q) = n
  PROVE  DOMAIN q = 1..n /\ \A i \in 1..n : q[i] \in U
  OBVIOUS

LEMMA OneTwoThree ==
  /\ 1 \in Nat /\ 2 \in Nat /\ 3 \in Nat /\ 1 \in 1..1 /\ 1 \in 1..2 /\ 2 \in 1..2
  /\ 1 \in 1..3 /\ 2 \in 1..3 /\ 3 \in 1..3 /\ 1 < 2 /\ 0 < 2
  /\ \A b \in Byte : b - 0 = b
<1>1. \A b \in Int : b - 0 = b
  OBVIOUS
<1>2. Byte \subseteq Int
  BY DEF Byte
<1>3. /\ 1 \in Nat /\ 2 \in Nat /\ 3 \in Nat /\ 1 \in 1..1 /\ 1 \in 1..2 /\ 2 \in 1..2
      /\ 1 \in 1..3 /\ 2 \in 1..3 /\ 3 \in 1..3 /\ 1 < 2 /\ 0 < 2
  OBVIOUS
<1> QED
  BY <1>1, <1>2, <1>3, Zenon

LEMMA OneElement ==
  ASSUME NEW U, NEW x \in U
  PROVE  <<x>> \in Seq(U) /\ Len(<<x>>) = 1 /\ DOMAIN <<x>> = 1..1 /\ <<x>>[1] = x
  OBVIOUS

LEMMA AppendFirst ==
  ASSUME NEW U, NEW q \in Seq(U), q = <<>>, NEW x \in U
  PROVE  Append(q, x) \in Seq(U) /\ Len(Append(q, x)) = 1 /\ Append(q, x)[1] = x /\ Append(q, x) # <<>>
  OBVIOUS

LEMMA AppendSecond ==
  ASSUME NEW U, NEW q \in Seq(U), Len(q) = 1, NEW x \in U
  PROVE  Append(q, x) \in Seq(U) /\ Len(Append(q, x)) = 2 /\ Append(q, x)[1] = q[1] /\ Append(q, x)[2] = x
<1>1. \A n : Len(q) = n => /\ Len(Append(q, x)) = n + 1 /\ Append(q, x)[n + 1] = x
                          /\ \A i \in 1..n : Append(q, x)[i] = q[i]
  <2>1. /\ Len(Append(q, x)) = Len(q) + 1 /\ Append(q, x)[Len(q) + 1] = x
        /\ \A i \in 1..Len(q) : Append(q, x)[i] = q[i]
    OBVIOUS
  <2> QED
    BY <2>1, Zenon
<1>2. 1 + 1 = 2 /\ 1 \in 1..1
  OBVIOUS
<1>3. Append(q, x) \in Seq(U)
  OBVIOUS
<1> QED
  BY <1>1, <1>2, <1>3, Zenon

(* A first element and the others. *)
LEMMA HeadAndTail ==
  ASSUME NEW U, NEW q \in Seq(U), q # <<>>
  PROVE  /\ Head(q) \in U /\ Tail(q) \in Seq(U)
         /\ \E a \in Seq(U) : DOMAIN a = 1..1 /\ a[1] = Head(q) /\ q = a \o Tail(q)
<1>1. PICK n \in Nat : n = Len(q) /\ n >= 1
  <2>1. Len(q) \in Nat /\ Len(q) # 0
    BY EmptySeq
  <2> QED
    BY <2>1
<1>2. PICK b \in U, r \in Seq(U) : b = Head(q) /\ r = Tail(q) /\ b = q[1] /\ Len(r) = n - 1 /\ \A i \in 1..(n - 1) : r[i] = q[1 + i]
  <2>1. Head(q) = q[1] /\ q[1] \in U
    BY <1>1
  <2>2. Tail(q) \in Seq(U) /\ Len(Tail(q)) = n - 1 /\ \A i \in 1..(n - 1) : Tail(q)[i] = q[1 + i]
    <3>1. Tail(q) \in Seq(U) /\ Len(Tail(q)) = Len(q) - 1 /\ \A i \in 1..(Len(q) - 1) : Tail(q)[i] = q[i + 1]
      BY HeadTailProperties
    <3>2. \A i \in 1..(n - 1) : i + 1 = 1 + i
      OBVIOUS
    <3> QED
      BY <1>1, <3>1, <3>2, Zenon
  <2> QED
    BY <2>1, <2>2, Zenon
<1>3. PICK a \in Seq(U) : Len(a) = 1 /\ DOMAIN a = 1..1 /\ a[1] = b
  BY OneElement, Zenon
<1>4. Cut(q, a, r)
  <2>1. 1 + (n - 1) = n /\ \A i \in 1..1 : i = 1
    OBVIOUS
  <2> QED
    BY <1>1, <1>2, <1>3, <2>1, Zenon DEF Cut
<1>5. q = a \o r
  BY <1>4, TwoParts
<1> QED
  BY <1>2, <1>3, <1>5, Zenon

LEMMA BothConcat ==
  ASSUME NEW g, NEW s \in Seq(InByte), NEW t \in Seq(InByte)
  PROVE  Keyed(g, s \o t) = Keyed(Keyed(g, s), t) /\ Packed(g, s \o t) = Packed(Packed(g, s), t)
  BY KeyedFoldConcat, PackedFoldConcat

(* What the first byte does, and then the others. *)
LEMMA FirstByte ==
  ASSUME NEW q \in Seq(InByte), q # <<>>
  PROVE  /\ Head(q) \in InByte /\ Tail(q) \in Seq(InByte)
         /\ \A g : /\ Keyed(g, q) = Keyed(KbdTakes(g, Head(q)), Tail(q))
                  /\ Packed(g, q) = Packed(MouseTakes(g, Head(q)), Tail(q))
<1>1. Head(q) \in InByte /\ Tail(q) \in Seq(InByte)
  BY HeadAndTail
<1>2. PICK a \in Seq(InByte) : DOMAIN a = 1..1 /\ a[1] = Head(q) /\ q = a \o Tail(q)
  BY HeadAndTail, Zenon
<1>3. PICK r \in Seq(InByte) : r = Tail(q)
  BY <1>1
<1>4. ASSUME NEW g PROVE Keyed(g, a) = KbdTakes(g, Head(q)) /\ Packed(g, a) = MouseTakes(g, Head(q))
  BY <1>2, FewBytes, Zenon
<1>5. ASSUME NEW g PROVE Keyed(g, a \o r) = Keyed(Keyed(g, a), r) /\ Packed(g, a \o r) = Packed(Packed(g, a), r)
  BY BothConcat, Zenon
<1>6. ASSUME NEW g
      PROVE  /\ Keyed(g, q) = Keyed(KbdTakes(g, Head(q)), Tail(q))
             /\ Packed(g, q) = Packed(MouseTakes(g, Head(q)), Tail(q))
  <2>1. Keyed(g, a \o r) = Keyed(KbdTakes(g, Head(q)), r) /\ Packed(g, a \o r) = Packed(MouseTakes(g, Head(q)), r)
    BY <1>4, <1>5, Zenon
  <2> QED
    BY <1>2, <1>3, <2>1, Zenon
<1> QED
  BY <1>1, <1>6, Zenon

(* A movement of a packet, as the handler reads it. *)
LEMMA DeltaIsMoved ==
  ASSUME NEW p \in Seq(Byte), NEW i, p[i] \in Byte, NEW sign, NEW overflow, SmallMotion(p, i, sign, overflow)
  PROVE  Delta(p[i], p[1], sign, overflow) = Moved(p, i, sign, overflow)
<1>1. CASE Bit(p[1], overflow)
  BY <1>1, Zenon DEF Delta, Moved
<1>2. CASE ~Bit(p[1], overflow) /\ Bit(p[1], sign)
  BY <1>2, Zenon DEF Delta, Moved
<1>3. CASE ~Bit(p[1], overflow) /\ ~Bit(p[1], sign)
  <2>1. p[i] < 128
    BY <1>3, Zenon DEF SmallMotion
  <2>2. Delta(p[i], p[1], sign, overflow) = p[i]
    BY <1>3, <2>1, Zenon DEF Delta, Signed
  <2>3. Moved(p, i, sign, overflow) = p[i] - 0
    BY <1>3, Zenon DEF Moved
  <2>4. p[i] - 0 = p[i]
    BY OneTwoThree, Zenon
  <2> QED
    BY <2>2, <2>3, <2>4, Zenon
<1> QED
  BY <1>1, <1>2, <1>3, Zenon

LEMMA PacketIs ==
  ASSUME NEW p \in Packets
  PROVE  /\ p \in Seq(Byte) /\ Len(p) = 3 /\ DOMAIN p = 1..3
         /\ p[1] \in Byte /\ p[2] \in Byte /\ p[3] \in Byte /\ Bit(p[1], 8)
<1>1. p \in Seq(0..255) /\ Len(p) = 3 /\ p[1] \div 8 % 2 = 1
  BY Ps2Assumption, Zenon
<1>2. p \in Seq(Byte)
  BY <1>1, Zenon DEF Byte
<1>3. Bit(p[1], 8)
  BY <1>1, Zenon DEF Bit
<1>4. DOMAIN p = 1..3 /\ p[1] \in Byte /\ p[2] \in Byte /\ p[3] \in Byte
  BY <1>1, <1>2, ItemFacts, OneTwoThree, Zenon
<1> QED
  BY <1>1, <1>2, <1>3, <1>4, Zenon

(* Three bytes make an event. *)
LEMMA FirstOfThree ==
  ASSUME NEW m \in MouseType, m.buf = <<>>, NEW b \in Byte, Bit(b, 8), NEW r, r = MouseOn(m, b)
  PROVE  r \in MouseType /\ r.buf \in Seq(Byte) /\ Len(r.buf) = 1 /\ r.buf[1] = b /\ r.buf # <<>> /\ r.out = m.out
<1>1. r \in MouseType /\ m.buf \in Seq(Byte)
  BY MouseOnGoes DEF MouseType
<1>2. Len(<<>>) = 0
  OBVIOUS
<1>3. Len(m.buf) < 2
  BY <1>2, OneTwoThree, Zenon
<1>4. r = [buf |-> Append(m.buf, b), x |-> m.x, y |-> m.y, buttons |-> m.buttons, out |-> m.out]
  BY <1>3, MouseOnIs, Zenon
<1>5. r.buf = Append(m.buf, b) /\ r.out = m.out
  BY <1>4
<1>6. /\ Append(m.buf, b) \in Seq(Byte) /\ Len(Append(m.buf, b)) = 1 /\ Append(m.buf, b)[1] = b
      /\ Append(m.buf, b) # <<>>
  BY <1>1, AppendFirst, Zenon
<1> QED
  BY <1>1, <1>5, <1>6, Zenon

LEMMA SecondOfThree ==
  ASSUME NEW m \in MouseType, m.buf # <<>>, Len(m.buf) = 1, NEW b \in Byte, NEW r, r = MouseOn(m, b)
  PROVE  r \in MouseType /\ Len(r.buf) = 2 /\ r.buf[1] = m.buf[1] /\ r.buf[2] = b /\ r.out = m.out
<1>1. r \in MouseType /\ m.buf \in Seq(Byte)
  BY MouseOnGoes DEF MouseType
<1>2. Len(m.buf) < 2
  BY OneTwoThree, Zenon
<1>3. r = [buf |-> Append(m.buf, b), x |-> m.x, y |-> m.y, buttons |-> m.buttons, out |-> m.out]
  BY <1>2, MouseOnIs, Zenon
<1>4. r.buf = Append(m.buf, b) /\ r.out = m.out
  BY <1>3
<1>5. Len(Append(m.buf, b)) = 2 /\ Append(m.buf, b)[1] = m.buf[1] /\ Append(m.buf, b)[2] = b
  <2>1. \A q \in Seq(Byte) : Len(q) = 1 =>
          Len(Append(q, b)) = 2 /\ Append(q, b)[1] = q[1] /\ Append(q, b)[2] = b
    <3> SUFFICES ASSUME NEW q \in Seq(Byte), Len(q) = 1
                 PROVE  Len(Append(q, b)) = 2 /\ Append(q, b)[1] = q[1] /\ Append(q, b)[2] = b
      OBVIOUS
    <3> QED
      BY AppendSecond
  <2> QED
    BY <1>1, <2>1, Zenon
<1> QED
  BY <1>1, <1>4, <1>5, Zenon

LEMMA ThirdOfThree ==
  ASSUME NEW m \in MouseType, Len(m.buf) = 2, NEW b \in Byte, NEW r, r = MouseOn(m, b)
  PROVE  /\ r \in MouseType /\ r.buf = <<>> /\ r.out = Append(m.out, EventOf(m.buf, b))
         /\ EventOf(m.buf, b) \in Event
<1>1. r \in MouseType
  BY MouseOnGoes
<1>2. /\ r = [buf |-> <<>>, x |-> m.x + EventOf(m.buf, b).dx, y |-> m.y + EventOf(m.buf, b).dy,
              buttons |-> EventOf(m.buf, b).buttons, out |-> Append(m.out, EventOf(m.buf, b))]
      /\ EventOf(m.buf, b) \in Event
  BY MouseOnIs, Zenon
<1> QED
  BY <1>1, <1>2

LEMMA ThreeBytes ==
  ASSUME NEW m \in MouseType, m.buf = <<>>, NEW b1 \in Byte, NEW b2 \in Byte, NEW b3 \in Byte, Bit(b1, 8),
         NEW r, r = MouseOn(MouseOn(MouseOn(m, b1), b2), b3),
         NEW e, e = [dx |-> Delta(b2, b1, 16, 64), dy |-> -Delta(b3, b1, 32, 128), buttons |-> b1 % 8]
  PROVE  r \in MouseType /\ r.buf = <<>> /\ r.out = Append(m.out, e) /\ e \in Event
<1>2. /\ MouseOn(m, b1) \in MouseType /\ Len(MouseOn(m, b1).buf) = 1
      /\ MouseOn(m, b1).buf[1] = b1 /\ MouseOn(m, b1).buf # <<>> /\ MouseOn(m, b1).out = m.out
  BY FirstOfThree, ZenonT(60)
<1>3. ASSUME NEW m1 \in MouseType, m1 = MouseOn(m, b1), Len(m1.buf) = 1, m1.buf[1] = b1, m1.buf # <<>>, m1.out = m.out,
             NEW m2, m2 = MouseOn(m1, b2), r = MouseOn(m2, b3)
      PROVE  r \in MouseType /\ r.buf = <<>> /\ r.out = Append(m.out, e) /\ e \in Event
  <2>1. m2 \in MouseType /\ Len(m2.buf) = 2 /\ m2.buf[1] = b1 /\ m2.buf[2] = b2 /\ m2.out = m.out
    <3>1. m2 \in MouseType /\ Len(m2.buf) = 2 /\ m2.buf[1] = m1.buf[1] /\ m2.buf[2] = b2 /\ m2.out = m1.out
      BY <1>3, SecondOfThree
    <3> QED
      BY <1>3, <3>1, Zenon
  <2>2. /\ r \in MouseType /\ r.buf = <<>> /\ r.out = Append(m2.out, EventOf(m2.buf, b3))
        /\ EventOf(m2.buf, b3) \in Event
    BY <1>3, <2>1, ThirdOfThree, Zenon
  <2>3. EventOf(m2.buf, b3) = e
    BY <2>1, Zenon DEF EventOf
  <2> QED
    BY <2>1, <2>2, <2>3, Zenon
<1> QED
  BY <1>2, <1>3, Zenon

LEMMA PackedByte ==
  ASSUME NEW S, S.skip = FALSE, NEW b, b.aux
  PROVE  /\ MouseTakes(S, b) = [skip |-> FALSE, st |-> MouseOn(S.st, b.byte)]
         /\ MouseTakes(S, b).skip = FALSE /\ MouseTakes(S, b).st = MouseOn(S.st, b.byte)
<1>1. MouseTakes(S, b) = [skip |-> FALSE, st |-> MouseOn(S.st, b.byte)]
  BY Zenon DEF MouseTakes
<1> QED
  BY <1>1

LEMMA PackedThree ==
  ASSUME NEW r, DOMAIN r = 1..3, \A i \in 1..3 : r[i].aux, NEW P, P.skip = FALSE
  PROVE  Packed(P, r) = [skip |-> FALSE, st |-> MouseOn(MouseOn(MouseOn(P.st, r[1].byte), r[2].byte), r[3].byte)]
<1>1. Packed(P, r) = MouseTakes(MouseTakes(MouseTakes(P, r[1]), r[2]), r[3])
  BY FewBytes, Zenon
<1>2. r[1].aux /\ r[2].aux /\ r[3].aux
  BY OneTwoThree, Zenon
<1>3. MouseTakes(P, r[1]).skip = FALSE /\ MouseTakes(P, r[1]).st = MouseOn(P.st, r[1].byte)
  BY <1>2, PackedByte, Zenon
<1>4. /\ MouseTakes(MouseTakes(P, r[1]), r[2]).skip = FALSE
      /\ MouseTakes(MouseTakes(P, r[1]), r[2]).st = MouseOn(MouseTakes(P, r[1]).st, r[2].byte)
  BY <1>2, <1>3, PackedByte, Zenon
<1>5. MouseTakes(MouseTakes(MouseTakes(P, r[1]), r[2]), r[3])
        = [skip |-> FALSE, st |-> MouseOn(MouseTakes(MouseTakes(P, r[1]), r[2]).st, r[3].byte)]
  BY <1>2, <1>4, PackedByte, Zenon
<1> QED
  BY <1>1, <1>3, <1>4, <1>5, Zenon

(* A packet of a small movement makes its event. *)
LEMMA PacketTakes ==
  ASSUME SmallMotions, NEW p \in Packets, NEW P, NEW o, MouseSays(P, o), NEW r, r = FromMouse(p)
  PROVE  MouseSays(Packed(P, r), Append(o, Motion(p))) /\ Motion(p) \in Event
<1>1. /\ p \in Seq(Byte) /\ Len(p) = 3 /\ DOMAIN p = 1..3
      /\ p[1] \in Byte /\ p[2] \in Byte /\ p[3] \in Byte /\ Bit(p[1], 8)
  BY PacketIs, Zenon
<1>2. P \in PackType /\ ~P.skip /\ P.st.buf = <<>> /\ P.st.out = o
  BY Zenon DEF MouseSays
<1>3. P.st \in MouseType /\ P.skip = FALSE
  BY <1>2 DEF PackType
<1>5. DOMAIN r = 1..3 /\ \A i \in 1..3 : r[i].aux /\ r[i].byte = p[i]
  <2>1. PICK n : n = Len(p) /\ 1..n = 1..3
    BY <1>1, Zenon
  <2>2. DOMAIN r = 1..n /\ \A i \in 1..n : r[i].aux /\ r[i].byte = p[i]
    BY <1>1, <2>1, FromFacts, Zenon
  <2> QED
    BY <2>1, <2>2, Zenon
<1>7. r[1].byte = p[1] /\ r[2].byte = p[2] /\ r[3].byte = p[3]
  BY <1>5, OneTwoThree, Zenon
<1>9. PICK u, e : /\ u = MouseOn(MouseOn(MouseOn(P.st, p[1]), p[2]), p[3])
                  /\ e = [dx |-> Delta(p[2], p[1], 16, 64), dy |-> -Delta(p[3], p[1], 32, 128), buttons |-> p[1] % 8]
  OBVIOUS
<1>10. Packed(P, r) = [skip |-> FALSE, st |-> u]
  <2>1. Packed(P, r) = [skip |-> FALSE, st |-> MouseOn(MouseOn(MouseOn(P.st, r[1].byte), r[2].byte), r[3].byte)]
    BY <1>3, <1>5, PackedThree, Zenon
  <2> QED
    BY <1>7, <1>9, <2>1, Zenon
<1>12. u \in MouseType /\ u.buf = <<>> /\ u.out = Append(o, e) /\ e \in Event
  <2>1. u \in MouseType /\ u.buf = <<>> /\ u.out = Append(P.st.out, e) /\ e \in Event
    <3>1. PICK m, b1, b2, b3 : m = P.st /\ b1 = p[1] /\ b2 = p[2] /\ b3 = p[3]
      OBVIOUS
    <3>2. /\ m \in MouseType /\ m.buf = <<>> /\ b1 \in Byte /\ b2 \in Byte /\ b3 \in Byte /\ Bit(b1, 8)
          /\ u = MouseOn(MouseOn(MouseOn(m, b1), b2), b3)
          /\ e = [dx |-> Delta(b2, b1, 16, 64), dy |-> -Delta(b3, b1, 32, 128), buttons |-> b1 % 8]
      BY <1>1, <1>2, <1>3, <1>9, <3>1, Zenon
    <3>3. u \in MouseType /\ u.buf = <<>> /\ u.out = Append(m.out, e) /\ e \in Event
      BY <3>2, ThreeBytes
    <3> QED
      BY <3>1, <3>3, Zenon
  <2> QED
    BY <1>2, <2>1, Zenon
<1>16. e = Motion(p)
  <2>1. SmallMotion(p, 2, 16, 64) /\ SmallMotion(p, 3, 32, 128)
    BY Zenon DEF SmallMotions
  <2>2. Delta(p[2], p[1], 16, 64) = Moved(p, 2, 16, 64)
    BY <1>1, <2>1, DeltaIsMoved, Zenon
  <2>3. Delta(p[3], p[1], 32, 128) = Moved(p, 3, 32, 128)
    BY <1>1, <2>1, DeltaIsMoved, ZenonT(60)
  <2> QED
    BY <1>9, <2>2, <2>3, Zenon DEF Motion
<1>17. MouseSays([skip |-> FALSE, st |-> u], Append(o, e))
  <2>1. ASSUME NEW v, v = [skip |-> FALSE, st |-> u] PROVE MouseSays(v, Append(o, e))
    <3>1. v.skip = FALSE /\ v.st = u /\ v \in PackType
      BY <1>12, <2>1 DEF PackType
    <3> QED
      BY <1>12, <3>1, Zenon DEF MouseSays
  <2> QED
    BY <2>1, Zenon
<1> QED
  BY <1>10, <1>12, <1>16, <1>17, Zenon

(* The bytes bs of a key, by what it is. *)
OneCode(key, bs, k, b) ==
    /\ Len(key) = 1 /\ key[1] = k /\ DOMAIN bs = 1..1 /\ bs[1] = b
    /\ (key \in {<<42>>, <<54>>} <=> k \in {42, 54}) /\ (key = <<58>> <=> k = 58)
TwoCodes(key, bs, b) ==
    /\ Len(key) # 1 /\ DOMAIN bs = 1..2 /\ bs[1] = 224 /\ bs[2] = b
    /\ key \notin {<<42>>, <<54>>} /\ key # <<58>>
KeyCode(key, bs, k, b, release) ==
    /\ bs \in Seq(Byte) /\ k \in 0..127 \ {96} /\ b = LastByte(k, release)
    /\ OneCode(key, bs, k, b) \/ TwoCodes(key, bs, b)

LEMMA CodeBytes ==
  /\ 224 \in Byte
  /\ \A k \in 0..127 \ {96}, release \in BOOLEAN :
       LastByte(k, release) \in Byte /\ LastByte(k, release) = IF release THEN k + 128 ELSE k
<1>1. 224 \in Byte
  BY DEF Byte
<1>2. ASSUME NEW k \in 0..127 \ {96}, NEW release \in BOOLEAN
      PROVE  LastByte(k, release) \in Byte /\ LastByte(k, release) = IF release THEN k + 128 ELSE k
  <2>1. Codes(LastByte(k, release), k, release)
    BY LastByteFacts
  <2> QED
    BY <2>1, Zenon DEF Codes, LastByte
<1> QED
  BY <1>1, <1>2

LEMMA KeySequences ==
  ASSUME NEW k
  PROVE  /\ Len(<<k>>) = 1 /\ DOMAIN <<k>> = 1..1 /\ <<k>>[1] = k
         /\ (<<k>> \in {<<42>>, <<54>>} <=> k \in {42, 54}) /\ (<<k>> = <<58>> <=> k = 58)
         /\ Len(<<224, k>>) = 2 /\ DOMAIN <<224, k>> = 1..2 /\ <<224, k>>[1] = 224 /\ <<224, k>>[2] = k
         /\ <<224, k>> \notin {<<42>>, <<54>>} /\ <<224, k>> # <<58>>
         /\ 2 # 1 /\ 1 # 2
  OBVIOUS

LEMMA CodeIs ==
  ASSUME NEW key \in Keys, NEW release \in BOOLEAN,
         NEW bs, bs = [i \in DOMAIN key |-> IF i = Len(key) /\ release THEN key[i] + 128 ELSE key[i]]
  PROVE  \E k, b : KeyCode(key, bs, k, b, release)
<1>1. PICK k \in 0..127 \ {96} : key \in {<<k>>, <<224, k>>}
  BY Ps2Assumption, Zenon
<1>2. ASSUME NEW b, b = LastByte(k, release) PROVE KeyCode(key, bs, k, b, release)
  <2>1. b \in Byte /\ b = IF release THEN k + 128 ELSE k
    BY <1>2, CodeBytes, Zenon
  <2>2. \A n \in Nat : bs \in [1..n -> Byte] => bs \in Seq(Byte)
    OBVIOUS
  <2>3. DOMAIN bs = DOMAIN key /\ \A i \in DOMAIN key : bs[i] = IF i = Len(key) /\ release THEN key[i] + 128 ELSE key[i]
    OBVIOUS
  <2>4. \A n : n = Len(key) /\ n \in DOMAIN key /\ key[n] = k => bs[n] = b
    BY <2>1, <2>3, Zenon
  <2>5. \A i \in DOMAIN key : i # Len(key) => bs[i] = key[i]
    BY <2>3, Zenon
  <2>6. bs = [i \in DOMAIN bs |-> bs[i]]
    OBVIOUS
  <2>9. b \in Byte
    BY <2>1, Zenon
  <2>7. CASE key = <<k>>
    <3>1. Len(key) = 1 /\ DOMAIN key = 1..1 /\ key[1] = k /\ 1 \in DOMAIN key
      <4>1. Len(key) = 1 /\ DOMAIN key = 1..1 /\ key[1] = k
        BY <2>7, KeySequences, ZenonT(60)
      <4> QED
        BY <4>1, OneTwoThree, Zenon
    <3>2. (key \in {<<42>>, <<54>>} <=> k \in {42, 54}) /\ (key = <<58>> <=> k = 58)
      BY <2>7, KeySequences
    <3>3. DOMAIN bs = 1..1 /\ bs[1] = b
      BY <2>3, <2>4, <3>1, Zenon
    <3>4. \A i \in 1..1 : i = 1
      OBVIOUS
    <3>5. \A i \in 1..1 : bs[i] \in Byte
      BY <2>9, <3>3, <3>4, Zenon
    <3>6. bs \in Seq(Byte)
      BY <2>2, <2>6, <3>3, <3>5, OneTwoThree, Zenon
    <3>7. OneCode(key, bs, k, b)
      BY <3>1, <3>2, <3>3, Zenon DEF OneCode
    <3> QED
      BY <1>2, <3>6, <3>7, Zenon DEF KeyCode
  <2>8. CASE key = <<224, k>>
    <3>1. Len(key) = 2 /\ DOMAIN key = 1..2 /\ key[1] = 224 /\ key[2] = k /\ Len(key) # 1 /\ 1 # Len(key)
      BY <2>8, KeySequences, Zenon
    <3>2. key \notin {<<42>>, <<54>>} /\ key # <<58>>
      BY <2>8, KeySequences
    <3>3. DOMAIN bs = 1..2 /\ bs[2] = b
      BY <2>3, <2>4, <3>1, OneTwoThree, ZenonT(60)
    <3>4. bs[1] = 224
      BY <2>5, <3>1, OneTwoThree, ZenonT(60)
    <3>5. \A i \in 1..2 : i = 1 \/ i = 2
      OBVIOUS
    <3>6. \A i \in 1..2 : bs[i] \in Byte
      <4>1. ASSUME NEW i \in 1..2 PROVE bs[i] \in Byte
        <5>1. CASE i = 1
          BY <3>4, <5>1, CodeBytes, ZenonT(60)
        <5>2. CASE i = 2
          BY <2>9, <3>3, <5>2, Zenon
        <5> QED
          BY <3>5, <5>1, <5>2, Zenon
      <4> QED
        BY <4>1, Zenon
    <3>7. bs \in Seq(Byte)
      BY <2>2, <2>6, <3>3, <3>6, OneTwoThree, Zenon
    <3>8. TwoCodes(key, bs, b)
      BY <3>1, <3>2, <3>3, <3>4, Zenon DEF TwoCodes
    <3> QED
      BY <1>2, <3>7, <3>8, Zenon DEF KeyCode
  <2> QED
    BY <1>1, <2>7, <2>8, Zenon
<1> QED
  BY <1>2, Zenon

(* The user's side of a key. *)
KeyMeans(key, release) ==
    /\ shift_held' = IF key \in {<<42>>, <<54>>} THEN ~release ELSE shift_held
    /\ caps_lock' = IF key = <<58>> /\ ~release THEN ~caps_lock ELSE caps_lock
    /\ typed_runes' = IF Len(key) = 1 /\ ~release /\ Meant(key[1]) # ""
                      THEN Append(typed_runes, Meant(key[1])) ELSE typed_runes

LEMMA OneCodeTakes ==
  ASSUME NEW key, NEW release \in BOOLEAN, NEW k \in 0..127 \ {96}, NEW b, b = LastByte(k, release),
         NEW bs, OneCode(key, bs, k, b), KeyMeans(key, release),
         shift_held \in BOOLEAN, caps_lock \in BOOLEAN,
         NEW g, KbdSays(g, typed_runes, shift_held, caps_lock), NEW r, r = kbd_handle_scancode(g, b)
  PROVE  KbdSays(r, typed_runes', shift_held', caps_lock')
<1>1. k \in 0..127
  OBVIOUS
<1>2. /\ Len(key) = 1 /\ key[1] = k
      /\ (key \in {<<42>>, <<54>>} <=> k \in {42, 54}) /\ (key = <<58>> <=> k = 58)
  BY Zenon DEF OneCode
<1>3. shift_held' = IF k \in {42, 54} THEN ~release ELSE shift_held
  BY <1>2, Zenon DEF KeyMeans
<1>4. caps_lock' = IF k = 58 /\ ~release THEN ~caps_lock ELSE caps_lock
  BY <1>2, Zenon DEF KeyMeans
<1>5. typed_runes' = IF ~release /\ Meant(k) # "" THEN Append(typed_runes, Meant(k)) ELSE typed_runes
  BY <1>2, Zenon DEF KeyMeans
<1>6. k \in {42, 54, 29, 56, 58} => Meant(k) = ""
  BY <1>1, RuneFacts, Zenon
<1>0. KeySays(k, release, g.m, r, typed_runes, shift_held, caps_lock)
  BY SingleKey, Zenon
<1>7. CASE k = 58
  <2>1. KbdSays(r, typed_runes, shift_held, IF release THEN caps_lock ELSE ~caps_lock)
    BY <1>0, <1>7, Zenon DEF KeySays
  <2>2. k \notin {42, 54} /\ k \in {42, 54, 29, 56, 58}
    BY <1>7
  <2>3. typed_runes' = typed_runes /\ shift_held' = shift_held
    BY <1>3, <1>5, <1>6, <2>2, Zenon
  <2>4. caps_lock' = IF release THEN caps_lock ELSE ~caps_lock
    BY <1>4, <1>7, Zenon
  <2> QED
    BY <2>1, <2>3, <2>4, Zenon
<1>8. CASE k \in {42, 54}
  <2>1. KbdSays(r, typed_runes, ~release, caps_lock)
    BY <1>0, <1>8, Zenon DEF KeySays
  <2>2. k # 58 /\ k \in {42, 54, 29, 56, 58}
    BY <1>8
  <2>3. typed_runes' = typed_runes /\ shift_held' = ~release /\ caps_lock' = caps_lock
    BY <1>3, <1>4, <1>5, <1>6, <1>8, <2>2, Zenon
  <2> QED
    BY <2>1, <2>3, Zenon
<1>9. CASE k \in {29, 56}
  <2>1. KbdSays(r, typed_runes, shift_held, caps_lock)
    BY <1>0, <1>9, Zenon DEF KeySays
  <2>2. k # 58 /\ k \notin {42, 54} /\ k \in {42, 54, 29, 56, 58}
    BY <1>9
  <2>3. typed_runes' = typed_runes /\ shift_held' = shift_held /\ caps_lock' = caps_lock
    BY <1>3, <1>4, <1>5, <1>6, <2>2, Zenon
  <2> QED
    BY <2>1, <2>3, Zenon
<1>10. CASE k \notin {42, 54, 29, 56, 58}
  <2>1. KbdSays(r, IF release \/ Rune(g.m, k) = "" THEN typed_runes ELSE Append(typed_runes, Rune(g.m, k)),
                shift_held, caps_lock)
    BY <1>0, <1>10, Zenon DEF KeySays
  <2>2. k # 58 /\ k \notin {42, 54}
    BY <1>10
  <2>3. shift_held' = shift_held /\ caps_lock' = caps_lock
    BY <1>3, <1>4, <2>2, Zenon
  <2>4. Rune(g.m, k) = Meant(k)
    BY <1>1, RuneFacts, Zenon DEF KbdSays
  <2>5. typed_runes' = IF release \/ Rune(g.m, k) = "" THEN typed_runes ELSE Append(typed_runes, Rune(g.m, k))
    BY <1>5, <2>4, Zenon
  <2> QED
    BY <2>1, <2>3, <2>5, Zenon
<1> QED
  BY <1>7, <1>8, <1>9, <1>10

LEMMA KeyTakes ==
  ASSUME NEW key, NEW release \in BOOLEAN, NEW bs, NEW k, NEW b, KeyCode(key, bs, k, b, release), KeyMeans(key, release),
         shift_held \in BOOLEAN, caps_lock \in BOOLEAN,
         NEW g, KbdSays(g, typed_runes, shift_held, caps_lock), NEW q, q = FromKbd(bs)
  PROVE  KbdSays(Keyed(g, q), typed_runes', shift_held', caps_lock')
<1>1. /\ bs \in Seq(Byte) /\ k \in 0..127 \ {96} /\ b = LastByte(k, release)
      /\ OneCode(key, bs, k, b) \/ TwoCodes(key, bs, b)
  BY Zenon DEF KeyCode
<1>2. \A n \in Nat : DOMAIN bs = 1..n => DOMAIN q = 1..n /\ \A i \in 1..n : ~q[i].aux /\ q[i].byte = bs[i]
  <2>1. \A n \in Nat : DOMAIN bs = 1..n => Len(bs) = n
    BY <1>1
  <2>2. DOMAIN q = 1..Len(bs) /\ \A i \in 1..Len(bs) : ~q[i].aux /\ q[i].byte = bs[i]
    BY <1>1, FromFacts, Zenon
  <2> QED
    BY <2>1, <2>2, Zenon
<1>3. CASE OneCode(key, bs, k, b)
  <2>1. DOMAIN bs = 1..1 /\ bs[1] = b
    BY <1>3, Zenon DEF OneCode
  <2>2. DOMAIN q = 1..1 /\ ~q[1].aux /\ q[1].byte = b
    BY <1>2, <2>1, OneTwoThree, Zenon
  <2>3. Keyed(g, q) = KbdTakes(g, q[1])
    BY <2>2, FewBytes, Zenon
  <2>4. Keyed(g, q) = kbd_handle_scancode(g, b)
    BY <2>2, <2>3, Zenon DEF KbdTakes
  <2>5. \A r : r = kbd_handle_scancode(g, b) => KbdSays(r, typed_runes', shift_held', caps_lock')
    <3> SUFFICES ASSUME NEW r, r = kbd_handle_scancode(g, b) PROVE KbdSays(r, typed_runes', shift_held', caps_lock')
      OBVIOUS
    <3> QED
      BY <1>1, <1>3, OneCodeTakes
  <2> QED
    BY <2>4, <2>5, Zenon
<1>4. CASE TwoCodes(key, bs, b)
  <2>1. DOMAIN bs = 1..2 /\ bs[1] = 224 /\ bs[2] = b
    BY <1>4, Zenon DEF TwoCodes
  <2>2. DOMAIN q = 1..2 /\ \A i \in 1..2 : ~q[i].aux /\ q[i].byte = bs[i]
    BY <1>2, <2>1, OneTwoThree, Zenon
  <2>9. q[1].byte = bs[1] /\ q[2].byte = bs[2] /\ ~q[1].aux /\ ~q[2].aux
    BY <2>2, OneTwoThree, Zenon
  <2>3. ~q[1].aux /\ q[1].byte = 224 /\ ~q[2].aux /\ q[2].byte = b
    BY <2>1, <2>9, Zenon
  <2>4. Keyed(g, q) = KbdTakes(KbdTakes(g, q[1]), q[2])
    <3>1. DOMAIN q = 1..2 => Keyed(g, q) = KbdTakes(KbdTakes(g, q[1]), q[2])
      BY FewBytes
    <3> QED
      BY <2>2, <3>1, Zenon
  <2>5. Keyed(g, q) = kbd_handle_scancode(kbd_handle_scancode(g, 224), b)
    BY <2>3, <2>4, Zenon DEF KbdTakes
  <2>6. typed_runes' = typed_runes /\ shift_held' = shift_held /\ caps_lock' = caps_lock
    BY <1>4, Zenon DEF KeyMeans, TwoCodes
  <2>7. \A p, r : p = kbd_handle_scancode(g, 224) /\ r = kbd_handle_scancode(p, b)
                 => KbdSays(r, typed_runes, shift_held, caps_lock)
    <3> SUFFICES ASSUME NEW p, NEW r, p = kbd_handle_scancode(g, 224), r = kbd_handle_scancode(p, b)
                 PROVE  KbdSays(r, typed_runes, shift_held, caps_lock)
      OBVIOUS
    <3> QED
      BY <1>1, PrefixedKey
  <2> QED
    BY <2>5, <2>6, <2>7, Zenon
<1> QED
  BY <1>1, <1>3, <1>4, Zenon

-----------------------------------------------------------------------------
(* Every step keeps the invariant *)

LEMMA SameState ==
  /\ UNCHANGED kbdVars => KbdState' = KbdState
  /\ UNCHANGED mouseVars => MouseState' = MouseState /\ events' = events /\ mouse_buf' = mouse_buf
                            /\ mouse_enabled' = mouse_enabled
  /\ UNCHANGED mouseVars /\ (step' = "read 3" <=> step = "read 3") => PackState' = PackState
<1>1. UNCHANGED kbdVars => KbdState' = KbdState
  BY DEF kbdVars, KbdState
<1>2. UNCHANGED mouseVars => MouseState' = MouseState /\ events' = events /\ mouse_buf' = mouse_buf
                            /\ mouse_enabled' = mouse_enabled
  BY DEF mouseVars, MouseState
<1>3. ASSUME UNCHANGED mouseVars, step' = "read 3" <=> step = "read 3" PROVE PackState' = PackState
  <2>1. (step' = "read 3") = (step = "read 3")
    BY <1>3
  <2> QED
    BY <1>2, <1>3, <2>1, Zenon DEF PackState
<1> QED
  BY <1>1, <1>2, <1>3, Zenon

LEMMA BoundFacts ==
  ASSUME NEW n, NEW max \in Nat, NEW early \in 0..max, n \in 0..max, NEW ready
  PROVE  /\ n < max => n + 1 \in 0..max
         /\ n < (IF ready THEN max ELSE early) => n + 1 \in 0..max
<1>1. n \in Nat /\ n <= max /\ early \in Nat /\ early <= max
  OBVIOUS
<1>2. n < early => n < max
  BY <1>1
<1>3. n < max => n + 1 \in 0..max
  BY <1>1
<1> QED
  BY <1>2, <1>3, Zenon

LEMMA KeyUnfolds ==
  ASSUME NEW key, NEW release, Key(key, release),
         NEW bs, bs = [i \in DOMAIN key |-> IF i = Len(key) /\ release THEN key[i] + 128 ELSE key[i]]
  PROVE  /\ nkeys < IF step = "on" THEN MaxKeys ELSE MaxEarly
         /\ down' = IF release THEN down \ {key} ELSE down \cup {key}
         /\ nkeys' = nkeys + 1 /\ Queue(FromKbd(bs)) /\ KeyMeans(key, release)
         /\ UNCHANGED <<step, kbd_on, mouse_on, reports, calm>> /\ UNCHANGED kbdVars /\ UNCHANGED mouseVars
         /\ UNCHANGED <<moves, npackets, nctl>>
<1>1. /\ nkeys < IF step = "on" THEN MaxKeys ELSE MaxEarly
      /\ down' = IF release THEN down \ {key} ELSE down \cup {key}
      /\ nkeys' = nkeys + 1 /\ Queue(FromKbd(bs))
  BY Zenon DEF Key
<1>2. KeyMeans(key, release)
  BY Zenon DEF Key, KeyMeans
<1>3. UNCHANGED <<step, kbd_on, mouse_on, reports, calm, kbdVars, mouseVars, moves, npackets, nctl>>
  BY Zenon DEF Key
<1>4. /\ UNCHANGED <<step, kbd_on, mouse_on, reports, calm>> /\ UNCHANGED kbdVars /\ UNCHANGED mouseVars
      /\ UNCHANGED <<moves, npackets, nctl>>
  BY <1>3
<1> QED
  BY <1>1, <1>2, <1>4, Zenon

LEMMA KeyKeeps ==
  ASSUME Ps2Inv, NEW key \in Keys, NEW release \in BOOLEAN, Key(key, release)
  PROVE  Ps2Inv'
<1> DEFINE bs == [i \in DOMAIN key |-> IF i = Len(key) /\ release THEN key[i] + 128 ELSE key[i]]
<1>1. PICK k, b : KeyCode(key, bs, k, b, release)
  BY CodeIs
<1>2. /\ nkeys < IF step = "on" THEN MaxKeys ELSE MaxEarly
      /\ down' = IF release THEN down \ {key} ELSE down \cup {key}
      /\ nkeys' = nkeys + 1 /\ Queue(FromKbd(bs)) /\ KeyMeans(key, release)
      /\ UNCHANGED <<step, kbd_on, mouse_on, reports, calm>> /\ UNCHANGED kbdVars /\ UNCHANGED mouseVars
      /\ UNCHANGED <<moves, npackets, nctl>>
  BY KeyUnfolds
<1> HIDE DEF bs
<1>3. CtlTypes /\ BufTypes /\ UserTypes /\ MoveTypes /\ CtrTypes /\ KbdState \in KbdType /\ MouseState \in MouseType
      /\ UpInv /\ KbdInv /\ MouseInv
  BY Zenon DEF Ps2Inv
<1>4. bs \in Seq(Byte)
  BY <1>1, Zenon DEF KeyCode
<1>5. /\ step' = step /\ kbd_on' = kbd_on /\ mouse_on' = mouse_on /\ reports' = reports /\ calm' = calm
      /\ moves' = moves /\ npackets' = npackets /\ nctl' = nctl
  BY <1>2
<1>6. KbdState' = KbdState /\ MouseState' = MouseState /\ PackState' = PackState
      /\ events' = events /\ mouse_buf' = mouse_buf /\ mouse_enabled' = mouse_enabled
  BY <1>2, <1>5, SameState, Zenon
<1>7. PICK r \in Seq(InByte) : r = FromKbd(bs) /\ \A i \in 1..Len(r) : ~r[i].aux
  <2>1. PICK r : r = FromKbd(bs)
    OBVIOUS
  <2>2. r \in Seq(InByte) /\ DOMAIN r = 1..Len(bs) /\ \A i \in 1..Len(bs) : ~r[i].aux
    BY <1>4, <2>1, FromFacts, Zenon
  <2>3. DOMAIN r = 1..Len(r)
    BY <2>2
  <2> QED
    BY <2>1, <2>2, <2>3, Zenon
<1>8. obuf \in Seq(InByte) /\ irqs \subseteq Irqs
  BY <1>3, Zenon DEF BufTypes
<1>9. obuf' = obuf \o r /\ obuf' \in Seq(InByte) /\ irqs' \subseteq Irqs
  BY <1>2, <1>7, <1>8, QueueGoes, Zenon
<1>10. shift_held \in BOOLEAN /\ caps_lock \in BOOLEAN /\ typed_runes \in Seq(Runes) /\ down \subseteq Keys /\ nkeys \in 0..MaxKeys
  BY <1>3 DEF UserTypes
<1>11. CtlTypes' /\ MoveTypes' /\ CtrTypes' /\ UpInv'
  BY <1>3, <1>5, <1>6, Zenon DEF CtlTypes, MoveTypes, CtrTypes, UpInv
<1>12. BufTypes'
  BY <1>9, Zenon DEF BufTypes
<1>13. UserTypes'
  <2>1. nkeys' \in 0..MaxKeys
    <3>1. MaxKeys \in Nat /\ MaxEarly \in 0..MaxKeys
      BY Ps2Assumption, Zenon
    <3> QED
      BY <1>2, <1>10, <3>1, BoundFacts, Zenon
  <2>2. down' \subseteq Keys
    BY <1>2, <1>10
  <2>3. shift_held' \in BOOLEAN /\ caps_lock' \in BOOLEAN
    BY <1>2, <1>10 DEF KeyMeans
  <2>4. typed_runes' \in Seq(Runes)
    <3>1. CASE typed_runes' = typed_runes
      BY <1>10, <3>1
    <3>2. CASE typed_runes' # typed_runes
      <4>1. Len(key) = 1 /\ typed_runes' = Append(typed_runes, Meant(key[1]))
        BY <1>2, <3>2, Zenon DEF KeyMeans
      <4>2. key[1] \in 0..127
        <5>1. OneCode(key, bs, k, b) /\ k \in 0..127 \ {96}
          BY <1>1, <4>1, Zenon DEF KeyCode, TwoCodes
        <5>2. key[1] = k
          BY <5>1, Zenon DEF OneCode
        <5> QED
          BY <5>1, <5>2, Zenon
      <4>3. Meant(key[1]) \in Runes
        BY <4>2, RuneFacts, Zenon
      <4>4. \A x \in Runes : Append(typed_runes, x) \in Seq(Runes)
        BY <1>10
      <4> QED
        BY <4>1, <4>3, <4>4, Zenon
    <3> QED
      BY <3>1, <3>2
  <2> QED
    BY <2>1, <2>2, <2>3, <2>4, Zenon DEF UserTypes
<1>14. KbdState' \in KbdType /\ MouseState' \in MouseType
  BY <1>3, <1>6, Zenon
<1>15. KbdInv'
  <2>1. ASSUME "kbd" \in calm' PROVE KbdSays(Keyed(KbdState, obuf \o r), typed_runes', shift_held', caps_lock')
    <3>1. KbdSays(Keyed(KbdState, obuf), typed_runes, shift_held, caps_lock)
      BY <1>3, <1>5, <2>1, Zenon DEF KbdInv
    <3>2. Keyed(KbdState, obuf \o r) = Keyed(Keyed(KbdState, obuf), r)
      BY <1>7, <1>8, BothConcat, Zenon
    <3>3. PICK g : g = Keyed(KbdState, obuf)
      OBVIOUS
    <3>4. KbdSays(Keyed(g, r), typed_runes', shift_held', caps_lock')
      BY <1>1, <1>2, <1>7, <1>10, <3>1, <3>3, KeyTakes, Zenon
    <3> QED
      BY <3>2, <3>3, <3>4, Zenon
  <2> QED
    BY <1>6, <1>9, <2>1, Zenon DEF KbdInv
<1>16. MouseInv'
  <2>1. calm' \subseteq calm
    BY <1>5
  <2> QED
    BY <1>3, <1>5, <1>6, <1>7, <1>8, <1>9, <2>1, MouseKept, Zenon
<1> QED
  BY <1>11, <1>12, <1>13, <1>14, <1>15, <1>16, Zenon DEF Ps2Inv

LEMMA MovedType ==
  ASSUME NEW p, NEW i, p[i] \in Byte, NEW sign, NEW overflow
  PROVE  Moved(p, i, sign, overflow) \in Int /\ -Moved(p, i, sign, overflow) \in Int
<1>1. \A b \in Int : 0 \in Int /\ -0 \in Int /\ b - 256 \in Int /\ b - 0 \in Int /\ -b \in Int
  OBVIOUS
<1>2. p[i] \in Int
  BY DEF Byte
<1>3. Moved(p, i, sign, overflow) \in Int
  BY <1>1, <1>2, Zenon DEF Moved
<1> QED
  BY <1>1, <1>3, Zenon

LEMMA MotionType ==
  ASSUME NEW p \in Packets
  PROVE  Motion(p) \in Event
<1>1. p[1] \in Byte /\ p[2] \in Byte /\ p[3] \in Byte
  BY PacketIs, Zenon
<1>2. p[1] % 8 \in 0..7
  BY <1>1, ByteFacts, Zenon
<1>3. Moved(p, 2, 16, 64) \in Int /\ -Moved(p, 3, 32, 128) \in Int
  BY <1>1, MovedType, Zenon
<1>4. Motion(p) = [dx |-> Moved(p, 2, 16, 64), dy |-> -Moved(p, 3, 32, 128), buttons |-> p[1] % 8]
  BY Zenon DEF Motion
<1> QED
  BY <1>2, <1>3, <1>4 DEF Event

LEMMA PacketUnfolds ==
  ASSUME NEW p, Packet(p)
  PROVE  /\ reports /\ npackets < MaxPackets /\ npackets' = npackets + 1 /\ Queue(FromMouse(p))
         /\ moves' = Append(moves, Motion(p))
         /\ UNCHANGED <<step, kbd_on, mouse_on, reports, calm>> /\ UNCHANGED kbdVars /\ UNCHANGED mouseVars
         /\ UNCHANGED <<typed_runes, down, shift_held, caps_lock, nkeys, nctl>>
<1>1. /\ reports /\ npackets < MaxPackets /\ npackets' = npackets + 1 /\ Queue(FromMouse(p))
      /\ moves' = Append(moves, Motion(p))
  BY Zenon DEF Packet
<1>2. UNCHANGED <<step, kbd_on, mouse_on, reports, calm, kbdVars, mouseVars, typed_runes,
                  down, shift_held, caps_lock, nkeys, nctl>>
  BY Zenon DEF Packet
<1>3. /\ UNCHANGED <<step, kbd_on, mouse_on, reports, calm>> /\ UNCHANGED kbdVars /\ UNCHANGED mouseVars
      /\ UNCHANGED <<typed_runes, down, shift_held, caps_lock, nkeys, nctl>>
  BY <1>2
<1> QED
  BY <1>1, <1>3, Zenon

(* Bytes of the mouse that come in. *)
LEMMA MouseBytes ==
  ASSUME obuf \in Seq(InByte), irqs \subseteq Irqs, NEW bs \in Seq(Byte), Queue(FromMouse(bs))
  PROVE  \E r \in Seq(InByte) : /\ r = FromMouse(bs) /\ (\A i \in 1..Len(r) : r[i].aux) /\ Len(r) = Len(bs)
                                /\ obuf' = obuf \o r /\ obuf' \in Seq(InByte) /\ irqs' \subseteq Irqs
<1>1. PICK r : r = FromMouse(bs)
  OBVIOUS
<1>2. r \in Seq(InByte) /\ DOMAIN r = 1..Len(bs) /\ (\A i \in 1..Len(bs) : r[i].aux) /\ Len(r) = Len(bs)
  BY <1>1, FromFacts, Zenon
<1>3. obuf' = obuf \o r /\ obuf' \in Seq(InByte) /\ irqs' \subseteq Irqs
  BY <1>1, <1>2, QueueGoes, Zenon
<1> QED
  BY <1>1, <1>2, <1>3, Zenon

LEMMA PacketKeeps ==
  ASSUME Ps2Inv, NEW p \in Packets, Packet(p)
  PROVE  Ps2Inv'
<1>1. CtlTypes /\ BufTypes /\ UserTypes /\ MoveTypes /\ CtrTypes /\ KbdState \in KbdType /\ MouseState \in MouseType
      /\ UpInv /\ KbdInv /\ MouseInv
  BY Zenon DEF Ps2Inv
<1>2. /\ reports /\ npackets < MaxPackets /\ npackets' = npackets + 1 /\ Queue(FromMouse(p))
      /\ moves' = Append(moves, Motion(p))
      /\ UNCHANGED <<step, kbd_on, mouse_on, reports, calm>> /\ UNCHANGED kbdVars /\ UNCHANGED mouseVars
      /\ UNCHANGED <<typed_runes, down, shift_held, caps_lock, nkeys, nctl>>
  BY PacketUnfolds, Zenon
<1>3. /\ step' = step /\ kbd_on' = kbd_on /\ mouse_on' = mouse_on /\ reports' = reports /\ calm' = calm
      /\ typed_runes' = typed_runes /\ down' = down /\ shift_held' = shift_held /\ caps_lock' = caps_lock
      /\ nkeys' = nkeys /\ nctl' = nctl
  BY <1>2
<1>4. KbdState' = KbdState /\ MouseState' = MouseState /\ PackState' = PackState
      /\ events' = events /\ mouse_buf' = mouse_buf /\ mouse_enabled' = mouse_enabled
  BY <1>2, <1>3, SameState, Zenon
<1>5. obuf \in Seq(InByte) /\ irqs \subseteq Irqs
  BY <1>1, Zenon DEF BufTypes
<1>6. p \in Seq(Byte)
  BY PacketIs, Zenon
<1>7. PICK r \in Seq(InByte) : /\ r = FromMouse(p) /\ (\A i \in 1..Len(r) : r[i].aux)
                               /\ obuf' = obuf \o r /\ obuf' \in Seq(InByte) /\ irqs' \subseteq Irqs
  BY <1>2, <1>5, <1>6, MouseBytes, Zenon
<1>8. step \in {"read 3", "on"} /\ step' \in {"read 3", "on"}
  BY <1>1, <1>2, <1>3, Zenon DEF UpInv
<1>9. CtlTypes' /\ UserTypes' /\ CtrTypes' /\ BufTypes'
  BY <1>1, <1>3, <1>4, <1>7, Zenon DEF CtlTypes, UserTypes, CtrTypes, BufTypes
<1>10. UpInv'
  <2>1. reports' <=> step' \in {"read 3", "on"}
    <3>1. reports /\ reports' = reports
      BY <1>2, <1>3, Zenon
    <3>2. reports'
      BY <3>1
    <3> QED
      BY <1>8, <3>2, Zenon
  <2>2. step' \notin {"read 3", "on"} => moves' = <<>>
    BY <1>8, Zenon
  <2>3. step' # "on" => events' = <<>> /\ mouse_buf' = <<>> /\ nctl' = 0
    BY <1>1, <1>3, <1>4, Zenon DEF UpInv
  <2>4. nctl' = 0 => mouse_enabled'
    BY <1>1, <1>3, <1>4, Zenon DEF UpInv
  <2> QED
    BY <2>1, <2>2, <2>3, <2>4, Zenon DEF UpInv
<1>11. MoveTypes'
  <2>1. moves \in Seq(Event) /\ npackets \in 0..MaxPackets
    BY <1>1, Zenon DEF MoveTypes
  <2>2. npackets' \in 0..MaxPackets
    <3>1. MaxPackets \in Nat
      BY Ps2Assumption, Zenon
    <3> QED
      BY <1>2, <2>1, <3>1
  <2>3. moves' \in Seq(Event)
    <3>1. \A x \in Event : Append(moves, x) \in Seq(Event)
      BY <2>1
    <3> QED
      BY <1>2, <3>1, MotionType, Zenon
  <2> QED
    BY <2>2, <2>3, Zenon DEF MoveTypes
<1>12. KbdState' \in KbdType /\ MouseState' \in MouseType
  BY <1>1, <1>4, Zenon
<1>13. KbdInv'
  <2>1. calm' \subseteq calm
    BY <1>3
  <2> QED
    BY <1>1, <1>3, <1>4, <1>5, <1>7, <2>1, KbdKept, Zenon
<1>14. MouseInv'
  <2>1. ASSUME SmallMotions, "mouse" \in calm', reports', nctl' = 0
        PROVE  MouseSays(Packed(PackState, obuf \o r), moves')
    <3>1. MouseSays(Packed(PackState, obuf), moves)
      BY <1>1, <1>3, <2>1, Zenon DEF MouseInv
    <3>2. Packed(PackState, obuf \o r) = Packed(Packed(PackState, obuf), r)
      BY <1>5, <1>7, BothConcat, Zenon
    <3>3. MouseSays(Packed(Packed(PackState, obuf), r), Append(moves, Motion(p)))
      BY <1>7, <2>1, <3>1, PacketTakes, Zenon
    <3> QED
      BY <1>2, <3>2, <3>3, Zenon
  <2>2. SmallMotions' <=> SmallMotions
    BY Zenon DEF SmallMotions, SmallMotion
  <2> QED
    BY <1>4, <1>7, <2>1, <2>2, Zenon DEF MouseInv
<1> QED
  BY <1>9, <1>10, <1>11, <1>12, <1>13, <1>14, Zenon DEF Ps2Inv

(* While the ports are being set up the mouse reports nothing. *)
LEMMA QuietMouse ==
  ASSUME reports' = FALSE
  PROVE  MouseInv'
  BY Zenon DEF MouseInv

(* A step of ps2_init that leaves both decoders alone. *)
LEMMA SetUpKeeps ==
  ASSUME Ps2Inv, step \in {"disable", "flush", "reset", "read 1", "read 2"},
         step' \in {"flush", "reset", "read 1", "read 2", "enable"},
         UNCHANGED <<reports, kbdVars, mouseVars, userVars>>, kbd_on' \in BOOLEAN, mouse_on' \in BOOLEAN,
         calm' \subseteq calm, BufTypes', KbdInv'
  PROVE  Ps2Inv'
<1>1. CtlTypes /\ BufTypes /\ UserTypes /\ MoveTypes /\ CtrTypes /\ KbdState \in KbdType /\ MouseState \in MouseType
      /\ UpInv /\ KbdInv /\ MouseInv
  BY Zenon DEF Ps2Inv
<1>2. reports' = reports /\ UNCHANGED kbdVars /\ UNCHANGED mouseVars /\ UNCHANGED userVars
  OBVIOUS
<1>3. /\ typed_runes' = typed_runes /\ moves' = moves /\ down' = down /\ shift_held' = shift_held
      /\ caps_lock' = caps_lock /\ nkeys' = nkeys /\ npackets' = npackets /\ nctl' = nctl
  BY <1>2 DEF userVars
<1>4. KbdState' = KbdState /\ MouseState' = MouseState
      /\ events' = events /\ mouse_buf' = mouse_buf /\ mouse_enabled' = mouse_enabled
  BY <1>2, SameState, Zenon
<1>5. step \notin {"read 3", "on"} /\ step' \notin {"read 3", "on"} /\ step # "on" /\ step' \in Steps
  BY DEF Steps
<1>6. ~reports /\ reports \in BOOLEAN /\ calm \subseteq Irqs
  BY <1>1, <1>5, Zenon DEF UpInv, CtlTypes
<1>7. reports' = FALSE
  BY <1>2, <1>6
<1>8. CtlTypes'
  <2>1. calm' \subseteq Irqs
    BY <1>6
  <2> QED
    BY <1>2, <1>5, <1>6, <2>1, Zenon DEF CtlTypes
<1>9. UserTypes' /\ CtrTypes' /\ MoveTypes'
  BY <1>1, <1>3, <1>4, Zenon DEF UserTypes, CtrTypes, MoveTypes
<1>10. UpInv'
  BY <1>1, <1>3, <1>4, <1>5, <1>7, Zenon DEF UpInv
<1>11. KbdState' \in KbdType /\ MouseState' \in MouseType
  BY <1>1, <1>4, Zenon
<1>12. MouseInv'
  BY <1>7, QuietMouse, Zenon
<1> QED
  BY <1>8, <1>9, <1>10, <1>11, <1>12, Zenon DEF Ps2Inv

(* The parts of the invariant a step of ps2_init relies on. *)
LEMMA InvParts ==
  ASSUME Ps2Inv
  PROVE  /\ CtlTypes /\ BufTypes /\ UserTypes /\ MoveTypes /\ CtrTypes /\ KbdState \in KbdType /\ MouseState \in MouseType
         /\ UpInv /\ KbdInv /\ MouseInv
         /\ obuf \in Seq(InByte) /\ irqs \subseteq Irqs /\ kbd_on \in BOOLEAN /\ mouse_on \in BOOLEAN
  BY Zenon DEF Ps2Inv, BufTypes, CtlTypes

LEMMA UserSame ==
  ASSUME UNCHANGED userVars
  PROVE  /\ typed_runes' = typed_runes /\ moves' = moves /\ down' = down /\ shift_held' = shift_held
         /\ caps_lock' = caps_lock /\ nkeys' = nkeys /\ npackets' = npackets /\ nctl' = nctl
  BY DEF userVars

LEMMA DisableKeeps ==
  ASSUME Ps2Inv, DisablePorts
  PROVE  Ps2Inv'
<1>1. UNCHANGED <<obuf, irqs, reports, calm, kbdVars, mouseVars, userVars>>
  BY Zenon DEF DisablePorts
<1>2. step = "disable" /\ step' = "flush" /\ kbd_on' \in BOOLEAN /\ mouse_on' \in BOOLEAN
  BY Zenon DEF DisablePorts, InitStep
<1>3. /\ obuf' = obuf /\ irqs' = irqs /\ calm' = calm /\ UNCHANGED kbdVars /\ UNCHANGED userVars
      /\ UNCHANGED <<reports, kbdVars, mouseVars, userVars>>
  BY <1>1
<1>4. step \in {"disable", "flush", "reset", "read 1", "read 2"}
      /\ step' \in {"flush", "reset", "read 1", "read 2", "enable"} /\ calm' \subseteq calm
  BY <1>2, <1>3
<1>5. BufTypes'
  BY <1>3, InvParts, Zenon DEF BufTypes
<1>6. KbdState' = KbdState
  BY <1>3, SameState, Zenon
<1>7. KbdInv'
  BY <1>3, <1>6, InvParts, UserSame, Zenon DEF KbdInv
<1> QED
  BY <1>2, <1>3, <1>4, <1>5, <1>7, SetUpKeeps, Zenon

LEMMA FlushKeeps ==
  ASSUME Ps2Inv, FlushAndEnable
  PROVE  Ps2Inv'
<1>1. UNCHANGED <<irqs, reports, kbdVars, mouseVars, userVars>>
  BY Zenon DEF FlushAndEnable
<1>2. /\ step = "flush" /\ step' = "reset" /\ kbd_on' \in BOOLEAN /\ mouse_on' \in BOOLEAN
      /\ obuf' = <<>> /\ calm' = calm \ {IrqOf(b) : b \in Range(obuf)}
  BY Zenon DEF FlushAndEnable, InitStep
<1>3. /\ irqs' = irqs /\ UNCHANGED kbdVars /\ UNCHANGED userVars /\ UNCHANGED <<reports, kbdVars, mouseVars, userVars>>
  BY <1>1
<1>4. step \in {"disable", "flush", "reset", "read 1", "read 2"}
      /\ step' \in {"flush", "reset", "read 1", "read 2", "enable"}
  BY <1>2
<1>5. calm' \subseteq calm
  BY <1>2
<1>6. BufTypes'
  <2>1. <<>> \in Seq(InByte)
    OBVIOUS
  <2> QED
    BY <1>2, <1>3, <2>1, InvParts, Zenon DEF BufTypes
<1>7. KbdState' = KbdState
  BY <1>3, SameState, Zenon
<1>8. KbdInv'
  <2>1. ASSUME "kbd" \in calm' PROVE KbdSays(Keyed(KbdState, <<>>), typed_runes, shift_held, caps_lock)
    <3>1. "kbd" \in calm /\ \A b \in Range(obuf) : IrqOf(b) # "kbd"
      BY <1>2, <2>1, Zenon
    <3>2. \A b \in Range(obuf) : b.aux
      BY <3>1, Zenon DEF IrqOf
    <3>3. PICK n \in Nat : DOMAIN obuf = 1..n
      BY InvParts
    <3>4. \A i \in 1..n : obuf[i].aux
      BY <3>2, <3>3, Zenon DEF Range
    <3>5. Keyed(KbdState, obuf) = KbdState
      BY <3>3, <3>4, KeyedRead, Zenon
    <3>6. Keyed(KbdState, <<>>) = KbdState
      BY KeyedFoldParts, Zenon
    <3>7. KbdSays(Keyed(KbdState, obuf), typed_runes, shift_held, caps_lock)
      BY <3>1, InvParts, Zenon DEF KbdInv
    <3> QED
      BY <3>5, <3>6, <3>7, Zenon
  <2> QED
    BY <1>2, <1>3, <1>7, <2>1, UserSame, Zenon DEF KbdInv
<1> QED
  BY <1>2, <1>3, <1>4, <1>5, <1>6, <1>8, SetUpKeeps, Zenon

LEMMA ResetKeeps ==
  ASSUME Ps2Inv, SendReset
  PROVE  Ps2Inv'
<1>1. UNCHANGED <<kbd_on, mouse_on, reports, calm, kbdVars, mouseVars, userVars>>
  BY Zenon DEF SendReset
<1>2. step = "reset" /\ step' = "read 1"
  BY Zenon DEF SendReset, InitStep
<1>3. PICK a \in ResetAnswers : Queue(FromMouse(a))
  BY Zenon DEF SendReset
<1>4. /\ kbd_on' = kbd_on /\ mouse_on' = mouse_on /\ calm' = calm /\ UNCHANGED kbdVars /\ UNCHANGED userVars
      /\ UNCHANGED <<reports, kbdVars, mouseVars, userVars>>
  BY <1>1
<1>5. /\ step \in {"disable", "flush", "reset", "read 1", "read 2"}
      /\ step' \in {"flush", "reset", "read 1", "read 2", "enable"} /\ calm' \subseteq calm
  BY <1>2, <1>4
<1>6. a \in Seq(Byte)
  BY Ps2Assumption, Zenon DEF Byte
<1>7. PICK r \in Seq(InByte) : /\ (\A i \in 1..Len(r) : r[i].aux)
                               /\ obuf' = obuf \o r /\ obuf' \in Seq(InByte) /\ irqs' \subseteq Irqs
  BY <1>3, <1>6, InvParts, MouseBytes, Zenon
<1>8. BufTypes' /\ kbd_on' \in BOOLEAN /\ mouse_on' \in BOOLEAN
  BY <1>4, <1>7, InvParts, Zenon DEF BufTypes
<1>9. KbdState' = KbdState
  BY <1>4, SameState, Zenon
<1>10. KbdInv'
  BY <1>4, <1>5, <1>7, <1>9, InvParts, UserSame, KbdKept, Zenon
<1> QED
  BY <1>4, <1>5, <1>8, <1>10, SetUpKeeps, Zenon

(* The byte ps2_init reads. *)
LEMMA ReadUnfolds ==
  ASSUME Ps2Inv, NEW from, NEW to, ReadAnswer(from, to), NEW b, b = Head(obuf)
  PROVE  /\ step = from /\ step' = to
         /\ b \in InByte /\ obuf \in Seq(InByte) /\ obuf # <<>> /\ obuf' = Tail(obuf) /\ BufTypes'
         /\ calm' = (IF b.aux THEN calm ELSE {}) /\ calm' \subseteq calm
         /\ kbd_on' = kbd_on /\ mouse_on' = mouse_on /\ reports' = reports
         /\ UNCHANGED kbdVars /\ UNCHANGED mouseVars /\ UNCHANGED userVars
         /\ UNCHANGED <<reports, kbdVars, mouseVars, userVars>>
         /\ KbdState' = KbdState /\ KbdInv'
<1>1. UNCHANGED <<kbd_on, mouse_on, reports, kbdVars, mouseVars, userVars>>
  BY Zenon DEF ReadAnswer
<1>2. /\ kbd_on' = kbd_on /\ mouse_on' = mouse_on /\ reports' = reports
      /\ UNCHANGED kbdVars /\ UNCHANGED mouseVars /\ UNCHANGED userVars
      /\ UNCHANGED <<reports, kbdVars, mouseVars, userVars>>
  BY <1>1
<1>3. /\ step = from /\ step' = to /\ obuf # <<>> /\ obuf' = Tail(obuf) /\ irqs' = irqs \cup Raised(Tail(obuf))
      /\ calm' = IF b.aux THEN calm ELSE {}
  BY Zenon DEF ReadAnswer, InitStep, TakeFirst
<1>4. b \in InByte /\ obuf' \in Seq(InByte) /\ \A g : Keyed(g, obuf) = Keyed(KbdTakes(g, b), obuf')
  <2>1. obuf \in Seq(InByte)
    BY InvParts, Zenon
  <2> QED
    BY <1>3, <2>1, FirstByte, Zenon
<1>5. BufTypes'
  <2>1. \A c : IrqOf(c) \in Irqs
    BY DEF IrqOf, Irqs
  <2>2. Raised(Tail(obuf)) \subseteq Irqs
    BY <2>1, Zenon DEF Raised
  <2>3. irqs' \subseteq Irqs
    BY <1>3, <2>2, InvParts
  <2> QED
    BY <1>4, <2>3, Zenon DEF BufTypes
<1>6. KbdState' = KbdState
  BY <1>2, SameState, Zenon
<1>7. calm' \subseteq calm
  BY <1>3
<1>8. KbdInv'
  <2>1. ASSUME "kbd" \in calm' PROVE KbdSays(Keyed(KbdState, obuf'), typed_runes, shift_held, caps_lock)
    <3>1. b.aux /\ "kbd" \in calm
      BY <1>3, <2>1
    <3>2. KbdTakes(KbdState, b) = KbdState
      BY <3>1, Zenon DEF KbdTakes
    <3>3. KbdSays(Keyed(KbdState, obuf), typed_runes, shift_held, caps_lock)
      BY <3>1, InvParts, Zenon DEF KbdInv
    <3> QED
      BY <1>4, <3>2, <3>3, Zenon
  <2> QED
    BY <1>2, <1>6, <2>1, UserSame, Zenon DEF KbdInv
<1> QED
  BY <1>2, <1>3, <1>4, <1>5, <1>6, <1>7, <1>8, InvParts, Zenon

LEMMA ReadKeeps ==
  ASSUME Ps2Inv, ReadAnswer("read 1", "read 2") \/ ReadAnswer("read 2", "enable")
  PROVE  Ps2Inv'
<1>1. PICK from, to : /\ ReadAnswer(from, to)
                      /\ from \in {"disable", "flush", "reset", "read 1", "read 2"}
                      /\ to \in {"flush", "reset", "read 1", "read 2", "enable"}
  <2>1. CASE ReadAnswer("read 1", "read 2")
    BY <2>1, Zenon
  <2>2. CASE ReadAnswer("read 2", "enable")
    BY <2>2, Zenon
  <2> QED
    BY <2>1, <2>2
<1>2. /\ step = from /\ step' = to /\ BufTypes' /\ calm' \subseteq calm /\ kbd_on' = kbd_on /\ mouse_on' = mouse_on
      /\ UNCHANGED <<reports, kbdVars, mouseVars, userVars>> /\ KbdInv'
  BY <1>1, ReadUnfolds, Zenon
<1>3. kbd_on' \in BOOLEAN /\ mouse_on' \in BOOLEAN
  BY <1>2, InvParts, Zenon
<1> QED
  BY <1>1, <1>2, <1>3, SetUpKeeps, Zenon

LEMMA OnKeeps ==
  ASSUME Ps2Inv, ReadAnswer("read 3", "on")
  PROVE  Ps2Inv'
<1>1. PICK b : b = Head(obuf)
  OBVIOUS
<1>2. /\ step = "read 3" /\ step' = "on"
      /\ b \in InByte /\ obuf \in Seq(InByte) /\ obuf # <<>> /\ obuf' = Tail(obuf) /\ BufTypes'
      /\ calm' = (IF b.aux THEN calm ELSE {}) /\ calm' \subseteq calm
      /\ kbd_on' = kbd_on /\ mouse_on' = mouse_on /\ reports' = reports
      /\ UNCHANGED kbdVars /\ UNCHANGED mouseVars /\ UNCHANGED userVars
      /\ KbdState' = KbdState /\ KbdInv'
  BY <1>1, ReadUnfolds, Zenon
<1>3. CtlTypes /\ UserTypes /\ MoveTypes /\ CtrTypes /\ KbdState \in KbdType /\ MouseState \in MouseType
      /\ UpInv /\ MouseInv
  BY InvParts, Zenon
<1>4. /\ typed_runes' = typed_runes /\ moves' = moves /\ down' = down /\ shift_held' = shift_held
      /\ caps_lock' = caps_lock /\ nkeys' = nkeys /\ npackets' = npackets /\ nctl' = nctl
  BY <1>2, UserSame, Zenon
<1>5. MouseState' = MouseState /\ events' = events /\ mouse_buf' = mouse_buf /\ mouse_enabled' = mouse_enabled
  BY <1>2, SameState, Zenon
<1>6. step' \in Steps /\ step' \in {"read 3", "on"} /\ step \in {"read 3", "on"} /\ ~(step' # "on") /\ "on" # "read 3"
  BY <1>2 DEF Steps
<1>7. CtlTypes'
  <2>1. calm' \subseteq Irqs
    BY <1>2, <1>3 DEF CtlTypes
  <2> QED
    BY <1>2, <1>3, <1>6, <2>1, Zenon DEF CtlTypes
<1>8. UserTypes' /\ CtrTypes' /\ MoveTypes'
  BY <1>3, <1>4, <1>5, Zenon DEF UserTypes, CtrTypes, MoveTypes
<1>9. UpInv'
  <2>1. reports' <=> step' \in {"read 3", "on"}
    <3>1. reports
      BY <1>3, <1>6, Zenon DEF UpInv
    <3>2. reports'
      BY <1>2, <3>1
    <3> QED
      BY <1>6, <3>2, Zenon
  <2>2. nctl' = 0 => mouse_enabled'
    BY <1>3, <1>4, <1>5, Zenon DEF UpInv
  <2> QED
    BY <1>6, <2>1, <2>2, Zenon DEF UpInv
<1>10. KbdState' \in KbdType /\ MouseState' \in MouseType
  BY <1>2, <1>3, <1>5, Zenon
<1>11. MouseInv'
  <2>1. ASSUME SmallMotions, "mouse" \in calm', reports', nctl' = 0
        PROVE  MouseSays(Packed(PackState', obuf'), moves')
    <3>1. b.aux /\ "mouse" \in calm /\ reports /\ nctl = 0
      <4>1. b.aux /\ "mouse" \in calm
        BY <1>2, <2>1
      <4>2. reports
        BY <1>3, <1>6, Zenon DEF UpInv
      <4> QED
        BY <1>4, <2>1, <4>1, <4>2, Zenon
    <3>2. MouseSays(Packed(PackState, obuf), moves)
      BY <1>3, <2>1, <3>1, Zenon DEF MouseInv
    <3>3. Packed(PackState, obuf) = Packed(MouseTakes(PackState, b), obuf')
      BY <1>1, <1>2, FirstByte, Zenon
    <3>4. PackState.skip /\ PackState.st = MouseState
      BY <1>2 DEF PackState
    <3>5. MouseTakes(PackState, b) = [skip |-> FALSE, st |-> MouseState]
      BY <3>1, <3>4, Zenon DEF MouseTakes
    <3>6. PackState' = [skip |-> FALSE, st |-> MouseState]
      <4>1. (step' = "read 3") = FALSE
        BY <1>2, <1>6, Zenon
      <4> QED
        BY <1>5, <4>1, Zenon DEF PackState
    <3> QED
      BY <1>4, <3>2, <3>3, <3>5, <3>6, Zenon
  <2>2. SmallMotions' <=> SmallMotions
    BY Zenon DEF SmallMotions, SmallMotion
  <2> QED
    BY <2>1, <2>2, Zenon DEF MouseInv
<1> QED
  BY <1>2, <1>7, <1>8, <1>9, <1>10, <1>11, Zenon DEF Ps2Inv

LEMMA AckIsByte == <<Ack>> \in Seq(Byte) /\ Len(<<Ack>>) = 1
<1>1. Ack \in Byte
  BY DEF Ack, Byte
<1> QED
  BY <1>1, OneElement, Zenon

LEMMA EnableKeeps ==
  ASSUME Ps2Inv, SendEnable
  PROVE  Ps2Inv'
<1>1. UNCHANGED <<kbd_on, mouse_on, kbdVars, mouseVars, userVars>>
  BY Zenon DEF SendEnable
<1>2. /\ step = "enable" /\ step' = "read 3" /\ reports' = TRUE /\ Queue(FromMouse(<<Ack>>))
      /\ calm' = IF \E b \in Range(obuf) : b.aux THEN calm \ {"mouse"} ELSE calm
  BY Zenon DEF SendEnable, InitStep
<1>3. /\ kbd_on' = kbd_on /\ mouse_on' = mouse_on /\ UNCHANGED kbdVars /\ UNCHANGED mouseVars /\ UNCHANGED userVars
  BY <1>1
<1>4. CtlTypes /\ UserTypes /\ MoveTypes /\ CtrTypes /\ KbdState \in KbdType /\ MouseState \in MouseType
      /\ UpInv /\ KbdInv /\ MouseInv /\ obuf \in Seq(InByte)
  BY InvParts, Zenon
<1>5. PICK r \in Seq(InByte) : /\ (\A i \in 1..Len(r) : r[i].aux) /\ Len(r) = 1
                               /\ obuf' = obuf \o r /\ obuf' \in Seq(InByte) /\ irqs' \subseteq Irqs
  BY <1>2, InvParts, AckIsByte, MouseBytes, Zenon
<1>6. /\ typed_runes' = typed_runes /\ moves' = moves /\ down' = down /\ shift_held' = shift_held
      /\ caps_lock' = caps_lock /\ nkeys' = nkeys /\ npackets' = npackets /\ nctl' = nctl
  BY <1>3, UserSame, Zenon
<1>7. KbdState' = KbdState /\ MouseState' = MouseState
      /\ events' = events /\ mouse_buf' = mouse_buf /\ mouse_enabled' = mouse_enabled
  BY <1>3, SameState, Zenon
<1>8. step' \in Steps /\ step' \in {"read 3", "on"} /\ step \notin {"read 3", "on"} /\ step # "on"
  BY <1>2 DEF Steps
<1>9. calm' \subseteq calm
  BY <1>2
<1>10. CtlTypes'
  <2>1. calm' \subseteq Irqs
    BY <1>4, <1>9 DEF CtlTypes
  <2>2. reports' \in BOOLEAN
    BY <1>2
  <2> QED
    BY <1>3, <1>4, <1>8, <2>1, <2>2, Zenon DEF CtlTypes
<1>11. UserTypes' /\ CtrTypes' /\ MoveTypes' /\ BufTypes'
  BY <1>4, <1>5, <1>6, <1>7, Zenon DEF UserTypes, CtrTypes, MoveTypes, BufTypes
<1>12. moves = <<>> /\ events = <<>> /\ mouse_buf = <<>> /\ nctl = 0
  BY <1>4, <1>8, Zenon DEF UpInv
<1>13. UpInv'
  <2>1. reports' <=> step' \in {"read 3", "on"}
    BY <1>2, <1>8
  <2>2. events' = <<>> /\ mouse_buf' = <<>> /\ nctl' = 0
    BY <1>6, <1>7, <1>12, Zenon
  <2>3. nctl' = 0 => mouse_enabled'
    BY <1>4, <1>6, <1>7, Zenon DEF UpInv
  <2> QED
    BY <1>8, <2>1, <2>2, <2>3, Zenon DEF UpInv
<1>14. KbdState' \in KbdType /\ MouseState' \in MouseType
  BY <1>4, <1>7, Zenon
<1>15. KbdInv'
  BY <1>4, <1>5, <1>6, <1>7, <1>9, KbdKept, Zenon
<1>16. MouseInv'
  <2>1. ASSUME "mouse" \in calm' PROVE MouseSays(Packed(PackState', obuf \o r), moves')
    <3>1. \A b \in Range(obuf) : ~b.aux
      BY <1>2, <2>1
    <3>2. PICK n \in Nat : DOMAIN obuf = 1..n
      BY <1>4
    <3>3. \A i \in 1..n : ~obuf[i].aux
      BY <3>1, <3>2, Zenon DEF Range
    <3>4. PICK g : g = PackState'
      OBVIOUS
    <3>5. Packed(g, obuf) = g
      BY <3>2, <3>3, PackedRead, Zenon
    <3>6. Packed(g, obuf \o r) = Packed(g, r)
      <4>1. ASSUME NEW h, Packed(h, obuf) = h PROVE Packed(h, obuf \o r) = Packed(h, r)
        <5>1. Packed(h, obuf \o r) = Packed(Packed(h, obuf), r)
          BY <1>4, BothConcat, Zenon
        <5> QED
          BY <4>1, <5>1, Zenon
      <4> QED
        BY <3>5, <4>1, Zenon
    <3>7. DOMAIN r = 1..1 /\ r[1].aux
      BY <1>5
    <3>8. Packed(g, r) = MouseTakes(g, r[1])
      BY <3>7, FewBytes, Zenon
    <3>9. g.skip /\ g.st = MouseState
      BY <1>2, <1>7, <3>4 DEF PackState
    <3>10. MouseTakes(g, r[1]) = [skip |-> FALSE, st |-> MouseState]
      BY <3>7, <3>9, Zenon DEF MouseTakes
    <3>11. MouseState.buf = <<>> /\ MouseState.out = <<>>
      BY <1>12 DEF MouseState
    <3>12. MouseSays([skip |-> FALSE, st |-> MouseState], <<>>)
      <4>1. ASSUME NEW s \in MouseType, s.buf = <<>>, s.out = <<>> PROVE MouseSays([skip |-> FALSE, st |-> s], <<>>)
        BY <4>1 DEF MouseSays, PackType
      <4> QED
        BY <1>4, <3>11, <4>1, Zenon
    <3> QED
      BY <1>6, <1>12, <3>4, <3>6, <3>8, <3>10, <3>12, Zenon
  <2> QED
    BY <1>5, <2>1, Zenon DEF MouseInv
<1> QED
  BY <1>10, <1>11, <1>13, <1>14, <1>15, <1>16, Zenon DEF Ps2Inv

(* What an interrupt leaves alone. *)
LEMMA OnParts ==
  ASSUME Ps2Inv, step = "on", UNCHANGED <<step, kbd_on, mouse_on, reports, calm>>, UNCHANGED userVars,
         mouse_enabled' = mouse_enabled
  PROVE  /\ CtlTypes' /\ UserTypes' /\ MoveTypes' /\ CtrTypes' /\ UpInv'
         /\ typed_runes' = typed_runes /\ moves' = moves /\ shift_held' = shift_held
         /\ caps_lock' = caps_lock /\ nctl' = nctl /\ reports' = reports /\ calm' = calm /\ step' = "on"
<1>1. CtlTypes /\ UserTypes /\ MoveTypes /\ CtrTypes /\ UpInv
  BY InvParts, Zenon
<1>2. /\ step' = step /\ kbd_on' = kbd_on /\ mouse_on' = mouse_on /\ reports' = reports /\ calm' = calm
  OBVIOUS
<1>3. /\ typed_runes' = typed_runes /\ moves' = moves /\ down' = down /\ shift_held' = shift_held
      /\ caps_lock' = caps_lock /\ nkeys' = nkeys /\ npackets' = npackets /\ nctl' = nctl
  BY UserSame, Zenon
<1>4. CtlTypes' /\ UserTypes' /\ MoveTypes' /\ CtrTypes'
  BY <1>1, <1>2, <1>3, Zenon DEF CtlTypes, UserTypes, MoveTypes, CtrTypes
<1>5. UpInv'
  <2>1. step' = "on" /\ step' \in {"read 3", "on"} /\ step \in {"read 3", "on"} /\ ~(step' # "on")
    BY <1>2
  <2>2. reports' <=> step' \in {"read 3", "on"}
    <3>1. reports
      BY <1>1, <2>1, Zenon DEF UpInv
    <3>2. reports'
      BY <1>2, <3>1
    <3> QED
      BY <2>1, <3>2, Zenon
  <2>3. nctl' = 0 => mouse_enabled'
    BY <1>1, <1>3, Zenon DEF UpInv
  <2> QED
    BY <2>1, <2>2, <2>3, Zenon DEF UpInv
<1>6. step' = "on"
  BY <1>2
<1> QED
  BY <1>2, <1>3, <1>4, <1>5, <1>6, Zenon

LEMMA KbdInterruptKeeps ==
  ASSUME Ps2Inv, kbd_interrupt
  PROVE  Ps2Inv'
<1>1. PICK n : n = Taken(FALSE)
  OBVIOUS
<1>2. obuf \in Seq(InByte) /\ irqs \subseteq Irqs /\ KbdState \in KbdType /\ MouseState \in MouseType /\ KbdInv /\ MouseInv
  BY InvParts, Zenon
<1>3. n \in Nat /\ n <= Len(obuf) /\ \A i \in 1..n : ~obuf[i].aux
  <2>1. n \in Nat /\ n <= Burst /\ n <= Len(obuf) /\ \A i \in 1..n : obuf[i].aux = FALSE
    <3>1. FALSE \in BOOLEAN
      OBVIOUS
    <3> QED
      BY <1>1, <1>2, <3>1, TakenFacts, Zenon
  <2> QED
    BY <2>1
<1>4. Handle("kbd", n)
  BY <1>1, Zenon DEF kbd_interrupt
<1>6. PICK q :
        /\ step = "on" /\ irqs' \subseteq Irqs
        /\ obuf' \in Seq(InByte) /\ obuf = q \o obuf' /\ q \in Seq(InByte) /\ DOMAIN q = 1..n
        /\ (\A i \in 1..n : q[i] = obuf[i])
        /\ Bytes(n) = [i \in 1..n |-> q[i].byte]
  BY <1>2, <1>3, <1>4, HandleGoes, Zenon
<1>7. PICK k : k = Keyed(KbdState, q)
  OBVIOUS
<1>8. FoldLeft(kbd_handle_scancode, [m |-> kbd_modifiers, e0 |-> e0, out |-> runes], Bytes(n)) = k
  <2>1. \A i \in 1..n : ~q[i].aux
    BY <1>3, <1>6, Zenon
  <2>2. Scanned(KbdState, Bytes(n)) = Keyed(KbdState, q)
    BY <1>3, <1>6, <2>1, KeyedRead, Zenon
  <2> QED
    BY <1>7, <2>2, Zenon DEF Scanned, KbdState
<1>9. k \in KbdType
  BY <1>2, <1>6, <1>7, KeyedFacts, Zenon
<1>10. kbd_modifiers' = k.m /\ e0' = k.e0 /\ runes' = k.out
  BY <1>1, <1>8, Zenon DEF kbd_interrupt
<1>11. KbdState' = k
  BY <1>9, <1>10 DEF KbdState, KbdType
<1>12. /\ UNCHANGED <<step, kbd_on, mouse_on, reports, calm>> /\ UNCHANGED mouseVars /\ UNCHANGED userVars
  <2>1. UNCHANGED <<step, kbd_on, mouse_on, reports, calm, mouseVars, userVars>>
    BY Zenon DEF kbd_interrupt
  <2> QED
    BY <2>1
<1>13. step' = "on"
  BY <1>6, <1>12
<1>14. MouseState' = MouseState /\ PackState' = PackState /\ mouse_enabled' = mouse_enabled
  BY <1>6, <1>12, <1>13, SameState, Zenon
<1>15. /\ CtlTypes' /\ UserTypes' /\ MoveTypes' /\ CtrTypes' /\ UpInv'
       /\ typed_runes' = typed_runes /\ moves' = moves /\ shift_held' = shift_held
       /\ caps_lock' = caps_lock /\ nctl' = nctl /\ reports' = reports /\ calm' = calm
  BY <1>6, <1>12, <1>14, OnParts, Zenon
<1>16. BufTypes'
  BY <1>6, Zenon DEF BufTypes
<1>17. KbdInv'
  <2>1. Keyed(KbdState, q \o obuf') = Keyed(k, obuf')
    BY <1>6, <1>7, BothConcat, Zenon
  <2>2. Keyed(KbdState, obuf) = Keyed(k, obuf')
    BY <1>6, <2>1, Zenon
  <2> QED
    BY <1>2, <1>11, <1>15, <2>2, Zenon DEF KbdInv
<1>18. MouseInv'
  <2>1. Packed(PackState, q) = PackState
    <3>1. \A i \in 1..n : ~q[i].aux
      BY <1>3, <1>6, Zenon
    <3> QED
      BY <1>3, <1>6, <3>1, PackedRead, Zenon
  <2>2. Packed(PackState, q \o obuf') = Packed(PackState, obuf')
    <3>1. Packed(PackState, q \o obuf') = Packed(Packed(PackState, q), obuf')
      BY <1>6, BothConcat, Zenon
    <3> QED
      BY <2>1, <3>1, Zenon
  <2>3. Packed(PackState, obuf) = Packed(PackState, obuf')
    BY <1>6, <2>2, Zenon
  <2>4. SmallMotions' <=> SmallMotions
    BY Zenon DEF SmallMotions, SmallMotion
  <2>5. ASSUME SmallMotions, "mouse" \in calm', reports', nctl' = 0
        PROVE  MouseSays(Packed(PackState', obuf'), moves')
    <3>1. reports
      BY <1>15, <2>5
    <3>2. "mouse" \in calm /\ nctl = 0
      BY <1>15, <2>5, Zenon
    <3>3. MouseSays(Packed(PackState, obuf), moves)
      BY <1>2, <2>5, <3>1, <3>2, Zenon DEF MouseInv
    <3> QED
      BY <1>14, <1>15, <2>3, <3>3, Zenon
  <2> QED
    BY <2>4, <2>5, Zenon DEF MouseInv
<1>19. KbdState' \in KbdType /\ MouseState' \in MouseType
  BY <1>2, <1>9, <1>11, <1>14, Zenon
<1> QED
  BY <1>15, <1>16, <1>17, <1>18, <1>19, Zenon DEF Ps2Inv

LEMMA SeqItems ==
  ASSUME NEW U, NEW q \in Seq(U)
  PROVE  \A i \in DOMAIN q : q[i] \in U
  OBVIOUS

LEMMA MouseInterruptKeeps ==
  ASSUME Ps2Inv, mouse_interrupt
  PROVE  Ps2Inv'
<1>1. PICK n : n = Taken(TRUE)
  OBVIOUS
<1>2. obuf \in Seq(InByte) /\ irqs \subseteq Irqs /\ KbdState \in KbdType /\ MouseState \in MouseType
      /\ KbdInv /\ MouseInv /\ UpInv
  BY InvParts, Zenon
<1>3. n \in Nat /\ n <= Len(obuf) /\ \A i \in 1..n : obuf[i].aux
  <2>1. n \in Nat /\ n <= Burst /\ n <= Len(obuf) /\ \A i \in 1..n : obuf[i].aux = TRUE
    <3>1. TRUE \in BOOLEAN
      OBVIOUS
    <3> QED
      BY <1>1, <1>2, <3>1, TakenFacts, Zenon
  <2> QED
    BY <2>1
<1>4. Handle("mouse", n)
  BY <1>1, Zenon DEF mouse_interrupt
<1>6. PICK q :
        /\ step = "on" /\ irqs' \subseteq Irqs
        /\ obuf' \in Seq(InByte) /\ obuf = q \o obuf' /\ q \in Seq(InByte) /\ DOMAIN q = 1..n
        /\ (\A i \in 1..n : q[i] = obuf[i])
        /\ Bytes(n) = [i \in 1..n |-> q[i].byte]
  BY <1>2, <1>3, <1>4, HandleGoes, Zenon
<1>7. \A i \in 1..n : q[i].aux /\ q[i].byte \in Byte
  <2>1. \A i \in 1..n : q[i] \in InByte
    <3>1. q \in Seq(InByte) /\ DOMAIN q = 1..n
      BY <1>6, Zenon
    <3> QED
      BY <3>1, SeqItems, Zenon
  <2>2. \A b \in InByte : b.byte \in Byte
    BY DEF InByte
  <2> QED
    BY <1>3, <1>6, <2>1, <2>2, Zenon
<1>8. ASSUME NEW k, k = Moused(MouseState, Bytes(n)) PROVE Ps2Inv'
  <2>1. k \in MouseType /\ (mouse_enabled => Packed([skip |-> FALSE, st |-> MouseState], q) = [skip |-> FALSE, st |-> k])
    <3>1. ASSUME NEW j \in Nat, DOMAIN q = 1..j, \A i \in 1..j : q[i].aux /\ q[i].byte \in Byte, NEW m \in MouseType,
                 NEW bs, bs = [i \in 1..j |-> q[i].byte], k = Moused(m, bs)
          PROVE  k \in MouseType /\ (mouse_enabled => Packed([skip |-> FALSE, st |-> m], q) = [skip |-> FALSE, st |-> k])
      BY <3>1, MousedFacts
    <3> QED
      BY <1>2, <1>3, <1>6, <1>7, <1>8, <3>1, Zenon
  <2>2. mouse_buf' = k.buf /\ mouse_x' = k.x /\ mouse_y' = k.y /\ mouse_buttons' = k.buttons /\ events' = k.out
    <3>1. FoldLeft(mouse_byte, [buf |-> mouse_buf, x |-> mouse_x, y |-> mouse_y,
                                buttons |-> mouse_buttons, out |-> events], Bytes(n)) = k
      BY <1>8, Zenon DEF Moused, MouseState
    <3> QED
      BY <1>1, <3>1, Zenon DEF mouse_interrupt
  <2>3. MouseState' = k
    BY <2>1, <2>2 DEF MouseState, MouseType
  <2>4. /\ UNCHANGED <<step, kbd_on, mouse_on, reports, calm>> /\ UNCHANGED kbdVars /\ UNCHANGED userVars
        /\ mouse_enabled' = mouse_enabled
    <3>1. UNCHANGED <<step, kbd_on, mouse_on, reports, calm, kbdVars, mouse_enabled, userVars>>
      BY Zenon DEF mouse_interrupt
    <3> QED
      BY <3>1
  <2>5. KbdState' = KbdState
    BY <2>4, SameState, Zenon
  <2>6. /\ CtlTypes' /\ UserTypes' /\ MoveTypes' /\ CtrTypes' /\ UpInv'
        /\ typed_runes' = typed_runes /\ moves' = moves /\ shift_held' = shift_held
        /\ caps_lock' = caps_lock /\ nctl' = nctl /\ reports' = reports /\ calm' = calm /\ step' = "on"
    BY <1>6, <2>4, OnParts, Zenon
  <2>7. BufTypes'
    BY <1>6, Zenon DEF BufTypes
  <2>8. KbdInv'
    <3>1. Keyed(KbdState, q) = KbdState
      BY <1>3, <1>6, <1>7, KeyedRead, Zenon
    <3>2. Keyed(KbdState, q \o obuf') = Keyed(Keyed(KbdState, q), obuf')
      BY <1>6, BothConcat, Zenon
    <3>3. Keyed(KbdState, obuf) = Keyed(KbdState, obuf')
      BY <1>6, <3>1, <3>2, Zenon
    <3> QED
      BY <1>2, <2>5, <2>6, <3>3, Zenon DEF KbdInv
  <2>9. MouseInv'
    <3>1. ASSUME SmallMotions, "mouse" \in calm', reports', nctl' = 0
          PROVE  MouseSays(Packed(PackState', obuf'), moves')
      <4>1. reports
        BY <2>6, <3>1
      <4>2. "mouse" \in calm /\ nctl = 0
        BY <2>6, <3>1, Zenon
      <4>3. MouseSays(Packed(PackState, obuf), moves)
        BY <1>2, <3>1, <4>1, <4>2, Zenon DEF MouseInv
      <4>4. mouse_enabled
        BY <1>2, <4>2, Zenon DEF UpInv
      <4>5. PackState = [skip |-> FALSE, st |-> MouseState] /\ PackState' = [skip |-> FALSE, st |-> k]
        <5>1. (step = "read 3") = FALSE /\ (step' = "read 3") = FALSE
          <6>1. "on" # "read 3"
            OBVIOUS
          <6> QED
            BY <1>6, <2>6, <6>1, Zenon
        <5> QED
          BY <2>3, <5>1, Zenon DEF PackState
      <4>6. Packed(PackState, q) = [skip |-> FALSE, st |-> k]
        BY <2>1, <4>4, <4>5, Zenon
      <4>7. Packed(PackState, q \o obuf') = Packed(Packed(PackState, q), obuf')
        BY <1>6, BothConcat, Zenon
      <4>8. Packed(PackState, obuf) = Packed(PackState', obuf')
        BY <1>6, <4>5, <4>6, <4>7, Zenon
      <4> QED
        BY <2>6, <4>3, <4>8, Zenon
    <3>2. SmallMotions' <=> SmallMotions
      BY Zenon DEF SmallMotions, SmallMotion
    <3> QED
      BY <3>1, <3>2, Zenon DEF MouseInv
  <2>10. KbdState' \in KbdType /\ MouseState' \in MouseType
    BY <1>2, <2>1, <2>3, <2>5, Zenon
  <2> QED
    BY <2>6, <2>7, <2>8, <2>9, <2>10, Zenon DEF Ps2Inv
<1> QED
  BY <1>8, Zenon

LEMMA ControlKeeps ==
  ASSUME Ps2Inv, NEW enable \in BOOLEAN, mousectl_write(enable)
  PROVE  Ps2Inv'
<1>1. CtlTypes /\ BufTypes /\ UserTypes /\ MoveTypes /\ CtrTypes /\ KbdState \in KbdType /\ MouseState \in MouseType
      /\ UpInv /\ KbdInv /\ MouseInv
  BY InvParts, Zenon
<1>2. step = "on" /\ nctl < MaxCtl /\ nctl' = nctl + 1 /\ mouse_enabled' = enable
  BY Zenon DEF mousectl_write
<1>3. UNCHANGED <<ctlVars, kbdVars, mouse_buf, mouse_x, mouse_y, mouse_buttons, events,
                  typed_runes, moves, down, shift_held, caps_lock, nkeys, npackets>>
  BY Zenon DEF mousectl_write
<1>4. /\ UNCHANGED kbdVars /\ UNCHANGED <<mouse_buf, mouse_x, mouse_y, mouse_buttons, events>>
      /\ typed_runes' = typed_runes /\ moves' = moves /\ down' = down /\ shift_held' = shift_held
      /\ caps_lock' = caps_lock /\ nkeys' = nkeys /\ npackets' = npackets
  BY <1>3
<1>5. /\ step' = step /\ obuf' = obuf /\ irqs' = irqs /\ kbd_on' = kbd_on /\ mouse_on' = mouse_on
      /\ reports' = reports /\ calm' = calm
  BY <1>3 DEF ctlVars
<1>6. KbdState' = KbdState
  BY <1>4, SameState, Zenon
<1>7. MouseState' = MouseState
  BY <1>4 DEF MouseState
<1>8. CtlTypes' /\ BufTypes' /\ UserTypes' /\ MoveTypes'
  BY <1>1, <1>4, <1>5, Zenon DEF CtlTypes, BufTypes, UserTypes, MoveTypes
<1>9. nctl \in 0..MaxCtl /\ MaxCtl \in Nat
  BY <1>1, Ps2Assumption, Zenon DEF CtrTypes
<1>10. nctl' \in 0..MaxCtl /\ nctl' # 0
  BY <1>2, <1>9
<1>11. CtrTypes'
  BY <1>2, <1>10, Zenon DEF CtrTypes
<1>12. UpInv'
  <2>1. reports' <=> step' \in {"read 3", "on"}
    <3>1. reports <=> step \in {"read 3", "on"}
      BY <1>1, Zenon DEF UpInv
    <3> QED
      BY <1>5, <3>1
  <2>2. step' \notin {"read 3", "on"} => moves' = <<>>
    BY <1>1, <1>4, <1>5, Zenon DEF UpInv
  <2>3. ~(step' # "on")
    BY <1>2, <1>5
  <2> QED
    BY <1>10, <2>1, <2>2, <2>3, Zenon DEF UpInv
<1>13. KbdInv'
  BY <1>1, <1>4, <1>5, <1>6, Zenon DEF KbdInv
<1>14. MouseInv'
  BY <1>10, Zenon DEF MouseInv
<1>15. KbdState' \in KbdType /\ MouseState' \in MouseType
  BY <1>1, <1>6, <1>7, Zenon
<1> QED
  BY <1>8, <1>11, <1>12, <1>13, <1>14, <1>15, Zenon DEF Ps2Inv

LEMMA InitHolds ==
  ASSUME Ps2Init
  PROVE  Ps2Inv
<1>1. /\ step = "disable" /\ obuf = <<>> /\ irqs = {}
      /\ kbd_on = TRUE /\ mouse_on = TRUE /\ reports = FALSE
      /\ kbd_modifiers = {} /\ e0 = FALSE /\ runes = <<>>
      /\ mouse_buf = <<>> /\ mouse_enabled = TRUE /\ mouse_x = 0 /\ mouse_y = 0
      /\ mouse_buttons = 0 /\ events = <<>>
      /\ typed_runes = <<>> /\ moves = <<>> /\ down = {} /\ shift_held = FALSE /\ caps_lock = FALSE
      /\ calm = {"kbd", "mouse"} /\ nkeys = 0 /\ npackets = 0 /\ nctl = 0
  BY DEF Ps2Init
<1>2. MaxKeys \in Nat /\ MaxPackets \in Nat /\ MaxCtl \in Nat
  BY Ps2Assumption, Zenon
<1>0. <<>> \in Seq(Runes) /\ <<>> \in Seq(InByte) /\ <<>> \in Seq(Event)
  OBVIOUS
<1>3. CtlTypes /\ BufTypes /\ UserTypes /\ MoveTypes /\ CtrTypes
  <2>1. CtlTypes
    BY <1>1 DEF CtlTypes, Steps, Irqs
  <2>2. BufTypes
    <3>1. irqs \subseteq Irqs
      BY <1>1
    <3> QED
      BY <1>0, <1>1, <3>1, Zenon DEF BufTypes
  <2>3. nkeys \in 0..MaxKeys /\ npackets \in 0..MaxPackets /\ nctl \in 0..MaxCtl
    BY <1>1, <1>2
  <2>4. down \subseteq Keys /\ shift_held \in BOOLEAN /\ caps_lock \in BOOLEAN /\ mouse_enabled \in BOOLEAN
    BY <1>1
  <2>5. UserTypes /\ MoveTypes /\ CtrTypes
    BY <1>0, <1>1, <2>3, <2>4, Zenon DEF UserTypes, MoveTypes, CtrTypes
  <2> QED
    BY <2>1, <2>2, <2>5, Zenon
<1>4. KbdState \in KbdType
  <2>1. {} \in SUBSET KeyMods /\ FALSE \in BOOLEAN
    OBVIOUS
  <2>2. KbdState = [m |-> {}, e0 |-> FALSE, out |-> <<>>]
    BY <1>1, Zenon DEF KbdState
  <2>3. ASSUME NEW m \in SUBSET KeyMods, NEW e \in BOOLEAN, NEW o \in Seq(Runes)
        PROVE  [m |-> m, e0 |-> e, out |-> o] \in KbdType
    BY DEF KbdType
  <2> QED
    BY <1>0, <2>1, <2>2, <2>3, Zenon
<1>5. MouseState \in MouseType
  <2>1. PICK z : z = <<>> /\ z \in Seq(Byte) /\ Len(z) < 3
    BY ByteFacts, Zenon
  <2>2. /\ MouseState \in [buf : Seq(Byte), x : Int, y : Int, buttons : 0..7, out : Seq(Event)]
        /\ MouseState.buf = z /\ MouseState.x = 0 /\ MouseState.out = <<>>
    BY <1>1, <2>1 DEF MouseState
  <2>3. Travelled(<<>>) = 0
    <3>1. Summed(0, <<>>) = 0
      BY SummedFoldParts, Zenon
    <3> QED
      BY <3>1, Zenon DEF Travelled, Summed
  <2> QED
    BY <2>1, <2>2, <2>3, Zenon DEF MouseType
<1>6. UpInv
  BY <1>1 DEF UpInv
<1>7. KbdInv
  <2>1. Keyed(KbdState, <<>>) = KbdState
    BY KeyedFoldParts, Zenon
  <2>2. ~KbdState.e0 /\ KbdState.out = typed_runes /\ ("shift" \in KbdState.m <=> shift_held)
        /\ ("caps" \in KbdState.m <=> caps_lock)
    BY <1>1 DEF KbdState
  <2>3. KbdSays(KbdState, typed_runes, shift_held, caps_lock)
    BY <1>4, <2>2, Zenon DEF KbdSays
  <2> QED
    BY <1>1, <2>1, <2>3, Zenon DEF KbdInv
<1>8. MouseInv
  BY <1>1, Zenon DEF MouseInv
<1> QED
  BY <1>3, <1>4, <1>5, <1>6, <1>7, <1>8, Zenon DEF Ps2Inv

(* The steps, one by one. *)
LEMMA NextKeeps ==
  ASSUME Ps2Inv, [Ps2Next]_Ps2Vars
  PROVE  Ps2Inv'
<1>1. CASE ps2_init
  <2>1. CASE DisablePorts
    BY <2>1, DisableKeeps, Zenon
  <2>2. CASE FlushAndEnable
    BY <2>2, FlushKeeps, Zenon
  <2>3. CASE SendReset
    BY <2>3, ResetKeeps, Zenon
  <2>4. CASE SendEnable
    BY <2>4, EnableKeeps, Zenon
  <2>5. CASE ReadAnswer("read 1", "read 2") \/ ReadAnswer("read 2", "enable")
    BY <2>5, ReadKeeps, Zenon
  <2>6. CASE ReadAnswer("read 3", "on")
    BY <2>6, OnKeeps, Zenon
  <2> QED
    BY <1>1, <2>1, <2>2, <2>3, <2>4, <2>5, <2>6, Zenon DEF ps2_init
<1>2. CASE kbd_interrupt
  BY <1>2, KbdInterruptKeeps, Zenon
<1>3. CASE mouse_interrupt
  BY <1>3, MouseInterruptKeeps, Zenon
<1>4. ASSUME NEW key \in Keys, NEW release \in BOOLEAN, Key(key, release) PROVE Ps2Inv'
  BY <1>4, KeyKeeps, Zenon
<1>5. ASSUME NEW p \in Packets, Packet(p) PROVE Ps2Inv'
  BY <1>5, PacketKeeps, Zenon
<1>6. ASSUME NEW enable \in BOOLEAN, mousectl_write(enable) PROVE Ps2Inv'
  BY <1>6, ControlKeeps, Zenon
<1>7. CASE UNCHANGED Ps2Vars
  <2>1. UNCHANGED ctlVars /\ UNCHANGED kbdVars /\ UNCHANGED mouseVars /\ UNCHANGED userVars
    BY <1>7 DEF Ps2Vars
  <2>2. /\ step' = step /\ obuf' = obuf /\ irqs' = irqs /\ kbd_on' = kbd_on /\ mouse_on' = mouse_on
        /\ reports' = reports /\ calm' = calm
    BY <2>1 DEF ctlVars
  <2>3. /\ typed_runes' = typed_runes /\ moves' = moves /\ down' = down /\ shift_held' = shift_held
        /\ caps_lock' = caps_lock /\ nkeys' = nkeys /\ npackets' = npackets /\ nctl' = nctl
    BY <2>1, UserSame, Zenon
  <2>4. KbdState' = KbdState /\ MouseState' = MouseState /\ PackState' = PackState
        /\ events' = events /\ mouse_buf' = mouse_buf /\ mouse_enabled' = mouse_enabled
    BY <2>1, <2>2, SameState, Zenon
  <2>5. CtlTypes /\ BufTypes /\ UserTypes /\ MoveTypes /\ CtrTypes /\ KbdState \in KbdType /\ MouseState \in MouseType
        /\ UpInv /\ KbdInv /\ MouseInv
    BY InvParts, Zenon
  <2>6. CtlTypes' /\ BufTypes' /\ UserTypes' /\ MoveTypes' /\ CtrTypes' /\ UpInv'
    BY <2>2, <2>3, <2>4, <2>5, Zenon DEF CtlTypes, BufTypes, UserTypes, MoveTypes, CtrTypes, UpInv
  <2>7. KbdInv'
    BY <2>2, <2>3, <2>4, <2>5, Zenon DEF KbdInv
  <2>8. MouseInv'
    BY <2>2, <2>3, <2>4, <2>5, Zenon DEF MouseInv, SmallMotions, SmallMotion
  <2>9. KbdState' \in KbdType /\ MouseState' \in MouseType
    BY <2>4, <2>5, Zenon
  <2> QED
    BY <2>6, <2>7, <2>8, <2>9, Zenon DEF Ps2Inv
<1> QED
  BY <1>1, <1>2, <1>3, <1>4, <1>5, <1>6, <1>7, Zenon DEF Ps2Next

(* In every run the controller's buffer, the decoders and what the user did *)
(* fit together.                                                           *)
THEOREM Ps2Invariant == Ps2Spec => []Ps2Inv
<1>1. Ps2Init => Ps2Inv
  BY InitHolds
<1>2. Ps2Inv /\ [Ps2Next]_Ps2Vars => Ps2Inv'
  BY NextKeeps
<1> QED
  BY <1>1, <1>2, PTL DEF Ps2Spec

(* Every variable keeps its type (ps2.c). *)
THEOREM Ps2TypeSafe == Ps2Spec => []Ps2TypeOK
<1>1. Ps2Inv => Ps2TypeOK
  <2> SUFFICES ASSUME Ps2Inv PROVE Ps2TypeOK
    OBVIOUS
  <2>1. CtlTypes /\ BufTypes /\ UserTypes /\ MoveTypes /\ CtrTypes /\ KbdState \in KbdType /\ MouseState \in MouseType
    BY InvParts, Zenon
  <2>2. step \in {"disable", "flush", "reset", "read 1", "read 2", "enable", "read 3", "on"}
        /\ calm \subseteq {"kbd", "mouse"}
    BY <2>1, Zenon DEF CtlTypes, Steps, Irqs
  <2>3. obuf \in Seq([aux : BOOLEAN, byte : 0..255]) /\ irqs \subseteq {"kbd", "mouse"}
    BY <2>1, Zenon DEF BufTypes, InByte, Byte, Irqs
  <2>4. kbd_modifiers \subseteq {"shift", "ctrl", "alt", "caps"} /\ e0 \in BOOLEAN
    <3>1. kbd_modifiers \in SUBSET KeyMods /\ e0 \in BOOLEAN
      BY <2>1 DEF KbdState, KbdType
    <3> QED
      BY <3>1, Zenon DEF KeyMods
  <2>5. mouse_buf \in Seq(Byte) /\ Len(mouse_buf) < 3 /\ mouse_x \in Int /\ mouse_y \in Int /\ mouse_buttons \in 0..7
    BY <2>1 DEF MouseState, MouseType
  <2>6. mouse_buf \in Seq(0..255)
    BY <2>5, Zenon DEF Byte
  <2>7. {kbd_on, mouse_on, reports, e0, mouse_enabled, shift_held, caps_lock} \subseteq BOOLEAN
    <3>1. kbd_on \in BOOLEAN /\ mouse_on \in BOOLEAN /\ reports \in BOOLEAN /\ e0 \in BOOLEAN
          /\ mouse_enabled \in BOOLEAN /\ shift_held \in BOOLEAN /\ caps_lock \in BOOLEAN
      BY <2>1, <2>4, Zenon DEF CtlTypes, CtrTypes, UserTypes
    <3> QED
      BY <3>1
  <2>8. down \subseteq Keys /\ nkeys \in 0..MaxKeys /\ npackets \in 0..MaxPackets /\ nctl \in 0..MaxCtl
    BY <2>1, Zenon DEF UserTypes, MoveTypes, CtrTypes
  <2> QED
    BY <2>2, <2>3, <2>4, <2>5, <2>6, <2>7, <2>8, Zenon DEF Ps2TypeOK
<1> QED
  BY <1>1, Ps2Invariant, PTL

(* The programs get what the user did, in order, and nothing is missing    *)
(* once the buffer is empty (the two interrupt handlers of ps2.c), as long *)
(* as the mouse moves by less than 128 upwards and to the right.           *)
THEOREM InputKept == SmallMotions /\ Ps2Spec => []InputAsSent
<1>1. Ps2Inv /\ SmallMotions => InputAsSent
  <2> SUFFICES ASSUME Ps2Inv, SmallMotions PROVE InputAsSent
    OBVIOUS
  <2>1. CtlTypes /\ BufTypes /\ UserTypes /\ MoveTypes /\ CtrTypes /\ KbdState \in KbdType /\ MouseState \in MouseType
        /\ UpInv /\ KbdInv /\ MouseInv /\ obuf \in Seq(InByte)
    BY InvParts, Zenon
  <2>2. runes \in Seq(Runes) /\ typed_runes \in Seq(Runes) /\ events \in Seq(Event) /\ moves \in Seq(Event)
        /\ KbdState.out = runes /\ MouseState.out = events /\ MouseState.x = mouse_x
    <3>1. KbdState.out = runes /\ MouseState.out = events /\ MouseState.x = mouse_x
      BY DEF KbdState, MouseState
    <3>2. KbdState.out \in Seq(Runes) /\ MouseState.out \in Seq(Event)
      BY <2>1 DEF KbdType, MouseType
    <3> QED
      BY <2>1, <3>1, <3>2, Zenon DEF UserTypes, MoveTypes
  <2>3. mouse_x = Travelled(events)
    <3>1. MouseState.x = Travelled(MouseState.out)
      BY <2>1, Zenon DEF MouseType
    <3> QED
      BY <2>2, <3>1, Zenon
  <2>4. ASSUME "kbd" \in calm PROVE IsPrefix(runes, typed_runes) /\ (obuf = <<>> => runes = typed_runes)
    <3>1. KbdSays(Keyed(KbdState, obuf), typed_runes, shift_held, caps_lock)
      BY <2>1, <2>4, Zenon DEF KbdInv
    <3>2. Keyed(KbdState, obuf).out = typed_runes
      BY <3>1, Zenon DEF KbdSays
    <3>3. Grew(KbdState.out, Keyed(KbdState, obuf).out)
      BY <2>1, KeyedFacts, Zenon
    <3>4. Grew(runes, typed_runes)
      BY <2>2, <3>2, <3>3, Zenon
    <3>5. IsPrefix(runes, typed_runes)
      BY <2>2, <3>4, GrewFacts, Zenon
    <3>6. ASSUME obuf = <<>> PROVE runes = typed_runes
      <4>1. Keyed(KbdState, <<>>) = KbdState
        BY KeyedFoldParts, Zenon
      <4> QED
        BY <2>2, <3>2, <3>6, <4>1, Zenon
    <3> QED
      BY <3>5, <3>6, Zenon
  <2>5. ASSUME "mouse" \in calm, nctl = 0
        PROVE  IsPrefix(events, moves) /\ (obuf = <<>> => events = moves)
    <3>1. CASE reports
      <4>1. MouseSays(Packed(PackState, obuf), moves)
        BY <2>1, <2>5, <3>1, Zenon DEF MouseInv
      <4>2. Packed(PackState, obuf).st.out = moves
        BY <4>1, Zenon DEF MouseSays
      <4>3. PackState \in PackType /\ PackState.st.out = events
        <5>1. PackState.st = MouseState
          BY DEF PackState
        <5>2. (step = "read 3") \in BOOLEAN
          OBVIOUS
        <5>3. ASSUME NEW s \in MouseType, NEW b \in BOOLEAN PROVE [skip |-> b, st |-> s] \in PackType
          BY DEF PackType
        <5>4. PackState \in PackType
          BY <2>1, <5>2, <5>3, Zenon DEF PackState
        <5> QED
          BY <2>2, <5>1, <5>4, Zenon
      <4>4. Grew(PackState.st.out, Packed(PackState, obuf).st.out)
        BY <2>1, <4>3, PackedFacts, Zenon
      <4>5. Grew(events, moves)
        BY <4>2, <4>3, <4>4, Zenon
      <4>6. IsPrefix(events, moves)
        BY <2>2, <4>5, GrewFacts, Zenon
      <4>7. ASSUME obuf = <<>> PROVE events = moves
        <5>1. Packed(PackState, <<>>) = PackState
          BY PackedFoldParts, Zenon
        <5> QED
          BY <4>2, <4>3, <4>7, <5>1, Zenon
      <4> QED
        BY <4>6, <4>7, Zenon
    <3>2. CASE ~reports
      <4>1. step \notin {"read 3", "on"} /\ step # "on"
        BY <2>1, <3>2, Zenon DEF UpInv
      <4>2. events = <<>> /\ moves = <<>>
        BY <2>1, <4>1, Zenon DEF UpInv
      <4>3. Grew(events, moves)
        BY <2>2, <4>2, GrewFacts, Zenon
      <4>4. IsPrefix(events, moves)
        BY <2>2, <4>3, GrewFacts, Zenon
      <4> QED
        BY <4>2, <4>4, Zenon
    <3> QED
      BY <3>1, <3>2, Zenon
  <2> QED
    BY <2>3, <2>4, <2>5, Zenon DEF InputAsSent
<1>2. SmallMotions => []SmallMotions
  <2>1. SmallMotions => SmallMotions'
    BY Zenon DEF SmallMotions, SmallMotion
  <2> QED
    BY <2>1, PTL
<1> QED
  BY <1>1, <1>2, Ps2Invariant, PTL

-----------------------------------------------------------------------------
(* Boot *)

(* The boot CPU's id is not cut to the width of cpus[].apic_id, as no id   *)
(* of a local APIC is.  An id that is cut is found in no slot.             *)
BspFits == \A m \in Machines : m.bsp < U8

(* The boot CPU's id is among the first n of the loader's.                 *)
BspAmong(n) == \E k \in 1..n : machine.ids[k] = machine.bsp

Running == {c \in APs : apc[c] = "scheduler"}

(* The slots are given out one by one and to all CPUs, or as many as there *)
(* are slots, before any CPU is let go.                                    *)
SlotsGiven ==
    /\ apic_id[0] = machine.bsp /\ ncpu <= N
    /\ IF bpc = "enrol" THEN released = {} /\ ncpu = (IF BspAmong(bi - 1) THEN bi - 1 ELSE bi)
       ELSE ncpu = IF N < MAX_CPUS THEN N ELSE MAX_CPUS

(* A CPU on its way has found the slot with its id.                        *)
SlotsFound ==
    /\ gs[machine.bsp] = 0 /\ tss[machine.bsp] = 0
    /\ \A c \in APs :
         /\ apc[c] # "parked" => c \in released
         /\ apc[c] \in {"gdt", "count", "scheduler"} => gs[c] \in 1..(ncpu - 1) /\ apic_id[gs[c]] = c
         /\ apc[c] \in {"count", "scheduler"} => tss[c] = gs[c]

(* ap_started counts the CPUs in their schedulers.                         *)
Counted ==
    /\ IsFiniteSet(Running) /\ ap_started = Cardinality(Running)
    /\ bpc = "scheduler" => ap_started >= ncpu - 1

BootInv == BootTypeOK /\ SlotsGiven /\ SlotsFound /\ Counted

LEMMA MachineShape ==
  ASSUME machine \in Machines
  PROVE  /\ N \in Nat /\ machine.ids \in [1..N -> Nat] /\ machine.bsp \in Nat /\ machine.bsp \in Ids
         /\ APs \subseteq Nat /\ Ids \subseteq Nat /\ BspAmong(N) /\ N >= 1
         /\ \A i, j \in 1..N : machine.ids[i] = machine.ids[j] => i = j
         /\ \A i \in 1..N : machine.ids[i] \in Ids
         /\ \A n \in Nat : ~BspAmong(n) => n < N
<1>1. machine.ids \in Seq(Nat) /\ IsInjective(machine.ids) /\ machine.bsp \in Range(machine.ids)
  BY BootAssumption
<1>2. N \in Nat /\ machine.ids \in [1..N -> Nat] /\ DOMAIN machine.ids = 1..N
  BY <1>1 DEF N
<1>3. \A i, j \in 1..N : machine.ids[i] = machine.ids[j] => i = j
  BY <1>1, <1>2 DEF IsInjective
<1>4. \A i \in 1..N : machine.ids[i] \in Ids
  BY <1>2 DEF Ids, Range
<1>5. PICK k \in 1..N : machine.bsp = machine.ids[k]
  BY <1>1, <1>2 DEF Range
<1>6. Ids \subseteq Nat
  BY <1>2 DEF Ids, Range
<1>7. machine.bsp \in Ids /\ machine.bsp \in Nat /\ BspAmong(N) /\ N >= 1
  BY <1>2, <1>4, <1>5, <1>6 DEF BspAmong
<1>8. \A n \in Nat : ~BspAmong(n) => n < N
  BY <1>2, <1>5 DEF BspAmong
<1>9. APs \subseteq Nat
  BY <1>6 DEF APs
<1> QED
  BY <1>2, <1>3, <1>4, <1>6, <1>7, <1>8, <1>9

(* CPUs with a slot of their own are no more than the slots.               *)
LEMMA SlotsBound ==
  ASSUME NEW S, NEW n \in Nat, NEW sl, NEW id, \A c \in S : sl[c] \in 1..n /\ id[sl[c]] = c
  PROVE  IsFiniteSet(S) /\ Cardinality(S) \in Nat /\ Cardinality(S) <= n
<1> DEFINE f == [c \in S |-> sl[c]]
<1>1. f \in [S -> 1..n]
  OBVIOUS
<1>2. \A a, b \in S : f[a] = f[b] => a = b
  OBVIOUS
<1>3. f \in Injection(S, 1..n)
  <2>1. IsInjective(f)
    BY <1>2 DEF IsInjective
  <2> QED
    BY <1>1, <2>1 DEF Injection
<1>4. IsFiniteSet(1..n) /\ Cardinality(1..n) = n
  BY FS_Interval
<1>5. IsFiniteSet(S) /\ Cardinality(S) <= n
  BY <1>3, <1>4, FS_Injection
<1> QED
  BY <1>5, FS_CardinalityType

LEMMA BootInitInv == ASSUME BspFits, BootInit PROVE BootInv
<1>1. machine \in Machines
  BY DEF BootInit
<1>2. MAX_CPUS \in Nat \ {0} /\ U8 \in Nat \ {0} /\ machine.bsp < U8
  BY <1>1, BootAssumption DEF BspFits
<1>3. machine.bsp % U8 = machine.bsp
  <2>1. machine.bsp \in Nat
    BY <1>1, MachineShape
  <2>2. (U8 * 0 + machine.bsp) % U8 = machine.bsp
    BY <1>2, <2>1, DivMod
  <2> QED
    BY <1>2, <2>1, <2>2
<1>4. BootTypeOK
  BY <1>1, <1>2, <1>3, MachineShape DEF BootInit, BootTypeOK, NoSlot
<1>5. SlotsGiven
  <2>1. ~BspAmong(1 - 1)
    BY DEF BspAmong
  <2> QED
    BY <1>1, <1>2, <1>3, <2>1, MachineShape DEF BootInit, SlotsGiven
<1>6. SlotsFound
  BY <1>1, MachineShape DEF BootInit, SlotsFound
<1>7. Counted
  <2>1. Running = {}
    BY DEF Running, BootInit
  <2> QED
    BY <2>1, FS_EmptySet DEF BootInit, Counted
<1> QED
  BY <1>4, <1>5, <1>6, <1>7 DEF BootInv

(* No step changes the machine. *)
SameMachine == machine' = machine /\ Ids' = Ids /\ APs' = APs /\ N' = N /\ \A n : BspAmong(n)' <=> BspAmong(n)

LEMMA MachineStays == ASSUME [BootNext]_BootVars PROVE SameMachine
<1>1. machine' = machine
  BY DEF BootNext, BspStep, ApStep, Enrol, Release, Wait, FindSlot, init_gdt_ap, CountIn, BootVars
<1>2. Ids' = Ids /\ N' = N
  BY <1>1 DEF Ids, N
<1>3. APs' = APs
  BY <1>1, <1>2 DEF APs
<1>4. \A n : BspAmong(n)' <=> BspAmong(n)
  BY <1>1 DEF BspAmong
<1> QED
  BY <1>1, <1>2, <1>3, <1>4 DEF SameMachine

(* The number of slots in use before and after enrolling one more CPU. *)
LEMMA OneMore ==
  ASSUME machine \in Machines, NEW i \in Nat \ {0}, i <= N
  PROVE  /\ BspAmong(i) <=> machine.ids[i] = machine.bsp \/ BspAmong(i - 1)
         /\ (machine.ids[i] = machine.bsp => ~BspAmong(i - 1))
<1>1. N \in Nat /\ \A a, b \in 1..N : machine.ids[a] = machine.ids[b] => a = b
  BY MachineShape
<1>2. \A k \in 1..i : k = i \/ k \in 1..(i - 1)
  OBVIOUS
<1>3. \A k \in 1..(i - 1) : k # i /\ k \in 1..N /\ k \in 1..i
  BY <1>1
<1>4. i \in 1..N /\ i \in 1..i
  BY <1>1
<1> QED
  BY <1>1, <1>2, <1>3, <1>4 DEF BspAmong

LEMMA EnrolInv == ASSUME BootInv, Enrol, SameMachine PROVE BootInv'
<1>1. machine \in Machines /\ MAX_CPUS \in Nat \ {0} /\ U8 \in Nat \ {0}
  BY BootAssumption DEF BootInv, BootTypeOK
<1>2. N \in Nat /\ bi \in 1..(N + 1) /\ ncpu \in 1..MAX_CPUS /\ bi \in Nat /\ bi - 1 \in Nat
  BY <1>1, MachineShape DEF BootInv, BootTypeOK
<1>3. released = {} /\ ncpu = (IF BspAmong(bi - 1) THEN bi - 1 ELSE bi)
  BY DEF BootInv, SlotsGiven, Enrol
<1>4. \A c \in APs : apc[c] = "parked"
  BY <1>3 DEF BootInv, SlotsFound
<1>5. CASE bi <= N /\ ncpu < MAX_CPUS
  <2>1. bi + 1 - 1 = bi /\ bi + 1 \in 1..(N + 1) /\ bi \in Nat \ {0} /\ bi \in 1..N
    BY <1>2, <1>5
  <2>2. (BspAmong(bi) <=> machine.ids[bi] = machine.bsp \/ BspAmong(bi - 1))
        /\ (machine.ids[bi] = machine.bsp => ~BspAmong(bi - 1))
    BY <1>1, <1>5, <2>1, OneMore
  <2>3. machine.ids[bi] % U8 \in 0..(U8 - 1)
    <3>1. machine.ids[bi] \in Nat
      BY <1>1, <2>1, MachineShape
    <3> QED
      BY <1>1, <3>1, Divided
  <2>4. ncpu' = (IF BspAmong(bi) THEN bi ELSE bi + 1) /\ ncpu' \in 1..MAX_CPUS /\ bi' = bi + 1 /\ bpc' = bpc
        /\ apic_id' \in [0..(MAX_CPUS - 1) -> 0..(U8 - 1)] /\ apic_id'[0] = apic_id[0]
    <3> DEFINE x == machine.ids[bi] % U8
    <3>1. x \in 0..(U8 - 1)
      BY <2>3
    <3>2. apic_id \in [0..(MAX_CPUS - 1) -> 0..(U8 - 1)] /\ ncpu \in 1..MAX_CPUS /\ bpc' = bpc /\ bi' = bi + 1
      BY <1>5 DEF Enrol, BootInv, BootTypeOK
    <3>3. CASE machine.ids[bi] = machine.bsp
      <4>1. apic_id' = apic_id /\ ncpu' = ncpu
        BY <1>5, <3>3 DEF Enrol
      <4> QED
        BY <1>3, <2>2, <3>2, <3>3, <4>1
    <3>4. CASE machine.ids[bi] # machine.bsp
      <4>1. apic_id' = [apic_id EXCEPT ![ncpu] = x] /\ ncpu' = ncpu + 1
        BY <1>5, <3>4 DEF Enrol
      <4>2. apic_id' \in [0..(MAX_CPUS - 1) -> 0..(U8 - 1)]
        <5> HIDE DEF x
        <5> QED
          BY <3>1, <3>2, <4>1
      <4>3. apic_id'[0] = apic_id[0] /\ ncpu' \in 1..MAX_CPUS
        <5> HIDE DEF x
        <5> QED
          BY <1>1, <1>2, <1>5, <3>2, <4>1
      <4>4. ncpu' = IF BspAmong(bi) THEN bi ELSE bi + 1
        BY <1>2, <1>3, <2>2, <3>4, <4>1
      <4> QED
        BY <3>2, <4>2, <4>3, <4>4
    <3> QED
      BY <3>3, <3>4
  <2>5. ncpu' <= N
    BY <1>1, <1>2, <2>1, <2>4, MachineShape
  <2>6. BootTypeOK'
    BY <2>1, <2>4 DEF Enrol, BootInv, BootTypeOK, SameMachine
  <2>7. SlotsGiven'
    <3>1. ncpu' = (IF BspAmong(bi' - 1) THEN bi' - 1 ELSE bi')
      BY <2>1, <2>4
    <3> QED
      BY <1>3, <2>4, <2>5, <3>1 DEF Enrol, BootInv, SlotsGiven, SameMachine
  <2>8. SlotsFound'
    BY <1>4 DEF Enrol, BootInv, SlotsFound, SameMachine
  <2>9. Counted'
    BY <2>4 DEF Enrol, BootInv, Counted, Running, SameMachine
  <2> QED
    BY <2>6, <2>7, <2>8, <2>9 DEF BootInv
<1>6. CASE ~(bi <= N /\ ncpu < MAX_CPUS)
  <2>1. ncpu = IF N < MAX_CPUS THEN N ELSE MAX_CPUS
    <3>1. ncpu <= N
      BY DEF BootInv, SlotsGiven
    <3>2. CASE bi <= N
      BY <1>1, <1>2, <1>6, <3>1, <3>2
    <3>3. CASE ~(bi <= N)
      <4>1. bi - 1 = N
        BY <1>2, <3>3
      <4>2. BspAmong(bi - 1)
        BY <1>1, <4>1, MachineShape
      <4> QED
        BY <1>1, <1>2, <1>3, <4>1, <4>2
    <3> QED
      BY <3>2, <3>3
  <2>2. BootTypeOK'
    BY <1>2, <1>6 DEF Enrol, BootInv, BootTypeOK, SameMachine
  <2>3. SlotsGiven'
    BY <1>6, <2>1 DEF Enrol, BootInv, SlotsGiven, SameMachine
  <2>4. SlotsFound'
    BY <1>6 DEF Enrol, BootInv, SlotsFound, SameMachine
  <2>5. Counted'
    BY <1>6 DEF Enrol, BootInv, Counted, Running, SameMachine
  <2> QED
    BY <2>2, <2>3, <2>4, <2>5 DEF BootInv
<1> QED
  BY <1>5, <1>6

LEMMA ReleaseInv == ASSUME BootInv, Release, SameMachine PROVE BootInv'
<1>1. machine \in Machines /\ bi \in 1..(N + 1)
  BY DEF BootInv, BootTypeOK
<1>2. N \in Nat /\ \A i \in 1..N : machine.ids[i] \in Ids
  BY <1>1, MachineShape
<1>3. bi' \in 1..(N + 1)
  BY <1>1, <1>2 DEF Release
<1>4. released' \subseteq APs /\ released \subseteq released'
  BY <1>1, <1>2 DEF Release, APs, BootInv, BootTypeOK
<1>5. BootTypeOK'
  BY <1>3, <1>4 DEF Release, BootInv, BootTypeOK, SameMachine
<1>6. SlotsGiven'
  BY DEF Release, BootInv, SlotsGiven, SameMachine
<1>7. SlotsFound'
  BY <1>4 DEF Release, BootInv, SlotsFound, SameMachine
<1>8. Counted'
  BY DEF Release, BootInv, Counted, Running, SameMachine
<1> QED
  BY <1>5, <1>6, <1>7, <1>8 DEF BootInv

LEMMA WaitInv == ASSUME BootInv, Wait, SameMachine PROVE BootInv'
<1>1. BootTypeOK'
  BY DEF Wait, BootInv, BootTypeOK, SameMachine
<1>2. SlotsGiven' /\ SlotsFound'
  BY DEF Wait, BootInv, SlotsGiven, SlotsFound, SameMachine
<1>3. Counted'
  BY DEF Wait, BootInv, Counted, Running, SameMachine
<1> QED
  BY <1>1, <1>2, <1>3 DEF BootInv

LEMMA FindSlotInv == ASSUME BootInv, NEW c \in APs, FindSlot(c), SameMachine PROVE BootInv'
<1>1. machine \in Machines /\ MAX_CPUS \in Nat \ {0} /\ ncpu \in 1..MAX_CPUS /\ apc[c] = "parked" /\ c \in released
      /\ c # machine.bsp /\ c \in Ids
  BY BootAssumption DEF BootInv, BootTypeOK, FindSlot, ApGoto, APs
<1>2. /\ apc \in [APs -> {"parked", "gdt", "count", "scheduler", "halted"}]
      /\ gs \in [Ids -> 0..MAX_CPUS] /\ apic_id[0] = machine.bsp /\ gs[machine.bsp] = 0
  BY DEF BootInv, BootTypeOK, SlotsGiven, SlotsFound
<1> DEFINE found == {s \in 0..(ncpu - 1) : apic_id[s] = c}
<1>3. CASE found = {}
  <2>1. apc' = [apc EXCEPT ![c] = "halted"] /\ gs' = gs
    BY <1>3 DEF FindSlot, ApGoto
  <2>2. BootTypeOK'
    BY <1>2, <2>1 DEF FindSlot, BootInv, BootTypeOK, SameMachine
  <2>3. SlotsGiven'
    BY DEF FindSlot, BootInv, SlotsGiven, SameMachine
  <2>4. SlotsFound'
    BY <1>1, <1>2, <2>1 DEF FindSlot, BootInv, SlotsFound, SameMachine
  <2>5. Running' = Running
    BY <1>1, <1>2, <2>1 DEF Running, SameMachine
  <2>6. Counted'
    BY <2>5 DEF FindSlot, BootInv, Counted
  <2> QED
    BY <2>2, <2>3, <2>4, <2>6 DEF BootInv
<1>4. CASE found # {}
  <2>1. PICK m : m = CHOOSE s \in found : \A t \in found : s <= t
    OBVIOUS
  <2>2. m \in found
    <3>1. found \subseteq Nat
      BY <1>1
    <3>2. \E s \in found : \A t \in found : s <= t
      BY <1>4, <3>1, LeastExists
    <3> QED
      BY <2>1, <3>2
  <2>3. m \in 1..(ncpu - 1) /\ apic_id[m] = c /\ m \in 0..MAX_CPUS
    BY <1>1, <1>2, <2>2
  <2>4. apc' = [apc EXCEPT ![c] = "gdt"] /\ gs' = [gs EXCEPT ![c] = m]
    BY <1>4, <2>1 DEF FindSlot, ApGoto
  <2> HIDE DEF found
  <2>5. BootTypeOK'
    BY <1>1, <1>2, <2>3, <2>4 DEF FindSlot, BootInv, BootTypeOK, SameMachine
  <2>6. SlotsGiven'
    BY DEF FindSlot, BootInv, SlotsGiven, SameMachine
  <2>7. SlotsFound'
    <3>1. ASSUME NEW d \in APs, d # c
          PROVE  apc'[d] = apc[d] /\ gs'[d] = gs[d]
      BY <1>2, <2>4, <3>1 DEF APs
    <3>2. apc'[c] = "gdt" /\ gs'[c] = m /\ gs'[machine.bsp] = 0
      BY <1>1, <1>2, <2>4
    <3> QED
      BY <1>1, <2>3, <3>1, <3>2 DEF FindSlot, BootInv, SlotsFound, SameMachine
  <2>8. Running' = Running
    BY <1>1, <1>2, <2>4 DEF Running, SameMachine
  <2>9. Counted'
    BY <2>8 DEF FindSlot, BootInv, Counted
  <2> QED
    BY <2>5, <2>6, <2>7, <2>9 DEF BootInv
<1> QED
  BY <1>3, <1>4

LEMMA GdtInv == ASSUME BootInv, NEW c \in APs, init_gdt_ap(c), SameMachine PROVE BootInv'
<1>1. apc[c] = "gdt" /\ apc' = [apc EXCEPT ![c] = "count"] /\ tss' = [tss EXCEPT ![c] = gs[c]]
      /\ c # machine.bsp /\ c \in Ids
  BY DEF init_gdt_ap, ApGoto, APs
<1>2. /\ apc \in [APs -> {"parked", "gdt", "count", "scheduler", "halted"}]
      /\ gs \in [Ids -> 0..MAX_CPUS] /\ tss \in [Ids -> 0..MAX_CPUS] /\ tss[machine.bsp] = 0
  BY DEF BootInv, BootTypeOK, SlotsFound
<1>3. BootTypeOK'
  BY <1>1, <1>2 DEF init_gdt_ap, BootInv, BootTypeOK, SameMachine
<1>4. SlotsGiven'
  BY DEF init_gdt_ap, BootInv, SlotsGiven, SameMachine
<1>5. SlotsFound'
  <2>1. ASSUME NEW d \in APs, d # c PROVE apc'[d] = apc[d] /\ tss'[d] = tss[d]
    BY <1>1, <1>2, <2>1 DEF APs
  <2>2. apc'[c] = "count" /\ tss'[c] = gs[c] /\ tss'[machine.bsp] = 0
    BY <1>1, <1>2
  <2> QED
    BY <1>1, <2>1, <2>2 DEF init_gdt_ap, BootInv, SlotsFound, SameMachine
<1>6. Running' = Running
  BY <1>1, <1>2 DEF Running, SameMachine
<1>7. Counted'
  BY <1>6 DEF init_gdt_ap, BootInv, Counted
<1> QED
  BY <1>3, <1>4, <1>5, <1>7 DEF BootInv

LEMMA CountInInv == ASSUME BootInv, NEW c \in APs, CountIn(c), SameMachine PROVE BootInv'
<1>1. apc[c] = "count" /\ apc' = [apc EXCEPT ![c] = "scheduler"] /\ ap_started' = ap_started + 1
  BY DEF CountIn, ApGoto
<1>2. /\ apc \in [APs -> {"parked", "gdt", "count", "scheduler", "halted"}]
      /\ machine \in Machines /\ ncpu \in 1..MAX_CPUS /\ MAX_CPUS \in Nat /\ ncpu <= N
  BY BootAssumption DEF BootInv, BootTypeOK, SlotsGiven
<1>3. N \in Nat
  BY <1>2, MachineShape
<1>4. SlotsGiven'
  BY DEF CountIn, BootInv, SlotsGiven, SameMachine
<1>5. SlotsFound'
  <2>1. ASSUME NEW d \in APs, d # c PROVE apc'[d] = apc[d]
    BY <1>1, <1>2, <2>1
  <2>2. apc'[c] = "scheduler"
    BY <1>1, <1>2
  <2> QED
    BY <1>1, <2>1, <2>2 DEF CountIn, BootInv, SlotsFound, SameMachine
<1>6. Running' = Running \cup {c} /\ c \notin Running
  BY <1>1, <1>2 DEF Running, SameMachine
<1>7. IsFiniteSet(Running) /\ ap_started = Cardinality(Running) /\ (bpc = "scheduler" => ap_started >= ncpu - 1)
  BY DEF BootInv, Counted
<1>8. IsFiniteSet(Running') /\ Cardinality(Running') = ap_started + 1 /\ ap_started \in Nat
  BY <1>6, <1>7, FS_AddElement, FS_CardinalityType
<1>9. Counted'
  <2>1. bpc' = bpc /\ ncpu' = ncpu
    BY DEF CountIn
  <2> QED
    BY <1>1, <1>2, <1>7, <1>8, <2>1 DEF Counted
<1>10. ap_started' <= N
  <2>1. ncpu - 1 \in Nat
    BY <1>2
  <2>2. \A d \in Running' : gs[d] \in 1..(ncpu - 1) /\ apic_id[gs[d]] = d
    BY <1>1, <1>6 DEF BootInv, SlotsFound, Running
  <2>3. Cardinality(Running') <= ncpu - 1
    BY <2>1, <2>2, SlotsBound
  <2> QED
    BY <1>1, <1>2, <1>3, <1>8, <2>3
<1>11. BootTypeOK'
  BY <1>1, <1>2, <1>3, <1>8, <1>10 DEF CountIn, BootInv, BootTypeOK, SameMachine
<1> QED
  BY <1>4, <1>5, <1>9, <1>11 DEF BootInv

LEMMA BootStutter == ASSUME BootInv, UNCHANGED BootVars, SameMachine PROVE BootInv'
<1>1. BootTypeOK'
  BY DEF BootVars, BootInv, BootTypeOK, SameMachine
<1>2. SlotsGiven' /\ SlotsFound'
  BY DEF BootVars, BootInv, SlotsGiven, SlotsFound, SameMachine
<1>3. Counted'
  BY DEF BootVars, BootInv, Counted, Running, SameMachine
<1> QED
  BY <1>1, <1>2, <1>3 DEF BootInv

LEMMA BootStep == ASSUME BootInv, [BootNext]_BootVars PROVE BootInv'
<1>1. SameMachine
  BY MachineStays
<1>2. CASE BspStep
  BY <1>1, <1>2, EnrolInv, ReleaseInv, WaitInv DEF BspStep
<1>3. CASE ApStep
  BY <1>1, <1>3, FindSlotInv, GdtInv, CountInInv DEF ApStep
<1>4. CASE UNCHANGED BootVars
  BY <1>1, <1>4, BootStutter
<1> QED
  BY <1>2, <1>3, <1>4 DEF BootNext

LEMMA BootInvImplies == ASSUME BootInv PROVE EachInItsSlot
<1>1. SUFFICES ASSUME bpc = "scheduler" PROVE EachInItsSlot
  BY DEF EachInItsSlot
<1> DEFINE up == Running \cup {machine.bsp}
<1>2. machine \in Machines /\ ncpu \in 1..MAX_CPUS /\ MAX_CPUS \in Nat /\ machine.bsp \notin APs
  BY BootAssumption DEF BootInv, BootTypeOK, APs
<1>3. Running \subseteq APs /\ machine.bsp \notin Running
  BY <1>2 DEF Running
<1>4. \A d \in Running : gs[d] \in 1..(ncpu - 1) /\ apic_id[gs[d]] = d /\ tss[d] = gs[d]
  BY <1>3 DEF BootInv, SlotsFound, Running
<1>5. ncpu - 1 \in Nat
  BY <1>2
<1>6. IsFiniteSet(Running) /\ Cardinality(Running) \in Nat /\ Cardinality(Running) <= ncpu - 1
  BY <1>4, <1>5, SlotsBound
<1>7. Cardinality(Running) >= ncpu - 1
  BY <1>1 DEF BootInv, Counted
<1>8. Cardinality(up) = ncpu
  <2>1. Cardinality(up) = Cardinality(Running) + 1
    BY <1>3, <1>6, FS_AddElement
  <2> QED
    BY <1>2, <1>6, <1>7, <2>1
<1>9. ncpu = IF N < MAX_CPUS THEN N ELSE MAX_CPUS
  BY <1>1 DEF BootInv, SlotsGiven
<1>10. gs[machine.bsp] = 0 /\ tss[machine.bsp] = 0
  BY DEF BootInv, SlotsFound
<1>11. \A c \in up : gs[c] # NoSlot /\ tss[c] = gs[c]
  BY <1>2, <1>4, <1>10 DEF NoSlot
<1>12. \A c \in up : \A d \in up \ {c} : gs[c] # gs[d]
  BY <1>2, <1>4, <1>10
<1> QED
  BY <1>8, <1>9, <1>11, <1>12 DEF EachInItsSlot, Running

(* What BootSpec says of the steps, and not that they are taken. *)
BootSteps == BootInit /\ [][BootNext]_BootVars

LEMMA BootAlways == BspFits /\ BootSteps => []BootInv
<1>1. BspFits /\ BootInit => BootInv
  BY BootInitInv
<1>2. BootInv /\ [BootNext]_BootVars => BootInv'
  BY BootStep
<1> QED
  BY <1>1, <1>2, PTL DEF BootSteps

(* Type correctness of the start of the processors. *)
THEOREM BootTypeSafe == BspFits /\ BootSteps => []BootTypeOK
<1>1. BootInv => BootTypeOK
  BY DEF BootInv
<1> QED
  BY <1>1, BootAlways, PTL

(* Once the boot CPU schedules, as many CPUs as have a slot do, each with  *)
(* a slot and a TSS of its own: however the CPUs interleave, for any       *)
(* number and order of CPUs and any number of slots.                       *)
THEOREM SlotsApart == BspFits /\ BootSpec => []EachInItsSlot
<1>1. BootSpec => BootSteps
  BY PTL DEF BootSpec, BootSteps
<1>2. BootInv => EachInItsSlot
  BY BootInvImplies
<1> QED
  BY <1>1, <1>2, BootAlways, PTL

=============================================================================
