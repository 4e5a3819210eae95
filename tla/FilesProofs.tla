----------------------------- MODULE FilesProofs -----------------------------
(***************************************************************************)
(* Proofs about open files.  First file descriptors: on one CPU the        *)
(* reference counts are exact.  A call there is alone, so its gets and     *)
(* puts are done one after the other; what is left of the argument is      *)
(* counting.  Then the device file system: its types, the listing of /dev  *)
(* while nodes come and go, and the partial writes of the block device.    *)
(* Then ext2: a failed mount gives everything back, a read returns the     *)
(* bytes of the file, a listing is complete.  Last, these and Vfs side by  *)
(* side (MCFs).                                                            *)
(***************************************************************************)
EXTENDS MCFs, VfsProofs, SetOrderProofs, FiniteSetTheorems, SequenceTheorems, TLAPS

-----------------------------------------------------------------------------
(* Counting: in a table of tables T, in a sequence s of operations, and in *)
(* what all processes D have to do                                         *)

RefsOf(T, f) == {d \in Procs \X Fd : T[d[1]][d[2]] = f}
FdsOf(t, f) == {fd \in Fd : t[fd] = f}
Pos(s, f, o) == {k \in DOMAIN s : s[k] = [op |-> o, arg |-> f]}
OwedIn(D, f, o) == {d \in Procs \X (1..(2 * MAX_FDS)) :
                      d[2] <= Len(D[d[1]]) /\ D[d[1]][d[2]] = [op |-> o, arg |-> f]}

Tables == [Procs -> [Fd -> File \cup {None}]]

(* T2 is T with v at descriptor fd of p; 1 for the file that is meant. *)
Changed(T, T2, p, fd, v) ==
    /\ T \in Tables /\ p \in Procs /\ fd \in Fd /\ v \in File \cup {None}
    /\ T2 = [T EXCEPT ![p] = [T[p] EXCEPT ![fd] = v]]
Is(x, f) == IF x = f THEN 1 ELSE 0

LEMMA FdFinite ==
  /\ IsFiniteSet(Fd) /\ Cardinality(Fd) = MAX_FDS /\ Fd \subseteq Nat
  /\ IsFiniteSet(Procs \X Fd) /\ IsFiniteSet(Procs \X (1..(2 * MAX_FDS)))
<1>1. MAX_FDS \in Nat /\ MAX_FDS >= 3 /\ IsFiniteSet(Procs) /\ MAX_FDS - 1 \in Int /\ 2 * MAX_FDS \in Int
  BY FilesAssumption
<1>2. IsFiniteSet(0..(MAX_FDS - 1)) /\ Cardinality(0..(MAX_FDS - 1)) = MAX_FDS
  BY <1>1, FS_Interval
<1>3. IsFiniteSet(1..(2 * MAX_FDS))
  BY <1>1, FS_Interval
<1>4. IsFiniteSet(Procs \X (0..(MAX_FDS - 1)))
  BY <1>1, <1>2, FS_Product
<1>5. IsFiniteSet(Procs \X (1..(2 * MAX_FDS)))
  BY <1>1, <1>3, FS_Product
<1> QED
  BY <1>2, <1>4, <1>5 DEF Fd

LEMMA RefsFinite ==
  ASSUME NEW T, NEW f
  PROVE  IsFiniteSet(RefsOf(T, f)) /\ Cardinality(RefsOf(T, f)) \in Nat
<1>1. RefsOf(T, f) \in SUBSET (Procs \X Fd)
  BY DEF RefsOf
<1>2. IsFiniteSet(RefsOf(T, f))
  BY <1>1, FdFinite, FS_Subset
<1> QED
  BY <1>2, FS_CardinalityType

LEMMA FdsFinite ==
  ASSUME NEW t, NEW f
  PROVE  IsFiniteSet(FdsOf(t, f)) /\ Cardinality(FdsOf(t, f)) \in Nat
<1>1. FdsOf(t, f) \in SUBSET Fd
  BY DEF FdsOf
<1>2. IsFiniteSet(FdsOf(t, f))
  BY <1>1, FdFinite, FS_Subset
<1> QED
  BY <1>2, FS_CardinalityType

LEMMA OwedFinite ==
  ASSUME NEW D, NEW f, NEW o
  PROVE  IsFiniteSet(OwedIn(D, f, o)) /\ Cardinality(OwedIn(D, f, o)) \in Nat
<1>1. OwedIn(D, f, o) \in SUBSET (Procs \X (1..(2 * MAX_FDS)))
  BY DEF OwedIn
<1>2. IsFiniteSet(OwedIn(D, f, o))
  BY <1>1, FdFinite, FS_Subset
<1> QED
  BY <1>2, FS_CardinalityType

LEMMA PosFinite ==
  ASSUME NEW s \in Seq(Ops), NEW f, NEW o
  PROVE  IsFiniteSet(Pos(s, f, o)) /\ Cardinality(Pos(s, f, o)) \in Nat
<1>1. Pos(s, f, o) \in SUBSET (1..Len(s)) /\ Len(s) \in Int
  BY DEF Pos
<1>2. IsFiniteSet(Pos(s, f, o))
  BY <1>1, FS_Interval, FS_Subset
<1> QED
  BY <1>2, FS_CardinalityType

(* One descriptor changes from one file to another. *)
LEMMA RefsSet ==
  ASSUME NEW T, NEW T2, NEW p, NEW fd, NEW v, Changed(T, T2, p, fd, v), NEW f
  PROVE  Cardinality(RefsOf(T2, f)) = Cardinality(RefsOf(T, f)) - Is(T[p][fd], f) + Is(v, f)
<1> DEFINE d == <<p, fd>>
           S == RefsOf(T, f)
<1>a. T \in Tables /\ p \in Procs /\ fd \in Fd
  BY DEF Changed
<1>1. /\ T2[p][fd] = v
      /\ \A q \in Procs, e \in Fd : <<q, e>> # d => T2[q][e] = T[q][e]
  BY DEF Changed, Tables
<1>2. d \in S <=> T[p][fd] = f
  BY <1>a DEF RefsOf
<1>3. RefsOf(T2, f) = IF v = f THEN S \cup {d} ELSE S \ {d}
  <2>1. ASSUME NEW q \in Procs, NEW e \in Fd
        PROVE  <<q, e>> \in RefsOf(T2, f) <=> <<q, e>> \in IF v = f THEN S \cup {d} ELSE S \ {d}
    <3>1. <<q, e>> \in RefsOf(T2, f) <=> T2[q][e] = f
      BY DEF RefsOf
    <3>2. <<q, e>> \in S <=> T[q][e] = f
      BY DEF RefsOf
    <3>3. CASE <<q, e>> = d
      BY <1>1, <3>1, <3>3
    <3>4. CASE <<q, e>> # d
      BY <1>1, <3>1, <3>2, <3>4
    <3> QED
      BY <3>3, <3>4
  <2>2. /\ RefsOf(T2, f) \subseteq Procs \X Fd
        /\ (IF v = f THEN S \cup {d} ELSE S \ {d}) \subseteq Procs \X Fd
    BY <1>a DEF RefsOf
  <2> HIDE DEF S, d
  <2> QED
    BY <2>1, <2>2
<1>4. IsFiniteSet(S) /\ Cardinality(S) \in Nat
  BY RefsFinite
<1>5. /\ Cardinality(S \cup {d}) = IF d \in S THEN Cardinality(S) ELSE Cardinality(S) + 1
      /\ Cardinality(S \ {d}) = IF d \in S THEN Cardinality(S) - 1 ELSE Cardinality(S)
  BY <1>4, FS_AddElement, FS_RemoveElement
<1> HIDE DEF S, d
<1>6. Cardinality(RefsOf(T2, f)) = Cardinality(S) - Is(T[p][fd], f) + Is(v, f)
  BY <1>2, <1>3, <1>4, <1>5 DEF Is
<1> QED
  BY <1>6 DEF S

(* A whole table is emptied. *)
LEMMA RefsClear ==
  ASSUME NEW T \in Tables, NEW p \in Procs, NEW f \in File
  PROVE  Cardinality(RefsOf(T, f))
           = Cardinality(RefsOf([T EXCEPT ![p] = NoFiles], f)) + Cardinality(FdsOf(T[p], f))
<1> DEFINE T2 == [T EXCEPT ![p] = NoFiles]
           S == RefsOf(T, f)
           S2 == RefsOf(T2, f)
           F == FdsOf(T[p], f)
           I == {p} \X F
<1>1. \A q \in Procs, e \in Fd : T2[q][e] = IF q = p THEN None ELSE T[q][e]
  BY DEF Tables, NoFiles
<1>2. None # f
  BY FilesAssumption
<1>3. S = S2 \cup I /\ S2 \cap I = {}
  BY <1>1, <1>2 DEF RefsOf, FdsOf
<1>4. IsFiniteSet(F) /\ Cardinality(F) \in Nat /\ IsFiniteSet(S2) /\ Cardinality(S2) \in Nat
  BY RefsFinite, FdsFinite
<1>5. IsFiniteSet({p}) /\ Cardinality({p}) = 1
  BY FS_Singleton
<1> HIDE DEF T2, S, S2, F
<1>6. IsFiniteSet(I) /\ Cardinality(I) = Cardinality(F)
  BY <1>4, <1>5, FS_Product
<1> HIDE DEF I
<1>7. Cardinality({}) = 0
  BY FS_EmptySet
<1>8. Cardinality(S2 \cup I) = Cardinality(S2) + Cardinality(I) - Cardinality(S2 \cap I)
  BY <1>4, <1>6, FS_Union
<1>9. Cardinality(S) = Cardinality(S2) + Cardinality(F)
  <2>1. Cardinality(S2 \cap I) = 0
    BY <1>3, <1>7
  <2>2. Cardinality(S) = Cardinality(S2 \cup I)
    BY <1>3
  <2> QED
    BY <1>4, <1>6, <1>8, <2>1, <2>2
<1> QED
  BY <1>9 DEF S, S2, T2, F

(* A table that was empty becomes a copy of another one. *)
LEMMA RefsCopy ==
  ASSUME NEW T \in Tables, NEW p \in Procs, NEW q \in Procs, p # q, T[q] = NoFiles, NEW f \in File
  PROVE  /\ Cardinality(RefsOf([T EXCEPT ![q] = T[p]], f))
              = Cardinality(RefsOf(T, f)) + Cardinality(FdsOf(T[p], f))
         /\ Cardinality(FdsOf(T[p], f)) <= Cardinality(RefsOf(T, f))
<1> DEFINE T2 == [T EXCEPT ![q] = T[p]]
<1>1. T2 \in Tables /\ T2[q] = T[p] /\ [T2 EXCEPT ![q] = NoFiles] = T
  BY DEF Tables
<1> HIDE DEF T2
<1>2. Cardinality(RefsOf(T2, f))
        = Cardinality(RefsOf([T2 EXCEPT ![q] = NoFiles], f)) + Cardinality(FdsOf(T2[q], f))
  BY <1>1, RefsClear
<1>3. Cardinality(RefsOf(T, f))
        = Cardinality(RefsOf([T EXCEPT ![p] = NoFiles], f)) + Cardinality(FdsOf(T[p], f))
  BY RefsClear
<1>4. /\ Cardinality(RefsOf([T EXCEPT ![p] = NoFiles], f)) \in Nat
      /\ Cardinality(FdsOf(T[p], f)) \in Nat
  BY RefsFinite, FdsFinite
<1>5. Cardinality(RefsOf(T2, f)) = Cardinality(RefsOf(T, f)) + Cardinality(FdsOf(T[p], f))
  BY <1>1, <1>2
<1>6. Cardinality(FdsOf(T[p], f)) <= Cardinality(RefsOf(T, f))
  BY <1>3, <1>4
<1> QED
  BY <1>5, <1>6 DEF T2

(* Nothing is owed when nobody has anything to do. *)
LEMMA OwedNone ==
  ASSUME NEW D, \A p \in Procs : D[p] = <<>>, NEW f, NEW o
  PROVE  Cardinality(OwedIn(D, f, o)) = 0
<1>1. OwedIn(D, f, o) = {}
  BY FilesAssumption DEF OwedIn
<1> QED
  BY <1>1, FS_EmptySet

(* One process has something to do: what is owed is what it has to do. *)
LEMMA OwedOne ==
  ASSUME NEW D, NEW p \in Procs, \A q \in Procs : q # p => D[q] = <<>>,
         D[p] \in Seq(Ops), Len(D[p]) <= 2 * MAX_FDS, NEW f, NEW o
  PROVE  Cardinality(OwedIn(D, f, o)) = Cardinality(Pos(D[p], f, o))
<1> DEFINE P == Pos(D[p], f, o)
<1>1. Len(D[p]) \in Nat /\ DOMAIN D[p] = 1..Len(D[p]) /\ MAX_FDS \in Nat
  BY FilesAssumption
<1>2. ASSUME NEW q \in Procs, NEW k \in 1..(2 * MAX_FDS)
      PROVE  <<q, k>> \in OwedIn(D, f, o) <=> q = p /\ k \in P
  <2>1. <<q, k>> \in OwedIn(D, f, o) <=> k <= Len(D[q]) /\ D[q][k] = [op |-> o, arg |-> f]
    BY DEF OwedIn
  <2>2. CASE q = p
    BY <1>1, <2>1, <2>2 DEF Pos
  <2>3. CASE q # p
    <3>1. Len(D[q]) = 0
      BY <2>3
    <3> QED
      BY <1>1, <2>1, <2>3, <3>1
  <2> QED
    BY <2>2, <2>3
<1>3. P \subseteq 1..(2 * MAX_FDS)
  BY <1>1 DEF Pos
<1>4. OwedIn(D, f, o) = {p} \X P
  <2>1. OwedIn(D, f, o) \subseteq Procs \X (1..(2 * MAX_FDS))
    BY DEF OwedIn
  <2>2. {p} \X P \subseteq Procs \X (1..(2 * MAX_FDS))
    BY <1>3
  <2>3. ASSUME NEW q \in Procs, NEW k \in 1..(2 * MAX_FDS)
        PROVE  <<q, k>> \in {p} \X P <=> q = p /\ k \in P
    OBVIOUS
  <2> HIDE DEF P
  <2>4. ASSUME NEW q \in Procs, NEW k \in 1..(2 * MAX_FDS)
        PROVE  <<q, k>> \in OwedIn(D, f, o) <=> <<q, k>> \in {p} \X P
    BY <1>2, <2>3
  <2> QED
    BY <2>1, <2>2, <2>4
<1>5. IsFiniteSet(P) /\ Cardinality(P) \in Nat
  BY PosFinite
<1>6. IsFiniteSet({p}) /\ Cardinality({p}) = 1
  BY FS_Singleton
<1> HIDE DEF P
<1>7. Cardinality({p} \X P) = Cardinality(P)
  BY <1>5, <1>6, FS_Product
<1> QED
  BY <1>4, <1>7 DEF P

(* The first operation is done. *)
LEMMA PosTail ==
  ASSUME NEW s \in Seq(Ops), s # <<>>, NEW f, NEW o
  PROVE  Cardinality(Pos(s, f, o))
           = Cardinality(Pos(Tail(s), f, o)) + (IF Head(s) = [op |-> o, arg |-> f] THEN 1 ELSE 0)
<1> DEFINE P == Pos(s, f, o) \ {1}
           Q == Pos(Tail(s), f, o)
           m == [k \in Q |-> k + 1]
<1>1. /\ Len(s) \in Nat \ {0} /\ DOMAIN s = 1..Len(s) /\ DOMAIN Tail(s) = 1..(Len(s) - 1)
      /\ \A k \in 1..(Len(s) - 1) : Tail(s)[k] = s[k + 1]
      /\ Tail(s) \in Seq(Ops) /\ Head(s) = s[1]
  OBVIOUS
<1>2. \A k \in Q : k \in Nat /\ k + 1 \in P
  BY <1>1 DEF Pos
<1>3. \A k \in P : k \in Nat /\ k - 1 \in Q /\ (k - 1) + 1 = k
  BY <1>1 DEF Pos
<1>4. ExistsBijection(Q, P)
  <2> HIDE DEF P, Q
  <2>1. m \in [Q -> P] /\ (\A k, l \in Q : m[k] = m[l] => k = l)
    BY <1>2
  <2>2. \A k \in P : \E l \in Q : m[l] = k
    BY <1>2, <1>3
  <2>3. m \in Bijection(Q, P)
    BY <2>1, <2>2, Fun_IsBij
  <2> QED
    BY <2>3 DEF ExistsBijection
<1>5. IsFiniteSet(Q) /\ IsFiniteSet(Pos(s, f, o)) /\ Cardinality(Pos(s, f, o)) \in Nat
  BY <1>1, PosFinite
<1>6. Cardinality(P) = Cardinality(Q)
  <2> HIDE DEF P, Q
  <2> QED
    BY <1>4, <1>5, FS_Bijection
<1>7. Cardinality(P) = IF 1 \in Pos(s, f, o) THEN Cardinality(Pos(s, f, o)) - 1 ELSE Cardinality(Pos(s, f, o))
  BY <1>5, FS_RemoveElement
<1>8. 1 \in Pos(s, f, o) <=> Head(s) = [op |-> o, arg |-> f]
  BY <1>1 DEF Pos
<1> HIDE DEF P
<1> QED
  BY <1>5, <1>6, <1>7, <1>8

LEMMA PosNone ==
  ASSUME NEW f, NEW o
  PROVE  Cardinality(Pos(<<>>, f, o)) = 0
<1>1. Pos(<<>>, f, o) = {}
  BY DEF Pos
<1> QED
  BY <1>1, FS_EmptySet

LEMMA PosOne ==
  ASSUME NEW x \in Ops, NEW f, NEW o
  PROVE  Cardinality(Pos(<<x>>, f, o)) = IF x = [op |-> o, arg |-> f] THEN 1 ELSE 0
<1>1. <<x>> \in Seq(Ops) /\ <<x>> # <<>> /\ Head(<<x>>) = x /\ Tail(<<x>>) = <<>>
  OBVIOUS
<1>2. Cardinality(Pos(<<x>>, f, o))
        = Cardinality(Pos(Tail(<<x>>), f, o)) + (IF Head(<<x>>) = [op |-> o, arg |-> f] THEN 1 ELSE 0)
  BY <1>1, PosTail
<1> QED
  BY <1>1, <1>2, PosNone

LEMMA PosTwo ==
  ASSUME NEW x \in Ops, NEW y \in Ops, NEW f, NEW o
  PROVE  Cardinality(Pos(<<x, y>>, f, o))
           = (IF x = [op |-> o, arg |-> f] THEN 1 ELSE 0) + (IF y = [op |-> o, arg |-> f] THEN 1 ELSE 0)
<1>1. <<x, y>> \in Seq(Ops) /\ <<x, y>> # <<>> /\ Head(<<x, y>>) = x /\ Tail(<<x, y>>) = <<y>>
  <2>1. <<x, y>> \in Seq(Ops)
    OBVIOUS
  <2>2. <<x, y>> # <<>> /\ Head(<<x, y>>) = x
    OBVIOUS
  <2>3. Tail(<<x, y>>) = <<y>>
    OBVIOUS
  <2> QED BY <2>1, <2>2, <2>3
<1> DEFINE s == <<x, y>>
<1>2. s \in Seq(Ops) /\ s # <<>> /\ Head(s) = x /\ Tail(s) = <<y>>
  BY <1>1
<1> HIDE DEF s
<1>3. Cardinality(Pos(s, f, o))
        = Cardinality(Pos(Tail(s), f, o)) + (IF Head(s) = [op |-> o, arg |-> f] THEN 1 ELSE 0)
  BY <1>2, PosTail
<1>4. Cardinality(Pos(<<y>>, f, o)) = IF y = [op |-> o, arg |-> f] THEN 1 ELSE 0
  BY PosOne
<1> DEFINE u == IF x = [op |-> o, arg |-> f] THEN 1 ELSE 0
           v == IF y = [op |-> o, arg |-> f] THEN 1 ELSE 0
<1>5. Cardinality(Pos(Tail(s), f, o)) = v
  BY <1>2, <1>4, Zenon
<1>6. Cardinality(Pos(s, f, o)) = v + u
  BY <1>2, <1>3, <1>5, Zenon
<1>7. v + u = u + v
  OBVIOUS
<1> QED
  BY <1>6, <1>7 DEF s

(* An operation that is somewhere in a sequence is counted, and one that   *)
(* is nowhere is not.                                                      *)
LEMMA PosZero ==
  ASSUME NEW s \in Seq(Ops), NEW f, NEW o
  PROVE  Cardinality(Pos(s, f, o)) = 0 <=> \A k \in DOMAIN s : s[k] # [op |-> o, arg |-> f]
<1>1. Cardinality(Pos(s, f, o)) = 0 <=> Pos(s, f, o) = {}
  BY PosFinite, FS_EmptySet
<1> QED
  BY <1>1 DEF Pos

(* A loop over the open descriptors does one operation on a file for each  *)
(* descriptor that refers to it.                                           *)
LEMMA LoopCounts ==
  ASSUME NEW t \in [Fd -> File \cup {None}], NEW o \in {"get", "put"}
  PROVE  /\ ForEach(t, o) \in Seq(Ops) /\ Len(ForEach(t, o)) <= MAX_FDS
         /\ \A k \in DOMAIN ForEach(t, o) : ForEach(t, o)[k].op = o
         /\ \A f \in File : Cardinality(Pos(ForEach(t, o), f, o)) = Cardinality(FdsOf(t, f))
         /\ \A f \in File : \A x : x # o => Cardinality(Pos(ForEach(t, o), f, x)) = 0
<1> DEFINE O == Fd \ FreeFds(t)
           a == Ascending(O)
           n == Cardinality(O)
           e == ForEach(t, o)
<1>1. O \in SUBSET Fd /\ O \subseteq Nat
  BY FdFinite
<1>2. IsFiniteSet(O) /\ n <= MAX_FDS
  BY <1>1, FdFinite, FS_Subset
<1>3. /\ a \in Seq(O) /\ Len(a) = n /\ n \in Nat
      /\ \A x \in O : \E i \in 1..n : a[i] = x
      /\ \A i, j \in 1..n : a[i] = a[j] => i = j
  <2> HIDE DEF O
  <2> QED
    BY <1>1, <1>2, AscendingFacts
<1>4. e = [k \in 1..n |-> [op |-> o, arg |-> t[a[k]]]]
  BY <1>3 DEF ForEach
<1>5. \A x \in Fd : x \in O <=> t[x] # None
  BY DEF FreeFds
<1> HIDE DEF O, a, n, e
<1>6. \A k \in 1..n : a[k] \in O /\ a[k] \in Fd /\ t[a[k]] \in File
  <2> SUFFICES ASSUME NEW k \in 1..n
               PROVE  a[k] \in O /\ a[k] \in Fd /\ t[a[k]] \in File
    OBVIOUS
  <2>1. a[k] \in O
    BY <1>3
  <2>2. a[k] \in Fd
    BY <1>1, <2>1
  <2> QED
    BY <1>5, <2>1, <2>2
<1>7. e \in Seq(Ops) /\ Len(e) = n /\ DOMAIN e = 1..n
  <2>1. \A k \in 1..n : [op |-> o, arg |-> t[a[k]]] \in Ops
    BY <1>6 DEF Ops
  <2>2. e \in [1..n -> Ops]
    BY <1>4, <2>1
  <2> QED
    BY <1>3, <2>2
<1>8. \A k \in 1..n : e[k].op = o /\ e[k].arg = t[a[k]] /\ e[k] = [op |-> o, arg |-> t[a[k]]]
  BY <1>4
<1>9. ASSUME NEW f \in File
      PROVE  Cardinality(Pos(e, f, o)) = Cardinality(FdsOf(t, f))
  <2> DEFINE P == Pos(e, f, o)
             F == FdsOf(t, f)
             m == [k \in P |-> a[k]]
  <2>1. \A k : k \in P <=> k \in 1..n /\ t[a[k]] = f
    BY <1>7, <1>8 DEF Pos
  <2>2. \A x : x \in F <=> x \in Fd /\ t[x] = f
    BY DEF FdsOf
  <2>3. f # None
    BY FilesAssumption
  <2> HIDE DEF P, F
  <2>4. m \in [P -> F] /\ (\A k, l \in P : m[k] = m[l] => k = l)
    BY <1>3, <1>6, <2>1, <2>2
  <2>5. \A x \in F : \E k \in P : m[k] = x
    <3> SUFFICES ASSUME NEW x \in F
                 PROVE  \E k \in P : m[k] = x
      OBVIOUS
    <3>1. x \in O
      BY <1>5, <2>2, <2>3
    <3>2. PICK k \in 1..n : a[k] = x
      BY <1>3, <3>1
    <3>3. k \in P
      BY <2>1, <2>2, <3>2
    <3> QED
      BY <3>2, <3>3
  <2>6. m \in Bijection(P, F)
    BY <2>4, <2>5, Fun_IsBij
  <2>7. ExistsBijection(P, F)
    BY <2>6 DEF ExistsBijection
  <2>8. IsFiniteSet(P)
    BY <1>7, PosFinite DEF P
  <2>9. Cardinality(F) = Cardinality(P)
    BY <2>7, <2>8, FS_Bijection
  <2> QED
    BY <2>9 DEF P, F
<1>10. ASSUME NEW f \in File, NEW x, x # o
       PROVE  Cardinality(Pos(e, f, x)) = 0
  <2>1. \A k \in DOMAIN e : e[k] # [op |-> x, arg |-> f]
    BY <1>7, <1>8, <1>10
  <2> QED
    BY <1>7, <2>1, PosZero
<1> QED
  BY <1>2, <1>7, <1>8, <1>9, <1>10 DEF e

(* The lowest free descriptor is free. *)
LEMMA AllocFree ==
  ASSUME NEW t \in [Fd -> File \cup {None}], NEW f \in File
  PROVE  /\ FreeFds(t) = {} => fd_alloc(t, f) = t
         /\ FreeFds(t) # {} => \E fd \in Fd : /\ t[fd] = None
                                              /\ fd_alloc(t, f) = [t EXCEPT ![fd] = f]
                                              /\ FreeFds(fd_alloc(t, f)) = FreeFds(t) \ {fd}
<1>1. CASE FreeFds(t) = {}
  BY <1>1 DEF fd_alloc
<1>2. CASE FreeFds(t) # {}
  <2>1. FreeFds(t) \subseteq Fd /\ FreeFds(t) \subseteq Nat
    BY FdFinite DEF FreeFds
  <2>2. Min(FreeFds(t)) \in FreeFds(t)
    BY <1>2, <2>1, MinLeast
  <2>3. PICK fd : fd = Min(FreeFds(t))
    OBVIOUS
  <2>4. fd \in Fd /\ t[fd] = None
    BY <2>1, <2>2, <2>3 DEF FreeFds
  <2>5. fd_alloc(t, f) = [t EXCEPT ![fd] = f]
    BY <1>2, <2>3 DEF fd_alloc
  <2>6. FreeFds([t EXCEPT ![fd] = f]) = FreeFds(t) \ {fd}
    BY <2>4, FilesAssumption DEF FreeFds
  <2> QED
    BY <1>2, <2>4, <2>5, <2>6
<1> QED
  BY <1>1, <1>2

-----------------------------------------------------------------------------
(* The inductive invariant, on one CPU *)

R(T, f) == Cardinality(RefsOf(T, f))
N(s, f, o) == Cardinality(Pos(s, f, o))
Have(f) == IF f \in heap THEN refcnt[f] ELSE 0

(* What a call has to do, with the tables T it leaves: only puts; only     *)
(* gets, of files that have more descriptors than gets, and at the end the *)
(* new process; the get and put of sys_dup without a descriptor; or the    *)
(* put and get of sys_dup2, where two descriptors hold the file.           *)
Form(s, T) ==
    \/ \A k \in DOMAIN s : s[k].op = "put"
    \/ /\ \A k \in DOMAIN s : s[k].op # "put" /\ (s[k].op = "publish" => k = Len(s))
       /\ \A f \in File : N(s, f, "get") > 0 => R(T, f) > N(s, f, "get")
    \/ \E f \in File : s = <<Get(f), Put(f)>> /\ R(T, f) > 0
    \/ \E f, g \in File : s = <<Put(g), Get(f)>> /\ R(T, f) > 1

Alone == \A p, q \in Procs : todo[p] # <<>> /\ todo[q] # <<>> => p = q
Short == \A p \in Procs : Len(todo[p]) <= 2 * MAX_FDS
Loaded == \A p \in Procs : reg[p] # None => /\ Doing(p, "get") \/ Doing(p, "put")
                                            /\ reg[p] = refcnt[Head(todo[p]).arg]
Unused == \A q \in Procs \ alive :
             \/ files[q] = NoFiles
             \/ \E p \in Procs : todo[p] # <<>> /\ todo[p][Len(todo[p])] = [op |-> "publish", arg |-> q]
Shaped == \A p \in Procs : Form(todo[p], files)

FilesInv == FilesTypeOK /\ RefsExact /\ Alone /\ Short /\ Loaded /\ Unused /\ Shaped

(* RefsExact with what one process p has to do as the only thing owed. *)
LEMMA ExactOne ==
  ASSUME NEW p \in Procs, \A q \in Procs : q # p => todo[q] = <<>>,
         todo[p] \in Seq(Ops), Len(todo[p]) <= 2 * MAX_FDS
  PROVE  RefsExact <=> \A f \in File :
           /\ Have(f) + N(todo[p], f, "get") = R(files, f) + N(todo[p], f, "put")
           /\ f \in heap => R(files, f) + N(todo[p], f, "put") > 0
<1>1. \A f, o : Cardinality(Owed(f, o)) = N(todo[p], f, o)
  BY OwedOne DEF Owed, OwedIn, N
<1>2. \A f : Cardinality(Refs(f)) = R(files, f)
  BY DEF Refs, RefsOf, R
<1> QED
  BY <1>1, <1>2 DEF RefsExact, Have

(* The same of the next state. *)
LEMMA ExactOneNext ==
  ASSUME NEW p \in Procs, \A q \in Procs : q # p => todo'[q] = <<>>,
         todo'[p] \in Seq(Ops), Len(todo'[p]) <= 2 * MAX_FDS
  PROVE  RefsExact' <=> \A f \in File :
           /\ Have(f)' + N(todo'[p], f, "get") = R(files', f) + N(todo'[p], f, "put")
           /\ f \in heap' => R(files', f) + N(todo'[p], f, "put") > 0
<1>1. \A f, o : Cardinality(Owed(f, o)') = N(todo'[p], f, o)
  BY OwedOne DEF Owed, OwedIn, N
<1>2. \A f : Cardinality(Refs(f)') = R(files', f)
  BY DEF Refs, RefsOf, R
<1> QED
  BY <1>1, <1>2 DEF RefsExact, Have

LEMMA CountNat ==
  /\ \A T, f : R(T, f) \in Nat
  /\ \A s \in Seq(Ops) : \A f, o : N(s, f, o) \in Nat
BY RefsFinite, PosFinite DEF R, N

(* One descriptor of p changes. *)
LEMMA RSet ==
  ASSUME NEW T, NEW T2, NEW p, NEW fd, NEW v, Changed(T, T2, p, fd, v)
  PROVE  /\ T2 \in Tables /\ \A q \in Procs : q # p => T2[q] = T[q]
         /\ \A f : R(T2, f) = R(T, f) - Is(T[p][fd], f) + Is(v, f)
<1>1. T2 \in Tables /\ (\A q \in Procs : q # p => T2[q] = T[q])
  BY DEF Changed, Tables
<1>2. \A f : R(T2, f) = R(T, f) - Is(T[p][fd], f) + Is(v, f)
  BY RefsSet DEF R
<1> QED
  BY <1>1, <1>2

(* A process that may call is the only one: on one CPU no call is under    *)
(* way.                                                                    *)
LEMMA Idle ==
  ASSUME NCpu = 1, FilesInv, NEW p \in Procs, CanCall(p)
  PROVE  /\ p \in alive /\ \A q \in Procs : todo[q] = <<>> /\ reg[q] = None
         /\ reg = [q \in Procs |-> None]
         /\ \A q \in Procs \ alive : files[q] = NoFiles
         /\ \A f \in File : Have(f) = R(files, f) /\ (f \in heap => R(files, f) > 0)
<1>1. IsFiniteSet(InCall) /\ Cardinality(InCall) \in Nat
  <2>1. InCall \in SUBSET Procs
    BY DEF InCall
  <2>2. IsFiniteSet(InCall)
    BY <2>1, FilesAssumption, FS_Subset
  <2> QED
    BY <2>2, FS_CardinalityType
<1>2. Cardinality(InCall) = 0
  BY <1>1 DEF CanCall
<1>3. InCall = {}
  BY <1>1, <1>2, FS_EmptySet
<1>4. \A q \in Procs : todo[q] = <<>>
  BY <1>3 DEF InCall
<1>5. \A q \in Procs : reg[q] = None
  BY <1>4 DEF FilesInv, Loaded, Doing
<1>6. reg = [q \in Procs |-> None]
  BY <1>5 DEF FilesInv, FilesTypeOK
<1>7. \A q \in Procs \ alive : files[q] = NoFiles
  BY <1>4 DEF FilesInv, Unused
<1>8. todo[p] \in Seq(Ops) /\ Len(todo[p]) <= 2 * MAX_FDS
  BY DEF FilesInv, FilesTypeOK, Short
<1>9. \A f \in File : /\ Have(f) + N(todo[p], f, "get") = R(files, f) + N(todo[p], f, "put")
                      /\ f \in heap => R(files, f) + N(todo[p], f, "put") > 0
  <2>1. RefsExact
    BY DEF FilesInv
  <2> QED
    BY <1>4, <1>8, <2>1, ExactOne
<1>10. \A f, o : N(todo[p], f, o) = 0
  BY <1>4, PosNone DEF N
<1>11. \A f \in File : Have(f) \in Nat
  BY DEF Have, FilesInv, FilesTypeOK
<1>12. \A f \in File : Have(f) = R(files, f) /\ (f \in heap => R(files, f) > 0)
  BY <1>9, <1>10, <1>11, CountNat
<1>13. p \in alive
  BY DEF CanCall
<1> QED
  BY <1>4, <1>5, <1>6, <1>7, <1>12, <1>13

(* A process with something to do is the only one. *)
LEMMA Busy ==
  ASSUME FilesInv, NEW p \in Procs, todo[p] # <<>>
  PROVE  /\ \A q \in Procs : q # p => todo[q] = <<>> /\ reg[q] = None
         /\ todo[p] \in Seq(Ops) /\ Len(todo[p]) <= 2 * MAX_FDS /\ Form(todo[p], files)
         /\ \A f \in File :
              /\ Have(f) + N(todo[p], f, "get") = R(files, f) + N(todo[p], f, "put")
              /\ f \in heap => R(files, f) + N(todo[p], f, "put") > 0
<1>1. \A q \in Procs : q # p => todo[q] = <<>>
  BY DEF FilesInv, Alone
<1>2. \A q \in Procs : q # p => reg[q] = None
  BY <1>1 DEF FilesInv, Loaded, Doing
<1>3. todo[p] \in Seq(Ops) /\ Len(todo[p]) <= 2 * MAX_FDS /\ Form(todo[p], files)
  BY DEF FilesInv, FilesTypeOK, Short, Shaped
<1>4. RefsExact
  BY DEF FilesInv
<1>5. \A f \in File :
         /\ Have(f) + N(todo[p], f, "get") = R(files, f) + N(todo[p], f, "put")
         /\ f \in heap => R(files, f) + N(todo[p], f, "put") > 0
  BY <1>1, <1>3, <1>4, ExactOne
<1> QED
  BY <1>1, <1>2, <1>3, <1>5

(* A step that leaves p with s to do, and every other process with         *)
(* nothing, preserves the invariant if it keeps the balance of each file.  *)
LEMMA CallLeaves ==
  ASSUME FilesInv, NEW p \in Procs, NEW s \in Seq(Ops), Len(s) <= 2 * MAX_FDS,
         \A q \in Procs : q # p => todo[q] = <<>>,
         todo' = [todo EXCEPT ![p] = s], reg' = [q \in Procs |-> None],
         files' \in Tables, heap' \subseteq File, refcnt' \in [File -> Nat], alive' \subseteq Procs,
         \A q \in Procs \ alive' : \/ files'[q] = NoFiles
                                   \/ s # <<>> /\ s[Len(s)] = [op |-> "publish", arg |-> q],
         Form(s, files'),
         \A f \in File : /\ Have(f)' + N(s, f, "get") = R(files', f) + N(s, f, "put")
                         /\ f \in heap' => R(files', f) + N(s, f, "put") > 0
  PROVE  FilesInv'
<1>1. todo \in [Procs -> Seq(Ops)]
  BY DEF FilesInv, FilesTypeOK
<1>2. todo' \in [Procs -> Seq(Ops)] /\ todo'[p] = s /\ \A q \in Procs : q # p => todo'[q] = <<>>
  BY <1>1
<1>3. FilesTypeOK'
  BY <1>2 DEF FilesTypeOK, Tables
<1>4. RefsExact'
  BY <1>2, ExactOneNext
<1>5. Alone' /\ Unused'
  BY <1>2 DEF Alone, Unused
<1>6. Short'
  <2>1. 0 <= 2 * MAX_FDS /\ Len(<<>>) = 0
    BY FilesAssumption
  <2> QED
    BY <1>2, <2>1 DEF Short
<1>7. Loaded'
  BY DEF Loaded
<1>8. Shaped'
  <2>1. Form(<<>>, files')
    BY DEF Form
  <2> QED
    BY <1>2, <2>1 DEF Shaped
<1> QED
  BY <1>3, <1>4, <1>5, <1>6, <1>7, <1>8 DEF FilesInv

-----------------------------------------------------------------------------
(* The calls *)

LEMMA OpsFacts ==
  ASSUME NEW f \in File
  PROVE  /\ Get(f) \in Ops /\ Put(f) \in Ops /\ Get(f).op = "get" /\ Put(f).op = "put"
         /\ Get(f).arg = f /\ Put(f).arg = f
         /\ \A g, o : Get(f) = [op |-> o, arg |-> g] <=> o = "get" /\ g = f
         /\ \A g, o : Put(f) = [op |-> o, arg |-> g] <=> o = "put" /\ g = f
BY DEF Get, Put, Ops

(* How often a short sequence has an operation. *)
LEMMA Few ==
  /\ \A f, o : N(<<>>, f, o) = 0
  /\ \A g \in File : \A f :
       /\ N(<<Put(g)>>, f, "put") = (IF f = g THEN 1 ELSE 0) /\ N(<<Put(g)>>, f, "get") = 0
       /\ N(<<Get(g)>>, f, "get") = (IF f = g THEN 1 ELSE 0) /\ N(<<Get(g)>>, f, "put") = 0
<1>1. \A f, o : N(<<>>, f, o) = 0
  BY PosNone DEF N
<1>2. ASSUME NEW g \in File, NEW f
      PROVE  /\ N(<<Put(g)>>, f, "put") = (IF f = g THEN 1 ELSE 0) /\ N(<<Put(g)>>, f, "get") = 0
             /\ N(<<Get(g)>>, f, "get") = (IF f = g THEN 1 ELSE 0) /\ N(<<Get(g)>>, f, "put") = 0
  <2>1. \A o : N(<<Put(g)>>, f, o) = IF Put(g) = [op |-> o, arg |-> f] THEN 1 ELSE 0
    BY OpsFacts, PosOne DEF N
  <2>2. \A o : N(<<Get(g)>>, f, o) = IF Get(g) = [op |-> o, arg |-> f] THEN 1 ELSE 0
    BY OpsFacts, PosOne DEF N
  <2> QED
    BY <2>1, <2>2, OpsFacts
<1> QED
  BY <1>1, <1>2

(* How often two operations have one. *)
LEMMA FewTwo ==
  ASSUME NEW x \in Ops, NEW y \in Ops, NEW f, NEW o
  PROVE  N(<<x, y>>, f, o) = (IF x = [op |-> o, arg |-> f] THEN 1 ELSE 0)
                             + (IF y = [op |-> o, arg |-> f] THEN 1 ELSE 0)
BY PosTwo DEF N

(* Sequences of puts have their form whatever the tables. *)
LEMMA PutForms ==
  ASSUME NEW T, NEW f \in File, NEW g \in File
  PROVE  /\ Form(<<>>, T) /\ Form(<<Put(f)>>, T) /\ Form(<<Put(f), Put(g)>>, T)
         /\ R(T, f) > 1 => Form(<<Get(f)>>, T)
<1>1. Form(<<>>, T)
  BY DEF Form
<1>2. Form(<<Put(f)>>, T)
  BY OpsFacts DEF Form
<1>3. Form(<<Put(f), Put(g)>>, T)
  <2>1. \A k \in DOMAIN <<Put(f), Put(g)>> : <<Put(f), Put(g)>>[k].op = "put"
    BY OpsFacts
  <2> QED
    BY <2>1 DEF Form
<1>4. ASSUME R(T, f) > 1
      PROVE  Form(<<Get(f)>>, T)
  <2>1. \A k \in DOMAIN <<Get(f)>> : <<Get(f)>>[k].op = "get"
    BY OpsFacts
  <2>2. ASSUME NEW h \in File, N(<<Get(f)>>, h, "get") > 0
        PROVE  R(T, h) > N(<<Get(f)>>, h, "get")
    <3>1. N(<<Get(f)>>, h, "get") = IF h = f THEN 1 ELSE 0
      BY Few
    <3>2. h = f
      BY <2>2, <3>1
    <3> QED
      BY <1>4, <3>1, <3>2
  <2> QED
    BY <2>1, <2>2 DEF Form
<1> QED
  BY <1>1, <1>2, <1>3, <1>4

LEMMA OpenInv ==
  ASSUME NCpu = 1, FilesInv, NEW p \in Procs, sys_open(p)
  PROVE  FilesInv'
<1>a. CanCall(p) /\ alive' = alive /\ reg' = reg
  BY DEF sys_open
<1>b. PICK f \in File \ heap :
        /\ heap' = heap \cup {f} /\ refcnt' = [refcnt EXCEPT ![f] = 1]
        /\ files' = [files EXCEPT ![p] = fd_alloc(files[p], f)]
        /\ todo' = [todo EXCEPT ![p] = IF FreeFds(files[p]) = {} THEN <<Put(f)>> ELSE <<>>]
  BY DEF sys_open, NewFile
<1>c. /\ files \in Tables /\ heap \subseteq File /\ refcnt \in [File -> Nat] /\ alive \subseteq Procs
  BY DEF FilesInv, FilesTypeOK, Tables
<1>d. /\ p \in alive /\ \A q \in Procs : todo[q] = <<>>
      /\ reg' = [q \in Procs |-> None]
      /\ \A q \in Procs \ alive : files[q] = NoFiles
      /\ \A h \in File : Have(h) = R(files, h) /\ (h \in heap => R(files, h) > 0)
  BY <1>a, Idle
<1>e. /\ heap' \subseteq File /\ refcnt' \in [File -> Nat]
      /\ Have(f)' = 1 /\ Have(f) = 0 /\ \A h \in File : h # f => Have(h)' = Have(h)
      /\ \A h \in File : h # f => (h \in heap' <=> h \in heap)
  BY <1>b, <1>c DEF Have
<1>f. files[p] \in [Fd -> File \cup {None}] /\ 2 * MAX_FDS >= 6 /\ 2 * MAX_FDS \in Int
  BY <1>c, FilesAssumption DEF Tables
<1>g. R(files, f) = 0
  BY <1>d, <1>e
<1>1. CASE FreeFds(files[p]) = {}
  <2>1. files' = files /\ todo' = [todo EXCEPT ![p] = <<Put(f)>>]
    BY <1>1, <1>b, <1>c, <1>f, AllocFree DEF Tables
  <2>2. <<Put(f)>> \in Seq(Ops) /\ Len(<<Put(f)>>) <= 2 * MAX_FDS
    BY <1>f, OpsFacts
  <2>3. ASSUME NEW h \in File
        PROVE  /\ Have(h)' + N(<<Put(f)>>, h, "get") = R(files', h) + N(<<Put(f)>>, h, "put")
               /\ h \in heap' => R(files', h) + N(<<Put(f)>>, h, "put") > 0
    <3>1. N(<<Put(f)>>, h, "get") = 0 /\ N(<<Put(f)>>, h, "put") = IF h = f THEN 1 ELSE 0
      BY Few
    <3> QED
      BY <1>d, <1>e, <1>g, <2>1, <3>1, CountNat
  <2>4. Form(<<Put(f)>>, files')
    BY PutForms
  <2>5. \A q \in Procs \ alive' : files'[q] = NoFiles
    BY <1>a, <1>d, <2>1
  <2>6. files' \in Tables /\ alive' \subseteq Procs
    BY <1>a, <1>c, <2>1
  <2> QED
    BY <1>d, <1>e, <2>1, <2>2, <2>3, <2>4, <2>5, <2>6, CallLeaves
<1>2. CASE FreeFds(files[p]) # {}
  <2>1. PICK fd \in Fd : files[p][fd] = None /\ fd_alloc(files[p], f) = [files[p] EXCEPT ![fd] = f]
    BY <1>2, <1>f, AllocFree
  <2>2. Changed(files, files', p, fd, f)
    BY <1>b, <1>c, <2>1 DEF Changed
  <2>3. /\ files' \in Tables /\ \A q \in Procs : q # p => files'[q] = files[q]
        /\ \A h : R(files', h) = R(files, h) - Is(files[p][fd], h) + Is(f, h)
    BY <2>2, RSet
  <2>4. ASSUME NEW h \in File
        PROVE  /\ Have(h)' + N(<<>>, h, "get") = R(files', h) + N(<<>>, h, "put")
               /\ h \in heap' => R(files', h) + N(<<>>, h, "put") > 0
    <3>1. N(<<>>, h, "get") = 0 /\ N(<<>>, h, "put") = 0
      BY Few
    <3>2. files[p][fd] # h
      BY <2>1, FilesAssumption
    <3>3. R(files', h) = R(files, h) + (IF f = h THEN 1 ELSE 0)
      BY <2>3, <3>2, CountNat DEF Is
    <3> QED
      BY <1>d, <1>e, <1>g, <3>1, <3>3, CountNat
  <2>5. todo' = [todo EXCEPT ![p] = <<>>]
    BY <1>2, <1>b
  <2>6. <<>> \in Seq(Ops) /\ Len(<<>>) <= 2 * MAX_FDS
    BY <1>f
  <2>7. Form(<<>>, files')
    BY PutForms
  <2>8. \A q \in Procs \ alive' : files'[q] = NoFiles
    BY <1>a, <1>d, <2>3
  <2>9. alive' \subseteq Procs
    BY <1>a, <1>c
  <2> QED
    BY <1>d, <1>e, <2>3, <2>4, <2>5, <2>6, <2>7, <2>8, <2>9, CallLeaves
<1> QED
  BY <1>1, <1>2

LEMMA CloseInv ==
  ASSUME NCpu = 1, FilesInv, NEW p \in Procs, NEW fd \in Fd, sys_close(p, fd)
  PROVE  FilesInv'
<1>a. /\ CanCall(p) /\ alive' = alive /\ reg' = reg /\ heap' = heap /\ refcnt' = refcnt
      /\ files[p][fd] # None
      /\ todo' = [todo EXCEPT ![p] = <<Put(files[p][fd])>>]
  BY DEF sys_close
<1>c. /\ files \in Tables /\ heap \subseteq File /\ refcnt \in [File -> Nat] /\ alive \subseteq Procs
  BY DEF FilesInv, FilesTypeOK, Tables
<1>d. /\ p \in alive /\ \A q \in Procs : todo[q] = <<>>
      /\ reg' = [q \in Procs |-> None]
      /\ \A q \in Procs \ alive : files[q] = NoFiles
      /\ \A h \in File : Have(h) = R(files, h) /\ (h \in heap => R(files, h) > 0)
  BY <1>a, Idle
<1>b. Changed(files, files', p, fd, None)
  BY <1>c DEF sys_close, Tables, Changed
<1>1. PICK f \in File : f = files[p][fd]
  BY <1>a, <1>c DEF Tables
<1>2. /\ files' \in Tables /\ \A q \in Procs : q # p => files'[q] = files[q]
      /\ \A h : R(files', h) = R(files, h) - Is(files[p][fd], h) + Is(None, h)
  BY <1>b, RSet
<1>3. \A h \in File : Have(h)' = Have(h)
  BY <1>a DEF Have
<1>4. ASSUME NEW h \in File
      PROVE  /\ Have(h)' + N(<<Put(f)>>, h, "get") = R(files', h) + N(<<Put(f)>>, h, "put")
             /\ h \in heap' => R(files', h) + N(<<Put(f)>>, h, "put") > 0
  <2>1. N(<<Put(f)>>, h, "get") = 0 /\ N(<<Put(f)>>, h, "put") = IF h = f THEN 1 ELSE 0
    BY Few
  <2>2. h # None
    BY FilesAssumption
  <2>3. R(files', h) = R(files, h) - (IF h = f THEN 1 ELSE 0)
    BY <1>1, <1>2, <2>2, CountNat DEF Is
  <2>4. Have(h)' = R(files, h) /\ (h \in heap' => R(files, h) > 0)
    BY <1>a, <1>d, <1>3
  <2> QED
    BY <2>1, <2>3, <2>4, CountNat
<1>5. <<Put(f)>> \in Seq(Ops) /\ Len(<<Put(f)>>) <= 2 * MAX_FDS
  BY OpsFacts, FilesAssumption
<1>6. Form(<<Put(f)>>, files')
  BY PutForms
<1>7. \A q \in Procs \ alive' : files'[q] = NoFiles
  BY <1>a, <1>d, <1>2
<1>8. heap' \subseteq File /\ refcnt' \in [File -> Nat] /\ alive' \subseteq Procs
  BY <1>a, <1>c
<1>9. todo' = [todo EXCEPT ![p] = <<Put(f)>>]
  BY <1>a, <1>1
<1> QED
  BY <1>d, <1>2, <1>4, <1>5, <1>6, <1>7, <1>8, <1>9, CallLeaves

LEMMA PairSize ==
  ASSUME NEW x, NEW y, x # y
  PROVE  Cardinality({x, y}) = 2
<1>1. IsFiniteSet({x}) /\ Cardinality({x}) = 1
  BY FS_Singleton
<1>2. Cardinality({x} \cup {y}) = IF y \in {x} THEN Cardinality({x}) ELSE Cardinality({x}) + 1
  BY <1>1, FS_AddElement
<1>3. {x, y} = {x} \cup {y} /\ y \notin {x}
  OBVIOUS
<1>4. Cardinality({x} \cup {y}) = 2
  BY <1>1, <1>2, <1>3
<1> QED
  BY <1>3, <1>4

LEMMA Joined ==
  ASSUME NEW x \in Ops, NEW y \in Ops
  PROVE  <<x>> \o <<y>> = <<x, y>>
<1> DEFINE c == <<x>> \o <<y>>
<1>1. c \in Seq(Ops) /\ Len(c) = 2
  OBVIOUS
<1>2. c[1] = x
  OBVIOUS
<1>3. c[2] = y
  OBVIOUS
<1> HIDE DEF c
<1>4. c = <<x, y>>
  BY <1>1, <1>2, <1>3
<1> QED
  BY <1>4 DEF c

LEMMA DupInv ==
  ASSUME NCpu = 1, FilesInv, NEW p \in Procs, NEW fd \in Fd, sys_dup(p, fd)
  PROVE  FilesInv'
<1>a. /\ CanCall(p) /\ alive' = alive /\ reg' = reg /\ heap' = heap /\ refcnt' = refcnt
  BY DEF sys_dup
<1>c. /\ files \in Tables /\ heap \subseteq File /\ refcnt \in [File -> Nat] /\ alive \subseteq Procs
  BY DEF FilesInv, FilesTypeOK, Tables
<1>d. /\ p \in alive /\ \A q \in Procs : todo[q] = <<>>
      /\ reg' = [q \in Procs |-> None]
      /\ \A q \in Procs \ alive : files[q] = NoFiles
      /\ \A h \in File : Have(h) = R(files, h) /\ (h \in heap => R(files, h) > 0)
  BY <1>a, Idle
<1>e. heap' \subseteq File /\ refcnt' \in [File -> Nat] /\ alive' \subseteq Procs
  BY <1>a, <1>c
<1>f. \A h \in File : Have(h)' = R(files, h) /\ (h \in heap' => R(files, h) > 0)
  BY <1>a, <1>d DEF Have
<1>g. files[p] \in [Fd -> File \cup {None}] /\ 2 * MAX_FDS >= 6 /\ 2 * MAX_FDS \in Int
  BY <1>c, FilesAssumption DEF Tables
<1>1. PICK f \in File : f = files[p][fd]
  BY <1>g DEF sys_dup
<1>2. /\ files' = [files EXCEPT ![p] = fd_alloc(files[p], f)]
      /\ todo' = [todo EXCEPT ![p] = IF FreeFds(files[p]) = {} THEN <<Get(f), Put(f)>> ELSE <<Get(f)>>]
  BY <1>1 DEF sys_dup
<1>3. R(files, f) > 0
  <2>1. <<p, fd>> \in RefsOf(files, f)
    BY <1>1 DEF RefsOf
  <2> QED
    BY <2>1, RefsFinite, FS_EmptySet DEF R
<1>4. CASE FreeFds(files[p]) = {}
  <2>1. files' = files /\ todo' = [todo EXCEPT ![p] = <<Get(f), Put(f)>>]
    BY <1>2, <1>4, <1>c, <1>g, AllocFree DEF Tables
  <2>2. <<Get(f), Put(f)>> \in Seq(Ops) /\ Len(<<Get(f), Put(f)>>) <= 2 * MAX_FDS
    BY <1>g, OpsFacts
  <2>3. ASSUME NEW h \in File
        PROVE  /\ Have(h)' + N(<<Get(f), Put(f)>>, h, "get") = R(files', h) + N(<<Get(f), Put(f)>>, h, "put")
               /\ h \in heap' => R(files', h) + N(<<Get(f), Put(f)>>, h, "put") > 0
    <3>1. N(<<Get(f), Put(f)>>, h, "get") = Is(f, h) /\ N(<<Get(f), Put(f)>>, h, "put") = Is(f, h)
      BY FewTwo, OpsFacts DEF Is
    <3> QED
      BY <1>f, <2>1, <3>1, CountNat DEF Is
  <2>4. Form(<<Get(f), Put(f)>>, files')
    BY <1>3, <2>1 DEF Form
  <2>5. \A q \in Procs \ alive' : files'[q] = NoFiles
    BY <1>a, <1>d, <2>1
  <2>6. files' \in Tables
    BY <1>c, <2>1
  <2> QED
    BY <1>d, <1>e, <2>1, <2>2, <2>3, <2>4, <2>5, <2>6, CallLeaves
<1>5. CASE FreeFds(files[p]) # {}
  <2>1. PICK n \in Fd : files[p][n] = None /\ fd_alloc(files[p], f) = [files[p] EXCEPT ![n] = f]
    BY <1>5, <1>g, AllocFree
  <2>2. Changed(files, files', p, n, f)
    BY <1>2, <1>c, <2>1 DEF Changed
  <2>3. /\ files' \in Tables /\ \A q \in Procs : q # p => files'[q] = files[q]
        /\ \A h : R(files', h) = R(files, h) - Is(files[p][n], h) + Is(f, h)
    BY <2>2, RSet
  <2>4. \A h \in File : R(files', h) = R(files, h) + Is(f, h)
    BY <2>1, <2>3, CountNat, FilesAssumption DEF Is
  <2>5. ASSUME NEW h \in File
        PROVE  /\ Have(h)' + N(<<Get(f)>>, h, "get") = R(files', h) + N(<<Get(f)>>, h, "put")
               /\ h \in heap' => R(files', h) + N(<<Get(f)>>, h, "put") > 0
    <3>1. N(<<Get(f)>>, h, "put") = 0 /\ N(<<Get(f)>>, h, "get") = IF h = f THEN 1 ELSE 0
      BY Few
    <3> QED
      BY <1>f, <2>4, <3>1, CountNat DEF Is
  <2>6. todo' = [todo EXCEPT ![p] = <<Get(f)>>]
    BY <1>2, <1>5
  <2>7. <<Get(f)>> \in Seq(Ops) /\ Len(<<Get(f)>>) <= 2 * MAX_FDS
    BY <1>g, OpsFacts
  <2>8. Form(<<Get(f)>>, files')
    <3>1. R(files', f) > 1
      BY <1>3, <2>4, CountNat DEF Is
    <3> QED
      BY <3>1, PutForms
  <2>9. \A q \in Procs \ alive' : files'[q] = NoFiles
    BY <1>a, <1>d, <2>3
  <2> QED
    BY <1>d, <1>e, <2>3, <2>5, <2>6, <2>7, <2>8, <2>9, CallLeaves
<1> QED
  BY <1>4, <1>5

LEMMA Dup2Inv ==
  ASSUME NCpu = 1, FilesInv, NEW p \in Procs, NEW old \in Fd, NEW new \in Fd, sys_dup2(p, old, new)
  PROVE  FilesInv'
<1>a. /\ CanCall(p) /\ alive' = alive /\ reg' = reg /\ heap' = heap /\ refcnt' = refcnt /\ old # new
  BY DEF sys_dup2
<1>c. /\ files \in Tables /\ heap \subseteq File /\ refcnt \in [File -> Nat] /\ alive \subseteq Procs
  BY DEF FilesInv, FilesTypeOK, Tables
<1>d. /\ p \in alive /\ \A q \in Procs : todo[q] = <<>>
      /\ reg' = [q \in Procs |-> None]
      /\ \A q \in Procs \ alive : files[q] = NoFiles
      /\ \A h \in File : Have(h) = R(files, h) /\ (h \in heap => R(files, h) > 0)
  BY <1>a, Idle
<1>e. heap' \subseteq File /\ refcnt' \in [File -> Nat] /\ alive' \subseteq Procs
  BY <1>a, <1>c
<1>f. \A h \in File : Have(h)' = R(files, h) /\ (h \in heap' => R(files, h) > 0)
  BY <1>a, <1>d DEF Have
<1>g. files[p] \in [Fd -> File \cup {None}] /\ 2 * MAX_FDS >= 6 /\ 2 * MAX_FDS \in Int
  BY <1>c, FilesAssumption DEF Tables
<1>1. PICK f \in File : f = files[p][old]
  BY <1>g DEF sys_dup2
<1>2. todo' = [todo EXCEPT ![p] = (IF files[p][new] = None THEN <<>> ELSE <<Put(files[p][new])>>)
                                  \o <<Get(f)>>]
  BY <1>1 DEF sys_dup2
<1>3. Changed(files, files', p, new, f)
  BY <1>1, <1>c DEF sys_dup2, Changed, Tables
<1>4. /\ files' \in Tables /\ \A q \in Procs : q # p => files'[q] = files[q]
      /\ \A h : R(files', h) = R(files, h) - Is(files[p][new], h) + Is(f, h)
  BY <1>3, RSet
<1>5. R(files', f) > 1
  <2>1. files'[p][old] = f /\ files'[p][new] = f
    BY <1>1, <1>3, <1>a, <1>g DEF Changed, Tables
  <2>2. {<<p, old>>, <<p, new>>} \in SUBSET RefsOf(files', f)
    BY <2>1 DEF RefsOf
  <2>3. IsFiniteSet(RefsOf(files', f)) /\ R(files', f) \in Nat
    BY RefsFinite DEF R
  <2>4. Cardinality({<<p, old>>, <<p, new>>}) = 2
    <3>1. <<p, old>> # <<p, new>>
      BY <1>a
    <3> QED
      BY <3>1, PairSize
  <2>5. Cardinality({<<p, old>>, <<p, new>>}) <= Cardinality(RefsOf(files', f))
    BY <2>2, <2>3, FS_Subset
  <2> QED
    BY <2>3, <2>4, <2>5 DEF R
<1>6. \A q \in Procs \ alive' : files'[q] = NoFiles
  BY <1>a, <1>d, <1>4
<1>7. CASE files[p][new] = None
  <2>1. todo' = [todo EXCEPT ![p] = <<Get(f)>>]
    <3>1. <<>> \o <<Get(f)>> = <<Get(f)>>
      OBVIOUS
    <3> QED
      BY <1>2, <1>7, <3>1
  <2>2. <<Get(f)>> \in Seq(Ops) /\ Len(<<Get(f)>>) <= 2 * MAX_FDS
    BY <1>g, OpsFacts
  <2>3. ASSUME NEW h \in File
        PROVE  /\ Have(h)' + N(<<Get(f)>>, h, "get") = R(files', h) + N(<<Get(f)>>, h, "put")
               /\ h \in heap' => R(files', h) + N(<<Get(f)>>, h, "put") > 0
    <3>1. N(<<Get(f)>>, h, "put") = 0 /\ N(<<Get(f)>>, h, "get") = IF h = f THEN 1 ELSE 0
      BY Few
    <3>2. R(files', h) = R(files, h) + Is(f, h)
      BY <1>4, <1>7, CountNat, FilesAssumption DEF Is
    <3> QED
      BY <1>f, <3>1, <3>2, CountNat DEF Is
  <2>4. Form(<<Get(f)>>, files')
    BY <1>5, PutForms
  <2> QED
    BY <1>4, <1>6, <1>d, <1>e, <2>1, <2>2, <2>3, <2>4, CallLeaves
<1>8. CASE files[p][new] # None
  <2>0. PICK g \in File : g = files[p][new]
    BY <1>8, <1>g
  <2>1. todo' = [todo EXCEPT ![p] = <<Put(g), Get(f)>>]
    <3>1. <<Put(g)>> \o <<Get(f)>> = <<Put(g), Get(f)>>
      BY OpsFacts, Joined
    <3> QED
      BY <1>2, <1>8, <2>0, <3>1
  <2>2. <<Put(g), Get(f)>> \in Seq(Ops) /\ Len(<<Put(g), Get(f)>>) <= 2 * MAX_FDS
    BY <1>g, OpsFacts
  <2>3. ASSUME NEW h \in File
        PROVE  /\ Have(h)' + N(<<Put(g), Get(f)>>, h, "get") = R(files', h) + N(<<Put(g), Get(f)>>, h, "put")
               /\ h \in heap' => R(files', h) + N(<<Put(g), Get(f)>>, h, "put") > 0
    <3>1. N(<<Put(g), Get(f)>>, h, "put") = Is(g, h) /\ N(<<Put(g), Get(f)>>, h, "get") = Is(f, h)
      BY FewTwo, OpsFacts DEF Is
    <3>2. R(files', h) = R(files, h) - Is(g, h) + Is(f, h)
      BY <1>4, <2>0
    <3>3. R(files, h) \in Nat /\ Is(g, h) \in Nat /\ Is(f, h) \in Nat
      BY CountNat DEF Is
    <3>4. Have(h)' = R(files, h) /\ (h \in heap' => R(files, h) > 0)
      BY <1>f
    <3> HIDE DEF Is
    <3> QED
      BY <3>1, <3>2, <3>3, <3>4
  <2>4. Form(<<Put(g), Get(f)>>, files')
    BY <1>5 DEF Form
  <2> QED
    BY <1>4, <1>6, <1>d, <1>e, <2>1, <2>2, <2>3, <2>4, CallLeaves
<1> QED
  BY <1>7, <1>8

LEMMA PipeInv ==
  ASSUME NCpu = 1, FilesInv, NEW p \in Procs, sys_pipe(p)
  PROVE  FilesInv'
<1>a. CanCall(p) /\ alive' = alive /\ reg' = reg
  BY DEF sys_pipe
<1>b. PICK r \in File \ heap, w \in File \ heap :
        /\ r # w /\ heap' = heap \cup {r, w} /\ refcnt' = [refcnt EXCEPT ![r] = 1, ![w] = 1]
        /\ IF Cardinality(FreeFds(files[p])) >= 2
           THEN /\ files' = [files EXCEPT ![p] = fd_alloc(fd_alloc(files[p], r), w)]
                /\ todo' = todo
           ELSE /\ todo' = [todo EXCEPT ![p] = <<Put(r), Put(w)>>]
                /\ files' = files
  BY DEF sys_pipe, pipe_create
<1>c. /\ files \in Tables /\ heap \subseteq File /\ refcnt \in [File -> Nat] /\ alive \subseteq Procs
  BY DEF FilesInv, FilesTypeOK, Tables
<1>d. /\ p \in alive /\ \A q \in Procs : todo[q] = <<>>
      /\ reg' = [q \in Procs |-> None]
      /\ \A q \in Procs \ alive : files[q] = NoFiles
      /\ \A h \in File : Have(h) = R(files, h) /\ (h \in heap => R(files, h) > 0)
  BY <1>a, Idle
<1>e. /\ heap' \subseteq File /\ refcnt' \in [File -> Nat] /\ alive' \subseteq Procs
      /\ Have(r)' = 1 /\ Have(r) = 0 /\ Have(w)' = 1 /\ Have(w) = 0
      /\ \A h \in File : h # r /\ h # w => Have(h)' = Have(h) /\ (h \in heap' <=> h \in heap)
  BY <1>a, <1>b, <1>c DEF Have
<1>f. files[p] \in [Fd -> File \cup {None}] /\ 2 * MAX_FDS >= 6 /\ 2 * MAX_FDS \in Int
  BY <1>c, FilesAssumption DEF Tables
<1>g. \A h \in File : /\ Have(h)' = R(files, h) + Is(r, h) + Is(w, h)
                      /\ h \in heap' => R(files, h) + Is(r, h) + Is(w, h) > 0
  BY <1>b, <1>d, <1>e, CountNat DEF Is
<1>1. CASE ~(Cardinality(FreeFds(files[p])) >= 2)
  <2>1. files' = files /\ todo' = [todo EXCEPT ![p] = <<Put(r), Put(w)>>]
    BY <1>1, <1>b
  <2>2. <<Put(r), Put(w)>> \in Seq(Ops) /\ Len(<<Put(r), Put(w)>>) <= 2 * MAX_FDS
    BY <1>f, OpsFacts
  <2>3. ASSUME NEW h \in File
        PROVE  /\ Have(h)' + N(<<Put(r), Put(w)>>, h, "get") = R(files', h) + N(<<Put(r), Put(w)>>, h, "put")
               /\ h \in heap' => R(files', h) + N(<<Put(r), Put(w)>>, h, "put") > 0
    <3>1. N(<<Put(r), Put(w)>>, h, "get") = 0 /\ N(<<Put(r), Put(w)>>, h, "put") = Is(r, h) + Is(w, h)
      BY FewTwo, OpsFacts DEF Is
    <3>2. R(files, h) \in Nat /\ Is(r, h) \in Nat /\ Is(w, h) \in Nat
      BY CountNat DEF Is
    <3>3. /\ Have(h)' = R(files, h) + Is(r, h) + Is(w, h)
          /\ h \in heap' => R(files, h) + Is(r, h) + Is(w, h) > 0
      BY <1>g
    <3> QED
      BY <2>1, <3>1, <3>2, <3>3
  <2>4. Form(<<Put(r), Put(w)>>, files')
    BY PutForms
  <2>5. \A q \in Procs \ alive' : files'[q] = NoFiles
    BY <1>a, <1>d, <2>1
  <2>6. files' \in Tables
    BY <1>c, <2>1
  <2> QED
    BY <1>d, <1>e, <2>1, <2>2, <2>3, <2>4, <2>5, <2>6, CallLeaves
<1>2. CASE Cardinality(FreeFds(files[p])) >= 2
  <2>0. FreeFds(files[p]) # {}
    BY <1>2, FS_EmptySet
  <2>1. PICK a \in Fd : /\ files[p][a] = None /\ fd_alloc(files[p], r) = [files[p] EXCEPT ![a] = r]
                        /\ FreeFds(fd_alloc(files[p], r)) = FreeFds(files[p]) \ {a}
    BY <1>f, <2>0, AllocFree
  <2>2. PICK t : t = fd_alloc(files[p], r)
    OBVIOUS
  <2>3. t \in [Fd -> File \cup {None}] /\ FreeFds(t) # {}
    <3>1. t \in [Fd -> File \cup {None}]
      BY <1>f, <2>1, <2>2
    <3>2. FreeFds(files[p]) # {a}
      BY <1>2, FS_Singleton
    <3>3. a \in FreeFds(files[p])
      BY <2>1 DEF FreeFds
    <3> QED
      BY <2>1, <2>2, <3>1, <3>2, <3>3
  <2>4. PICK b \in Fd : t[b] = None /\ fd_alloc(t, w) = [t EXCEPT ![b] = w]
    BY <2>3, AllocFree
  <2>5. PICK T : T = [files EXCEPT ![p] = t]
    OBVIOUS
  <2>6. Changed(files, T, p, a, r)
    BY <1>c, <2>1, <2>2, <2>5 DEF Changed
  <2>7. /\ T \in Tables /\ \A q \in Procs : q # p => T[q] = files[q]
        /\ \A h : R(T, h) = R(files, h) - Is(files[p][a], h) + Is(r, h)
    BY <2>6, RSet
  <2>8. T[p] = t
    BY <1>c, <2>5 DEF Tables
  <2>9. files' = [T EXCEPT ![p] = fd_alloc(t, w)]
    BY <1>2, <1>b, <1>c, <2>2, <2>5 DEF Tables
  <2>10. Changed(T, files', p, b, w)
    BY <2>4, <2>7, <2>8, <2>9 DEF Changed
  <2>11. /\ files' \in Tables /\ \A q \in Procs : q # p => files'[q] = T[q]
         /\ \A h : R(files', h) = R(T, h) - Is(T[p][b], h) + Is(w, h)
    BY <2>10, RSet
  <2>12. ASSUME NEW h \in File
         PROVE  /\ Have(h)' + N(<<>>, h, "get") = R(files', h) + N(<<>>, h, "put")
                /\ h \in heap' => R(files', h) + N(<<>>, h, "put") > 0
    <3>1. N(<<>>, h, "get") = 0 /\ N(<<>>, h, "put") = 0
      BY Few
    <3>2. Is(files[p][a], h) = 0 /\ Is(T[p][b], h) = 0
      BY <2>1, <2>4, <2>8, FilesAssumption DEF Is
    <3>3. R(files, h) \in Nat /\ Is(r, h) \in Nat /\ Is(w, h) \in Nat
      BY CountNat DEF Is
    <3>4. R(files', h) = R(files, h) + Is(r, h) + Is(w, h)
      BY <2>7, <2>11, <3>2, <3>3
    <3>5. /\ Have(h)' = R(files, h) + Is(r, h) + Is(w, h)
          /\ h \in heap' => R(files, h) + Is(r, h) + Is(w, h) > 0
      BY <1>g
    <3> QED
      BY <3>1, <3>3, <3>4, <3>5
  <2>13. todo' = [todo EXCEPT ![p] = <<>>]
    BY <1>2, <1>b, <1>d DEF FilesInv, FilesTypeOK
  <2>14. <<>> \in Seq(Ops) /\ Len(<<>>) <= 2 * MAX_FDS
    BY <1>f
  <2>15. Form(<<>>, files')
    BY PutForms
  <2>16. \A q \in Procs \ alive' : files'[q] = NoFiles
    BY <1>a, <1>d, <2>7, <2>11
  <2> QED
    BY <1>d, <1>e, <2>11, <2>12, <2>13, <2>14, <2>15, <2>16, CallLeaves
<1> QED
  BY <1>1, <1>2

LEMMA ExitInv ==
  ASSUME NCpu = 1, FilesInv, NEW p \in Procs, sys_exit(p)
  PROVE  FilesInv'
<1>a. /\ CanCall(p) /\ reg' = reg /\ heap' = heap /\ refcnt' = refcnt
      /\ alive' = alive \ {p} /\ files' = [files EXCEPT ![p] = NoFiles]
  BY DEF sys_exit
<1>c. /\ files \in Tables /\ heap \subseteq File /\ refcnt \in [File -> Nat] /\ alive \subseteq Procs
  BY DEF FilesInv, FilesTypeOK, Tables
<1>d. /\ p \in alive /\ \A q \in Procs : todo[q] = <<>>
      /\ reg' = [q \in Procs |-> None]
      /\ \A q \in Procs \ alive : files[q] = NoFiles
      /\ \A h \in File : Have(h) = R(files, h) /\ (h \in heap => R(files, h) > 0)
  BY <1>a, Idle
<1>e. heap' \subseteq File /\ refcnt' \in [File -> Nat] /\ alive' \subseteq Procs
  BY <1>a, <1>c
<1>f. \A h \in File : Have(h)' = R(files, h) /\ (h \in heap' => R(files, h) > 0)
  BY <1>a, <1>d DEF Have
<1>g. files[p] \in [Fd -> File \cup {None}] /\ 2 * MAX_FDS >= 6 /\ 2 * MAX_FDS \in Int
  BY <1>c, FilesAssumption DEF Tables
<1>1. PICK s : s = ForEach(files[p], "put")
  OBVIOUS
<1>2. todo' = [todo EXCEPT ![p] = s]
  BY <1>1 DEF sys_exit
<1>3. /\ s \in Seq(Ops) /\ Len(s) <= MAX_FDS /\ \A k \in DOMAIN s : s[k].op = "put"
      /\ \A f \in File : N(s, f, "put") = Cardinality(FdsOf(files[p], f)) /\ N(s, f, "get") = 0
  BY <1>1, <1>g, LoopCounts DEF N
<1>4. Len(s) <= 2 * MAX_FDS
  BY <1>3, FilesAssumption
<1>5. files' \in Tables /\ files'[p] = NoFiles /\ \A q \in Procs : q # p => files'[q] = files[q]
  BY <1>a, <1>c DEF Tables, NoFiles
<1>6. ASSUME NEW h \in File
      PROVE  /\ Have(h)' + N(s, h, "get") = R(files', h) + N(s, h, "put")
             /\ h \in heap' => R(files', h) + N(s, h, "put") > 0
  <2>1. R(files, h) = R(files', h) + Cardinality(FdsOf(files[p], h))
    BY <1>a, <1>c, RefsClear DEF R
  <2>2. R(files, h) \in Nat /\ R(files', h) \in Nat
    BY CountNat
  <2>3. N(s, h, "put") = Cardinality(FdsOf(files[p], h)) /\ N(s, h, "get") = 0
    BY <1>3
  <2>4. Have(h)' = R(files, h) /\ (h \in heap' => R(files, h) > 0)
    BY <1>f
  <2> QED
    BY <2>1, <2>2, <2>3, <2>4
<1>7. Form(s, files')
  BY <1>3 DEF Form
<1>8. \A q \in Procs \ alive' : files'[q] = NoFiles
  BY <1>a, <1>d, <1>5
<1> QED
  BY <1>2, <1>3, <1>4, <1>5, <1>6, <1>7, <1>8, <1>d, <1>e, CallLeaves

LEMMA ForkInv ==
  ASSUME NCpu = 1, FilesInv, NEW p \in Procs, NEW q \in Procs, proc_fork(p, q)
  PROVE  FilesInv'
<1>a. /\ CanCall(p) /\ reg' = reg /\ heap' = heap /\ refcnt' = refcnt /\ alive' = alive
      /\ q \notin alive /\ files' = [files EXCEPT ![q] = files[p]]
  BY DEF proc_fork, proc_alloc
<1>c. /\ files \in Tables /\ heap \subseteq File /\ refcnt \in [File -> Nat] /\ alive \subseteq Procs
  BY DEF FilesInv, FilesTypeOK, Tables
<1>d. /\ p \in alive /\ \A o \in Procs : todo[o] = <<>>
      /\ reg' = [o \in Procs |-> None]
      /\ \A o \in Procs \ alive : files[o] = NoFiles
      /\ \A h \in File : Have(h) = R(files, h) /\ (h \in heap => R(files, h) > 0)
  BY <1>a, Idle
<1>e. heap' \subseteq File /\ refcnt' \in [File -> Nat] /\ alive' \subseteq Procs
  BY <1>a, <1>c
<1>f. \A h \in File : Have(h)' = R(files, h) /\ (h \in heap' => R(files, h) > 0)
  BY <1>a, <1>d DEF Have
<1>g. files[p] \in [Fd -> File \cup {None}] /\ 2 * MAX_FDS >= 6 /\ 2 * MAX_FDS \in Int
  BY <1>c, FilesAssumption DEF Tables
<1>1. PICK e : e = ForEach(files[p], "get")
  OBVIOUS
<1>2. PICK x : x = [op |-> "publish", arg |-> q]
  OBVIOUS
<1>3. PICK s : s = Append(e, x)
  OBVIOUS
<1>4. todo' = [todo EXCEPT ![p] = s]
  BY <1>1, <1>2, <1>3 DEF proc_fork
<1>5. /\ e \in Seq(Ops) /\ Len(e) <= MAX_FDS /\ \A k \in DOMAIN e : e[k].op = "get"
      /\ \A f \in File : N(e, f, "get") = Cardinality(FdsOf(files[p], f)) /\ N(e, f, "put") = 0
  BY <1>1, <1>g, LoopCounts DEF N
<1>6. x \in Ops /\ x.op = "publish" /\ x.arg = q
  BY <1>2 DEF Ops
<1>7. /\ s \in Seq(Ops) /\ Len(s) = Len(e) + 1 /\ s # <<>> /\ s[Len(s)] = x
      /\ DOMAIN s = 1..Len(s) /\ DOMAIN e = 1..Len(e) /\ Len(e) \in Nat
      /\ \A k \in DOMAIN e : s[k] = e[k]
  BY <1>3, <1>5, <1>6
<1>8. Len(s) <= 2 * MAX_FDS
  BY <1>5, <1>7, FilesAssumption
<1>9. files' \in Tables /\ \A o \in Procs : o # q => files'[o] = files[o]
  BY <1>a, <1>c DEF Tables
<1>10. \A k \in DOMAIN s : s[k].op # "put" /\ (s[k].op = "publish" => k = Len(s))
  BY <1>5, <1>6, <1>7
<1>11. ASSUME NEW h \in File
       PROVE  N(s, h, "get") = Cardinality(FdsOf(files[p], h)) /\ N(s, h, "put") = 0
  <2>1. Pos(s, h, "get") = Pos(e, h, "get")
    <3>1. \A k \in DOMAIN s : k \in DOMAIN e \/ k = Len(s)
      BY <1>7
    <3>2. s[Len(s)] # [op |-> "get", arg |-> h]
      BY <1>6, <1>7
    <3>3. DOMAIN e \subseteq DOMAIN s
      BY <1>7
    <3> QED
      BY <1>7, <3>1, <3>2, <3>3 DEF Pos
  <2>2. N(s, h, "put") = 0
    <3>1. \A k \in DOMAIN s : s[k] # [op |-> "put", arg |-> h]
      BY <1>10
    <3> QED
      BY <1>7, <3>1, PosZero DEF N
  <2> QED
    BY <1>5, <2>1, <2>2 DEF N
<1>12. ASSUME NEW h \in File
       PROVE  /\ R(files', h) = R(files, h) + Cardinality(FdsOf(files[p], h))
              /\ Cardinality(FdsOf(files[p], h)) <= R(files, h)
              /\ Cardinality(FdsOf(files[p], h)) \in Nat
  <2>1. p # q /\ files[q] = NoFiles
    BY <1>a, <1>d
  <2> QED
    BY <1>a, <1>c, <2>1, RefsCopy, FdsFinite DEF R
<1>13. ASSUME NEW h \in File
       PROVE  /\ Have(h)' + N(s, h, "get") = R(files', h) + N(s, h, "put")
              /\ h \in heap' => R(files', h) + N(s, h, "put") > 0
  <2>1. R(files, h) \in Nat
    BY CountNat
  <2>2. Have(h)' = R(files, h) /\ (h \in heap' => R(files, h) > 0)
    BY <1>f
  <2>3. N(s, h, "get") = Cardinality(FdsOf(files[p], h)) /\ N(s, h, "put") = 0
    BY <1>11
  <2>4. /\ R(files', h) = R(files, h) + Cardinality(FdsOf(files[p], h))
        /\ Cardinality(FdsOf(files[p], h)) \in Nat
    BY <1>12
  <2> QED
    BY <2>1, <2>2, <2>3, <2>4
<1>14. Form(s, files')
  <2>1. ASSUME NEW h \in File, N(s, h, "get") > 0
        PROVE  R(files', h) > N(s, h, "get")
    <3>1. R(files, h) \in Nat
      BY CountNat
    <3> QED
      BY <1>11, <1>12, <2>1, <3>1
  <2> QED
    BY <1>10, <2>1 DEF Form
<1>15. \A o \in Procs \ alive' : \/ files'[o] = NoFiles
                                 \/ s # <<>> /\ s[Len(s)] = [op |-> "publish", arg |-> o]
  BY <1>2, <1>7, <1>9, <1>a, <1>d
<1> QED
  BY <1>4, <1>7, <1>8, <1>9, <1>13, <1>14, <1>15, <1>d, <1>e, CallLeaves

-----------------------------------------------------------------------------
(* The gets and puts *)

LEMMA LoadInv ==
  ASSUME FilesInv, NEW p \in Procs, Load(p)
  PROVE  FilesInv'
<1>a. /\ todo[p] # <<>> /\ files' = files /\ alive' = alive /\ heap' = heap
      /\ refcnt' = refcnt /\ todo' = todo
      /\ reg' = [reg EXCEPT ![p] = refcnt[Head(todo[p]).arg]]
      /\ Doing(p, "get") \/ Doing(p, "put")
  BY DEF Load, Doing
<1>b. FilesTypeOK
  BY DEF FilesInv
<1>1. Head(todo[p]).arg \in File
  <2>1. Head(todo[p]) \in Ops
    BY <1>a, <1>b DEF FilesTypeOK
  <2> QED
    BY <1>a, <2>1 DEF Ops, Doing
<1>2. reg' \in [Procs -> Nat \cup {None}] /\ reg'[p] = refcnt[Head(todo[p]).arg]
      /\ \A q \in Procs : q # p => reg'[q] = reg[q]
  BY <1>a, <1>b, <1>1 DEF FilesTypeOK
<1>3. FilesTypeOK'
  BY <1>a, <1>b, <1>2 DEF FilesTypeOK
<1>4. RefsExact'
  BY <1>a DEF FilesInv, RefsExact, Refs, Owed
<1>5. Alone' /\ Short' /\ Unused' /\ Shaped'
  BY <1>a DEF FilesInv, Alone, Short, Unused, Shaped
<1>6. Loaded'
  BY <1>a, <1>2 DEF FilesInv, Loaded, Doing
<1> QED
  BY <1>3, <1>4, <1>5, <1>6 DEF FilesInv

LEMMA GetInv ==
  ASSUME FilesInv, NEW p \in Procs, vfs_file_get(p)
  PROVE  FilesInv'
<1>a. /\ todo[p] # <<>> /\ Head(todo[p]).op = "get" /\ reg[p] # None
      /\ files' = files /\ alive' = alive /\ heap' = heap
      /\ refcnt' = [refcnt EXCEPT ![Head(todo[p]).arg] = reg[p] + 1]
      /\ reg' = [reg EXCEPT ![p] = None]
      /\ todo' = [todo EXCEPT ![p] = Tail(todo[p])]
  BY DEF vfs_file_get, Doing, Done
<1>c. /\ files \in Tables /\ heap \subseteq File /\ refcnt \in [File -> Nat] /\ alive \subseteq Procs
      /\ reg \in [Procs -> Nat \cup {None}]
  BY DEF FilesInv, FilesTypeOK, Tables
<1>d. /\ \A q \in Procs : q # p => todo[q] = <<>> /\ reg[q] = None
      /\ todo[p] \in Seq(Ops) /\ Len(todo[p]) <= 2 * MAX_FDS /\ Form(todo[p], files)
      /\ \A f \in File :
           /\ Have(f) + N(todo[p], f, "get") = R(files, f) + N(todo[p], f, "put")
           /\ f \in heap => R(files, f) + N(todo[p], f, "put") > 0
  BY <1>a, Busy
<1>e. PICK t : t = todo[p]
  OBVIOUS
<1>f. PICK s : s = Tail(t)
  OBVIOUS
<1>g. /\ t \in Seq(Ops) /\ t # <<>> /\ Len(t) \in Nat \ {0} /\ DOMAIN t = 1..Len(t) /\ Head(t) = t[1]
      /\ s \in Seq(Ops) /\ Len(s) = Len(t) - 1 /\ DOMAIN s = 1..(Len(t) - 1)
      /\ \A k \in 1..(Len(t) - 1) : s[k] = t[k + 1]
  BY <1>a, <1>d, <1>e, <1>f
<1>h. Len(s) <= 2 * MAX_FDS
  BY <1>d, <1>e, <1>g, FilesAssumption
<1>i. \A f, o : N(t, f, o) = N(s, f, o) + (IF Head(t) = [op |-> o, arg |-> f] THEN 1 ELSE 0)
  BY <1>f, <1>g, PosTail DEF N
<1>j. todo' = [todo EXCEPT ![p] = s]
  BY <1>a, <1>e, <1>f
<1>1. PICK f \in File : Head(t) = [op |-> "get", arg |-> f]
  BY <1>a, <1>e, <1>g DEF Ops
<1>2. reg[p] = refcnt[f] /\ refcnt[f] \in Nat
  BY <1>a, <1>c, <1>e, <1>1 DEF FilesInv, Loaded
<1>3. refcnt' \in [File -> Nat] /\ refcnt'[f] = refcnt[f] + 1 /\ \A h \in File : h # f => refcnt'[h] = refcnt[h]
  BY <1>a, <1>c, <1>e, <1>1, <1>2
<1>4. reg' = [q \in Procs |-> None]
  BY <1>a, <1>c, <1>d
<1>5. /\ N(t, f, "get") = N(s, f, "get") + 1
      /\ \A h : N(t, h, "put") = N(s, h, "put") /\ (h # f => N(t, h, "get") = N(s, h, "get"))
  BY <1>g, <1>i, <1>1, CountNat
<1>6. Form(s, files') /\ f \in heap
  <2>1. CASE \A k \in DOMAIN t : t[k].op = "put"
    BY <1>g, <1>1, <2>1
  <2>2. CASE /\ \A k \in DOMAIN t : t[k].op # "put" /\ (t[k].op = "publish" => k = Len(t))
             /\ \A h \in File : N(t, h, "get") > 0 => R(files, h) > N(t, h, "get")
    <3>1. \A k \in DOMAIN s : s[k].op # "put" /\ (s[k].op = "publish" => k = Len(s))
      <4> SUFFICES ASSUME NEW k \in 1..(Len(t) - 1)
                   PROVE  s[k].op # "put" /\ (s[k].op = "publish" => k = Len(s))
        BY <1>g
      <4>1. k + 1 \in DOMAIN t /\ s[k] = t[k + 1]
        BY <1>g
      <4>2. t[k + 1].op # "put" /\ (t[k + 1].op = "publish" => k + 1 = Len(t))
        BY <2>2, <4>1
      <4>3. Len(s) = Len(t) - 1 /\ Len(t) \in Nat
        BY <1>g
      <4> QED
        BY <4>1, <4>2, <4>3
    <3>2. ASSUME NEW h \in File, N(s, h, "get") > 0
          PROVE  R(files, h) > N(s, h, "get")
      <4>1. N(s, h, "get") \in Nat /\ R(files, h) \in Nat
        BY <1>g, CountNat
      <4> QED
        BY <1>5, <2>2, <3>2, <4>1
    <3>3. f \in heap
      <4>1. N(s, f, "get") \in Nat /\ R(files, f) \in Nat /\ N(t, f, "put") \in Nat
        BY <1>g, CountNat
      <4>2. R(files, f) > N(t, f, "get")
        BY <1>5, <2>2, <4>1
      <4>3. Have(f) + N(t, f, "get") = R(files, f) + N(t, f, "put")
        BY <1>d, <1>e
      <4>4. Have(f) # 0
        BY <1>5, <4>1, <4>2, <4>3
      <4> QED
        BY <4>4 DEF Have
    <3> QED
      BY <1>a, <3>1, <3>2, <3>3 DEF Form
  <2>3. ASSUME NEW g \in File, t = <<Get(g), Put(g)>>, R(files, g) > 0
        PROVE  Form(s, files') /\ f \in heap
    <3>1. g = f /\ s = <<Put(f)>>
      BY <1>f, <1>1, <2>3, OpsFacts
    <3>2. Form(s, files')
      BY <3>1, PutForms
    <3>3. N(t, f, "get") = 1 /\ N(t, f, "put") = 1
      BY <2>3, <3>1, FewTwo, OpsFacts
    <3>4. Have(f) + N(t, f, "get") = R(files, f) + N(t, f, "put")
      BY <1>d, <1>e
    <3>5. Have(f) # 0
      BY <2>3, <3>1, <3>3, <3>4, CountNat
    <3> QED
      BY <3>2, <3>5 DEF Have
  <2>4. ASSUME NEW h \in File, NEW g \in File, t = <<Put(g), Get(h)>>
        PROVE  FALSE
    BY <1>1, <2>4, OpsFacts
  <2> QED
    BY <1>d, <1>e, <2>1, <2>2, <2>3, <2>4 DEF Form
<1>7. ASSUME NEW h \in File
      PROVE  /\ Have(h)' + N(s, h, "get") = R(files', h) + N(s, h, "put")
             /\ h \in heap' => R(files', h) + N(s, h, "put") > 0
  <2>1. /\ Have(h) + N(t, h, "get") = R(files, h) + N(t, h, "put")
        /\ h \in heap => R(files, h) + N(t, h, "put") > 0
    BY <1>d, <1>e
  <2>2. N(s, h, "get") \in Nat /\ N(s, h, "put") \in Nat /\ R(files, h) \in Nat /\ Have(h) \in Nat
    BY <1>c, <1>g, CountNat DEF Have
  <2>3. Have(h)' = IF h = f THEN Have(h) + 1 ELSE Have(h)
    BY <1>a, <1>3, <1>6 DEF Have
  <2> QED
    BY <1>a, <1>5, <2>1, <2>2, <2>3
<1>8. \A q \in Procs \ alive' : \/ files'[q] = NoFiles
                                \/ s # <<>> /\ s[Len(s)] = [op |-> "publish", arg |-> q]
  <2> SUFFICES ASSUME NEW q \in Procs \ alive, files[q] # NoFiles
               PROVE  s # <<>> /\ s[Len(s)] = [op |-> "publish", arg |-> q]
    BY <1>a
  <2>1. PICK o \in Procs : todo[o] # <<>> /\ todo[o][Len(todo[o])] = [op |-> "publish", arg |-> q]
    BY DEF FilesInv, Unused
  <2>2. o = p
    BY <1>d, <2>1
  <2>3. t[Len(t)] = [op |-> "publish", arg |-> q]
    BY <1>e, <2>1, <2>2
  <2>4. Len(t) # 1
    BY <1>g, <1>1, <2>3
  <2> QED
    BY <1>g, <2>3, <2>4
<1>9. files' \in Tables /\ heap' \subseteq File /\ alive' \subseteq Procs
  BY <1>a, <1>c
<1>10. \A q \in Procs : q # p => todo[q] = <<>>
  BY <1>d
<1> QED
  BY <1>g, <1>h, <1>j, <1>3, <1>4, <1>6, <1>7, <1>8, <1>9, <1>10, CallLeaves

LEMMA PutInv ==
  ASSUME FilesInv, NEW p \in Procs, vfs_file_put(p)
  PROVE  FilesInv'
<1>a. /\ todo[p] # <<>> /\ Head(todo[p]).op = "put" /\ reg[p] # None
      /\ files' = files /\ alive' = alive
      /\ heap' = IF reg[p] = 1 THEN heap \ {Head(todo[p]).arg} ELSE heap
      /\ refcnt' = [refcnt EXCEPT ![Head(todo[p]).arg] = reg[p] - 1]
      /\ reg' = [reg EXCEPT ![p] = None]
      /\ todo' = [todo EXCEPT ![p] = Tail(todo[p])]
  BY DEF vfs_file_put, Doing, Done
<1>c. /\ files \in Tables /\ heap \subseteq File /\ refcnt \in [File -> Nat] /\ alive \subseteq Procs
      /\ reg \in [Procs -> Nat \cup {None}]
  BY DEF FilesInv, FilesTypeOK, Tables
<1>d. /\ \A q \in Procs : q # p => todo[q] = <<>> /\ reg[q] = None
      /\ todo[p] \in Seq(Ops) /\ Len(todo[p]) <= 2 * MAX_FDS /\ Form(todo[p], files)
      /\ \A f \in File :
           /\ Have(f) + N(todo[p], f, "get") = R(files, f) + N(todo[p], f, "put")
           /\ f \in heap => R(files, f) + N(todo[p], f, "put") > 0
  BY <1>a, Busy
<1>e. PICK t : t = todo[p]
  OBVIOUS
<1>f. PICK s : s = Tail(t)
  OBVIOUS
<1>g. /\ t \in Seq(Ops) /\ t # <<>> /\ Len(t) \in Nat \ {0} /\ DOMAIN t = 1..Len(t) /\ Head(t) = t[1]
      /\ s \in Seq(Ops) /\ Len(s) = Len(t) - 1 /\ DOMAIN s = 1..(Len(t) - 1)
      /\ \A k \in 1..(Len(t) - 1) : s[k] = t[k + 1]
  BY <1>a, <1>d, <1>e, <1>f
<1>h. Len(s) <= 2 * MAX_FDS
  BY <1>d, <1>e, <1>g, FilesAssumption
<1>i. \A f, o : N(t, f, o) = N(s, f, o) + (IF Head(t) = [op |-> o, arg |-> f] THEN 1 ELSE 0)
  BY <1>f, <1>g, PosTail DEF N
<1>j. todo' = [todo EXCEPT ![p] = s]
  BY <1>a, <1>e, <1>f
<1>1. PICK f \in File : Head(t) = [op |-> "put", arg |-> f]
  BY <1>a, <1>e, <1>g DEF Ops
<1>2. reg[p] = refcnt[f] /\ refcnt[f] \in Nat
  BY <1>a, <1>c, <1>e, <1>1 DEF FilesInv, Loaded
<1>4. reg' = [q \in Procs |-> None]
  BY <1>a, <1>c, <1>d
<1>5. /\ N(t, f, "put") = N(s, f, "put") + 1
      /\ \A h : N(t, h, "get") = N(s, h, "get") /\ (h # f => N(t, h, "put") = N(s, h, "put"))
  BY <1>g, <1>i, <1>1, CountNat
(* The file has a reference, and when it is the last nothing is owed. *)
<1>6. /\ Form(s, files') /\ f \in heap /\ refcnt[f] > 0
      /\ IF refcnt[f] = 1
         THEN R(files, f) = 0 /\ N(s, f, "get") = 0 /\ N(s, f, "put") = 0
         ELSE R(files, f) + N(s, f, "put") > 0
  <2>a. N(s, f, "get") \in Nat /\ N(s, f, "put") \in Nat /\ R(files, f) \in Nat /\ Have(f) \in Nat
    BY <1>c, <1>g, CountNat DEF Have
  <2>b. Have(f) + N(t, f, "get") = R(files, f) + N(t, f, "put")
    BY <1>d, <1>e
  <2>1. CASE \A k \in DOMAIN t : t[k].op = "put"
    <3>1. \A k \in DOMAIN s : s[k].op = "put"
      BY <1>g, <2>1
    <3>2. Form(s, files')
      BY <3>1 DEF Form
    <3>3. N(s, f, "get") = 0
      <4>1. \A k \in DOMAIN s : s[k] # [op |-> "get", arg |-> f]
        BY <3>1
      <4> QED
        BY <1>g, <4>1, PosZero DEF N
    <3>4. Have(f) = R(files, f) + N(s, f, "put") + 1
      BY <1>5, <2>a, <2>b, <3>3
    <3>5. f \in heap /\ Have(f) = refcnt[f]
      BY <2>a, <3>4 DEF Have
    <3> QED
      BY <2>a, <3>2, <3>3, <3>4, <3>5
  <2>2. CASE \A k \in DOMAIN t : t[k].op # "put" /\ (t[k].op = "publish" => k = Len(t))
    BY <1>g, <1>1, <2>2
  <2>3. ASSUME NEW g \in File, t = <<Get(g), Put(g)>>
        PROVE  FALSE
    BY <1>1, <2>3, OpsFacts
  <2>4. ASSUME NEW h \in File, NEW g \in File, t = <<Put(g), Get(h)>>, R(files, h) > 1
        PROVE  /\ Form(s, files') /\ f \in heap /\ refcnt[f] > 0
               /\ IF refcnt[f] = 1
                  THEN R(files, f) = 0 /\ N(s, f, "get") = 0 /\ N(s, f, "put") = 0
                  ELSE R(files, f) + N(s, f, "put") > 0
    <3>1. g = f /\ s = <<Get(h)>>
      BY <1>f, <1>1, <2>4, OpsFacts
    <3>2. Form(s, files')
      BY <1>a, <2>4, <3>1, PutForms
    <3>3. N(s, f, "put") = 0 /\ N(s, f, "get") = IF f = h THEN 1 ELSE 0
      BY <3>1, Few
    <3>4. Have(f) + N(s, f, "get") = R(files, f) + 1
      BY <1>5, <2>b, <3>3, <2>a
    <3>5. Have(f) > 0
      BY <2>4, <2>a, <3>3, <3>4
    <3>6. f \in heap /\ Have(f) = refcnt[f]
      BY <3>5 DEF Have
    <3>7. CASE f = h
      BY <2>4, <2>a, <3>2, <3>3, <3>4, <3>6, <3>7
    <3>8. CASE f # h
      BY <2>a, <3>2, <3>3, <3>4, <3>6, <3>8
    <3> QED
      BY <3>7, <3>8
  <2> QED
    BY <1>d, <1>e, <2>1, <2>2, <2>3, <2>4 DEF Form
<1>3. refcnt' \in [File -> Nat] /\ refcnt'[f] = refcnt[f] - 1 /\ \A h \in File : h # f => refcnt'[h] = refcnt[h]
  BY <1>a, <1>c, <1>e, <1>1, <1>2, <1>6
<1>k. /\ heap' \subseteq File /\ (f \in heap' <=> refcnt[f] # 1)
      /\ \A h \in File : h # f => (h \in heap' <=> h \in heap)
  BY <1>a, <1>c, <1>e, <1>1, <1>2, <1>6
<1>7. ASSUME NEW h \in File
      PROVE  /\ Have(h)' + N(s, h, "get") = R(files', h) + N(s, h, "put")
             /\ h \in heap' => R(files', h) + N(s, h, "put") > 0
  <2>1. /\ Have(h) + N(t, h, "get") = R(files, h) + N(t, h, "put")
        /\ h \in heap => R(files, h) + N(t, h, "put") > 0
    BY <1>d, <1>e
  <2>2. N(s, h, "get") \in Nat /\ N(s, h, "put") \in Nat /\ R(files, h) \in Nat /\ Have(h) \in Nat
    BY <1>c, <1>g, CountNat DEF Have
  <2>3. CASE h # f
    <3>1. Have(h)' = Have(h) /\ (h \in heap' <=> h \in heap)
      BY <1>3, <1>k, <2>3 DEF Have
    <3> QED
      BY <1>a, <1>5, <2>1, <2>3, <3>1
  <2>4. CASE h = f
    <3>1. Have(h)' = refcnt[f] - 1 /\ Have(h) = refcnt[f]
      BY <1>2, <1>3, <1>6, <1>k, <2>4 DEF Have
    <3>2. refcnt[f] + N(s, h, "get") = R(files, h) + N(s, h, "put") + 1
      BY <1>5, <2>1, <2>2, <2>4, <3>1
    <3>3. (refcnt[f] - 1) + N(s, h, "get") = R(files, h) + N(s, h, "put")
      BY <1>2, <2>2, <3>2
    <3>4. h \in heap' => R(files, h) + N(s, h, "put") > 0
      BY <1>6, <1>k, <2>4
    <3> QED
      BY <1>a, <3>1, <3>3, <3>4
  <2> QED
    BY <2>3, <2>4
<1>8. \A q \in Procs \ alive' : \/ files'[q] = NoFiles
                                \/ s # <<>> /\ s[Len(s)] = [op |-> "publish", arg |-> q]
  <2> SUFFICES ASSUME NEW q \in Procs \ alive, files[q] # NoFiles
               PROVE  s # <<>> /\ s[Len(s)] = [op |-> "publish", arg |-> q]
    BY <1>a
  <2>1. PICK o \in Procs : todo[o] # <<>> /\ todo[o][Len(todo[o])] = [op |-> "publish", arg |-> q]
    BY DEF FilesInv, Unused
  <2>2. o = p
    BY <1>d, <2>1
  <2>3. t[Len(t)] = [op |-> "publish", arg |-> q]
    BY <1>e, <2>1, <2>2
  <2>4. Len(t) # 1
    BY <1>g, <1>1, <2>3
  <2> QED
    BY <1>g, <2>3, <2>4
<1>9. files' \in Tables /\ alive' \subseteq Procs
  BY <1>a, <1>c
<1>10. \A q \in Procs : q # p => todo[q] = <<>>
  BY <1>d
<1> QED
  BY <1>g, <1>h, <1>j, <1>3, <1>4, <1>6, <1>7, <1>8, <1>9, <1>10, <1>k, CallLeaves

LEMMA PublishInv ==
  ASSUME FilesInv, NEW p \in Procs, Publish(p)
  PROVE  FilesInv'
<1>a. /\ todo[p] # <<>> /\ Head(todo[p]).op = "publish"
      /\ files' = files /\ alive' = alive \cup {Head(todo[p]).arg} /\ heap' = heap
      /\ refcnt' = refcnt /\ reg' = reg
      /\ todo' = [todo EXCEPT ![p] = Tail(todo[p])]
  BY DEF Publish, Doing, Done
<1>c. /\ files \in Tables /\ heap \subseteq File /\ refcnt \in [File -> Nat] /\ alive \subseteq Procs
      /\ reg \in [Procs -> Nat \cup {None}]
  BY DEF FilesInv, FilesTypeOK, Tables
<1>d. /\ \A q \in Procs : q # p => todo[q] = <<>> /\ reg[q] = None
      /\ todo[p] \in Seq(Ops) /\ Len(todo[p]) <= 2 * MAX_FDS /\ Form(todo[p], files)
      /\ \A f \in File :
           /\ Have(f) + N(todo[p], f, "get") = R(files, f) + N(todo[p], f, "put")
           /\ f \in heap => R(files, f) + N(todo[p], f, "put") > 0
  BY <1>a, Busy
<1>e. PICK t : t = todo[p]
  OBVIOUS
<1>f. PICK s : s = Tail(t)
  OBVIOUS
<1>g. /\ t \in Seq(Ops) /\ t # <<>> /\ Len(t) \in Nat \ {0} /\ DOMAIN t = 1..Len(t) /\ Head(t) = t[1]
      /\ s \in Seq(Ops) /\ Len(s) = Len(t) - 1 /\ DOMAIN s = 1..(Len(t) - 1)
      /\ \A k \in 1..(Len(t) - 1) : s[k] = t[k + 1]
  BY <1>a, <1>d, <1>e, <1>f
<1>h. Len(s) <= 2 * MAX_FDS
  BY <1>d, <1>e, <1>g, FilesAssumption
<1>i. \A f, o : N(t, f, o) = N(s, f, o) + (IF Head(t) = [op |-> o, arg |-> f] THEN 1 ELSE 0)
  BY <1>f, <1>g, PosTail DEF N
<1>j. todo' = [todo EXCEPT ![p] = s]
  BY <1>a, <1>e, <1>f
<1>1. PICK x \in Procs : Head(t) = [op |-> "publish", arg |-> x]
  BY <1>a, <1>e, <1>g DEF Ops
<1>2. s = <<>>
  <2>1. CASE \A k \in DOMAIN t : t[k].op = "put"
    BY <1>g, <1>1, <2>1
  <2>2. CASE \A k \in DOMAIN t : t[k].op # "put" /\ (t[k].op = "publish" => k = Len(t))
    BY <1>g, <1>1, <2>2
  <2>3. ASSUME NEW g \in File, t = <<Get(g), Put(g)>>
        PROVE  FALSE
    BY <1>1, <2>3, OpsFacts
  <2>4. ASSUME NEW h \in File, NEW g \in File, t = <<Put(g), Get(h)>>
        PROVE  FALSE
    BY <1>1, <2>4, OpsFacts
  <2> QED
    BY <1>d, <1>e, <2>1, <2>2, <2>3, <2>4 DEF Form
<1>3. \A f, o : o # "publish" => N(t, f, o) = N(s, f, o)
  BY <1>g, <1>i, <1>1, CountNat
<1>4. reg' = [q \in Procs |-> None]
  <2>1. reg[p] = None
    BY <1>a DEF FilesInv, Loaded, Doing
  <2> QED
    BY <1>a, <1>c, <1>d, <2>1
<1>5. ASSUME NEW h \in File
      PROVE  /\ Have(h)' + N(s, h, "get") = R(files', h) + N(s, h, "put")
             /\ h \in heap' => R(files', h) + N(s, h, "put") > 0
  <2>1. Have(h)' = Have(h)
    BY <1>a DEF Have
  <2> QED
    BY <1>a, <1>d, <1>e, <1>3, <2>1
<1>6. Form(s, files')
  BY <1>2 DEF Form
<1>7. \A q \in Procs \ alive' : files'[q] = NoFiles
  <2> SUFFICES ASSUME NEW q \in Procs \ alive, q # x
               PROVE  files[q] = NoFiles
    BY <1>a, <1>e, <1>1
  <2>1. ASSUME NEW o \in Procs, todo[o] # <<>>, todo[o][Len(todo[o])] = [op |-> "publish", arg |-> q]
        PROVE  FALSE
    <3>1. o = p
      BY <1>d, <2>1
    <3>2. Len(t) = 1
      <4>1. Len(s) = 0
        BY <1>2
      <4>2. Len(s) = Len(t) - 1 /\ Len(t) \in Nat
        BY <1>g
      <4> QED
        BY <4>1, <4>2
    <3>3. t[1] = [op |-> "publish", arg |-> q]
      BY <1>e, <2>1, <3>1, <3>2
    <3> QED
      BY <1>g, <1>1, <3>3
  <2> QED
    BY <2>1 DEF FilesInv, Unused
<1>8. /\ files' \in Tables /\ heap' \subseteq File /\ refcnt' \in [File -> Nat] /\ alive' \subseteq Procs
  BY <1>a, <1>c, <1>e, <1>1
<1>9. \A q \in Procs : q # p => todo[q] = <<>>
  BY <1>d
<1> QED
  BY <1>g, <1>h, <1>j, <1>4, <1>5, <1>6, <1>7, <1>8, <1>9, CallLeaves

-----------------------------------------------------------------------------
(* Every behaviour *)

LEMMA FilesInitInv == FilesInit => FilesInv
<1> SUFFICES ASSUME FilesInit PROVE FilesInv
  OBVIOUS
<1>a. /\ InitProc \in Procs /\ 0 \in Fd /\ 1 \in Fd /\ 2 \in Fd /\ None \notin File
      /\ NoFiles \in [Fd -> File \cup {None}]
  BY FilesAssumption DEF Fd, NoFiles
<1>b. alive = {InitProc} /\ todo = [p \in Procs |-> <<>>] /\ reg = [p \in Procs |-> None]
  BY DEF FilesInit
<1>c. \A p \in Procs : todo[p] = <<>> /\ reg[p] = None
  BY <1>b
<1>d. Alone /\ Short /\ Loaded /\ Shaped
  <2>1. 0 <= 2 * MAX_FDS /\ Len(<<>>) = 0
    BY FilesAssumption
  <2>2. Form(<<>>, files)
    BY DEF Form
  <2> QED
    BY <1>c, <2>1, <2>2 DEF Alone, Short, Loaded, Shaped
<1>e. PICK f \in File, g \in File :
         /\ f # g
         /\ \/ /\ files = [p \in Procs |-> IF p = InitProc
                             THEN [NoFiles EXCEPT ![0] = f, ![1] = g, ![2] = g]
                             ELSE NoFiles]
               /\ heap = {f, g}
               /\ refcnt = [h \in File |-> IF h = f THEN 1 ELSE IF h = g THEN 2 ELSE 0]
            \/ /\ files = [p \in Procs |-> NoFiles]
               /\ heap = {}
               /\ refcnt = [h \in File |-> 0]
  BY DEF FilesInit
<1>f. PICK E : E = [p \in Procs |-> NoFiles]
  OBVIOUS
<1>g. E \in Tables /\ \A p \in Procs : E[p] = NoFiles
  BY <1>a, <1>f DEF Tables
<1>h. \A h \in File : R(E, h) = 0
  <2> SUFFICES ASSUME NEW h \in File
               PROVE  RefsOf(E, h) = {}
    BY FS_EmptySet DEF R
  <2> QED
    BY <1>a, <1>g DEF RefsOf, NoFiles
<1>i. \A h, o : N(todo[InitProc], h, o) = 0
  BY <1>a, <1>c, Few
<1>1. CASE files = E /\ heap = {} /\ refcnt = [h \in File |-> 0]
  <2>1. FilesTypeOK
    BY <1>a, <1>b, <1>g, <1>1 DEF FilesTypeOK, Tables
  <2>2. \A h \in File : /\ Have(h) + N(todo[InitProc], h, "get") = R(files, h) + N(todo[InitProc], h, "put")
                        /\ h \in heap => R(files, h) + N(todo[InitProc], h, "put") > 0
    BY <1>h, <1>i, <1>1 DEF Have
  <2>3. RefsExact
    BY <1>a, <1>c, <1>d, <2>2, ExactOne DEF Short
  <2>4. Unused
    BY <1>g, <1>1 DEF Unused
  <2> QED
    BY <1>d, <2>1, <2>3, <2>4 DEF FilesInv
<1>2. CASE /\ files = [p \in Procs |-> IF p = InitProc
                             THEN [NoFiles EXCEPT ![0] = f, ![1] = g, ![2] = g]
                             ELSE NoFiles]
           /\ heap = {f, g}
           /\ refcnt = [h \in File |-> IF h = f THEN 1 ELSE IF h = g THEN 2 ELSE 0]
  <2>1. PICK t1, t2, t3 : /\ t1 = [NoFiles EXCEPT ![0] = f] /\ t2 = [t1 EXCEPT ![1] = g]
                          /\ t3 = [t2 EXCEPT ![2] = g]
    OBVIOUS
  <2>2. /\ t1 \in [Fd -> File \cup {None}] /\ t2 \in [Fd -> File \cup {None}]
        /\ t3 \in [Fd -> File \cup {None}] /\ t1[1] = None /\ t2[2] = None /\ NoFiles[0] = None
    BY <1>a, <2>1 DEF NoFiles
  <2>3. files = [E EXCEPT ![InitProc] = t3]
    <3>1. t3 = [NoFiles EXCEPT ![0] = f, ![1] = g, ![2] = g]
      BY <1>a, <2>1
    <3> QED
      BY <1>2, <1>f, <3>1
  <2>4. PICK T1, T2 : T1 = [E EXCEPT ![InitProc] = t1] /\ T2 = [E EXCEPT ![InitProc] = t2]
    OBVIOUS
  <2>5. /\ T1 \in Tables /\ T2 \in Tables /\ files \in Tables
        /\ E[InitProc] = NoFiles /\ T1[InitProc] = t1 /\ T2[InitProc] = t2
        /\ T2 = [T1 EXCEPT ![InitProc] = t2] /\ files = [T2 EXCEPT ![InitProc] = t3]
    BY <1>a, <1>g, <2>2, <2>3, <2>4 DEF Tables
  <2>6. Changed(E, T1, InitProc, 0, f) /\ Changed(T1, T2, InitProc, 1, g) /\ Changed(T2, files, InitProc, 2, g)
    BY <1>a, <1>g, <2>1, <2>4, <2>5 DEF Changed
  <2>7. \A h : R(T1, h) = R(E, h) - Is(NoFiles[0], h) + Is(f, h)
    BY <2>5, <2>6, RSet
  <2>8. \A h : R(T2, h) = R(T1, h) - Is(t1[1], h) + Is(g, h)
    BY <2>5, <2>6, RSet
  <2>9. \A h : R(files, h) = R(T2, h) - Is(t2[2], h) + Is(g, h)
    <3>1. \A h : R(files, h) = R(T2, h) - Is(T2[InitProc][2], h) + Is(g, h)
      BY <2>6, RSet
    <3> QED
      BY <2>5, <3>1
  <2>10. ASSUME NEW h \in File
         PROVE  R(files, h) = Is(f, h) + Is(g, h) + Is(g, h)
    <3>1. Is(NoFiles[0], h) = 0 /\ Is(t1[1], h) = 0 /\ Is(t2[2], h) = 0
      BY <1>a, <2>2 DEF Is
    <3>2. R(E, h) = 0 /\ Is(f, h) \in Nat /\ Is(g, h) \in Nat
      BY <1>h DEF Is
    <3> QED
      BY <2>7, <2>8, <2>9, <3>1, <3>2
  <2>11. \A h \in File : /\ Have(h) + N(todo[InitProc], h, "get") = R(files, h) + N(todo[InitProc], h, "put")
                         /\ h \in heap => R(files, h) + N(todo[InitProc], h, "put") > 0
    BY <1>e, <1>i, <1>2, <2>10 DEF Have, Is
  <2>12. RefsExact
    BY <1>a, <1>c, <1>d, <2>11, ExactOne DEF Short
  <2>13. Unused
    <3>1. \A q \in Procs : q # InitProc => files[q] = NoFiles
      BY <1>2
    <3> QED
      BY <1>b, <3>1 DEF Unused
  <2>14. FilesTypeOK
    <3>1. refcnt \in [File -> Nat] /\ heap \subseteq File
      BY <1>2
    <3> QED
      BY <1>a, <1>b, <2>5, <3>1 DEF FilesTypeOK, Tables
  <2> QED
    BY <1>d, <2>12, <2>13, <2>14 DEF FilesInv
<1> QED
  BY <1>e, <1>f, <1>1, <1>2

LEMMA FilesStep ==
  ASSUME NCpu = 1, FilesInv, [FilesNext]_FilesVars
  PROVE  FilesInv'
<1>1. ASSUME NEW p \in Procs, Call(p)
      PROVE  FilesInv'
  BY <1>1, OpenInv, PipeInv, ExitInv, CloseInv, DupInv, Dup2Inv, ForkInv DEF Call
<1>2. ASSUME NEW p \in Procs, Count(p)
      PROVE  FilesInv'
  BY <1>2, LoadInv, GetInv, PutInv, PublishInv DEF Count
<1>3. CASE UNCHANGED FilesVars
  <2>1. FilesTypeOK' /\ Alone' /\ Short' /\ Unused' /\ Shaped'
    BY <1>3 DEF FilesVars, FilesInv, FilesTypeOK, Alone, Short, Unused, Shaped
  <2>2. RefsExact'
    BY <1>3 DEF FilesVars, FilesInv, RefsExact, Refs, Owed
  <2>3. Loaded'
    BY <1>3 DEF FilesVars, FilesInv, Loaded, Doing
  <2> QED
    BY <2>1, <2>2, <2>3 DEF FilesInv
<1> QED
  BY <1>1, <1>2, <1>3 DEF FilesNext

LEMMA FilesAlways ==
  ASSUME NCpu = 1
  PROVE  FilesSpec => []FilesInv
<1>1. FilesInit => FilesInv
  BY FilesInitInv
<1>2. FilesInv /\ [FilesNext]_FilesVars => FilesInv'
  BY FilesStep
<1> QED
  BY <1>1, <1>2, PTL DEF FilesSpec

(* The descriptor tables, the counts and what a system call has still to   *)
(* do always have their types on one CPU: in particular no refcnt is ever  *)
(* taken below zero by vfs_close.                                          *)
THEOREM FilesTypeSafe ==
  ASSUME NCpu = 1
  PROVE  FilesSpec => []FilesTypeOK
<1>1. FilesInv => FilesTypeOK
  BY DEF FilesInv
<1> QED
  BY <1>1, FilesAlways, PTL

(* On one CPU refcnt is exactly the number of descriptors that refer to    *)
(* the file, up to the gets and puts under way: for any number of          *)
(* processes, descriptors and files, through open, close, dup, dup2, pipe, *)
(* fork and exit.  No descriptor is left with a file that vfs_close freed, *)
(* and no file stays without a descriptor.                                 *)
THEOREM CountsExact ==
  ASSUME NCpu = 1
  PROVE  FilesSpec => []RefsExact
<1>1. FilesInv => RefsExact
  BY DEF FilesInv
<1> QED
  BY <1>1, FilesAlways, PTL
-----------------------------------------------------------------------------
(* Devfs *)

(* What happened to the nodes: an unused slot is cleared, and no name is in *)
(* the table twice.                                                        *)
TableInv ==
    /\ \A i \in Slots : IF InUse(i) THEN nodes[i].name \in DevNames ELSE nodes[i] = NoNode
    /\ \A i, j \in Slots : InUse(i) /\ InUse(j) /\ nodes[i].name = nodes[j].name => i = j

Given(name) == {k \in DOMAIN seen : seen[k] = name}

(* How far the listing is: what stayed and lies at or before the position  *)
(* was given once, what lies after it was not, and at the end nothing lies *)
(* after it.                                                               *)
ListInv ==
    /\ stay \subseteq Names
    /\ \A i \in Slots :
          InUse(i) /\ nodes[i].name \in stay =>
             /\ i <= Idx => \E k \in DOMAIN seen : Given(nodes[i].name) = {k}
             /\ i > Idx => Given(nodes[i].name) = {}
             /\ rend => i <= Idx

(* The disk and what it should hold have the same bytes. *)
DiskInv == DOMAIN wanted = DOMAIN disk /\ DOMAIN disk \subseteq Int /\ DiskAsWritten

-----------------------------------------------------------------------------
(* Arithmetic *)

(* A position plus a count, as a u64, is a u64. *)
LEMMA ModRange ==
  ASSUME NEW a \in Nat, NEW b \in Nat \ {0}
  PROVE  a % b \in 0..(b - 1)
BY SMT

(* A u64 that does not overflow is itself. *)
LEMMA ModSmall ==
  ASSUME NEW a \in Nat, NEW b \in Nat \ {0}, a < b
  PROVE  a % b = a
BY SMT

(* The sectors of a write hold every byte of it: the first is rounded down *)
(* and the last up.                                                        *)
LEMMA SectorsHold ==
  ASSUME NEW p \in Nat, NEW n \in Nat, NEW s \in Nat \ {0}, NEW o \in Int, p <= o, o < p + n
  PROVE  o \in ((p \div s) * s)..(((p + n + s - 1) \div s) * s - 1)
<1> DEFINE q == p + n + s - 1
<1>1. q \in Nat
  OBVIOUS
<1>2. (p \div s) * s <= p /\ (p \div s) * s \in Int
  BY SMT
<1>3. q < (q \div s) * s + s /\ (q \div s) * s \in Int
  <2> HIDE DEF q
  <2> QED
    BY <1>1, SMT
<1> QED
  BY <1>1, <1>2, <1>3

-----------------------------------------------------------------------------
(* Types *)

LEMMA Constants ==
  /\ DEVFS_MAX_NODES \in Nat \ {0} /\ MaxReg \in Nat
  /\ U32 \in Nat \ {0} /\ DEVFS_MAX_NODES < U32 /\ U32 <= Word
  /\ Word \in Nat \ {0} /\ FbSize \in 0..(Word - 1) /\ CtlLen \in 0..(Word - 1)
  /\ IoCounts \subseteq Nat /\ SeekArgs \subseteq 0..(Word - 1)
BY DevfsAssumption

(* The types in four parts: the end of the listing, a Boolean, apart. *)
NodeRec == [name : DevNames \cup {""}, ino : 0..(MaxReg + 1)]
NodeType == nodes \in [Slots -> NodeRec] /\ next_ino \in 2..(MaxReg + 2)
ListType == rpos \in 0..(Word - 1) /\ seen \in Seq(DevNames) /\ stay \subseteq DevNames
EndType == rend \in BOOLEAN
PosType == fpos \in [Devices -> 0..(Word - 1)] /\ fpos["fb"] <= FbSize
TypeParts == NodeType /\ ListType /\ EndType /\ PosType

LEMMA TypeIsParts == DevfsTypeOK <=> TypeParts
BY Zenon DEF DevfsTypeOK, TypeParts, NodeType, ListType, EndType, PosType, NodeRec

LEMMA NoNodeType == NoNode \in NodeRec
BY Constants DEF NoNode, NodeRec

LEMMA InitType == DevfsInit => TypeParts
<1> SUFFICES ASSUME DevfsInit PROVE TypeParts
  OBVIOUS
<1>1. NodeType
  BY NoNodeType, Constants DEF DevfsInit, NodeType
<1>2. ListType
  BY Constants DEF DevfsInit, ListType
<1>3. PosType
  BY Constants DEF DevfsInit, Devices, PosType
<1>4. EndType
  BY DEF DevfsInit, EndType
<1> QED
  BY <1>1, <1>2, <1>3, <1>4 DEF TypeParts

(* The first free slot is a free slot. *)
LEMMA FirstFree ==
  ASSUME \E i \in Slots : ~InUse(i)
  PROVE  /\ Min({j \in Slots : ~InUse(j)}) \in Slots
         /\ ~InUse(Min({j \in Slots : ~InUse(j)}))
<1>1. Slots \subseteq Nat
  BY Constants DEF Slots
<1>2. Min({j \in Slots : ~InUse(j)}) \in {j \in Slots : ~InUse(j)}
  BY <1>1, MinLeast
<1> QED
  BY <1>2

(* f->pos as a u32: at most itself, and itself as long as it is a slot.   *)
LEMMA IdxIs ==
  ASSUME ListType
  PROVE  Idx \in Nat
BY Constants, ModRange DEF ListType, Idx

LEMMA IdxSmall ==
  ASSUME NEW m \in 0..DEVFS_MAX_NODES, rpos' = m
  PROVE  Idx' = m
BY Constants, ModSmall DEF Idx

(* vfs_seek without llseek keeps a u64 a u64. *)
LEMMA SoughtType ==
  ASSUME NEW old \in 0..(Word - 1), NEW base, NEW off \in SeekArgs
  PROVE  Sought(old, base, off) \in 0..(Word - 1)
<1>1. off \in 0..(Word - 1) /\ old + off \in Nat
  BY Constants
<1>2. (old + off) % Word \in 0..(Word - 1)
  BY <1>1, Constants, ModRange
<1> QED
  BY <1>1, <1>2 DEF Sought

(* The next node of a listing is the first in use after the position. *)
LEMMA FirstLater ==
  ASSUME NEW n \in Nat, Later(n) # {}
  PROVE  LET m == Min(Later(n))
         IN  /\ m \in Slots /\ m > n /\ InUse(m)
             /\ \A j \in Slots : j > n /\ InUse(j) => m <= j
<1>1. Later(n) \subseteq Nat
  BY Constants DEF Slots, Later
<1>2. Min(Later(n)) \in Later(n) /\ \A j \in Later(n) : Min(Later(n)) <= j
  BY <1>1, MinLeast
<1> QED
  BY <1>2 DEF Later

(* What a step of the nodes leaves of the types. *)
LEMMA NodeTypes ==
  ASSUME TypeParts, TableInv, NodeNext
  PROVE  TypeParts'
<1> USE Constants
<1>a. NodeType /\ ListType /\ EndType /\ PosType
  BY DEF TypeParts
<1>1. ASSUME NEW name \in DevNames, devfs_register(name)
      PROVE  TypeParts'
  <2> DEFINE i == Min({j \in Slots : ~InUse(j)})
             new == [name |-> name, ino |-> next_ino]
  <2>1. i \in Slots
    BY <1>1, FirstFree DEF devfs_register
  <2>2. nodes' = [nodes EXCEPT ![i] = new] /\ next_ino' = next_ino + 1 /\ next_ino < MaxReg + 2
    BY <1>1 DEF devfs_register
  <2>3. new \in NodeRec
    <3>1. next_ino \in 0..(MaxReg + 1)
      BY <1>a, <2>2 DEF NodeType
    <3> QED
      BY <3>1 DEF NodeRec
  <2> HIDE DEF i, new
  <2>4. NodeType'
    BY <1>a, <2>1, <2>2, <2>3 DEF NodeType
  <2> QED
    BY <1>a, <1>1, <2>4 DEF devfs_register, IoVars, TypeParts, ListType, EndType, PosType
<1>2. ASSUME NEW name \in DevNames, devfs_unregister(name)
      PROVE  TypeParts'
  <2>1. NodeType'
    BY <1>a, <1>2, NoNodeType DEF devfs_unregister, NodeType
  <2>2. ListType'
    BY <1>a, <1>2 DEF devfs_unregister, ListType
  <2> QED
    BY <1>a, <1>2, <2>1, <2>2 DEF devfs_unregister, IoVars, TypeParts, EndType, PosType
<1>3. CASE devfs_readdir
  <2> DEFINE L == Later(Idx)
  <2>1. NodeType' /\ PosType'
    BY <1>a, <1>3 DEF devfs_readdir, IoVars, NodeType, PosType
  <2>2. stay' = stay
    BY <1>3 DEF devfs_readdir
  <2>3. CASE L = {}
    <3>1. rend' = TRUE /\ rpos' = rpos /\ seen' = seen
      BY <1>3, <2>3 DEF devfs_readdir
    <3> QED
      BY <1>a, <2>1, <2>2, <3>1 DEF TypeParts, ListType, EndType
  <2>4. CASE L # {}
    <3>1. Min(L) \in Slots /\ InUse(Min(L))
      BY <1>a, <2>4, IdxIs, FirstLater
    <3>2. rpos' = Min(L) /\ seen' = Append(seen, nodes[Min(L)].name) /\ rend' = FALSE
      BY <1>3, <2>4 DEF devfs_readdir
    <3> HIDE DEF L
    <3>3. nodes[Min(L)].name \in DevNames
      BY <3>1 DEF TableInv
    <3>4. ListType'
      BY <1>a, <2>2, <3>1, <3>2, <3>3 DEF ListType, Slots
    <3>5. EndType'
      BY <3>2 DEF EndType
    <3> QED
      BY <2>1, <3>4, <3>5 DEF TypeParts
  <2> QED
    BY <2>3, <2>4
<1>4. CASE devfs_dir_open
  <2>1. Names \subseteq DevNames
    BY DEF Names, TableInv
  <2>2. ListType'
    BY <1>4, <2>1 DEF devfs_dir_open, ListType
  <2>3. EndType'
    BY <1>4 DEF devfs_dir_open, EndType
  <2> QED
    BY <1>a, <1>4, <2>2, <2>3 DEF devfs_dir_open, IoVars, TypeParts, NodeType, PosType
<1>5. ASSUME NEW base \in Bases, NEW off \in SeekArgs, vfs_seek_root(base, off)
      PROVE  TypeParts'
  <2>1. rpos' \in 0..(Word - 1)
    BY <1>a, <1>5, SoughtType DEF vfs_seek_root, ListType
  <2>2. stay' \subseteq DevNames
    <3>1. \A i \in Later(Idx') : nodes[i].name \in DevNames
      BY DEF Later, TableInv
    <3> QED
      BY <1>5, <3>1 DEF vfs_seek_root
  <2>3. seen' = <<>> /\ rend' = FALSE /\ NodeType' /\ PosType'
    BY <1>a, <1>5 DEF vfs_seek_root, IoVars, NodeType, PosType
  <2>4. ListType'
    BY <2>1, <2>2, <2>3 DEF ListType
  <2>5. EndType'
    BY <2>3 DEF EndType
  <2> QED
    BY <2>3, <2>4, <2>5 DEF TypeParts
<1> QED
  BY <1>1, <1>2, <1>3, <1>4, <1>5 DEF NodeNext

(* What a read, a write or a seek leaves of the types: the positions stay  *)
(* u64s, and that of the framebuffer within it.                            *)
LEMMA IoTypes ==
  ASSUME TypeParts, IoNext \/ CharNext
  PROVE  TypeParts'
<1> USE Constants
<1>1. SUFFICES ASSUME UNCHANGED NodeVars
               PROVE  /\ fpos' \in [Devices -> 0..(Word - 1)]
                      /\ fpos'["fb"] <= FbSize
  <2>1. UNCHANGED NodeVars
    BY DEF IoNext, CharNext, blkdev_read, blkdev_write, blkdev_llseek, fb_dev_io, fb_dev_llseek,
           fbctl_read, null_io, vfs_seek_node
  <2> QED
    BY <1>1, <2>1 DEF TypeParts, NodeType, ListType, EndType, PosType, NodeVars
<1>2. /\ fpos \in [Devices -> 0..(Word - 1)] /\ fpos["fb"] <= FbSize
      /\ "blk" \in Devices /\ "fb" \in Devices /\ "fbctl" \in Devices /\ "null" \in Devices
      /\ FbSize \in Nat /\ CtlLen \in Nat /\ FbSize < Word /\ CtlLen < Word /\ Word \in Nat \ {0}
      /\ IoCounts \subseteq Nat /\ SeekArgs \subseteq 0..(Word - 1)
  BY DEF TypeParts, PosType, Devices
<1>3. ASSUME NEW v \in {"blk", "fbctl", "null"}, NEW n \in Nat, Advance(v, n)
      PROVE  /\ fpos' \in [Devices -> 0..(Word - 1)]
             /\ fpos'["fb"] = fpos["fb"]
  <2>1. fpos[v] + n \in Nat
    BY <1>2
  <2>2. (fpos[v] + n) % Word \in 0..(Word - 1)
    BY <1>2, <2>1, ModRange
  <2> QED
    BY <1>2, <1>3, <2>2 DEF Advance
<1>4. ASSUME NEW v \in {"fb"}, NEW n \in Nat, NEW size \in Nat,
             size < Word, fpos[v] + n <= size, Advance(v, n)
      PROVE  fpos' = [fpos EXCEPT ![v] = fpos[v] + n]
  <2>1. fpos[v] + n \in Nat /\ fpos[v] + n < Word
    BY <1>2, <1>4
  <2>2. (fpos[v] + n) % Word = fpos[v] + n
    BY <1>2, <2>1, ModSmall
  <2> QED
    BY <1>4, <2>2 DEF Advance
<1>5. ASSUME NEW n \in IoCounts, blkdev_read(n) \/ null_io(n)
      PROVE  /\ fpos' \in [Devices -> 0..(Word - 1)]
             /\ fpos'["fb"] <= FbSize
  BY <1>2, <1>3, <1>5 DEF blkdev_read, null_io
<1>6. ASSUME NEW n \in IoCounts, NEW rok \in BOOLEAN, NEW wok \in BOOLEAN, blkdev_write(n, rok, wok)
      PROVE  /\ fpos' \in [Devices -> 0..(Word - 1)]
             /\ fpos'["fb"] <= FbSize
  <2>1. fpos' = fpos \/ Advance("blk", n)
    BY <1>6 DEF blkdev_write
  <2> QED
    BY <1>2, <1>3, <2>1
<1>7. ASSUME NEW base \in {"SET", "CUR"}, NEW off \in SeekArgs, blkdev_llseek(base, off)
      PROVE  /\ fpos' \in [Devices -> 0..(Word - 1)]
             /\ fpos'["fb"] <= FbSize
  <2>1. off \in 0..(Word - 1) /\ fpos["blk"] + off \in Nat
    BY <1>2
  <2>2. (fpos["blk"] + off) % Word \in 0..(Word - 1)
    BY <1>2, <2>1, ModRange
  <2> QED
    BY <1>2, <1>7, <2>1, <2>2 DEF blkdev_llseek
<1>8. ASSUME NEW n \in IoCounts, fb_dev_io(n)
      PROVE  /\ fpos' \in [Devices -> 0..(Word - 1)]
             /\ fpos'["fb"] <= FbSize
  <2> DEFINE m == IF fpos["fb"] + n > FbSize THEN FbSize - fpos["fb"] ELSE n
  <2>1. m \in Nat /\ fpos["fb"] + m <= FbSize
    BY <1>2
  <2>2. Advance("fb", m)
    BY <1>8 DEF fb_dev_io
  <2> HIDE DEF m
  <2>3. fpos' = [fpos EXCEPT !["fb"] = fpos["fb"] + m]
    BY <1>2, <1>4, <2>1, <2>2
  <2> QED
    BY <1>2, <2>1, <2>3
<1>9. ASSUME NEW n \in IoCounts, fbctl_read(n)
      PROVE  fpos' \in [Devices -> 0..(Word - 1)] /\ fpos'["fb"] <= FbSize
  <2> DEFINE m == IF CtlLen - fpos["fbctl"] > n THEN n ELSE CtlLen - fpos["fbctl"]
  <2>1. m \in Nat /\ Advance("fbctl", m)
    BY <1>2, <1>9 DEF fbctl_read
  <2> HIDE DEF m
  <2> QED
    BY <1>2, <1>3, <2>1
<1>10. ASSUME NEW base \in Bases, NEW off \in SeekArgs, fb_dev_llseek(base, off)
      PROVE  /\ fpos' \in [Devices -> 0..(Word - 1)]
             /\ fpos'["fb"] <= FbSize
  <2>1. off \in 0..(Word - 1) /\ fpos["fb"] + off \in Nat /\ FbSize + off \in Nat
    BY <1>2
  <2>2. (fpos["fb"] + off) % Word \in 0..(Word - 1) /\ (FbSize + off) % Word \in 0..(Word - 1)
    BY <1>2, <2>1, ModRange
  <2>3. PICK new \in 0..(Word - 1) : fpos' = [fpos EXCEPT !["fb"] = IF new > FbSize THEN FbSize ELSE new]
    BY <1>10, <2>1, <2>2 DEF fb_dev_llseek, Bases
  <2> QED
    BY <1>2, <2>3
<1>11. ASSUME NEW v \in {"fbctl", "null"}, NEW base \in Bases, NEW off \in SeekArgs,
              vfs_seek_node(v, base, off)
       PROVE  fpos' \in [Devices -> 0..(Word - 1)] /\ fpos'["fb"] <= FbSize
  <2>1. Sought(fpos[v], base, off) \in 0..(Word - 1)
    BY <1>2, SoughtType
  <2> QED
    BY <1>2, <1>11, <2>1 DEF vfs_seek_node
<1> QED
  BY <1>5, <1>6, <1>7, <1>8, <1>9, <1>10, <1>11 DEF IoNext, CharNext

-----------------------------------------------------------------------------
(* The table and its listing *)

LEMMA InitList == DevfsInit => TableInv /\ ListInv
<1> SUFFICES ASSUME DevfsInit PROVE TableInv /\ ListInv
  OBVIOUS
<1>1. \A i \in Slots : nodes[i] = NoNode /\ ~InUse(i)
  BY DEF DevfsInit, InUse, NoNode
<1> QED
  BY <1>1 DEF DevfsInit, TableInv, ListInv

(* The table after each step of the nodes. *)
LEMMA TableStep ==
  ASSUME NodeType, TableInv, NodeNext
  PROVE  TableInv'
<1>1. ASSUME NEW name \in DevNames, devfs_register(name)
      PROVE  TableInv'
  <2> DEFINE i == Min({j \in Slots : ~InUse(j)})
             new == [name |-> name, ino |-> next_ino]
  <2>1. i \in Slots /\ ~InUse(i)
    BY <1>1, FirstFree DEF devfs_register
  <2>2. nodes' = [nodes EXCEPT ![i] = new]
    BY <1>1 DEF devfs_register
  <2>3. new.name = name /\ new.ino # 0
    BY Constants DEF NodeType
  <2>4. \A j \in Slots : InUse(j) => nodes[j].name # name
    BY <1>1 DEF devfs_register, Names
  <2> HIDE DEF i, new
  <2>5. /\ nodes'[i] = new
        /\ \A j \in Slots : j # i => nodes'[j] = nodes[j]
    BY <2>1, <2>2 DEF NodeType
  <2> QED
    BY <2>1, <2>3, <2>4, <2>5 DEF TableInv, InUse
<1>2. ASSUME NEW name \in DevNames, devfs_unregister(name)
      PROVE  TableInv'
  <2>1. \A j \in Slots : nodes'[j] = IF nodes[j].name = name THEN NoNode ELSE nodes[j]
    BY <1>2 DEF devfs_unregister
  <2>2. NoNode.ino = 0
    BY DEF NoNode
  <2> QED
    BY <2>1, <2>2 DEF TableInv, InUse
<1>3. CASE \/ devfs_readdir \/ devfs_dir_open
           \/ \E base \in Bases, off \in SeekArgs : vfs_seek_root(base, off)
  BY <1>3 DEF devfs_readdir, devfs_dir_open, vfs_seek_root, TableInv, InUse
<1> QED
  BY <1>1, <1>2, <1>3 DEF NodeNext

(* Where the listing is after each step of the nodes. *)
LEMMA ListStep ==
  ASSUME NodeType, ListType, TableInv, ListInv, NodeNext
  PROVE  ListInv'
<1>1. ASSUME NEW name \in DevNames, devfs_register(name)
      PROVE  ListInv'
  <2> DEFINE i == Min({j \in Slots : ~InUse(j)})
             new == [name |-> name, ino |-> next_ino]
  <2>1. i \in Slots /\ ~InUse(i)
    BY <1>1, FirstFree DEF devfs_register
  <2>2. /\ nodes' = [nodes EXCEPT ![i] = new] /\ name \notin Names
        /\ Idx' = Idx /\ seen' = seen /\ rend' = rend /\ stay' = stay
    BY <1>1 DEF devfs_register, Idx
  <2>3. new.name = name
    OBVIOUS
  <2> HIDE DEF i, new
  <2>4. /\ nodes'[i] = new
        /\ \A j \in Slots : j # i => nodes'[j] = nodes[j]
    BY <2>1, <2>2 DEF NodeType
  <2>5. name \notin stay
    BY <2>2 DEF ListInv
  <2>6. stay' \subseteq Names'
    BY <2>1, <2>2, <2>4 DEF ListInv, Names, InUse
  <2>7. \A n : Given(n)' = Given(n)
    BY <2>2 DEF Given
  <2> QED
    BY <2>1, <2>2, <2>3, <2>4, <2>5, <2>6, <2>7 DEF ListInv, InUse
<1>2. ASSUME NEW name \in DevNames, devfs_unregister(name)
      PROVE  ListInv'
  <2>1. /\ \A j \in Slots : nodes'[j] = IF nodes[j].name = name THEN NoNode ELSE nodes[j]
        /\ Idx' = Idx /\ seen' = seen /\ rend' = rend /\ stay' = stay \ {name}
    BY <1>2 DEF devfs_unregister, Idx
  <2>2. NoNode.ino = 0
    BY DEF NoNode
  <2>3. \A j \in Slots : InUse(j)' => InUse(j) /\ nodes'[j] = nodes[j]
    BY <2>1, <2>2 DEF InUse
  <2>4. stay' \subseteq Names'
    BY <2>1 DEF ListInv, Names, InUse
  <2>5. \A n : Given(n)' = Given(n)
    BY <2>1 DEF Given
  <2> QED
    BY <2>1, <2>3, <2>4, <2>5 DEF ListInv
<1>3. CASE devfs_readdir
  <2> DEFINE L == Later(Idx)
  <2>1. /\ nodes' = nodes /\ stay' = stay
        /\ \A i \in Slots : InUse(i)' = InUse(i)
    BY <1>3 DEF devfs_readdir, InUse
  <2>2. stay' \subseteq Names'
    BY <2>1 DEF ListInv, Names
  <2>3. Idx \in Int /\ Slots \subseteq Int
    BY Constants, IdxIs DEF Slots
  <2>4. CASE L = {}
    <3>1. Idx' = Idx /\ seen' = seen
      BY <1>3, <2>4 DEF devfs_readdir, Idx
    <3>2. \A i \in Slots : InUse(i) => i <= Idx
      BY <2>3, <2>4 DEF Later
    <3>3. \A n : Given(n)' = Given(n)
      BY <3>1 DEF Given
    <3> QED
      BY <2>1, <2>2, <3>1, <3>2, <3>3 DEF ListInv
  <2>5. CASE L # {}
    <3>0. PICK m : m = Min(L)
      OBVIOUS
    <3>1. /\ m \in Slots /\ m > Idx /\ InUse(m)
          /\ \A j \in Slots : j > Idx /\ InUse(j) => m <= j
      BY <2>5, <3>0, IdxIs, FirstLater
    <3>2. Idx' = m /\ seen' = Append(seen, nodes[m].name) /\ rend' = FALSE
      <4>1. rpos' = m /\ seen' = Append(seen, nodes[m].name) /\ rend' = FALSE
        BY <1>3, <2>5, <3>0 DEF devfs_readdir
      <4>2. m \in 0..DEVFS_MAX_NODES
        BY <3>1, Constants DEF Slots
      <4> QED
        BY <4>1, <4>2, IdxSmall
    <3> HIDE DEF L
    <3>3. nodes[m].name \in DevNames /\ seen \in Seq(DevNames)
      BY <3>1 DEF TableInv, ListType
    <3> DEFINE e == Len(seen) + 1
    <3>4. /\ DOMAIN seen' = DOMAIN seen \cup {e} /\ e \notin DOMAIN seen
          /\ seen'[e] = nodes[m].name /\ \A k \in DOMAIN seen : seen'[k] = seen[k]
      BY <3>2, <3>3
    <3> HIDE DEF e
    <3>5. Given(nodes[m].name)' = Given(nodes[m].name) \cup {e} /\ e \in DOMAIN seen'
      BY <2>1, <3>4 DEF Given
    <3>6. \A n : n # nodes[m].name => Given(n)' = Given(n)
      BY <3>4 DEF Given
    <3>7. ASSUME NEW i \in Slots, InUse(i), nodes[i].name \in stay
          PROVE  /\ i <= m => \E k \in DOMAIN seen' : Given(nodes[i].name)' = {k}
                 /\ i > m => Given(nodes[i].name)' = {}
      <4>1. CASE i = m
        <5>1. Given(nodes[i].name) = {}
          BY <3>1, <3>7, <4>1 DEF ListInv
        <5> QED
          BY <2>1, <2>3, <3>1, <3>5, <4>1, <5>1
      <4>2. CASE i # m
        <5>1. nodes[i].name # nodes[m].name
          BY <3>1, <3>7, <4>2 DEF TableInv
        <5>2. Given(nodes[i].name)' = Given(nodes[i].name)
          BY <2>1, <3>6, <5>1 DEF Given
        <5>3. i <= m => i <= Idx
          BY <2>3, <3>1, <3>7, <4>2
        <5>4. i > m => i > Idx
          BY <2>3, <3>1
        <5> QED
          BY <2>3, <3>1, <3>4, <3>7, <5>2, <5>3, <5>4 DEF ListInv
      <4> QED
        BY <4>1, <4>2
    <3> QED
      BY <2>1, <2>2, <3>2, <3>7 DEF ListInv
  <2> QED
    BY <2>4, <2>5
<1>4. CASE devfs_dir_open
  <2>1. Idx' = 0 /\ seen' = <<>> /\ rend' = FALSE /\ stay' = Names /\ nodes' = nodes
    BY <1>4, IdxSmall, Constants DEF devfs_dir_open
  <2>2. \A n : Given(n)' = {}
    BY <2>1 DEF Given
  <2>3. \A i \in Slots : ~(i <= 0)
    BY Constants DEF Slots
  <2> QED
    BY <2>1, <2>2, <2>3 DEF ListInv, Names, InUse
<1>5. ASSUME NEW base \in Bases, NEW off \in SeekArgs, vfs_seek_root(base, off)
      PROVE  ListInv'
  <2> DEFINE n == Idx'
  <2>1. seen' = <<>> /\ rend' = FALSE /\ nodes' = nodes /\ stay' = {nodes[i].name : i \in Later(n)}
    BY <1>5 DEF vfs_seek_root
  <2>2. n \in Nat
    <3>1. rpos' \in 0..(Word - 1)
      BY <1>5, SoughtType DEF vfs_seek_root, ListType
    <3>2. rpos' \in Nat /\ U32 \in Nat \ {0}
      BY <3>1, Constants
    <3>3. rpos' % U32 \in 0..(U32 - 1)
      BY <3>2, ModRange
    <3> QED
      BY <3>3 DEF Idx
  <2> HIDE DEF n
  <2>3. \A x : Given(x)' = {}
    BY <2>1 DEF Given
  <2>4. stay' \subseteq Names'
    BY <2>1 DEF Later, Names, InUse
  <2>5. ASSUME NEW i \in Slots, InUse(i), nodes[i].name \in stay'
        PROVE  i > n /\ ~(i <= n)
    <3>1. PICK k \in Later(n) : nodes[k].name = nodes[i].name
      BY <2>1, <2>5
    <3>2. k = i /\ i > n
      BY <3>1, <2>5 DEF Later, TableInv
    <3> QED
      BY <3>2, <2>2, Constants DEF Slots
  <2> QED
    BY <2>1, <2>3, <2>4, <2>5 DEF ListInv, InUse, n
<1> QED
  BY <1>1, <1>2, <1>3, <1>4, <1>5 DEF NodeNext

(* A listing that is where ListInv says gave each node at most once, and   *)
(* at its end once.                                                        *)
LEMMA ListGives == ListType /\ ListInv => ListedOnce
<1> SUFFICES ASSUME ListType, ListInv, NEW name \in stay
             PROVE  /\ Cardinality(Given(name)) <= 1
                    /\ rend => Cardinality(Given(name)) = 1
  BY DEF ListedOnce, Given
<1>1. PICK i \in Slots : InUse(i) /\ nodes[i].name = name
  BY DEF ListInv, Names
<1>2. Cardinality({}) = 0 /\ \A k : Cardinality({k}) = 1
  BY FS_EmptySet, FS_Singleton
<1>3. CASE i <= Idx
  <2>1. PICK k : Given(name) = {k}
    BY <1>1, <1>3 DEF ListInv
  <2> QED
    BY <1>2, <2>1
<1>4. CASE ~(i <= Idx)
  <2>1. ~rend
    BY <1>1, <1>4 DEF ListInv
  <2>2. i > Idx
    BY <1>4, IdxIs, Constants DEF Slots
  <2>3. Given(name) = {}
    BY <1>1, <2>2 DEF ListInv
  <2> QED
    BY <1>2, <2>1, <2>3
<1> QED
  BY <1>3, <1>4

-----------------------------------------------------------------------------
(* The disk *)

LEMMA InitDisk == DevfsInit => DiskInv
BY DevfsAssumption DEF DevfsInit, DiskInv, DiskAsWritten

(* A write that succeeds puts its bytes on the disk and leaves the others  *)
(* as they were, or, when it could not read them, marks them spoiled.      *)
LEMMA WriteStep ==
  ASSUME PosType, DiskInv, NEW n \in IoCounts, NEW rok \in BOOLEAN, NEW wok \in BOOLEAN,
         blkdev_write(n, rok, wok)
  PROVE  DiskInv'
<1> DEFINE B == Bytes(SectorsOf(n))
           In == {o \in Int : InRange(o, n)}
<1>1. In \subseteq B
  <2> SUFFICES ASSUME NEW o \in Int, InRange(o, n)
               PROVE  o \in B
    OBVIOUS
  <2>1. fpos["blk"] \in Nat /\ n \in Nat /\ SectorSize \in Nat \ {0}
    BY DevfsAssumption DEF PosType, Devices
  <2> QED
    BY <2>1, SectorsHold DEF InRange, Bytes, SectorsOf
<1>2. CASE ~wok
  BY <1>2 DEF blkdev_write, DiskInv, DiskAsWritten
<1>3. CASE wok
  <2>1. /\ disk' = [o \in DOMAIN disk |->
                      IF o \in B
                      THEN [x \in B |-> IF InRange(x, n) THEN writes + 1
                                        ELSE ReadBack(SectorsOf(n), rok)[x]][o]
                      ELSE disk[o]]
        /\ spoiled' = (IF rok THEN spoiled ELSE spoiled \cup B) \ {o \in B : InRange(o, n)}
        /\ wanted' = [o \in DOMAIN wanted |-> IF InRange(o, n) THEN writes + 1 ELSE wanted[o]]
    BY <1>3 DEF blkdev_write
  <2>2. DOMAIN disk' = DOMAIN disk /\ DOMAIN wanted' = DOMAIN wanted
    BY <2>1
  <2>3. ASSUME NEW o \in DOMAIN disk, o \notin spoiled'
        PROVE  disk'[o] = wanted'[o]
    <3>1. o \in Int /\ o \in DOMAIN wanted
      BY DEF DiskInv
    <3>2. wanted'[o] = IF InRange(o, n) THEN writes + 1 ELSE wanted[o]
      BY <2>1, <3>1
    <3>3. CASE o \in B /\ InRange(o, n)
      BY <2>1, <3>2, <3>3
    <3>4. CASE o \in B /\ ~InRange(o, n)
      <4>1. rok /\ o \notin spoiled
        BY <2>1, <2>3, <3>4
      <4>2. disk'[o] = ReadBack(SectorsOf(n), rok)[o]
        BY <2>1, <3>4
      <4>3. ReadBack(SectorsOf(n), rok)[o] = disk[o]
        BY <3>4, <4>1 DEF ReadBack
      <4> QED
        BY <3>2, <3>4, <4>1, <4>2, <4>3 DEF DiskInv, DiskAsWritten
    <3>5. CASE o \notin B
      <4>1. ~InRange(o, n)
        BY <1>1, <3>1, <3>5
      <4>2. o \notin spoiled
        BY <2>1, <2>3, <3>5
      <4>3. disk'[o] = disk[o]
        BY <2>1, <3>5
      <4> QED
        BY <3>2, <4>1, <4>2, <4>3 DEF DiskInv, DiskAsWritten
    <3> QED
      BY <3>3, <3>4, <3>5
  <2> QED
    BY <2>2, <2>3 DEF DiskInv, DiskAsWritten
<1> QED
  BY <1>2, <1>3

LEMMA DiskStep ==
  ASSUME PosType, DiskInv, DevfsNext
  PROVE  DiskInv'
<1>1. ASSUME NEW n \in IoCounts, NEW rok \in BOOLEAN, NEW wok \in BOOLEAN, blkdev_write(n, rok, wok)
      PROVE  DiskInv'
  BY <1>1, WriteStep
<1>2. ASSUME UNCHANGED <<disk, wanted, spoiled>>
      PROVE  DiskInv'
  BY <1>2 DEF DiskInv, DiskAsWritten
<1>3. CASE NodeNext
  BY <1>2, <1>3 DEF NodeNext, devfs_register, devfs_unregister, devfs_readdir, devfs_dir_open,
     vfs_seek_root, IoVars
<1>4. CASE CharNext
  BY <1>2, <1>4 DEF CharNext, fb_dev_io, fb_dev_llseek, fbctl_read, null_io, vfs_seek_node
<1>5. CASE IoNext
  BY <1>1, <1>2, <1>5 DEF IoNext, blkdev_read, blkdev_llseek
<1> QED
  BY <1>3, <1>4, <1>5 DEF DevfsNext

-----------------------------------------------------------------------------
(* The inductive invariant and what follows from it *)

DevfsInv == TypeParts /\ TableInv /\ ListInv /\ DiskInv

LEMMA DevfsInductive ==
  ASSUME DevfsInv, [DevfsNext]_DevfsVars
  PROVE  DevfsInv'
<1>a. TypeParts /\ TableInv /\ ListInv /\ DiskInv /\ NodeType /\ ListType /\ PosType
  BY DEF DevfsInv, TypeParts
<1>1. CASE NodeNext
  BY <1>a, <1>1, NodeTypes, TableStep, ListStep, DiskStep DEF DevfsNext, DevfsInv
<1>2. CASE IoNext \/ CharNext
  <2>1. TypeParts'
    BY <1>a, <1>2, IoTypes
  <2>2. DiskInv'
    BY <1>a, <1>2, DiskStep DEF DevfsNext
  <2>3. UNCHANGED NodeVars
    BY <1>2 DEF IoNext, CharNext, blkdev_read, blkdev_write, blkdev_llseek, fb_dev_io, fb_dev_llseek,
           fbctl_read, null_io, vfs_seek_node
  <2>4. TableInv' /\ ListInv'
    BY <1>a, <2>3 DEF NodeVars, TableInv, ListInv, InUse, Names, Given, Idx
  <2> QED
    BY <2>1, <2>2, <2>4 DEF DevfsInv
<1>3. CASE UNCHANGED DevfsVars
  <2>1. TypeParts'
    BY <1>a, <1>3 DEF DevfsVars, NodeVars, IoVars, TypeParts, NodeType, ListType, EndType, PosType
  <2>2. TableInv' /\ ListInv'
    BY <1>a, <1>3 DEF DevfsVars, NodeVars, TableInv, ListInv, InUse, Names, Given, Idx
  <2>3. DiskInv'
    BY <1>a, <1>3 DEF DevfsVars, IoVars, DiskInv, DiskAsWritten
  <2> QED
    BY <2>1, <2>2, <2>3 DEF DevfsInv
<1> QED
  BY <1>1, <1>2, <1>3 DEF DevfsNext

LEMMA DevfsAlways == DevfsSpec => []DevfsInv
<1>1. DevfsInit => DevfsInv
  BY InitType, InitList, InitDisk DEF DevfsInv
<1>2. DevfsInv /\ [DevfsNext]_DevfsVars => DevfsInv'
  BY DevfsInductive
<1> QED
  BY <1>1, <1>2, PTL DEF DevfsSpec

(* The nodes, the listing and the positions always have their types; the   *)
(* position of fb never passes the end, although fb_dev_llseek and the     *)
(* reads and writes compute it in 64 bits that wrap.  (vfs_seek may move   *)
(* those of the other devices and of the directory anywhere.)              *)
THEOREM DevfsTypeSafe == DevfsSpec => []DevfsTypeOK
<1>1. DevfsInv => DevfsTypeOK
  BY TypeIsParts DEF DevfsInv
<1> QED
  BY <1>1, DevfsAlways, PTL

(* devfs_readdir gives every node that stays registered exactly once, from *)
(* where the directory is opened or sought, for a table of any size and    *)
(* whatever devfs_register and devfs_unregister do to the slots around it  *)
(* between two calls.                                                      *)
THEOREM ListingExact == DevfsSpec => []ListedOnce
<1>1. DevfsInv => ListedOnce
  BY ListGives DEF DevfsInv, TypeParts
<1> QED
  BY <1>1, DevfsAlways, PTL

(* blkdev_write changes the bytes it is given and no others, for every     *)
(* sector size, position and count: the sectors it reads, changes and      *)
(* writes back hold the whole range.                                       *)
THEOREM WritesExact == DevfsSpec => []DiskAsWritten
<1>1. DevfsInv => DiskAsWritten
  BY DEF DevfsInv, DiskInv
<1> QED
  BY <1>1, DevfsAlways, PTL

-----------------------------------------------------------------------------
(* ext2: mounting *)

BgdtSteps == 2 * BgdtBlocks

(* The pages held before step k of the mount. *)
HeldAt(k) ==
    CASE k = 1 -> {}
      [] k \in 2..4 -> {"raw"}
      [] k = 5 -> {"raw", "priv"}
      [] k \in 6..(6 + BgdtSteps) -> {"raw", "priv", "bgdt"} \cup (IF k % 2 = 1 THEN {"tmp"} ELSE {})
      [] k \in {7 + BgdtSteps, 10 + BgdtSteps} -> {"priv", "bgdt"}
      [] k \in {8 + BgdtSteps, 9 + BgdtSteps} -> {"priv", "bgdt", "buf"}
      [] k = 11 + BgdtSteps -> {"priv", "bgdt", "copy"}
      [] k = 12 + BgdtSteps -> {"priv", "bgdt", "copy", "vino"}

MountInv ==
    /\ mstep \in 1..(12 + BgdtSteps)
    /\ mstate = "idle" => mstep = 1 /\ held = {}
    /\ mstate = "mounting" => held = HeldAt(mstep)
    /\ mstate = "failed" => held = {}

(* The fields of a step. *)
LEMMA StepFields ==
  ASSUME NEW x, NEW u
  PROVE  /\ Alloc(x, u).kind = "alloc" /\ Alloc(x, u).page = x /\ Alloc(x, u).undo = u
         /\ Check(x, u).kind = "check" /\ Check(x, u).undo = u
         /\ Free(x).kind = "free" /\ Free(x).page = x /\ Free(x).undo = {}
BY DEF Alloc, Check, Free

(* The step at each place of the list. *)
LEMMA MountList ==
  /\ BgdtSteps \in Nat /\ Len(ext2_mount_fs) = 12 + BgdtSteps /\ DOMAIN ext2_mount_fs = 1..(12 + BgdtSteps)
  /\ \A k \in 1..5 : ext2_mount_fs[k] = MountHead[k]
  /\ \A k \in 1..BgdtSteps : ext2_mount_fs[5 + k] = MountBgdt[k]
  /\ \A k \in 1..7 : ext2_mount_fs[5 + BgdtSteps + k] = MountRoot[k]
<1>1. BgdtSteps \in Nat
  BY Ext2Assumption DEF BgdtSteps
<1> DEFINE S == {MountHead[k] : k \in 1..5} \cup {MountBgdt[k] : k \in 1..BgdtSteps}
                                           \cup {MountRoot[k] : k \in 1..7}
<1>2. MountHead \in Seq(S) /\ Len(MountHead) = 5
  <2>1. \A k \in 1..5 : MountHead[k] \in S
    OBVIOUS
  <2>2. DOMAIN MountHead = 1..5 /\ MountHead = [k \in 1..5 |-> MountHead[k]]
    BY DEF MountHead
  <2> HIDE DEF S
  <2> QED
    BY <2>1, <2>2
<1>3. MountBgdt \in Seq(S) /\ Len(MountBgdt) = BgdtSteps
  <2>1. \A k \in 1..BgdtSteps : MountBgdt[k] \in S
    OBVIOUS
  <2>2. MountBgdt = [k \in 1..BgdtSteps |-> MountBgdt[k]]
    BY DEF MountBgdt, BgdtSteps
  <2> HIDE DEF S
  <2> QED
    BY <1>1, <2>1, <2>2
<1>4. MountRoot \in Seq(S) /\ Len(MountRoot) = 7
  <2>1. \A k \in 1..7 : MountRoot[k] \in S
    OBVIOUS
  <2>2. DOMAIN MountRoot = 1..7 /\ MountRoot = [k \in 1..7 |-> MountRoot[k]]
    BY DEF MountRoot
  <2> HIDE DEF S
  <2> QED
    BY <2>1, <2>2
<1> HIDE DEF S
<1>c. \A s, t \in Seq(S) :
        /\ s \o t \in Seq(S) /\ Len(s \o t) = Len(s) + Len(t)
        /\ \A k \in 1..Len(s) : (s \o t)[k] = s[k]
        /\ \A k \in 1..Len(t) : (s \o t)[Len(s) + k] = t[k]
  <2> TAKE s, t \in Seq(S)
  <2>1. Len(s) \in Nat /\ Len(t) \in Nat
    OBVIOUS
  <2>2. ASSUME NEW k \in 1..Len(t) PROVE (s \o t)[Len(s) + k] = t[k]
    <3>1. /\ Len(s) + k \in 1..(Len(s) + Len(t)) /\ ~(Len(s) + k <= Len(s))
          /\ (Len(s) + k) - Len(s) = k
      BY <2>1
    <3> QED
      BY <3>1, ConcatProperties
  <2> QED
    BY <2>1, <2>2, ConcatProperties
<1>5. /\ MountHead \o MountBgdt \in Seq(S) /\ Len(MountHead \o MountBgdt) = 5 + BgdtSteps
      /\ \A k \in 1..5 : (MountHead \o MountBgdt)[k] = MountHead[k]
      /\ \A k \in 1..BgdtSteps : (MountHead \o MountBgdt)[5 + k] = MountBgdt[k]
  <2> DEFINE h == MountHead
             b == MountBgdt
  <2>1. h \in Seq(S) /\ b \in Seq(S) /\ Len(h) = 5 /\ Len(b) = BgdtSteps
    BY <1>2, <1>3
  <2> HIDE DEF h, b
  <2>2. /\ h \o b \in Seq(S) /\ Len(h \o b) = Len(h) + Len(b)
        /\ \A k \in 1..Len(h) : (h \o b)[k] = h[k]
        /\ \A k \in 1..Len(b) : (h \o b)[Len(h) + k] = b[k]
    BY <2>1, <1>c, Zenon
  <2>3. /\ h \o b \in Seq(S) /\ Len(h \o b) = 5 + BgdtSteps
        /\ \A k \in 1..5 : (h \o b)[k] = h[k]
        /\ \A k \in 1..BgdtSteps : (h \o b)[5 + k] = b[k]
    BY <2>1, <2>2, Zenon
  <2> QED
    BY <2>3 DEF h, b
<1>6. /\ Len(ext2_mount_fs) = (5 + BgdtSteps) + 7
      /\ \A k \in 1..(5 + BgdtSteps) : ext2_mount_fs[k] = (MountHead \o MountBgdt)[k]
      /\ \A k \in 1..7 : ext2_mount_fs[5 + BgdtSteps + k] = MountRoot[k]
  <2> DEFINE a == MountHead \o MountBgdt
  <2>1. ext2_mount_fs = a \o MountRoot /\ a \in Seq(S) /\ Len(a) = 5 + BgdtSteps
    BY <1>5 DEF ext2_mount_fs
  <2> HIDE DEF a
  <2>2. /\ Len(ext2_mount_fs) = (5 + BgdtSteps) + 7
        /\ \A k \in 1..(5 + BgdtSteps) : ext2_mount_fs[k] = a[k]
        /\ \A k \in 1..7 : ext2_mount_fs[5 + BgdtSteps + k] = MountRoot[k]
    <3>1. /\ Len(a \o MountRoot) = Len(a) + Len(MountRoot)
          /\ \A k \in 1..Len(a) : (a \o MountRoot)[k] = a[k]
          /\ \A k \in 1..Len(MountRoot) : (a \o MountRoot)[Len(a) + k] = MountRoot[k]
      BY <1>4, <2>1, <1>c, Zenon
    <3> QED
      BY <1>4, <2>1, <3>1, Zenon
  <2> QED
    BY <2>2 DEF a
<1>d. DOMAIN ext2_mount_fs = 1..Len(ext2_mount_fs)
  <2> DEFINE a == MountHead \o MountBgdt
  <2>1. a \in Seq(S)
    BY <1>5
  <2> HIDE DEF a
  <2>2. a \o MountRoot \in Seq(S)
    BY <1>4, <1>c, <2>1, Zenon
  <2>3. ext2_mount_fs \in Seq(S)
    BY <2>2 DEF ext2_mount_fs, a
  <2> QED
    BY <2>3
<1>7. \A k \in 1..5 : k \in 1..(5 + BgdtSteps)
  BY <1>1
<1>8. \A k \in 1..BgdtSteps : 5 + k \in 1..(5 + BgdtSteps)
  BY <1>1
<1>9. (5 + BgdtSteps) + 7 = 12 + BgdtSteps
  BY <1>1
<1> QED
  BY <1>1, <1>5, <1>6, <1>7, <1>8, <1>9, <1>d, Zenon

(* What a failed step frees is what is held, and what is held after it.    *)
Undoes(k) ==
    LET s == ext2_mount_fs[k]
    IN  IF s.kind = "free" THEN s.undo = {} ELSE s.undo = HeldAt(k)
Advances(k) ==
    LET s == ext2_mount_fs[k]
    IN  HeldAt(k + 1) = CASE s.kind = "alloc" -> HeldAt(k) \cup {s.page}
                          [] s.kind = "free" -> HeldAt(k) \ {s.page}
                          [] OTHER -> HeldAt(k)

(* They follow from the pages held at k and after it. *)
LEMMA AllocStep ==
  ASSUME NEW k, NEW x, NEW u, ext2_mount_fs[k] = Alloc(x, u),
         HeldAt(k) = u, HeldAt(k + 1) = u \cup {x}
  PROVE  Undoes(k) /\ Advances(k)
<1>0. Alloc(x, u).kind = "alloc" /\ Alloc(x, u).page = x /\ Alloc(x, u).undo = u
  BY StepFields
<1>1. /\ ext2_mount_fs[k].kind = "alloc" /\ ext2_mount_fs[k].page = x
      /\ ext2_mount_fs[k].undo = u
  BY <1>0
<1>2. Undoes(k)
  BY <1>1 DEF Undoes
<1>3. Advances(k)
  BY <1>1 DEF Advances
<1> QED
  BY <1>2, <1>3

LEMMA CheckStep ==
  ASSUME NEW k, NEW x, NEW u, ext2_mount_fs[k] = Check(x, u), HeldAt(k) = u, HeldAt(k + 1) = u
  PROVE  Undoes(k) /\ Advances(k)
BY StepFields DEF Undoes, Advances

LEMMA FreeStep ==
  ASSUME NEW k, NEW x, ext2_mount_fs[k] = Free(x), HeldAt(k + 1) = HeldAt(k) \ {x}
  PROVE  Undoes(k) /\ Advances(k)
BY StepFields DEF Undoes, Advances

LEMMA MountTable ==
  ASSUME NEW k \in 1..(12 + BgdtSteps)
  PROVE  Undoes(k) /\ (k < 12 + BgdtSteps => Advances(k))
<1>n. BgdtSteps \in Nat /\ BgdtSteps % 2 = 0
  BY Ext2Assumption DEF BgdtSteps
<1>1. CASE k \in 1..5
  <2>1. ext2_mount_fs[k] = MountHead[k]
    BY <1>1, MountList
  <2>2. /\ HeldAt(1) = {} /\ HeldAt(2) = {"raw"} /\ HeldAt(3) = {"raw"} /\ HeldAt(4) = {"raw"}
        /\ HeldAt(5) = {"raw", "priv"} /\ HeldAt(6) = {"raw", "priv", "bgdt"}
    BY <1>n DEF HeldAt
  <2>3. CASE k = 1
    <3>1. ext2_mount_fs[k] = Alloc("raw", {})
      BY <2>1, <2>3 DEF MountHead
    <3>2. HeldAt(k) = {} /\ HeldAt(k + 1) = {} \cup {"raw"}
      BY <2>2, <2>3
    <3> QED BY <3>1, <3>2, AllocStep
  <2>4. CASE k \in {2, 3}
    <3>1. PICK x : ext2_mount_fs[k] = Check(x, {"raw"})
      BY <2>1, <2>4 DEF MountHead
    <3>2. HeldAt(k) = {"raw"} /\ HeldAt(k + 1) = {"raw"}
      BY <2>2, <2>4
    <3> QED BY <3>1, <3>2, CheckStep
  <2>5. CASE k = 4
    <3>1. ext2_mount_fs[k] = Alloc("priv", {"raw"})
      BY <2>1, <2>5 DEF MountHead
    <3>2. HeldAt(k) = {"raw"} /\ HeldAt(k + 1) = {"raw"} \cup {"priv"}
      BY <2>2, <2>5
    <3> QED BY <3>1, <3>2, AllocStep
  <2>6. CASE k = 5
    <3>1. ext2_mount_fs[k] = Alloc("bgdt", {"raw", "priv"})
      BY <2>1, <2>6 DEF MountHead
    <3>2. HeldAt(k) = {"raw", "priv"} /\ HeldAt(k + 1) = {"raw", "priv"} \cup {"bgdt"}
      BY <2>2, <2>6
    <3> QED BY <3>1, <3>2, AllocStep
  <2> QED
    BY <1>1, <2>3, <2>4, <2>5, <2>6
<1>2. CASE k \in 6..(5 + BgdtSteps)
  <2>1. k - 5 \in 1..BgdtSteps /\ ext2_mount_fs[k] = MountBgdt[k - 5]
    <3>1. k - 5 \in 1..BgdtSteps /\ 5 + (k - 5) = k
      BY <1>n, <1>2
    <3> QED
      BY <3>1, MountList
  <2>2. CASE k % 2 = 0
    <3>1. (k - 5) % 2 = 1 /\ (k + 1) % 2 = 1
      BY <1>2, <2>2
    <3>2. ext2_mount_fs[k] = Alloc("tmp", {"bgdt", "raw", "priv"})
      BY <2>1, <3>1 DEF MountBgdt, BgdtSteps
    <3>3. HeldAt(k) = {"raw", "priv", "bgdt"} /\ HeldAt(k + 1) = {"raw", "priv", "bgdt"} \cup {"tmp"}
      BY <1>n, <1>2, <2>2, <3>1 DEF HeldAt
    <3>4. {"raw", "priv", "bgdt"} = {"bgdt", "raw", "priv"}
      OBVIOUS
    <3> QED BY <3>2, <3>3, <3>4, AllocStep
  <2>3. CASE k % 2 = 1
    <3>1. (k - 5) % 2 = 0 /\ (k + 1) % 2 = 0
      BY <1>2, <2>3
    <3>2. ext2_mount_fs[k] = Free("tmp")
      BY <2>1, <3>1 DEF MountBgdt, BgdtSteps
    <3>3. HeldAt(k + 1) = {"raw", "priv", "bgdt"} /\ HeldAt(k) = {"raw", "priv", "bgdt"} \cup {"tmp"}
      BY <1>n, <1>2, <2>3, <3>1 DEF HeldAt
    <3>4. {"raw", "priv", "bgdt"} = ({"raw", "priv", "bgdt"} \cup {"tmp"}) \ {"tmp"}
      OBVIOUS
    <3> QED BY <3>2, <3>3, <3>4, FreeStep
  <2> QED
    BY <1>2, <2>2, <2>3
<1>3. CASE k \in (6 + BgdtSteps)..(12 + BgdtSteps)
  <2>1. PICK j \in 1..7 : k = 5 + BgdtSteps + j
    <3>1. k - 5 - BgdtSteps \in 1..7 /\ k = 5 + BgdtSteps + (k - 5 - BgdtSteps)
      BY <1>n, <1>3
    <3> QED
      BY <3>1
  <2>2. ext2_mount_fs[k] = MountRoot[j] /\ k = 5 + BgdtSteps + j /\ k + 1 = 6 + BgdtSteps + j
    BY <1>n, <2>1, MountList
  <2> DEFINE g == {"bgdt", "priv"}
             u == {"copy", "bgdt", "priv"}
             w == {"copy", "vino", "bgdt", "priv"}
  <2>3. /\ HeldAt(6 + BgdtSteps) = g \cup {"raw"} /\ HeldAt(7 + BgdtSteps) = g /\ HeldAt(10 + BgdtSteps) = g
        /\ HeldAt(8 + BgdtSteps) = g \cup {"buf"} /\ HeldAt(9 + BgdtSteps) = g \cup {"buf"}
        /\ HeldAt(11 + BgdtSteps) = u /\ HeldAt(12 + BgdtSteps) = w
    BY <1>n DEF HeldAt
  <2>4. g = (g \cup {"raw"}) \ {"raw"} /\ g = (g \cup {"buf"}) \ {"buf"}
    OBVIOUS
  <2>5. {"buf", "bgdt", "priv"} = g \cup {"buf"} /\ u = g \cup {"copy"} /\ w = u \cup {"vino"}
    OBVIOUS
  <2>6. CASE j = 1
    <3>1. ext2_mount_fs[k] = Free("raw")
      BY <2>2, <2>6 DEF MountRoot
    <3>2. HeldAt(k) = g \cup {"raw"} /\ HeldAt(k + 1) = g
      BY <1>n, <2>2, <2>3, <2>6
    <3> QED BY <3>1, <3>2, <2>4, FreeStep
  <2>7. CASE j = 2
    <3>1. ext2_mount_fs[k] = Alloc("buf", g)
      BY <2>2, <2>7 DEF MountRoot
    <3>2. HeldAt(k) = g /\ HeldAt(k + 1) = g \cup {"buf"}
      BY <1>n, <2>2, <2>3, <2>7
    <3> QED BY <3>1, <3>2, AllocStep
  <2>8. CASE j = 3
    <3>1. ext2_mount_fs[k] = Check("root inode", g \cup {"buf"})
      BY <2>2, <2>5, <2>8 DEF MountRoot
    <3>2. HeldAt(k) = g \cup {"buf"} /\ HeldAt(k + 1) = g \cup {"buf"}
      BY <1>n, <2>2, <2>3, <2>8
    <3> QED BY <3>1, <3>2, CheckStep
  <2>9. CASE j = 4
    <3>1. ext2_mount_fs[k] = Free("buf")
      BY <2>2, <2>9 DEF MountRoot
    <3>2. HeldAt(k) = g \cup {"buf"} /\ HeldAt(k + 1) = g
      BY <1>n, <2>2, <2>3, <2>9
    <3> QED BY <3>1, <3>2, <2>4, FreeStep
  <2>10. CASE j = 5
    <3>1. ext2_mount_fs[k] = Alloc("copy", g)
      BY <2>2, <2>10 DEF MountRoot
    <3>2. HeldAt(k) = g /\ HeldAt(k + 1) = g \cup {"copy"}
      BY <1>n, <2>2, <2>3, <2>5, <2>10
    <3> QED BY <3>1, <3>2, AllocStep
  <2>11. CASE j = 6
    <3>1. ext2_mount_fs[k] = Alloc("vino", u)
      BY <2>2, <2>11 DEF MountRoot
    <3>2. HeldAt(k) = u /\ HeldAt(k + 1) = u \cup {"vino"}
      BY <1>n, <2>2, <2>3, <2>5, <2>11
    <3> QED BY <3>1, <3>2, AllocStep
  <2>12. CASE j = 7
    <3>1. ext2_mount_fs[k] = Alloc("dentry", w)
      BY <2>2, <2>12 DEF MountRoot
    <3>2. HeldAt(k) = w /\ ~(k < 12 + BgdtSteps)
      BY <1>n, <2>2, <2>3, <2>12
    <3> QED BY <3>1, <3>2, StepFields DEF Undoes
  <2> QED
    BY <2>6, <2>7, <2>8, <2>9, <2>10, <2>11, <2>12
<1> QED
  BY <1>n, <1>1, <1>2, <1>3

(* MountInv holds at the start. *)
LEMMA MountInvInit == Ext2Init => MountInv
BY MountList DEF Ext2Init, MountInv

(* Every step keeps it. *)
LEMMA MountInvNext == MountInv /\ [Ext2Next]_Ext2Vars => MountInv'
<1> SUFFICES ASSUME MountInv, [Ext2Next]_Ext2Vars PROVE MountInv'
  OBVIOUS
<1>n. BgdtSteps \in Nat /\ Len(ext2_mount_fs) = 12 + BgdtSteps
  BY MountList
<1>1. CASE MountStart
  BY <1>n, <1>1 DEF MountInv, MountStart, HeldAt
<1>2. CASE MountStep
  <2>1. mstep \in 1..(12 + BgdtSteps) /\ held = HeldAt(mstep) /\ mstate = "mounting"
    BY <1>2 DEF MountInv, MountStep
  <2>2. CASE mstep = 12 + BgdtSteps
    BY <1>n, <1>2, <2>1, <2>2 DEF MountInv, MountStep
  <2>3. CASE mstep # 12 + BgdtSteps
    <3>1. Advances(mstep) /\ mstep + 1 \in 1..(12 + BgdtSteps)
      BY <1>n, <2>1, <2>3, MountTable
    <3>2. held' = HeldAt(mstep + 1) /\ mstate' = "mounting" /\ mstep' = mstep + 1
      BY <1>n, <1>2, <2>1, <2>3, <3>1 DEF MountStep, Advances
    <3> QED
      BY <3>1, <3>2 DEF MountInv
  <2> QED
    BY <2>2, <2>3
<1>3. CASE MountFail
  <2>1. mstep \in 1..(12 + BgdtSteps) /\ held = HeldAt(mstep) /\ mstep' = mstep /\ mstate' = "failed"
    BY <1>3 DEF MountInv, MountFail
  <2>2. ext2_mount_fs[mstep].undo = HeldAt(mstep)
    BY <1>3, <2>1, MountTable DEF Undoes, MountFail
  <2>3. held' = {}
    BY <1>3, <2>1, <2>2 DEF MountFail
  <2> QED
    BY <2>1, <2>3 DEF MountInv
<1>4. CASE ext2_unmount
  BY <1>4 DEF MountInv, ext2_unmount
<1>5. CASE UNCHANGED <<mstep, mstate, held>>
  BY <1>5 DEF MountInv
<1> QED
  BY <1>1, <1>2, <1>3, <1>4, <1>5 DEF Ext2Next, Ext2Vars, ReadChunk, ReadEnd, vfs_seek_dir, ext2_read,
     vfs_seek, ext2_readdir

(* ext2_mount_fs that fails, at whichever of its allocations and reads and *)
(* for any number of group descriptors, has freed all it had allocated and *)
(* freed nothing else.                                                     *)
THEOREM MountClean == Ext2Spec => []MountFailsClean
<1>1. MountInv => MountFailsClean
  <2> SUFFICES ASSUME MountInv PROVE MountFailsClean
    OBVIOUS
  <2>1. CASE mstate = "mounting"
    <3>1. Undoes(mstep) /\ held = HeldAt(mstep)
      BY <2>1, MountTable DEF MountInv
    <3>2. ext2_mount_fs[mstep].undo \subseteq held
      BY <3>1 DEF Undoes
    <3> QED
      BY <2>1, <3>2 DEF MountFailsClean
  <2> QED
    BY <2>1 DEF MountInv, MountFailsClean
<1> QED
  BY <1>1, MountInvInit, MountInvNext, PTL DEF Ext2Spec

-----------------------------------------------------------------------------
(* Arithmetic *)

(* The bytes of one block. *)
LEMMA SameBlock ==
  ASSUME NEW a \in Nat, NEW b \in Nat \ {0}, NEW j \in Nat, (a % b) + j < b
  PROVE  (a + j) \div b = a \div b /\ (a + j) % b = (a % b) + j
<1> DEFINE q == a \div b
           r == a % b
<1>1. q \in Nat /\ r \in 0..(b - 1) /\ a = b * q + r /\ r + j < b
  BY Divided
<1> HIDE DEF q, r
<1>2. a + j = b * q + (r + j) /\ r + j \in Nat
  BY <1>1
<1>3. (a + j) \div b = q /\ (a + j) % b = r + j
  BY <1>1, <1>2, DivMod
<1> QED
  BY <1>3 DEF q, r

(* A quotient below a bound. *)
LEMMA QuotientBelow ==
  ASSUME NEW a \in Nat, NEW b \in Nat \ {0}, NEW n \in Nat, a < b * n
  PROVE  a \div b < n
<1> DEFINE q == a \div b
           r == a % b
<1>1. q \in Nat /\ r \in 0..(b - 1) /\ a = b * q + r
  BY Divided
<1> HIDE DEF q, r
<1> SUFFICES ASSUME ~(q < n) PROVE FALSE
  BY DEF q
<1>2. PICK e \in Nat : q = n + e
  <2>1. q - n \in Nat /\ q = n + (q - n)
    BY <1>1
  <2> QED BY <2>1
<1>3. b * q = b * n + b * e /\ b * e \in Nat /\ b * n \in Nat
  BY <1>1, <1>2
<1> QED
  BY <1>1, <1>3

-----------------------------------------------------------------------------
(* The block map *)

LEMMA PtrsIs ==
  /\ Ptrs \in Nat \ {0} /\ Sq \in Nat \ {0} /\ Sq * Ptrs \in Nat \ {0} /\ Sq = Ptrs * Ptrs
  /\ BlockSize \in Nat \ {0} /\ Size \in Nat /\ NBlocks \in Nat /\ U64 \in Nat \ {0}
  /\ NBlocks = 12 + Ptrs + Sq + Sq * Ptrs
<1>1. Ptrs \in Nat \ {0} /\ BlockSize \in Nat \ {0} /\ Size \in Nat
  BY Ext2Assumption
<1>2. Sq \in Nat \ {0} /\ Sq = Ptrs * Ptrs
  BY <1>1 DEF Sq
<1>3. Sq * Ptrs \in Nat \ {0}
  BY <1>1, <1>2
<1>4. U64 \in Nat \ {0}
  <2>1. U64 \in Nat /\ Size + 0 < U64
    BY Ext2Assumption
  <2> QED
    BY <1>1, <2>1
<1>5. NBlocks = 12 + Ptrs + Sq + Sq * Ptrs
  BY DEF NBlocks
<1> QED
  BY <1>1, <1>2, <1>3, <1>4, <1>5

(* A pointer block that could not be read is the only excuse. *)
Excused(bad) == \E b \in bad : b[1] # "data"
Finds(x, y, bad) == x = y \/ (x = Unread /\ Excused(bad))

(* Where a block of the file is: not at the number a buffer happens to hold. *)
LEMMA DataIs ==
  ASSUME NEW l
  PROVE  Data(l) # Unread /\ (Data(l) = Absent \/ Data(l) = <<"data", l>>)
BY DEF Data, Absent, Unread

LEMMA PtrBlockIs ==
  ASSUME NEW kind \in {"single", "double", "triple"}, NEW l, NEW n
  PROVE  /\ PtrBlock(kind, l, n) # Unread
         /\ \/ PtrBlock(kind, l, n) = <<kind, l>> /\ <<kind, l>> \notin {Absent, Unread}
            \/ /\ PtrBlock(kind, l, n) = Absent
               /\ \A k \in l..(l + n - 1) : Data(k) = Absent
BY DEF PtrBlock, Absent, Unread

(* From a single indirect block to the data. *)
LEMMA ViaSingle ==
  ASSUME NEW l \in Nat, NEW i \in 0..(Ptrs - 1), NEW bad
  PROVE  Finds(Via(PtrBlock("single", l, Ptrs), i, bad), Data(l + i), bad)
<1> DEFINE b == <<"single", l>>
<1>1. CASE PtrBlock("single", l, Ptrs) = b /\ b \notin {Absent, Unread}
  <2>1. Via(b, i, bad) = Entry(b, i, bad)
    BY <1>1 DEF Via
  <2>2. CASE b \in bad
    <3>1. Entry(b, i, bad) = Unread
      BY <2>2 DEF Entry
    <3>2. Excused(bad)
      BY <2>2 DEF Excused
    <3> QED
      BY <1>1, <2>1, <3>1, <3>2 DEF Finds
  <2>3. CASE b \notin bad
    <3>1. Entry(b, i, bad) = Data(l + i)
      BY <2>3 DEF Entry
    <3> QED
      BY <1>1, <2>1, <3>1 DEF Finds
  <2> QED
    BY <2>2, <2>3
<1>2. CASE /\ PtrBlock("single", l, Ptrs) = Absent
           /\ \A k \in l..(l + Ptrs - 1) : Data(k) = Absent
  <2>1. l + i \in l..(l + Ptrs - 1)
    BY PtrsIs
  <2> QED
    BY <1>2, <2>1 DEF Via, Finds
<1> QED
  BY <1>1, <1>2, PtrBlockIs

(* Part i of n parts of m blocks. *)
LEMMA Part ==
  ASSUME NEW l \in Nat, NEW m \in Nat, NEW n \in Nat, NEW i \in 0..(n - 1)
  PROVE  (l + i * m)..((l + i * m) + m - 1) \subseteq l..(l + m * n - 1)
<1>1. PICK e \in Nat : n = i + 1 + e
  <2>1. n - i - 1 \in Nat /\ n = i + 1 + (n - i - 1)
    OBVIOUS
  <2> QED BY <2>1
<1>2. m * n = i * m + m + m * e /\ m * e \in Nat /\ i * m \in Nat /\ m * n \in Nat
  BY <1>1
<1> QED
  BY <1>2

(* From a double or triple indirect block to the one below. *)
LEMMA ViaUpper ==
  ASSUME NEW l \in Nat, NEW i \in 0..(Ptrs - 1), NEW bad,
         NEW kind, NEW below, NEW m \in Nat,
         \/ kind = "double" /\ below = "single" /\ m = Ptrs
         \/ kind = "triple" /\ below = "double" /\ m = Sq
  PROVE  Finds(Via(PtrBlock(kind, l, m * Ptrs), i, bad), PtrBlock(below, l + i * m, m), bad)
<1> DEFINE b == <<kind, l>>
<1>1. CASE PtrBlock(kind, l, m * Ptrs) = b /\ b \notin {Absent, Unread}
  <2>1. Via(b, i, bad) = Entry(b, i, bad)
    BY <1>1 DEF Via
  <2>2. CASE b \in bad
    <3>1. Entry(b, i, bad) = Unread
      BY <2>2 DEF Entry
    <3>2. Excused(bad)
      BY <2>2 DEF Excused
    <3> QED
      BY <1>1, <2>1, <3>1, <3>2 DEF Finds
  <2>3. CASE b \notin bad
    <3>1. Entry(b, i, bad) = PtrBlock(below, l + i * m, m)
      BY <2>3 DEF Entry
    <3> QED
      BY <1>1, <2>1, <3>1 DEF Finds
  <2> QED
    BY <2>2, <2>3
<1>2. CASE /\ PtrBlock(kind, l, m * Ptrs) = Absent
           /\ \A k \in l..(l + m * Ptrs - 1) : Data(k) = Absent
  <2>1. (l + i * m)..((l + i * m) + m - 1) \subseteq l..(l + m * Ptrs - 1)
    BY PtrsIs, Part
  <2>2. PtrBlock(below, l + i * m, m) = Absent
    BY <1>2, <2>1 DEF PtrBlock
  <2> QED
    BY <1>2, <2>2 DEF Via, Finds
<1> QED
  BY <1>1, <1>2, PtrBlockIs

(* One level more keeps what was found. *)
LEMMA ViaFinds ==
  ASSUME NEW x, NEW y, NEW z, NEW i, NEW bad,
         Finds(x, y, bad), Finds(Via(y, i, bad), z, bad)
  PROVE  Finds(Via(x, i, bad), z, bad)
<1>1. CASE x = y
  BY <1>1
<1>2. CASE x = Unread /\ Excused(bad)
  BY <1>2 DEF Finds, Via
<1> QED
  BY <1>1, <1>2 DEF Finds

(* ext2_block_map finds the block of the disk for every block of a file. *)
LEMMA BlockMapFinds ==
  ASSUME NEW lbn \in 0..(NBlocks - 1), NEW bad
  PROVE  Finds(ext2_block_map(lbn, bad), Data(lbn), bad)
<1> DEFINE s == lbn - 12
           d == s - Ptrs
           t == d - Sq
<1>p. /\ lbn \in Nat /\ lbn < 12 + Ptrs + Sq + Sq * Ptrs /\ s = lbn - 12 /\ d = s - Ptrs
      /\ t = d - Sq /\ s \in Int /\ d \in Int /\ t \in Int
  BY PtrsIs
<1>m. ext2_block_map(lbn, bad) =
        CASE lbn < 12 -> inode_block(lbn)
          [] lbn >= 12 /\ s < Ptrs -> Via(inode_block(12), s, bad)
          [] s >= Ptrs /\ d < Sq -> Via2(inode_block(13), d \div Ptrs, d % Ptrs, bad)
          [] OTHER -> Via3(inode_block(14), t \div Sq, (t \div Ptrs) % Ptrs, t % Ptrs, bad)
  BY DEF ext2_block_map
<1> HIDE DEF s, d, t
<1>1. CASE lbn < 12
  <2>1. ext2_block_map(lbn, bad) = inode_block(lbn) /\ inode_block(lbn) = Data(lbn)
    BY <1>m, <1>p, <1>1, PtrsIs DEF inode_block
  <2> QED
    BY <2>1 DEF Finds
<1>2. CASE lbn >= 12 /\ s < Ptrs
  <2>1. ext2_block_map(lbn, bad) = Via(PtrBlock("single", 12, Ptrs), s, bad)
    BY <1>m, <1>p, <1>2, PtrsIs DEF inode_block, First
  <2>2. s \in 0..(Ptrs - 1) /\ 12 + s = lbn
    BY <1>p, <1>2, PtrsIs
  <2> QED
    BY <2>1, <2>2, ViaSingle
<1>3. CASE s >= Ptrs /\ d < Sq
  <2> DEFINE i == d \div Ptrs
             j == d % Ptrs
             f == 12 + Ptrs
  <2>1. ext2_block_map(lbn, bad) = Via(Via(PtrBlock("double", f, Sq), i, bad), j, bad)
    BY <1>m, <1>p, <1>3, PtrsIs DEF inode_block, First, Via2
  <2>2. d \in Nat /\ d < Ptrs * Ptrs /\ f + d = lbn /\ f \in Nat
    BY <1>p, <1>3, PtrsIs
  <2>3. i \in Nat /\ j \in 0..(Ptrs - 1) /\ d = Ptrs * i + j /\ i < Ptrs
    BY <2>2, PtrsIs, Divided, QuotientBelow
  <2> HIDE DEF i, j, f
  <2>4. i \in 0..(Ptrs - 1) /\ i * Ptrs \in Nat /\ (f + i * Ptrs) + j = lbn /\ f + i * Ptrs \in Nat
    BY <2>2, <2>3, PtrsIs
  <2>5. Finds(Via(PtrBlock("double", f, Ptrs * Ptrs), i, bad), PtrBlock("single", f + i * Ptrs, Ptrs), bad)
    BY <2>2, <2>4, PtrsIs, ViaUpper
  <2>6. Finds(Via(PtrBlock("single", f + i * Ptrs, Ptrs), j, bad), Data((f + i * Ptrs) + j), bad)
    BY <2>3, <2>4, ViaSingle
  <2> QED
    BY <2>1, <2>4, <2>5, <2>6, PtrsIs, ViaFinds
<1>4. CASE d >= Sq
  <2> DEFINE u == t \div Ptrs
             i == t \div Sq
             j == u % Ptrs
             k == t % Ptrs
             f == 12 + Ptrs + Sq
  <2>1. ext2_block_map(lbn, bad) = Via(Via(Via(PtrBlock("triple", f, Sq * Ptrs), i, bad), j, bad), k, bad)
    BY <1>m, <1>p, <1>4, PtrsIs DEF inode_block, First, Via2, Via3
  <2>2. t \in Nat /\ t < Sq * Ptrs /\ f + t = lbn /\ f \in Nat
    BY <1>p, <1>4, PtrsIs
  <2>3. u \in Nat /\ k \in 0..(Ptrs - 1) /\ t = Ptrs * u + k
    BY <2>2, PtrsIs, Divided
  <2> HIDE DEF u
  <2> DEFINE v == u \div Ptrs
  <2>4. v \in Nat /\ j \in 0..(Ptrs - 1) /\ u = Ptrs * v + j
    BY <2>3, PtrsIs, Divided
  <2>5. i = v /\ i < Ptrs
    <3> HIDE DEF v, j, k
    <3>1. Ptrs * j + k \in Nat /\ Ptrs * j + k < Sq
      <4>1. PICK e \in Nat : Ptrs = j + 1 + e
        <5>1. Ptrs - j - 1 \in Nat /\ Ptrs = j + 1 + (Ptrs - j - 1)
          BY <2>4, PtrsIs
        <5> QED BY <5>1
      <4>2. Ptrs * Ptrs = Ptrs * j + Ptrs + Ptrs * e /\ Ptrs * e \in Nat /\ Ptrs * j \in Nat
        BY <2>4, <4>1, PtrsIs
      <4> QED
        BY <2>3, <4>2, PtrsIs
    <3>2. t = Sq * v + (Ptrs * j + k)
      <4>1. Ptrs * (Ptrs * v + j) = (Ptrs * Ptrs) * v + Ptrs * j
        BY <2>4, PtrsIs
      <4> QED
        BY <2>3, <2>4, <4>1, PtrsIs
    <3>3. t \div Sq = v
      BY <2>4, <3>1, <3>2, PtrsIs, DivMod
    <3>4. t \div Sq < Ptrs
      BY <2>2, PtrsIs, QuotientBelow
    <3> QED
      BY <3>3, <3>4
  <2> HIDE DEF i, j, k, f, v
  <2>6. i \in 0..(Ptrs - 1)
    BY <2>4, <2>5, PtrsIs
  <2> DEFINE g == f + i * Sq
             h == g + j * Ptrs
  <2>7. g \in Nat /\ h \in Nat
    BY <2>2, <2>4, <2>6, PtrsIs
  <2>8. h + k = lbn
    <3>1. Ptrs * (Ptrs * i + j) = i * (Ptrs * Ptrs) + j * Ptrs
      BY <2>4, <2>6, PtrsIs
    <3>2. t = i * Sq + j * Ptrs + k
      BY <2>3, <2>4, <2>5, <3>1, PtrsIs
    <3>3. i * Sq \in Nat /\ j * Ptrs \in Nat
      BY <2>4, <2>6, PtrsIs
    <3> QED
      BY <2>2, <2>3, <3>2, <3>3
  <2>9. Finds(Via(PtrBlock("triple", f, Sq * Ptrs), i, bad), PtrBlock("double", g, Sq), bad)
    BY <2>2, <2>6, PtrsIs, ViaUpper
  <2> HIDE DEF g
  <2>10. Finds(Via(PtrBlock("double", g, Ptrs * Ptrs), j, bad), PtrBlock("single", h, Ptrs), bad)
    BY <2>4, <2>7, PtrsIs, ViaUpper
  <2> HIDE DEF h
  <2>11. Finds(Via(PtrBlock("single", h, Ptrs), k, bad), Data(h + k), bad)
    BY <2>3, <2>7, ViaSingle
  <2>12. Finds(Via(Via(PtrBlock("triple", f, Sq * Ptrs), i, bad), j, bad), PtrBlock("single", h, Ptrs), bad)
    BY <2>9, <2>10, PtrsIs, ViaFinds
  <2> QED
    BY <2>1, <2>8, <2>11, <2>12, ViaFinds
<1> QED
  BY <1>p, <1>1, <1>2, <1>3, <1>4, PtrsIs

-----------------------------------------------------------------------------
(* Reading *)

Block == {"data", "none", "unread"} \X Nat
ReadCall == [from : Nat, count : Nat, out : Seq(Block \X Nat), bad : Unreadable \cup {{}},
         poor : {{}, 12..NBlocks}]
ReadType == pos \in 0..(U64 - 1) /\ last \in ReadCall

(* The call in progress began at f->pos and asks for no more than there is. *)
InFile == reading => pos = last.from /\ last.from + last.count <= Size

(* The parts of ReadFaithful. *)
Byte(a) == <<Data(a \div BlockSize), a % BlockSize>>
Correct(x, a, bad) == x = Byte(a) \/ (x[1] = Unread /\ Excused(bad))
BytesRight == \A k \in 1..Len(last.out) : Correct(last.out[k], last.from + k - 1, last.bad)
InBounds == Len(last.out) <= last.count /\ At <= Size
CutAtHole == ~reading /\ last.bad = {} /\ last.poor = {} /\ Len(last.out) < last.count =>
                Data(Lbn) = Absent

ReadInv == ReadType /\ InFile /\ BytesRight /\ InBounds /\ CutAtHole

LEMMA ReadInvImplies == ReadInv => ReadFaithful
<1> SUFFICES ASSUME ReadInv PROVE ReadFaithful
  OBVIOUS
<1>1. last.out \in Seq(Block \X Nat)
  BY DEF ReadInv, ReadType, ReadCall
<1>2. DOMAIN last.out = 1..Len(last.out)
  BY <1>1
<1> QED
  BY <1>2 DEF ReadInv, ReadFaithful, BytesRight, Correct, Byte, Excused, InBounds, CutAtHole

LEMMA ReadInvInit == Ext2Init => ReadInv
<1> SUFFICES ASSUME Ext2Init PROVE ReadInv
  OBVIOUS
<1>1. pos = 0 /\ ~reading /\ last = NoRead
  BY DEF Ext2Init
<1>2. /\ last.from = 0 /\ last.count = 0 /\ last.out = <<>> /\ last.bad = {} /\ last.poor = {}
      /\ Len(last.out) = 0
  BY <1>1 DEF NoRead
<1>3. last \in ReadCall
  <2>1. <<>> \in Seq(Block \X Nat)
    OBVIOUS
  <2> QED
    BY <1>1, <2>1 DEF NoRead, ReadCall
<1> QED
  BY <1>1, <1>2, <1>3, PtrsIs DEF ReadInv, ReadType, InFile, BytesRight, InBounds, CutAtHole, At

(* The block that the loop is at is one of the file. *)
LEMMA LbnInFile ==
  ASSUME ReadInv, reading, Len(last.out) < last.count
  PROVE  At \in Nat /\ Lbn \in 0..(NBlocks - 1)
<1>1. /\ last.from \in Nat /\ last.count \in Nat /\ Len(last.out) \in Nat
      /\ last.from + last.count <= Size
  BY DEF ReadInv, ReadType, ReadCall, InFile
<1>2. At \in Nat /\ At < Size
  BY <1>1, PtrsIs DEF At
<1>3. Size <= BlockSize * NBlocks /\ BlockSize * NBlocks \in Nat
  <2>1. Size <= BlockSize * (12 + Ptrs + Ptrs * Ptrs + Ptrs * Ptrs * Ptrs)
    BY Ext2Assumption
  <2>2. NBlocks = 12 + Ptrs + Ptrs * Ptrs + Ptrs * Ptrs * Ptrs
    BY DEF NBlocks, Sq
  <2> QED
    BY <2>1, <2>2, PtrsIs
<1>4. At < BlockSize * NBlocks
  BY <1>2, <1>3, PtrsIs
<1>5. At \div BlockSize \in Nat /\ At \div BlockSize < NBlocks
  BY <1>2, <1>4, PtrsIs, Divided, QuotientBelow
<1> QED
  BY <1>2, <1>5, PtrsIs DEF Lbn

(* ext2_read begins. *)
LEMMA ReadBegins ==
  ASSUME ReadInv, NEW c \in Counts, NEW bad \in Unreadable, NEW poor \in {{}, 12..NBlocks},
         ext2_read(c, bad, poor)
  PROVE  ReadInv'
<1> DEFINE n == IF (pos + c) % U64 > Size THEN Size - pos ELSE c
<1>1. /\ pos < Size /\ pos' = pos /\ reading' = TRUE
      /\ last' = [from |-> pos, count |-> n, out |-> <<>>, bad |-> bad, poor |-> poor]
  BY DEF ext2_read
<1>2. pos \in Nat /\ pos \in 0..(U64 - 1) /\ c \in Nat /\ Size + c < U64
  BY PtrsIs, Ext2Assumption DEF ReadInv, ReadType
<1>3. (pos + c) % U64 = pos + c
  <2>1. pos + c \in Nat /\ pos + c < U64
    BY <1>1, <1>2, PtrsIs
  <2> QED
    BY <2>1, PtrsIs
<1>4. n \in Nat /\ pos + n <= Size
  BY <1>1, <1>2, <1>3, PtrsIs
<1> HIDE DEF n
<1>5. /\ last'.from = pos /\ last'.count = n /\ last'.out = <<>> /\ Len(last'.out) = 0
      /\ last'.bad = bad /\ last'.poor = poor
  BY <1>1
<1>6. last' \in ReadCall
  <2>1. <<>> \in Seq(Block \X Nat)
    OBVIOUS
  <2> QED
    BY <1>1, <1>2, <1>4, <2>1 DEF ReadCall
<1>7. ReadType'
  BY <1>1, <1>2, <1>6 DEF ReadType
<1>8. InFile'
  BY <1>1, <1>4, <1>5 DEF InFile
<1>9. BytesRight'
  BY <1>5 DEF BytesRight
<1>10. InBounds'
  BY <1>1, <1>2, <1>4, <1>5, PtrsIs DEF InBounds, At
<1>11. CutAtHole'
  BY <1>1 DEF CutAtHole
<1> QED
  BY <1>7, <1>8, <1>9, <1>10, <1>11 DEF ReadInv

(* One round of the loop copies bytes of the block that the map found. *)
LEMMA ChunkRight ==
  ASSUME ReadInv, ReadChunk
  PROVE  ReadInv'
<1> DEFINE off == At % BlockSize
           rest == last.count - Len(last.out)
           chunk == IF BlockSize - off > rest THEN rest ELSE BlockSize - off
           more == [k \in 1..chunk |-> <<Phys, off + k - 1>>]
           n == Len(last.out)
<1>b. BlockSize \in Nat \ {0} /\ Size \in Nat
  BY PtrsIs
<1>1. /\ reading /\ reading' = reading /\ pos' = pos /\ holes' = holes
      /\ n < last.count /\ Phys # Absent
      /\ last' = [last EXCEPT !.out = @ \o more]
  BY DEF ReadChunk
<1>2. /\ last \in ReadCall /\ last.from \in Nat /\ last.count \in Nat /\ n \in Nat
      /\ last.out \in Seq(Block \X Nat) /\ At = last.from + n /\ At \in Nat
      /\ Lbn \in 0..(NBlocks - 1) /\ pos = last.from /\ last.from + last.count <= Size
      /\ pos \in 0..(U64 - 1) /\ n = Len(last.out)
  BY <1>1, LbnInFile DEF ReadInv, ReadType, ReadCall, InFile, At
<1>3. off \in 0..(BlockSize - 1) /\ chunk \in Nat /\ chunk <= rest /\ off + chunk <= BlockSize
      /\ rest = last.count - n
  <2>1. off \in 0..(BlockSize - 1)
    BY <1>2, PtrsIs, Divided
  <2>2. rest \in Nat /\ rest = last.count - n
    BY <1>1, <1>2
  <2> HIDE DEF off, rest, n
  <2> QED
    BY <2>1, <2>2, PtrsIs
<1> HIDE DEF n
<1>4. Finds(Phys, Data(Lbn), last.bad)
  BY <1>1, <1>2, BlockMapFinds DEF Phys
<1>5. Phys \in Block /\ (Phys = Data(Lbn) \/ (Phys = Unread /\ Excused(last.bad)))
  <2>1. Absent \in Block /\ Unread \in Block /\ <<"data", Lbn>> \in Block
    <3>1. Lbn \in Nat
      BY <1>2, PtrsIs
    <3> QED
      BY <3>1 DEF Absent, Unread, Block
  <2> QED
    BY <1>4, <2>1, DataIs DEF Finds
<1> HIDE DEF off, rest, chunk
<1>6. more \in Seq(Block \X Nat) /\ Len(more) = chunk
  <2>1. \A k \in 1..chunk : <<Phys, off + k - 1>> \in Block \X Nat
    BY <1>3, <1>5
  <2>2. more \in [1..chunk -> Block \X Nat]
    BY <2>1
  <2> HIDE DEF more
  <2> QED
    BY <1>3, <2>2
<1>7. /\ last.out \o more \in Seq(Block \X Nat) /\ Len(last.out \o more) = n + chunk
      /\ \A k \in 1..n : (last.out \o more)[k] = last.out[k]
      /\ \A k \in (n + 1)..(n + chunk) : (last.out \o more)[k] = <<Phys, off + (k - n) - 1>>
  <2>1. /\ last.out \o more \in Seq(Block \X Nat) /\ Len(last.out \o more) = n + chunk
        /\ \A k \in 1..(n + chunk) :
              (last.out \o more)[k] = IF k <= n THEN last.out[k] ELSE more[k - n]
    <3> HIDE DEF more
    <3> QED
      BY <1>2, <1>6, ConcatProperties
  <2>2. \A k \in (n + 1)..(n + chunk) : k - n \in 1..chunk /\ k \in 1..(n + chunk) /\ ~(k <= n)
    BY <1>2, <1>3
  <2>3. \A k \in 1..n : k \in 1..(n + chunk) /\ k <= n
    BY <1>2, <1>3
  <2>4. \A j \in 1..chunk : more[j] = <<Phys, off + j - 1>>
    OBVIOUS
  <2> HIDE DEF more
  <2> QED
    BY <2>1, <2>2, <2>3, <2>4
<1> DEFINE new == last.out \o more
<1> HIDE DEF more
<1>8. /\ last' \in ReadCall /\ last'.from = last.from /\ last'.count = last.count
      /\ last'.bad = last.bad /\ last'.poor = last.poor /\ last'.out = new
  <2>1. new \in Seq(Block \X Nat)
    BY <1>7
  <2> HIDE DEF new
  <2>2. last' = [last EXCEPT !.out = new]
    BY <1>1 DEF new
  <2> QED
    BY <1>2, <2>1, <2>2 DEF ReadCall
<1>9. /\ Len(new) = n + chunk
      /\ \A k \in 1..n : new[k] = last.out[k]
      /\ \A k \in (n + 1)..(n + chunk) : new[k] = <<Phys, off + (k - n) - 1>>
  BY <1>7
<1> HIDE DEF new
<1>n. /\ last.from \in Nat /\ last.count \in Nat /\ n \in Nat /\ chunk \in Nat /\ off \in Nat
      /\ n + chunk <= last.count /\ last.from + last.count <= Size /\ off + chunk <= BlockSize
      /\ At = last.from + n
  <2>1. /\ last.from \in Nat /\ last.count \in Nat /\ n \in Nat /\ At = last.from + n
        /\ last.from + last.count <= Size
    BY <1>2
  <2>2. off \in Nat /\ chunk \in Nat /\ off + chunk <= BlockSize /\ chunk <= last.count - n
    BY <1>b, <1>3
  <2> QED
    BY <2>1, <2>2
<1>10. ReadType' /\ InFile'
  BY <1>1, <1>2, <1>8 DEF ReadType, InFile
<1>11. InBounds'
  <2>1. At' = last.from + (n + chunk) /\ Len(last'.out) = n + chunk /\ last'.count = last.count
    BY <1>8, <1>9 DEF At
  <2>2. n + chunk <= last.count /\ last.from + (n + chunk) <= Size
    BY <1>b, <1>n
  <2> QED
    BY <2>1, <2>2 DEF InBounds
<1>12. CutAtHole'
  BY <1>1 DEF CutAtHole
<1>13. ASSUME NEW k \in 1..(n + chunk)
       PROVE  Correct(new[k], last.from + k - 1, last.bad)
  <2>1. CASE k <= n
    <3>1. k \in 1..n /\ BytesRight
      BY <1>2, <2>1 DEF ReadInv
    <3> QED
      BY <1>2, <1>9, <3>1 DEF BytesRight
  <2>2. CASE k > n
    <3> DEFINE j == k - n - 1
    <3>1. k \in (n + 1)..(n + chunk) /\ j \in Nat /\ off + j < BlockSize
          /\ last.from + k - 1 = At + j /\ off + (k - n) - 1 = off + j
      <4>1. k \in Nat /\ n \in Nat /\ off \in Nat /\ chunk \in Nat /\ k <= n + chunk /\ n < k
        BY <1>b, <1>2, <1>3, <2>2
      <4> QED
        BY <1>b, <1>n, <4>1
    <3>2. new[k] = <<Phys, off + j>>
      BY <1>9, <3>1
    <3> HIDE DEF j
    <3>3. (At + j) \div BlockSize = Lbn /\ (At + j) % BlockSize = off + j
      <4>1. (At % BlockSize) + j < BlockSize
        BY <3>1 DEF off
      <4>2. At \in Nat /\ BlockSize \in Nat \ {0} /\ j \in Nat
        BY <1>b, <1>2, <3>1
      <4>3. (At + j) \div BlockSize = At \div BlockSize /\ (At + j) % BlockSize = (At % BlockSize) + j
        BY <4>1, <4>2, SameBlock
      <4> QED
        BY <4>3, Zenon DEF off, Lbn
    <3>4. Byte(At + j) = <<Data(Lbn), off + j>>
      BY <3>3 DEF Byte
    <3>5. new[k][1] = Phys
      BY <3>2
    <3> QED
      BY <1>5, <3>1, <3>2, <3>4, <3>5 DEF Correct
  <2> QED
    BY <1>2, <2>1, <2>2
<1>14. BytesRight'
  BY <1>1, <1>8, <1>9, <1>13 DEF BytesRight, Correct, Byte, Data
<1> QED
  BY <1>10, <1>11, <1>12, <1>14 DEF ReadInv

(* The loop ends: where nothing failed, at a hole. *)
LEMMA EndRight ==
  ASSUME ReadInv, ReadEnd
  PROVE  ReadInv'
<1>1. /\ reading /\ reading' = FALSE /\ pos' = pos + Len(last.out) /\ last' = last /\ holes' = holes
      /\ Len(last.out) < last.count => Phys \in {Absent, Unread} \cup last.bad
  BY DEF ReadEnd
<1>2. /\ last \in ReadCall /\ last.from \in Nat /\ Len(last.out) \in Nat /\ pos = last.from
      /\ At = last.from + Len(last.out) /\ At <= Size
  BY <1>1 DEF ReadInv, ReadType, ReadCall, InFile, InBounds, At
<1>3. pos' \in 0..(U64 - 1)
  <2>1. Size < U64
    <3>1. Size + 0 < U64
      BY Ext2Assumption
    <3> QED BY <3>1, PtrsIs
  <2> QED
    BY <1>1, <1>2, <2>1, PtrsIs
<1>4. ReadType' /\ InFile' /\ InBounds'
  BY <1>1, <1>2, <1>3 DEF ReadInv, ReadType, InFile, InBounds, At
<1>5. BytesRight'
  BY <1>1 DEF ReadInv, BytesRight, Correct, Byte, Data
<1>6. ASSUME last.bad = {}, last.poor = {}, Len(last.out) < last.count
      PROVE  Data(Lbn) = Absent
  <2>1. Lbn \in 0..(NBlocks - 1)
    BY <1>1, <1>6, LbnInFile
  <2>2. Phys = ext2_block_map(Lbn, {})
    BY <1>6 DEF Phys
  <2>3. ext2_block_map(Lbn, {}) = Data(Lbn)
    BY <2>1, BlockMapFinds DEF Finds, Excused
  <2>4. Phys \in {Absent, Unread}
    BY <1>1, <1>6
  <2> QED
    BY <2>2, <2>3, <2>4, DataIs
<1>7. CutAtHole'
  BY <1>1, <1>6 DEF CutAtHole, Lbn, At, Data
<1> QED
  BY <1>4, <1>5, <1>7 DEF ReadInv

(* vfs_seek forgets the last read. *)
LEMMA SeekRight ==
  ASSUME ReadInv, NEW base \in {"SET", "CUR", "END"}, NEW o \in Offsets, vfs_seek(base, o)
  PROVE  ReadInv'
<1>1. /\ ~reading /\ reading' = reading /\ last' = NoRead
      /\ pos' = CASE base = "SET" -> o
                  [] base = "CUR" -> (pos + o) % U64
                  [] base = "END" -> (Size + o) % U64
  BY DEF vfs_seek
<1>2. o \in 0..(U64 - 1) /\ pos \in 0..(U64 - 1)
  BY Ext2Assumption DEF ReadInv, ReadType
<1>3. (pos + o) % U64 \in 0..(U64 - 1) /\ (Size + o) % U64 \in 0..(U64 - 1)
  <2>1. pos + o \in Nat /\ Size + o \in Nat
    BY <1>2, PtrsIs
  <2> QED
    BY <2>1, PtrsIs, Divided
<1>4. pos' \in 0..(U64 - 1)
  BY <1>1, <1>2, <1>3
<1>5. /\ last'.from = 0 /\ last'.count = 0 /\ last'.out = <<>> /\ last'.bad = {}
      /\ last'.poor = {} /\ Len(last'.out) = 0
  BY <1>1 DEF NoRead
<1>6. last' \in ReadCall
  <2>1. <<>> \in Seq(Block \X Nat)
    OBVIOUS
  <2> QED
    BY <1>1, <2>1 DEF NoRead, ReadCall
<1>7. ReadType' /\ InFile'
  BY <1>1, <1>4, <1>6 DEF ReadType, InFile
<1>8. BytesRight'
  BY <1>5 DEF BytesRight
<1>9. InBounds' /\ CutAtHole'
  BY <1>5, PtrsIs DEF InBounds, CutAtHole, At
<1> QED
  BY <1>7, <1>8, <1>9 DEF ReadInv

LEMMA ReadInvNext == ReadInv /\ [Ext2Next]_Ext2Vars => ReadInv'
<1> SUFFICES ASSUME ReadInv, [Ext2Next]_Ext2Vars PROVE ReadInv'
  OBVIOUS
<1>1. CASE UNCHANGED <<holes, pos, reading, last>>
  BY <1>1 DEF ReadInv, ReadType, InFile, BytesRight, InBounds, CutAtHole, At, Lbn, Correct, Byte, Data
<1>2. CASE MountStart \/ MountStep \/ MountFail \/ ext2_unmount
           \/ \E bad \in {{}, {1}} : ext2_readdir(bad)
  BY <1>1, <1>2 DEF MountStart, MountStep, MountFail, ext2_unmount, ext2_readdir
<1>3. CASE UNCHANGED Ext2Vars
  BY <1>1, <1>3 DEF Ext2Vars
<1>4. ASSUME NEW base, NEW off, vfs_seek_dir(base, off) PROVE ReadInv'
  BY <1>1, <1>4 DEF vfs_seek_dir
<1> QED
  BY <1>2, <1>3, <1>4, ReadBegins, ChunkRight, EndRight, SeekRight DEF Ext2Next

(* ext2_read returns the bytes of the file, through direct, single, double *)
(* and triple indirect blocks of any size, none beyond the end of the      *)
(* file, and without a failure stops early only at a hole.                 *)
THEOREM ReadsExact == Ext2Spec => []ReadFaithful
BY ReadInvInit, ReadInvNext, ReadInvImplies, PTL DEF Ext2Spec

-----------------------------------------------------------------------------
(* Directories *)

LEMMA DirentIs == Dirent = 1..Len(Dirents) /\ Len(Dirents) \in Nat
<1> DEFINE DirentRec == [off : Nat, rec : Nat \ {0}, ino : Nat, name : STRING]
<1>1. Dirents \in Seq(DirentRec)
  BY DirentsAssumption
<1> HIDE DEF DirentRec
<1> QED
  BY <1>1 DEF Dirent

LEMMA EntryIs ==
  ASSUME NEW i \in Dirent
  PROVE  /\ i \in 1..Len(Dirents) /\ i \in Nat /\ Offset(i) \in Nat /\ After(i) \in Nat
         /\ Offset(i) < After(i)
<1> DEFINE DirentRec == [off : Nat, rec : Nat \ {0}, ino : Nat, name : STRING]
<1>1. i \in 1..Len(Dirents) /\ Dirents[i] \in DirentRec
  <2>1. Dirents \in Seq(DirentRec)
    BY DirentsAssumption
  <2> HIDE DEF DirentRec
  <2> QED
    BY <2>1, DirentIs
<1>2. Dirents[i].off \in Nat /\ Dirents[i].rec \in Nat \ {0}
  BY <1>1
<1> QED
  BY <1>1, <1>2 DEF Offset, After

(* Records follow one another. *)
LEMMA OffsetsRise ==
  ASSUME NEW i \in Dirent, NEW j \in Dirent, i < j
  PROVE  After(i) <= Offset(j)
<1> DEFINE Bad == {k \in Dirent : i < k /\ ~(After(i) <= Offset(k))}
<1> SUFFICES ASSUME Bad # {} PROVE FALSE
  OBVIOUS
<1>1. PICK k \in Bad : \A l \in Bad : k <= l
  <2>1. Bad \subseteq Nat
    BY EntryIs
  <2> HIDE DEF Bad
  <2> QED
    BY <2>1, LeastExists
<1>2. /\ k \in Dirent /\ i < k /\ ~(After(i) <= Offset(k)) /\ k \in 1..Len(Dirents) /\ i \in Nat
      /\ i >= 1 /\ Len(Dirents) \in Nat
  BY EntryIs, DirentsAssumption
<1>3. k - 1 \in 1..(Len(Dirents) - 1) /\ k - 1 \in Dirent /\ (k - 1) + 1 = k
  BY <1>2, DirentIs
<1>4. Offset(k) = After(k - 1)
  <2>1. \A m \in 1..(Len(Dirents) - 1) : Dirents[m + 1].off = Dirents[m].off + Dirents[m].rec
    BY DirentsAssumption
  <2> QED
    BY <1>3, <2>1 DEF Offset, After
<1>5. CASE k - 1 = i
  BY <1>2, <1>4, <1>5, EntryIs
<1>6. CASE k - 1 # i
  <2>1. k - 1 \notin Bad
    BY <1>1, <1>2
  <2>2. After(i) <= Offset(k - 1)
    BY <1>2, <1>3, <1>6, <2>1
  <2>3. /\ Offset(k - 1) \in Nat /\ After(k - 1) \in Nat /\ Offset(k - 1) < After(k - 1)
        /\ After(i) \in Nat
    BY <1>3, EntryIs
  <2> QED
    BY <1>2, <1>4, <2>2, <2>3
<1> QED
  BY <1>5, <1>6

Before(o) == {i \in Dirent : Live(i) /\ Offset(i) < o}
Between(b, o) == {i \in Before(o) : b <= Offset(i)}
Places == (0..(U64 - 1)) \cup Ends
Rising == \A m, n \in 1..Len(listed) : m < n => listed[m] < listed[n]
Listed == {listed[m] : m \in 1..Len(listed)}
DirInv ==
    /\ listed \in Seq(Dirent) /\ dpos \in Places /\ begin \in Places /\ begin <= dpos
    /\ Rising /\ Listed = Between(begin, dpos)
AtEnd == dend => \A i \in Dirent : Live(i) /\ begin <= Offset(i) => Offset(i) < dpos

LEMMA PlaceIs == Places \subseteq Nat /\ 0 \in Places
BY EntryIs, Ext2Assumption DEF Places, Ends

(* Where vfs_seek on the directory goes. *)
LEMMA SeekPlace ==
  ASSUME NEW o \in Nat, NEW off \in Offsets
  PROVE  off \in Places /\ (o + off) % U64 \in Places /\ (DirSize + off) % U64 \in Places
<1>1. U64 \in Nat \ {0} /\ off \in 0..(U64 - 1)
  BY Ext2Assumption
<1>2. DirSize \in Nat
  <2>1. CASE Dirents = <<>>
    BY <2>1 DEF DirSize
  <2>2. CASE Dirents # <<>>
    <3> DEFINE DirentRec == [off : Nat, rec : Nat \ {0}, ino : Nat, name : STRING]
    <3>1. Dirents \in Seq(DirentRec)
      BY DirentsAssumption
    <3> HIDE DEF DirentRec
    <3>2. Len(Dirents) \in Dirent
      BY <2>2, <3>1, DirentIs
    <3>3. DirSize = After(Len(Dirents))
      BY <2>2 DEF DirSize
    <3> QED
      BY <3>2, <3>3, EntryIs
  <2> QED
    BY <2>1, <2>2
<1>3. (o + off) % U64 \in 0..(U64 - 1)
  BY <1>1, ModRange
<1>4. (DirSize + off) % U64 \in 0..(U64 - 1)
  BY <1>1, <1>2, ModRange
<1> QED
  BY <1>1, <1>3, <1>4 DEF Places

(* The entry that readdir gives is the first in use at or after f->pos. *)
LEMMA NextEntry ==
  ASSUME NEW o \in Nat, NEW bad, NEW m \in Dirent,
         m \in Seen(o, bad), Live(m), \A i \in Seen(o, bad) : Live(i) => m <= i
  PROVE  /\ Before(After(m)) = Before(o) \cup {m}
         /\ \A i \in Before(o) : i < m
<1>1. o <= Offset(m) /\ \A j \in Dirent : Offset(j) >= o /\ j <= m => ~Stops(j, bad)
  BY DEF Seen
<1>2. m \in Nat /\ Offset(m) \in Nat /\ After(m) \in Nat /\ Offset(m) < After(m)
  BY EntryIs
<1>3. ASSUME NEW i \in Before(o) PROVE i < m /\ i \in Before(After(m))
  <2>1. i \in Dirent /\ Live(i) /\ Offset(i) < o /\ i \in Nat /\ Offset(i) \in Nat
        /\ After(i) \in Nat
    BY EntryIs DEF Before
  <2>2. ~(m < i)
    <3> SUFFICES ASSUME m < i PROVE FALSE
      OBVIOUS
    <3>1. After(m) <= Offset(i)
      BY <2>1, OffsetsRise
    <3> QED
      BY <1>1, <1>2, <2>1, <3>1
  <2>3. i # m
    BY <1>1, <1>2, <2>1
  <2>4. Offset(i) < After(m)
    BY <1>1, <1>2, <2>1
  <2> QED
    BY <1>2, <2>1, <2>2, <2>3, <2>4 DEF Before
<1>4. m \in Before(After(m))
  BY <1>2 DEF Before
<1>5. ASSUME NEW i \in Before(After(m)), i \notin Before(o) PROVE i = m
  <2>1. i \in Dirent /\ Live(i) /\ Offset(i) < After(m) /\ i \in Nat /\ Offset(i) \in Nat
    BY EntryIs DEF Before
  <2>2. Offset(i) >= o
    BY <1>5, <2>1 DEF Before
  <2>3. ~(m < i)
    <3> SUFFICES ASSUME m < i PROVE FALSE
      OBVIOUS
    <3>1. After(m) <= Offset(i)
      BY <2>1, OffsetsRise
    <3> QED
      BY <1>2, <2>1, <3>1
  <2>4. i <= m
    BY <1>2, <2>1, <2>3
  <2>5. i \in Seen(o, bad)
    <3>1. ASSUME NEW j \in Dirent, Offset(j) >= o, j <= i PROVE ~Stops(j, bad)
      <4>1. j <= m
        BY <1>2, <2>1, <2>4, <3>1, EntryIs
      <4> QED
        BY <1>1, <3>1, <4>1
    <3> QED
      BY <2>1, <2>2, <3>1 DEF Seen
  <2>6. m <= i
    BY <2>1, <2>5
  <2> QED
    BY <1>2, <2>1, <2>4, <2>6
<1> QED
  BY <1>3, <1>4, <1>5

(* When readdir finds none, and every block was read, there is none. *)
LEMMA NoEntry ==
  ASSUME NEW o \in Nat, {i \in Seen(o, {}) : Live(i)} = {}
  PROVE  \A i \in Dirent : Live(i) => Offset(i) < o
<1> SUFFICES ASSUME NEW i \in Dirent, Live(i), ~(Offset(i) < o) PROVE FALSE
  OBVIOUS
<1>1. i \in Nat /\ Offset(i) \in Nat /\ Offset(i) >= o
  BY EntryIs
<1>2. ASSUME NEW j \in Dirent, j <= i PROVE ~Stops(j, {})
  <2>1. ~(Dirents[j].rec < DirentHeader)
    BY <1>2, DirentsAssumption DEF Dirent, Live
  <2> QED
    BY <2>1 DEF Stops
<1> QED
  BY <1>1, <1>2 DEF Seen

(* The first of the entries. *)
LEMMA FirstEntry ==
  ASSUME NEW s, s \subseteq Dirent, s # {}
  PROVE  Min(s) \in s /\ \A i \in s : Min(s) <= i
<1>1. s \subseteq Nat
  BY EntryIs
<1> QED
  BY <1>1, MinLeast

(* One more entry at the end of the listing. *)
LEMMA AppendEntry ==
  ASSUME listed \in Seq(Dirent), Rising, NEW m \in Dirent, \A i \in Listed : i < m,
         listed' = Append(listed, m)
  PROVE  listed' \in Seq(Dirent) /\ Rising' /\ Listed' = Listed \cup {m}
<1> DEFINE n == Len(listed)
<1>1. /\ n \in Nat /\ listed' \in Seq(Dirent) /\ Len(listed') = n + 1 /\ listed'[n + 1] = m
      /\ \A k \in 1..n : listed'[k] = listed[k]
  OBVIOUS
<1>2. \A k \in 1..n : listed[k] \in Listed
  BY DEF Listed
<1> HIDE DEF n
<1>3. Rising'
  <2> SUFFICES ASSUME NEW a \in 1..(n + 1), NEW b \in 1..(n + 1), a < b
               PROVE  listed'[a] < listed'[b]
    BY <1>1 DEF Rising
  <2>1. a \in 1..n
    BY <1>1
  <2>2. CASE b = n + 1
    BY <1>1, <1>2, <2>1, <2>2
  <2>3. CASE b # n + 1
    <3>1. b \in 1..n
      BY <1>1, <2>3
    <3> QED
      BY <1>1, <2>1, <3>1 DEF Rising, n
  <2> QED
    BY <2>2, <2>3
<1>4. Listed' = Listed \cup {m}
  <2>1. Listed' = {listed'[k] : k \in 1..(n + 1)}
    BY <1>1 DEF Listed
  <2>2. Listed = {listed[k] : k \in 1..n}
    BY DEF Listed, n
  <2>3. 1..(n + 1) = 1..n \cup {n + 1}
    BY <1>1
  <2> QED
    BY <1>1, <2>1, <2>2, <2>3
<1> QED
  BY <1>1, <1>3, <1>4

LEMMA DirInvInit == Ext2Init => DirInv /\ AtEnd
<1> SUFFICES ASSUME Ext2Init PROVE DirInv /\ AtEnd
  OBVIOUS
<1>1. dpos = 0 /\ begin = 0 /\ listed = <<>> /\ ~dend
  BY DEF Ext2Init
<1>2. Between(0, 0) = {}
  BY EntryIs DEF Before, Between
<1>3. Len(listed) = 0 /\ listed \in Seq(Dirent)
  BY <1>1
<1>4. Listed = {} /\ Rising
  BY <1>3 DEF Listed, Rising
<1> QED
  BY <1>1, <1>2, <1>3, <1>4, PlaceIs DEF DirInv, AtEnd

(* ext2_readdir *)
LEMMA ReaddirGives ==
  ASSUME DirInv, AtEnd, NEW bad, ext2_readdir(bad)
  PROVE  DirInv' /\ AtEnd'
<1> DEFINE s == {i \in Seen(dpos, bad) : Live(i)}
<1>1. /\ dpos \in Nat /\ begin \in Nat /\ begin <= dpos /\ begin \in Places
      /\ listed \in Seq(Dirent) /\ Rising /\ Listed = Between(begin, dpos)
  BY PlaceIs DEF DirInv
<1>b. begin' = begin
  BY DEF ext2_readdir
<1>2. CASE s # {}
  <2> DEFINE m == Min(s)
  <2>1. listed' = Append(listed, m) /\ dpos' = After(m) /\ dend' = FALSE
    BY <1>2 DEF ext2_readdir
  <2>2. s \subseteq Dirent
    BY DEF Seen
  <2>3. m \in s /\ \A i \in s : m <= i
    <3> HIDE DEF s
    <3> QED BY <1>2, <2>2, FirstEntry
  <2>4. m \in Dirent /\ m \in Seen(dpos, bad) /\ Live(m) /\ \A i \in Seen(dpos, bad) : Live(i) => m <= i
    BY <2>2, <2>3
  <2> HIDE DEF m, s
  <2>5. Before(After(m)) = Before(dpos) \cup {m} /\ \A i \in Before(dpos) : i < m
    BY <1>1, <2>4, NextEntry
  <2>6. listed' \in Seq(Dirent) /\ Rising' /\ Listed' = Listed \cup {m}
    <3>1. \A i \in Listed : i < m
      BY <1>1, <2>5 DEF Between
    <3> QED
      BY <1>1, <2>1, <2>4, <3>1, AppendEntry
  <2>7. begin <= Offset(m) /\ begin <= After(m)
    <3>1. dpos <= Offset(m)
      BY <2>4 DEF Seen
    <3> QED
      BY <1>1, <2>4, <3>1, EntryIs
  <2>8. Between(begin, dpos)' = Listed \cup {m}
    <3>1. Between(begin, dpos)' = Between(begin, After(m))
      BY <1>b, <2>1 DEF Between, Before
    <3>2. Between(begin, After(m)) = Between(begin, dpos) \cup {m}
      BY <2>5, <2>7 DEF Between
    <3> QED
      BY <1>1, <3>1, <3>2
  <2>9. dpos' \in Places
    BY <2>1, <2>4 DEF Places, Ends
  <2> QED
    BY <1>1, <1>b, <2>1, <2>6, <2>7, <2>8, <2>9 DEF DirInv, AtEnd, Places
<1>3. CASE s = {}
  <2>1. dend' = (bad = {}) /\ UNCHANGED <<listed, dpos>>
    BY <1>3 DEF ext2_readdir
  <2>2. DirInv'
    BY <1>b, <2>1 DEF DirInv, Rising, Listed, Before, Between
  <2>3. dend' => \A i \in Dirent : Live(i) => Offset(i) < dpos
    <3> SUFFICES ASSUME bad = {} PROVE \A i \in Dirent : Live(i) => Offset(i) < dpos
      BY <2>1
    <3> QED
      BY <1>1, <1>3, NoEntry
  <2> QED
    BY <1>b, <2>1, <2>2, <2>3 DEF AtEnd
<1> QED
  BY <1>2, <1>3

LEMMA DirInvNext == DirInv /\ AtEnd /\ [Ext2Next]_Ext2Vars => DirInv' /\ AtEnd'
<1> SUFFICES ASSUME DirInv, AtEnd, [Ext2Next]_Ext2Vars PROVE DirInv' /\ AtEnd'
  OBVIOUS
<1>1. CASE UNCHANGED <<dpos, begin, listed, dend>>
  BY <1>1 DEF DirInv, AtEnd, Rising, Listed, Before, Between
<1>2. ASSUME NEW base \in {"SET", "CUR", "END"}, NEW off \in Offsets, vfs_seek_dir(base, off)
      PROVE  DirInv' /\ AtEnd'
  <2>1. begin' = dpos' /\ listed' = <<>> /\ dend' = FALSE
    BY <1>2 DEF vfs_seek_dir
  <2>2. dpos' \in Places
    <3>1. dpos \in Nat
      BY PlaceIs DEF DirInv
    <3>2. off \in Places /\ (dpos + off) % U64 \in Places /\ (DirSize + off) % U64 \in Places
      BY <3>1, SeekPlace
    <3> QED
      BY <1>2, <3>2 DEF vfs_seek_dir
  <2>3. Len(listed') = 0 /\ listed' \in Seq(Dirent)
    BY <2>1
  <2>4. Listed' = {} /\ Rising'
    BY <2>3 DEF Listed, Rising
  <2>5. Between(begin, dpos)' = {}
    <3>1. dpos' \in Nat
      BY <2>2, PlaceIs
    <3> QED
      BY <2>1, <3>1, EntryIs DEF Between, Before
  <2>6. begin' \in Places' /\ dpos' \in Places' /\ begin' <= dpos'
    BY <2>1, <2>2, PlaceIs DEF Places
  <2> QED
    BY <2>1, <2>3, <2>4, <2>5, <2>6 DEF DirInv, AtEnd
<1>3. CASE \/ MountStart \/ MountStep \/ MountFail \/ ext2_unmount \/ ReadChunk \/ ReadEnd
           \/ UNCHANGED Ext2Vars
  BY <1>1, <1>3 DEF MountStart, MountStep, MountFail, ext2_unmount, ReadChunk, ReadEnd, Ext2Vars
<1>4. CASE \E c \in Counts, bad \in Unreadable, poor \in {{}, 12..NBlocks} : ext2_read(c, bad, poor)
  BY <1>1, <1>4 DEF ext2_read
<1>5. CASE \E base \in {"SET", "CUR", "END"}, off \in Offsets : vfs_seek(base, off)
  BY <1>1, <1>5 DEF vfs_seek
<1> QED
  BY <1>2, <1>3, <1>4, <1>5, ReaddirGives DEF Ext2Next

(* A name in use is found where it is. *)
LEMMA LookupFinds ==
  ASSUME NEW i \in Dirent, Live(i)
  PROVE  ext2_lookup(Dirents[i].name, {}) = Dirents[i].ino
<1> DEFINE s == {j \in Seen(0, {}) : Live(j) /\ Dirents[j].name = Dirents[i].name}
<1>1. \A j \in s : j = i
  BY DirentsAssumption DEF Seen, Live, Dirent
<1>2. i \in s
  <2>1. i \in Nat /\ Offset(i) \in Nat
    BY EntryIs
  <2>2. ASSUME NEW j \in Dirent, j <= i PROVE ~Stops(j, {})
    <3>1. ~(Dirents[j].rec < DirentHeader)
      BY <2>2, DirentsAssumption DEF Dirent, Live
    <3> QED
      BY <3>1 DEF Stops
  <2> QED
    BY <2>1, <2>2 DEF Seen
<1>3. s \subseteq Dirent
  BY <1>1
<1>4. ext2_lookup(Dirents[i].name, {}) = IF s = {} THEN 0 ELSE Dirents[Min(s)].ino
  BY DEF ext2_lookup
<1> HIDE DEF s
<1>5. Min(s) = i
  BY <1>1, <1>2, <1>3, FirstEntry
<1> QED
  BY <1>2, <1>4, <1>5

(* readdir called again and again gives every entry in use once and in     *)
(* order, from the start or from where the directory was sought, whichever *)
(* entries are deleted and whichever calls fail, and lookup finds them,    *)
(* for every directory.                                                    *)
THEOREM ListsAll == Ext2Spec => []DirComplete
<1>1. DirInv /\ AtEnd => DirComplete
  <2> SUFFICES ASSUME DirInv, AtEnd PROVE DirComplete
    OBVIOUS
  <2>1. DOMAIN listed = 1..Len(listed)
    BY DEF DirInv
  <2>2. Range(listed) = Between(begin, dpos)
    BY <2>1 DEF DirInv, Range, Listed
  <2>3. Between(begin, dpos) = {i \in Dirent : Live(i) /\ begin <= Offset(i) /\ Offset(i) < dpos}
    BY DEF Between, Before
  <2> QED
    BY <2>1, <2>2, <2>3, LookupFinds DEF DirInv, AtEnd, Rising, DirComplete
<1> QED
  BY <1>1, DirInvInit, DirInvNext, PTL DEF Ext2Spec

-----------------------------------------------------------------------------
(* Types *)

PageRoles == {"raw", "priv", "bgdt", "tmp", "buf", "copy", "vino", "dentry"}
RestType ==
    /\ opened_is \in {"file", "dir"} /\ holes \in Holes \cup {{}}
    /\ mstate \in {"idle", "mounting", "mounted", "failed", "unmounted"}
    /\ held \subseteq PageRoles
Flags == reading \in BOOLEAN /\ dend \in BOOLEAN

LEMMA HeldPages ==
  ASSUME NEW k \in 1..(12 + BgdtSteps)
  PROVE  HeldAt(k) \subseteq PageRoles
<1>1. BgdtSteps \in Nat
  BY MountList
<1>2. \/ k = 1 \/ k \in 2..4 \/ k = 5 \/ k \in 6..(6 + BgdtSteps) \/ k \in {7 + BgdtSteps, 10 + BgdtSteps}
      \/ k \in {8 + BgdtSteps, 9 + BgdtSteps} \/ k = 11 + BgdtSteps \/ k = 12 + BgdtSteps
  BY <1>1
<1> QED
  BY <1>1, <1>2 DEF HeldAt, PageRoles

LEMMA RestTypeNext == MountInv /\ RestType /\ [Ext2Next]_Ext2Vars => RestType'
<1> SUFFICES ASSUME MountInv, RestType, [Ext2Next]_Ext2Vars PROVE RestType'
  OBVIOUS
<1>1. CASE MountStep
  <2>1. mstep \in 1..(12 + BgdtSteps) /\ held = HeldAt(mstep) /\ mstate = "mounting" /\ Len(ext2_mount_fs) = 12 + BgdtSteps
    BY <1>1, MountList DEF MountInv, MountStep
  <2>2. held' \subseteq PageRoles
    <3>1. CASE mstep = 12 + BgdtSteps
      <4>1. BgdtSteps \in Nat /\ 5 + BgdtSteps + 7 = 12 + BgdtSteps
        BY MountList
      <4>2. ext2_mount_fs[mstep] = MountRoot[7]
        BY <3>1, <4>1, MountList
      <4>3. ext2_mount_fs[mstep].kind = "alloc" /\ ext2_mount_fs[mstep].page = "dentry"
        BY <4>2, StepFields DEF MountRoot
      <4>4. held' = held \cup {"dentry"}
        BY <1>1, <4>3 DEF MountStep
      <4> QED
        BY <4>4 DEF RestType, PageRoles
    <3>2. CASE mstep # 12 + BgdtSteps
      <4>n. BgdtSteps \in Nat
        BY MountList
      <4>1. BgdtSteps \in Nat /\ mstep + 1 \in 1..(12 + BgdtSteps) /\ mstep < 12 + BgdtSteps
        BY <2>1, <3>2, <4>n
      <4>2. held' = HeldAt(mstep + 1)
        BY <1>1, <2>1, <4>1, MountTable DEF Advances, MountStep
      <4> QED
        BY <4>1, <4>2, HeldPages
    <3> QED
      BY <3>1, <3>2
  <2> QED
    BY <1>1, <2>2 DEF MountStep, RestType
<1>2. CASE MountStart \/ MountFail \/ ext2_unmount
  BY <1>2 DEF MountStart, MountFail, ext2_unmount, RestType
<1>3. CASE UNCHANGED <<opened_is, holes, mstate, held>>
  BY <1>3 DEF RestType
<1> QED
  BY <1>1, <1>2, <1>3 DEF Ext2Next, Ext2Vars, ReadChunk, ReadEnd, vfs_seek_dir, ext2_read, vfs_seek,
     ext2_readdir

LEMMA FlagsNext == Flags /\ [Ext2Next]_Ext2Vars => Flags'
<1> SUFFICES ASSUME Flags, [Ext2Next]_Ext2Vars PROVE Flags'
  OBVIOUS
<1>1. CASE UNCHANGED <<reading, dend>>
  BY <1>1 DEF Flags
<1>2. CASE MountStart \/ MountStep \/ MountFail \/ ext2_unmount \/ ReadChunk \/ UNCHANGED Ext2Vars
  BY <1>1, <1>2 DEF MountStart, MountStep, MountFail, ext2_unmount, ReadChunk, Ext2Vars
<1>3. CASE ReadEnd
  BY <1>3 DEF ReadEnd, Flags
<1>4. ASSUME NEW c, NEW bad, NEW poor, ext2_read(c, bad, poor) PROVE Flags'
  BY <1>4 DEF ext2_read, Flags
<1>5. ASSUME NEW base, NEW off, vfs_seek(base, off) PROVE Flags'
  BY <1>1, <1>5 DEF vfs_seek
<1>6. ASSUME NEW base, NEW off, vfs_seek_dir(base, off) PROVE Flags'
  BY <1>6 DEF vfs_seek_dir, Flags
<1>7. ASSUME NEW bad, ext2_readdir(bad) PROVE Flags'
  <2>1. reading' = reading /\ (dend' = FALSE \/ dend' = (bad = {}))
    BY <1>7 DEF ext2_readdir
  <2>2. (bad = {}) \in BOOLEAN
    OBVIOUS
  <2> QED
    BY <2>1, <2>2 DEF Flags
<1> QED
  BY <1>2, <1>3, <1>4, <1>5, <1>6, <1>7 DEF Ext2Next

(* Every variable of ext2 keeps its type, for every disk. *)
THEOREM Ext2TypeSafe == Ext2Spec => []Ext2TypeOK
<1> DEFINE I == MountInv /\ ReadInv /\ DirInv /\ AtEnd /\ RestType /\ Flags
<1>1. Ext2Init => I
  <2>1. Ext2Init => RestType
    BY DEF Ext2Init, RestType
  <2>2. Ext2Init => Flags
    BY DEF Ext2Init, Flags
  <2> QED
    BY <2>1, <2>2, MountInvInit, ReadInvInit, DirInvInit
<1>2. I /\ [Ext2Next]_Ext2Vars => I'
  BY MountInvNext, ReadInvNext, DirInvNext, RestTypeNext, FlagsNext
<1>3. I => Ext2TypeOK
  <2> SUFFICES ASSUME I PROVE Ext2TypeOK
    OBVIOUS
  <2>1. mstep \in DOMAIN ext2_mount_fs
    BY MountList DEF MountInv
  <2> QED
    BY <2>1 DEF ReadInv, ReadType, DirInv, Places, RestType, Flags, PageRoles, Ext2TypeOK
<1> QED
  BY <1>1, <1>2, <1>3, PTL DEF Ext2Spec

-----------------------------------------------------------------------------
(* The four components side by side: MCFs *)

(* A step of the whole is one of a component, and no step of the others.   *)
LEMMA FsSteps ==
  ASSUME [Next]_fsVars
  PROVE  [FilesNext]_FilesVars /\ [VfsNext]_VfsVars /\ [Ext2Next]_Ext2Vars /\ [DevfsNext]_DevfsVars
<1>1. CASE UNCHANGED fsVars
  BY <1>1 DEF fsVars
<1>2. CASE Next
  BY <1>2 DEF Next, DevfsNext
<1> QED
  BY <1>1, <1>2

(* The whole does what each component does alone.                          *)
LEMMA FsComponents == Spec => FilesSpec /\ VfsSpec /\ Ext2Spec /\ DevfsSpec
<1>1. Init => FilesInit /\ VfsInit /\ Ext2Init /\ DevfsInit
  BY DEF Init
<1>2. [Next]_fsVars => [FilesNext]_FilesVars /\ [VfsNext]_VfsVars /\ [Ext2Next]_Ext2Vars /\ [DevfsNext]_DevfsVars
  BY FsSteps
<1> QED
  BY <1>1, <1>2, PTL DEF Spec, FilesSpec, VfsSpec, Ext2Spec, DevfsSpec

(* Every variable of the four components has its type, for all values of   *)
(* their constants, with the system calls of one CPU.                      *)
THEOREM FsTypeSafe ==
  ASSUME NCpu = 1
  PROVE  Spec => []TypeOK
<1>1. FilesSpec => []FilesTypeOK
  BY FilesTypeSafe
<1>2. FilesTypeOK /\ VfsTypeOK /\ Ext2TypeOK /\ DevfsTypeOK => TypeOK
  BY DEF TypeOK
<1> QED
  BY <1>1, <1>2, VfsTypes, Ext2TypeSafe, DevfsTypeSafe, FsComponents, PTL
=============================================================================
