----------------------------- MODULE VfsProofs -----------------------------
(***************************************************************************)
(* Proofs about names and mounts: what a lookup finds, what it gives back, *)
(* and the mounts, dentries and pages it leaves.                           *)
(***************************************************************************)
EXTENDS Vfs, SetOrderProofs, FiniteSetTheorems, SequenceTheorems, TLAPS

(* Dentries: numbered from 1, a parent before its children; the inode of a *)
(* dentry is one that exists, and only that of a root has no parent.       *)
DentryIn(d) == [sb : Sb, num : Nat \ {0}, parent : {0} \cup DOMAIN d, ref : Int,
                mp : BOOLEAN, live : BOOLEAN]
DentOK(d) ==
    /\ d = [x \in DOMAIN d |-> d[x]]
    /\ \E n \in Nat : DOMAIN d \subseteq 1..n
    /\ \A x \in DOMAIN d : /\ d[x] \in DentryIn(d) /\ d[x].parent < x
                           /\ d[x].parent = 0 => d[x].num = RootNum[d[x].sb.type]

AtRoot(n) == n.num = RootNum[n.sb.type]

(* A mount has a root of its own, the only dentry without a parent that a  *)
(* walk inside it meets; the last mount, and only it, is mounted nowhere.  *)
MountOK(m) ==
    /\ m.sb.id < nsb
    /\ m.root \in DOMAIN dent /\ dent[m.root].parent = 0
    /\ Node(dent, m.root) = [sb |-> m.sb, num |-> RootNum[m.sb.type]]
    /\ m.mp \in {0} \cup DOMAIN dent
MountsOK ==
    /\ mounts \in Seq([sb : Sb, mp : Nat, root : Nat])
    /\ \A i \in DOMAIN mounts : MountOK(mounts[i]) /\ (mounts[i].mp = 0 <=> i = Len(mounts))
    /\ \A i, j \in DOMAIN mounts :
          i # j => mounts[i].sb # mounts[j].sb /\ mounts[i].root # mounts[j].root

(* A mount is to be seen where it was mounted, unless it was mounted on the *)
(* root of another mount; only g_root_dent is covered by the table then.   *)
SeenOf(i) ==
    /\ mounts[i].mp # 0
    /\ ~AtRoot(Node(dent, mounts[i].mp)) \/ mounts[i].mp = g_root_dent
TableOK ==
    /\ mounts = <<>> => DOMAIN mtab = {}
    /\ \A i \in DOMAIN mounts : SeenOf(i) =>
          /\ Node(dent, mounts[i].mp) \in DOMAIN mtab
          /\ mtab[Node(dent, mounts[i].mp)] = mounts[i].sb
          /\ mounts[i].mp = g_root_dent => dent[g_root_dent].mp
    /\ \A n \in DOMAIN mtab :
          \E i \in DOMAIN mounts : SeenOf(i) /\ Node(dent, mounts[i].mp) = n /\ mtab[n] = mounts[i].sb

(* The pages that can still be given back are not more than there are: one *)
(* for an open file, two for a mount and two more for ext2, one for a      *)
(* dentry without a parent that still has a reference.                     *)
Heads(d) == {x \in DOMAIN d : d[x].parent = 0 /\ d[x].ref > 0}
Ext2Mounts(ms) == {m \in Range(ms) : m.sb.type = "ext2"}
PagesOwed(d, ms) ==
    2 * Cardinality(Range(ms)) + 2 * Cardinality(Ext2Mounts(ms)) + Cardinality(Heads(d))
PagesOK == free \in Nat /\ opened \in Nat /\ free + opened + PagesOwed(dent, mounts) <= NPages

NamesOK ==
    /\ types \subseteq FsType /\ nsb \in 0..MaxSb
    /\ dirs \in Seq(STRING) /\ Len(dirs) <= INITFS_MAX_DIRS

VfsInv == NamesOK /\ DentOK(dent) /\ MountsOK /\ TableOK /\ PagesOK

-----------------------------------------------------------------------------
(* Folds *)

(* The walk from base along q. *)
Walk(base, q) == FoldLeft(Step, base, q)
WalkRun(f, base, q, n) ==
    f[0] = base /\ (\A k \in 1..n : f[k] = Step(f[k - 1], q[k])) /\ Walk(base, q) = f[n]

(* A walk goes step by step. *)
LEMMA WalkFold ==
  ASSUME NEW base, NEW q, NEW n \in Nat, DOMAIN q = 1..n
  PROVE  \E f : WalkRun(f, base, q, n)
<1> DEFINE Eq(g, Ts) == g = [s \in Ts |-> IF s = {} THEN base ELSE Step(g[s \ {Max(s)}], q[Max(s)])]
           S == {m \in Nat : \E g : Eq(g, Within(m, n))}
<1>1. 0 \in S
  <2> DEFINE g == [s \in {{}} |-> base]
  <2>1. Eq(g, {{}})
    <3>1. \A s \in {{}} : s = {}
      OBVIOUS
    <3> QED
      BY <3>1, Zenon
  <2> QED
    BY <2>1, WithinFacts
<1>2. ASSUME NEW m \in Nat, m \in S PROVE m + 1 \in S
  <2>1. PICK g : Eq(g, Within(m, n))
    BY <1>2
  <2> DEFINE h == [s \in Within(m + 1, n) |->
                     IF s = {} THEN base ELSE Step(g[s \ {Max(s)}], q[Max(s)])]
  <2>2. \A s \in Within(m, n) : h[s] = g[s]
    <3>1. \A s \in Within(m, n) : h[s] = IF s = {} THEN base ELSE Step(g[s \ {Max(s)}], q[Max(s)])
      BY WithinFacts, Zenon
    <3>2. \A s \in Within(m, n) : g[s] = IF s = {} THEN base ELSE Step(g[s \ {Max(s)}], q[Max(s)])
      BY <2>1, Zenon
    <3> QED
      BY <3>1, <3>2, Zenon
  <2>3. \A s \in Within(m + 1, n) : s # {} => s \ {Max(s)} \in Within(m, n)
    BY WithinFacts
  <2>4. Eq(h, Within(m + 1, n))
    BY <2>2, <2>3, Zenon
  <2> HIDE DEF h
  <2>5. \E j : Eq(j, Within(m + 1, n))
    BY <2>4, Zenon
  <2> HIDE DEF Eq
  <2> QED
    BY <2>5
<1>3. PICK g : Eq(g, SUBSET (1..n))
  <2> HIDE DEF S
  <2>1. n \in S
    BY <1>1, <1>2, SetInduction
  <2> QED
    BY <2>1, WithinFacts DEF S
<1> DEFINE i == CHOOSE j : Eq(j, SUBSET (1..n))
<1>4. Eq(i, SUBSET (1..n))
  BY <1>3, Zenon
<1>5. Walk(base, q) = i[1..n]
  BY Zenon DEF Walk, FoldLeft, MapThenFoldSet
<1> HIDE DEF i
<1> DEFINE f == [k \in 0..n |-> i[1..k]]
<1>6. f[0] = base
  <2>1. 1..0 = {} /\ {} \in SUBSET (1..n)
    OBVIOUS
  <2>2. i[{}] = base
    BY <1>4, <2>1, Zenon
  <2> QED
    BY <2>1, <2>2
<1>7. ASSUME NEW k \in 1..n PROVE f[k] = Step(f[k - 1], q[k])
  <2>1. 1..k \in SUBSET (1..n) /\ 1..k # {} /\ k \in Nat \ {0} /\ k \in 0..n /\ k - 1 \in 0..n
    OBVIOUS
  <2>2. i[1..k] = Step(i[(1..k) \ {Max(1..k)}], q[Max(1..k)])
    BY <1>4, <2>1, Zenon
  <2>3. i[1..k] = Step(i[1..(k - 1)], q[k])
    BY <2>1, <2>2, MaxUpTo
  <2> QED
    BY <2>1, <2>3
<1>8. Walk(base, q) = f[n]
  BY <1>5
<1> HIDE DEF f
<1>9. WalkRun(f, base, q, n)
  BY <1>6, <1>7, <1>8 DEF WalkRun
<1> QED
  BY <1>9, Zenon

(* Nothing is done for no element. *)
LEMMA WalkFoldEmpty ==
  ASSUME NEW base
  PROVE  Walk(base, <<>>) = base
<1>1. 0 \in Nat /\ DOMAIN <<>> = 1..0
  OBVIOUS
<1> QED
  BY <1>1, WalkFold DEF WalkRun

(* The last element is the last step. *)
LEMMA WalkFoldAppend ==
  ASSUME NEW base, NEW U, NEW q \in Seq(U), NEW x \in U
  PROVE  Walk(base, Append(q, x)) = Step(Walk(base, q), x)
<1> DEFINE n == Len(q)
           r == Append(q, x)
<1>1. /\ n \in Nat /\ n + 1 \in Nat /\ DOMAIN q = 1..n /\ DOMAIN r = 1..(n + 1)
      /\ r[n + 1] = x /\ \A k \in 1..n : r[k] = q[k]
  OBVIOUS
<1> HIDE DEF n, r
<1>2. PICK f : WalkRun(f, base, q, n)
  BY <1>1, WalkFold
<1>3. PICK h : WalkRun(h, base, r, n + 1)
  BY <1>1, WalkFold
<1> DEFINE S == {k \in Nat : k <= n => h[k] = f[k]}
<1>4. 0 \in S
  BY <1>2, <1>3 DEF WalkRun
<1>5. ASSUME NEW k \in Nat, k \in S PROVE k + 1 \in S
  <2>1. SUFFICES ASSUME k + 1 <= n PROVE h[k + 1] = f[k + 1]
    OBVIOUS
  <2>2. k + 1 \in 1..n /\ k + 1 \in 1..(n + 1) /\ (k + 1) - 1 = k /\ h[k] = f[k]
    BY <2>1, <1>1, <1>5
  <2>3. h[k + 1] = Step(h[k], r[k + 1]) /\ f[k + 1] = Step(f[k], q[k + 1])
    BY <2>2, <1>2, <1>3 DEF WalkRun
  <2> QED
    BY <2>2, <2>3, <1>1
<1>6. h[n] = f[n]
  <2>1. n \in S
    <3> HIDE DEF S
    <3> QED
      BY <1>1, <1>4, <1>5, SetInduction
  <2> QED
    BY <2>1, <1>1
<1>7. n + 1 \in 1..(n + 1) /\ (n + 1) - 1 = n
  BY <1>1
<1>8. h[n + 1] = Step(h[n], x)
  BY <1>1, <1>3, <1>7 DEF WalkRun
<1> QED
  BY <1>2, <1>3, <1>6, <1>8 DEF r, WalkRun

(* The reference walk from base along q. *)
RefFrom(base, q) == FoldLeft(RefStep, base, q)
RefFromRun(f, base, q, n) ==
    f[0] = base /\ (\A k \in 1..n : f[k] = RefStep(f[k - 1], q[k])) /\ RefFrom(base, q) = f[n]

(* The reference walk goes step by step. *)
LEMMA RefFromFold ==
  ASSUME NEW base, NEW q, NEW n \in Nat, DOMAIN q = 1..n
  PROVE  \E f : RefFromRun(f, base, q, n)
<1> DEFINE Eq(g, Ts) == g = [s \in Ts |-> IF s = {} THEN base ELSE RefStep(g[s \ {Max(s)}], q[Max(s)])]
           S == {m \in Nat : \E g : Eq(g, Within(m, n))}
<1>1. 0 \in S
  <2> DEFINE g == [s \in {{}} |-> base]
  <2>1. Eq(g, {{}})
    <3>1. \A s \in {{}} : s = {}
      OBVIOUS
    <3> QED
      BY <3>1, Zenon
  <2> QED
    BY <2>1, WithinFacts
<1>2. ASSUME NEW m \in Nat, m \in S PROVE m + 1 \in S
  <2>1. PICK g : Eq(g, Within(m, n))
    BY <1>2
  <2> DEFINE h == [s \in Within(m + 1, n) |->
                     IF s = {} THEN base ELSE RefStep(g[s \ {Max(s)}], q[Max(s)])]
  <2>2. \A s \in Within(m, n) : h[s] = g[s]
    <3>1. \A s \in Within(m, n) : h[s] = IF s = {} THEN base ELSE RefStep(g[s \ {Max(s)}], q[Max(s)])
      BY WithinFacts, Zenon
    <3>2. \A s \in Within(m, n) : g[s] = IF s = {} THEN base ELSE RefStep(g[s \ {Max(s)}], q[Max(s)])
      BY <2>1, Zenon
    <3> QED
      BY <3>1, <3>2, Zenon
  <2>3. \A s \in Within(m + 1, n) : s # {} => s \ {Max(s)} \in Within(m, n)
    BY WithinFacts
  <2>4. Eq(h, Within(m + 1, n))
    BY <2>2, <2>3, Zenon
  <2> HIDE DEF h
  <2>5. \E j : Eq(j, Within(m + 1, n))
    BY <2>4, Zenon
  <2> HIDE DEF Eq
  <2> QED
    BY <2>5
<1>3. PICK g : Eq(g, SUBSET (1..n))
  <2> HIDE DEF S
  <2>1. n \in S
    BY <1>1, <1>2, SetInduction
  <2> QED
    BY <2>1, WithinFacts DEF S
<1> DEFINE i == CHOOSE j : Eq(j, SUBSET (1..n))
<1>4. Eq(i, SUBSET (1..n))
  BY <1>3, Zenon
<1>5. RefFrom(base, q) = i[1..n]
  BY Zenon DEF RefFrom, FoldLeft, MapThenFoldSet
<1> HIDE DEF i
<1> DEFINE f == [k \in 0..n |-> i[1..k]]
<1>6. f[0] = base
  <2>1. 1..0 = {} /\ {} \in SUBSET (1..n)
    OBVIOUS
  <2>2. i[{}] = base
    BY <1>4, <2>1, Zenon
  <2> QED
    BY <2>1, <2>2
<1>7. ASSUME NEW k \in 1..n PROVE f[k] = RefStep(f[k - 1], q[k])
  <2>1. 1..k \in SUBSET (1..n) /\ 1..k # {} /\ k \in Nat \ {0} /\ k \in 0..n /\ k - 1 \in 0..n
    OBVIOUS
  <2>2. i[1..k] = RefStep(i[(1..k) \ {Max(1..k)}], q[Max(1..k)])
    BY <1>4, <2>1, Zenon
  <2>3. i[1..k] = RefStep(i[1..(k - 1)], q[k])
    BY <2>1, <2>2, MaxUpTo
  <2> QED
    BY <2>1, <2>3
<1>8. RefFrom(base, q) = f[n]
  BY <1>5
<1> HIDE DEF f
<1>9. RefFromRun(f, base, q, n)
  BY <1>6, <1>7, <1>8 DEF RefFromRun
<1> QED
  BY <1>9, Zenon

(* Nothing is done for no element. *)
LEMMA RefFromFoldEmpty ==
  ASSUME NEW base
  PROVE  RefFrom(base, <<>>) = base
<1>1. 0 \in Nat /\ DOMAIN <<>> = 1..0
  OBVIOUS
<1> QED
  BY <1>1, RefFromFold DEF RefFromRun

(* The last element is the last step. *)
LEMMA RefFromFoldAppend ==
  ASSUME NEW base, NEW U, NEW q \in Seq(U), NEW x \in U
  PROVE  RefFrom(base, Append(q, x)) = RefStep(RefFrom(base, q), x)
<1> DEFINE n == Len(q)
           r == Append(q, x)
<1>1. /\ n \in Nat /\ n + 1 \in Nat /\ DOMAIN q = 1..n /\ DOMAIN r = 1..(n + 1)
      /\ r[n + 1] = x /\ \A k \in 1..n : r[k] = q[k]
  OBVIOUS
<1> HIDE DEF n, r
<1>2. PICK f : RefFromRun(f, base, q, n)
  BY <1>1, RefFromFold
<1>3. PICK h : RefFromRun(h, base, r, n + 1)
  BY <1>1, RefFromFold
<1> DEFINE S == {k \in Nat : k <= n => h[k] = f[k]}
<1>4. 0 \in S
  BY <1>2, <1>3 DEF RefFromRun
<1>5. ASSUME NEW k \in Nat, k \in S PROVE k + 1 \in S
  <2>1. SUFFICES ASSUME k + 1 <= n PROVE h[k + 1] = f[k + 1]
    OBVIOUS
  <2>2. k + 1 \in 1..n /\ k + 1 \in 1..(n + 1) /\ (k + 1) - 1 = k /\ h[k] = f[k]
    BY <2>1, <1>1, <1>5
  <2>3. h[k + 1] = RefStep(h[k], r[k + 1]) /\ f[k + 1] = RefStep(f[k], q[k + 1])
    BY <2>2, <1>2, <1>3 DEF RefFromRun
  <2> QED
    BY <2>2, <2>3, <1>1
<1>6. h[n] = f[n]
  <2>1. n \in S
    <3> HIDE DEF S
    <3> QED
      BY <1>1, <1>4, <1>5, SetInduction
  <2> QED
    BY <2>1, <1>1
<1>7. n + 1 \in 1..(n + 1) /\ (n + 1) - 1 = n
  BY <1>1
<1>8. h[n + 1] = RefStep(h[n], x)
  BY <1>1, <1>3, <1>7 DEF RefFromRun
<1> QED
  BY <1>2, <1>3, <1>6, <1>8 DEF r, RefFromRun

(* The names of q after those of base, without dots. *)
NormalFrom(base, q) == FoldLeft(Resolve, base, q)
NormalFromRun(f, base, q, n) ==
    f[0] = base /\ (\A k \in 1..n : f[k] = Resolve(f[k - 1], q[k])) /\ NormalFrom(base, q) = f[n]

(* They are found name by name. *)
LEMMA NormalFromFold ==
  ASSUME NEW base, NEW q, NEW n \in Nat, DOMAIN q = 1..n
  PROVE  \E f : NormalFromRun(f, base, q, n)
<1> DEFINE Eq(g, Ts) == g = [s \in Ts |-> IF s = {} THEN base ELSE Resolve(g[s \ {Max(s)}], q[Max(s)])]
           S == {m \in Nat : \E g : Eq(g, Within(m, n))}
<1>1. 0 \in S
  <2> DEFINE g == [s \in {{}} |-> base]
  <2>1. Eq(g, {{}})
    <3>1. \A s \in {{}} : s = {}
      OBVIOUS
    <3> QED
      BY <3>1, Zenon
  <2> QED
    BY <2>1, WithinFacts
<1>2. ASSUME NEW m \in Nat, m \in S PROVE m + 1 \in S
  <2>1. PICK g : Eq(g, Within(m, n))
    BY <1>2
  <2> DEFINE h == [s \in Within(m + 1, n) |->
                     IF s = {} THEN base ELSE Resolve(g[s \ {Max(s)}], q[Max(s)])]
  <2>2. \A s \in Within(m, n) : h[s] = g[s]
    <3>1. \A s \in Within(m, n) : h[s] = IF s = {} THEN base ELSE Resolve(g[s \ {Max(s)}], q[Max(s)])
      BY WithinFacts, Zenon
    <3>2. \A s \in Within(m, n) : g[s] = IF s = {} THEN base ELSE Resolve(g[s \ {Max(s)}], q[Max(s)])
      BY <2>1, Zenon
    <3> QED
      BY <3>1, <3>2, Zenon
  <2>3. \A s \in Within(m + 1, n) : s # {} => s \ {Max(s)} \in Within(m, n)
    BY WithinFacts
  <2>4. Eq(h, Within(m + 1, n))
    BY <2>2, <2>3, Zenon
  <2> HIDE DEF h
  <2>5. \E j : Eq(j, Within(m + 1, n))
    BY <2>4, Zenon
  <2> HIDE DEF Eq
  <2> QED
    BY <2>5
<1>3. PICK g : Eq(g, SUBSET (1..n))
  <2> HIDE DEF S
  <2>1. n \in S
    BY <1>1, <1>2, SetInduction
  <2> QED
    BY <2>1, WithinFacts DEF S
<1> DEFINE i == CHOOSE j : Eq(j, SUBSET (1..n))
<1>4. Eq(i, SUBSET (1..n))
  BY <1>3, Zenon
<1>5. NormalFrom(base, q) = i[1..n]
  BY Zenon DEF NormalFrom, FoldLeft, MapThenFoldSet
<1> HIDE DEF i
<1> DEFINE f == [k \in 0..n |-> i[1..k]]
<1>6. f[0] = base
  <2>1. 1..0 = {} /\ {} \in SUBSET (1..n)
    OBVIOUS
  <2>2. i[{}] = base
    BY <1>4, <2>1, Zenon
  <2> QED
    BY <2>1, <2>2
<1>7. ASSUME NEW k \in 1..n PROVE f[k] = Resolve(f[k - 1], q[k])
  <2>1. 1..k \in SUBSET (1..n) /\ 1..k # {} /\ k \in Nat \ {0} /\ k \in 0..n /\ k - 1 \in 0..n
    OBVIOUS
  <2>2. i[1..k] = Resolve(i[(1..k) \ {Max(1..k)}], q[Max(1..k)])
    BY <1>4, <2>1, Zenon
  <2>3. i[1..k] = Resolve(i[1..(k - 1)], q[k])
    BY <2>1, <2>2, MaxUpTo
  <2> QED
    BY <2>1, <2>3
<1>8. NormalFrom(base, q) = f[n]
  BY <1>5
<1> HIDE DEF f
<1>9. NormalFromRun(f, base, q, n)
  BY <1>6, <1>7, <1>8 DEF NormalFromRun
<1> QED
  BY <1>9, Zenon

(* Nothing is done for no element. *)
LEMMA NormalFromFoldEmpty ==
  ASSUME NEW base
  PROVE  NormalFrom(base, <<>>) = base
<1>1. 0 \in Nat /\ DOMAIN <<>> = 1..0
  OBVIOUS
<1> QED
  BY <1>1, NormalFromFold DEF NormalFromRun

(* The last element is the last step. *)
LEMMA NormalFromFoldAppend ==
  ASSUME NEW base, NEW U, NEW q \in Seq(U), NEW x \in U
  PROVE  NormalFrom(base, Append(q, x)) = Resolve(NormalFrom(base, q), x)
<1> DEFINE n == Len(q)
           r == Append(q, x)
<1>1. /\ n \in Nat /\ n + 1 \in Nat /\ DOMAIN q = 1..n /\ DOMAIN r = 1..(n + 1)
      /\ r[n + 1] = x /\ \A k \in 1..n : r[k] = q[k]
  OBVIOUS
<1> HIDE DEF n, r
<1>2. PICK f : NormalFromRun(f, base, q, n)
  BY <1>1, NormalFromFold
<1>3. PICK h : NormalFromRun(h, base, r, n + 1)
  BY <1>1, NormalFromFold
<1> DEFINE S == {k \in Nat : k <= n => h[k] = f[k]}
<1>4. 0 \in S
  BY <1>2, <1>3 DEF NormalFromRun
<1>5. ASSUME NEW k \in Nat, k \in S PROVE k + 1 \in S
  <2>1. SUFFICES ASSUME k + 1 <= n PROVE h[k + 1] = f[k + 1]
    OBVIOUS
  <2>2. k + 1 \in 1..n /\ k + 1 \in 1..(n + 1) /\ (k + 1) - 1 = k /\ h[k] = f[k]
    BY <2>1, <1>1, <1>5
  <2>3. h[k + 1] = Resolve(h[k], r[k + 1]) /\ f[k + 1] = Resolve(f[k], q[k + 1])
    BY <2>2, <1>2, <1>3 DEF NormalFromRun
  <2> QED
    BY <2>2, <2>3, <1>1
<1>6. h[n] = f[n]
  <2>1. n \in S
    <3> HIDE DEF S
    <3> QED
      BY <1>1, <1>4, <1>5, SetInduction
  <2> QED
    BY <2>1, <1>1
<1>7. n + 1 \in 1..(n + 1) /\ (n + 1) - 1 = n
  BY <1>1
<1>8. h[n + 1] = Resolve(h[n], x)
  BY <1>1, <1>3, <1>7 DEF NormalFromRun
<1> QED
  BY <1>2, <1>3, <1>6, <1>8 DEF r, NormalFromRun

(* The dentries of base with their parents, as often as q is long. *)
Climb(base, q) == FoldLeft(Up, base, q)
ClimbRun(f, base, q, n) ==
    f[0] = base /\ (\A k \in 1..n : f[k] = Up(f[k - 1], q[k])) /\ Climb(base, q) = f[n]

(* Each step adds the parents. *)
LEMMA ClimbFold ==
  ASSUME NEW base, NEW q, NEW n \in Nat, DOMAIN q = 1..n
  PROVE  \E f : ClimbRun(f, base, q, n)
<1> DEFINE Eq(g, Ts) == g = [s \in Ts |-> IF s = {} THEN base ELSE Up(g[s \ {Max(s)}], q[Max(s)])]
           S == {m \in Nat : \E g : Eq(g, Within(m, n))}
<1>1. 0 \in S
  <2> DEFINE g == [s \in {{}} |-> base]
  <2>1. Eq(g, {{}})
    <3>1. \A s \in {{}} : s = {}
      OBVIOUS
    <3> QED
      BY <3>1, Zenon
  <2> QED
    BY <2>1, WithinFacts
<1>2. ASSUME NEW m \in Nat, m \in S PROVE m + 1 \in S
  <2>1. PICK g : Eq(g, Within(m, n))
    BY <1>2
  <2> DEFINE h == [s \in Within(m + 1, n) |->
                     IF s = {} THEN base ELSE Up(g[s \ {Max(s)}], q[Max(s)])]
  <2>2. \A s \in Within(m, n) : h[s] = g[s]
    <3>1. \A s \in Within(m, n) : h[s] = IF s = {} THEN base ELSE Up(g[s \ {Max(s)}], q[Max(s)])
      BY WithinFacts, Zenon
    <3>2. \A s \in Within(m, n) : g[s] = IF s = {} THEN base ELSE Up(g[s \ {Max(s)}], q[Max(s)])
      BY <2>1, Zenon
    <3> QED
      BY <3>1, <3>2, Zenon
  <2>3. \A s \in Within(m + 1, n) : s # {} => s \ {Max(s)} \in Within(m, n)
    BY WithinFacts
  <2>4. Eq(h, Within(m + 1, n))
    BY <2>2, <2>3, Zenon
  <2> HIDE DEF h
  <2>5. \E j : Eq(j, Within(m + 1, n))
    BY <2>4, Zenon
  <2> HIDE DEF Eq
  <2> QED
    BY <2>5
<1>3. PICK g : Eq(g, SUBSET (1..n))
  <2> HIDE DEF S
  <2>1. n \in S
    BY <1>1, <1>2, SetInduction
  <2> QED
    BY <2>1, WithinFacts DEF S
<1> DEFINE i == CHOOSE j : Eq(j, SUBSET (1..n))
<1>4. Eq(i, SUBSET (1..n))
  BY <1>3, Zenon
<1>5. Climb(base, q) = i[1..n]
  BY Zenon DEF Climb, FoldLeft, MapThenFoldSet
<1> HIDE DEF i
<1> DEFINE f == [k \in 0..n |-> i[1..k]]
<1>6. f[0] = base
  <2>1. 1..0 = {} /\ {} \in SUBSET (1..n)
    OBVIOUS
  <2>2. i[{}] = base
    BY <1>4, <2>1, Zenon
  <2> QED
    BY <2>1, <2>2
<1>7. ASSUME NEW k \in 1..n PROVE f[k] = Up(f[k - 1], q[k])
  <2>1. 1..k \in SUBSET (1..n) /\ 1..k # {} /\ k \in Nat \ {0} /\ k \in 0..n /\ k - 1 \in 0..n
    OBVIOUS
  <2>2. i[1..k] = Up(i[(1..k) \ {Max(1..k)}], q[Max(1..k)])
    BY <1>4, <2>1, Zenon
  <2>3. i[1..k] = Up(i[1..(k - 1)], q[k])
    BY <2>1, <2>2, MaxUpTo
  <2> QED
    BY <2>1, <2>3
<1>8. Climb(base, q) = f[n]
  BY <1>5
<1> HIDE DEF f
<1>9. ClimbRun(f, base, q, n)
  BY <1>6, <1>7, <1>8 DEF ClimbRun
<1> QED
  BY <1>9, Zenon

(* Nothing is done for no element. *)
LEMMA ClimbFoldEmpty ==
  ASSUME NEW base
  PROVE  Climb(base, <<>>) = base
<1>1. 0 \in Nat /\ DOMAIN <<>> = 1..0
  OBVIOUS
<1> QED
  BY <1>1, ClimbFold DEF ClimbRun

(* The last element is the last step. *)
LEMMA ClimbFoldAppend ==
  ASSUME NEW base, NEW U, NEW q \in Seq(U), NEW x \in U
  PROVE  Climb(base, Append(q, x)) = Up(Climb(base, q), x)
<1> DEFINE n == Len(q)
           r == Append(q, x)
<1>1. /\ n \in Nat /\ n + 1 \in Nat /\ DOMAIN q = 1..n /\ DOMAIN r = 1..(n + 1)
      /\ r[n + 1] = x /\ \A k \in 1..n : r[k] = q[k]
  OBVIOUS
<1> HIDE DEF n, r
<1>2. PICK f : ClimbRun(f, base, q, n)
  BY <1>1, ClimbFold
<1>3. PICK h : ClimbRun(h, base, r, n + 1)
  BY <1>1, ClimbFold
<1> DEFINE S == {k \in Nat : k <= n => h[k] = f[k]}
<1>4. 0 \in S
  BY <1>2, <1>3 DEF ClimbRun
<1>5. ASSUME NEW k \in Nat, k \in S PROVE k + 1 \in S
  <2>1. SUFFICES ASSUME k + 1 <= n PROVE h[k + 1] = f[k + 1]
    OBVIOUS
  <2>2. k + 1 \in 1..n /\ k + 1 \in 1..(n + 1) /\ (k + 1) - 1 = k /\ h[k] = f[k]
    BY <2>1, <1>1, <1>5
  <2>3. h[k + 1] = Up(h[k], r[k + 1]) /\ f[k + 1] = Up(f[k], q[k + 1])
    BY <2>2, <1>2, <1>3 DEF ClimbRun
  <2> QED
    BY <2>2, <2>3, <1>1
<1>6. h[n] = f[n]
  <2>1. n \in S
    <3> HIDE DEF S
    <3> QED
      BY <1>1, <1>4, <1>5, SetInduction
  <2> QED
    BY <2>1, <1>1
<1>7. n + 1 \in 1..(n + 1) /\ (n + 1) - 1 = n
  BY <1>1
<1>8. h[n + 1] = Up(h[n], x)
  BY <1>1, <1>3, <1>7 DEF ClimbRun
<1> QED
  BY <1>2, <1>3, <1>6, <1>8 DEF r, ClimbRun

-----------------------------------------------------------------------------
(* Dentries *)

(* The number of a new dentry is above those in use. *)
LEMMA NewIdFacts ==
  ASSUME NEW d, DentOK(d)
  PROVE  /\ NewId(d) \in Nat \ {0} /\ NewId(d) \notin DOMAIN d
         /\ \A x \in DOMAIN d : x \in Nat \ {0} /\ x < NewId(d)
<1>1. PICK n \in Nat : DOMAIN d \subseteq 1..n
  BY DEF DentOK
<1>2. DOMAIN d \cup {0} \subseteq 0..n /\ DOMAIN d \cup {0} # {}
  BY <1>1
<1>3. Max(DOMAIN d \cup {0}) \in DOMAIN d \cup {0} /\ \A k \in DOMAIN d \cup {0} : k <= Max(DOMAIN d \cup {0})
  BY <1>2, MaxOf
<1> DEFINE x == Max(DOMAIN d \cup {0})
<1>4. x \in Nat /\ NewId(d) = 1 + x /\ \A k \in DOMAIN d : k \in 1..n /\ k <= x
  BY <1>1, <1>3 DEF NewId
<1> HIDE DEF x
<1> QED
  BY <1>4

(* Only finitely many dentries have no parent. *)
LEMMA HeadsFinite ==
  ASSUME NEW d, DentOK(d)
  PROVE  IsFiniteSet(Heads(d)) /\ Cardinality(Heads(d)) \in Nat
<1>1. PICK n \in Nat : DOMAIN d \subseteq 1..n
  BY DEF DentOK
<1>2. IsFiniteSet(1..n)
  BY FS_Interval
<1>3. Heads(d) \subseteq 1..n
  BY <1>1 DEF Heads
<1> QED
  BY <1>2, <1>3, FS_Subset, FS_CardinalityType

(* A dentry with a parent adds no page that can be given back. *)
LEMMA WithChild ==
  ASSUME NEW d, DentOK(d), NEW n, n.sb \in Sb, n.num \in Nat \ {0}, NEW p \in DOMAIN d
  PROVE  LET x == NewId(d)
             e == WithDentry(d, x, NewDentry(n, p))
         IN  /\ DentOK(e) /\ DOMAIN e = DOMAIN d \cup {x} /\ Heads(e) = Heads(d)
             /\ \A y \in DOMAIN d : e[y] = d[y]
             /\ e[x] = [sb |-> n.sb, num |-> n.num, parent |-> p, ref |-> 1, mp |-> FALSE, live |-> TRUE]
<1> DEFINE x == NewId(d)
           c == [sb |-> n.sb, num |-> n.num, parent |-> p, ref |-> 1, mp |-> FALSE, live |-> TRUE]
           e == WithDentry(d, x, c)
<1>1. x \in Nat \ {0} /\ x \notin DOMAIN d /\ \A y \in DOMAIN d : y \in Nat \ {0} /\ y < x
  BY NewIdFacts
<1> HIDE DEF x
<1>2. /\ DOMAIN e = DOMAIN d \cup {x} /\ e[x] = c /\ \A y \in DOMAIN d : e[y] = d[y]
  BY <1>1 DEF WithDentry
<1>3. c \in DentryIn(e) /\ c.parent < x /\ c.parent # 0
  BY <1>1, <1>2 DEF DentryIn
<1> HIDE DEF e
<1>4. ASSUME NEW y \in DOMAIN d
      PROVE  /\ e[y] \in DentryIn(e) /\ e[y].parent < y
             /\ e[y].parent = 0 => e[y].num = RootNum[e[y].sb.type]
  <2>1. /\ d[y] \in DentryIn(d) /\ d[y].parent < y
        /\ d[y].parent = 0 => d[y].num = RootNum[d[y].sb.type]
    BY DEF DentOK
  <2> QED
    BY <1>2, <2>1 DEF DentryIn
<1>5. \E m \in Nat : DOMAIN e \subseteq 1..m
  BY <1>1, <1>2
<1>6. DentOK(e)
  <2>1. e = [y \in DOMAIN e |-> e[y]]
    BY <1>2 DEF e, WithDentry
  <2> QED
    BY <1>2, <1>3, <1>4, <1>5, <2>1 DEF DentOK
<1>7. Heads(e) = Heads(d)
  <2>1. x \notin Heads(e)
    BY <1>2, <1>3 DEF Heads
  <2> HIDE DEF c
  <2> QED
    BY <1>1, <1>2, <2>1 DEF Heads
<1>8. WithDentry(d, NewId(d), NewDentry(n, p)) = e
  BY DEF e, x, NewDentry
<1> QED
  BY <1>2, <1>6, <1>7, <1>8 DEF x

(* A walk, wherever it goes: its dentries extend those of the mounts, and  *)
(* it gives back no page twice.                                            *)
Same(d) ==
    /\ DOMAIN dent \subseteq DOMAIN d
    /\ \A x \in DOMAIN dent : /\ d[x].sb = dent[x].sb /\ d[x].num = dent[x].num
                              /\ d[x].parent = dent[x].parent /\ d[x].mp = dent[x].mp
IsWalk(w) == w = [mnt |-> w.mnt, cur |-> w.cur, d |-> w.d, fr |-> w.fr, rc |-> w.rc]
Afford(w) ==
    /\ w.fr \in Nat /\ free + Cardinality(Heads(dent)) \in Nat
    /\ w.fr + Cardinality(Heads(w.d)) <= free + Cardinality(Heads(dent))
Walking(w) ==
    /\ IsWalk(w) /\ DentOK(w.d) /\ Same(w.d) /\ Afford(w)
    /\ w.cur \in DOMAIN w.d /\ w.mnt \in Range(mounts)

(* Putting a dentry changes its count, and whether it is live. *)
LEMMA PutFacts ==
  ASSUME NEW w, IsWalk(w), DentOK(w.d), NEW x \in DOMAIN w.d
  PROVE  LET v == vfs_dentry_put(w, x)
             last == w.d[x].ref = 1 /\ w.d[x].parent = 0
         IN  /\ IsWalk(v) /\ v.mnt = w.mnt /\ v.cur = w.cur /\ v.rc = w.rc
             /\ DentOK(v.d) /\ DOMAIN v.d = DOMAIN w.d
             /\ \A y \in DOMAIN w.d : /\ v.d[y].sb = w.d[y].sb /\ v.d[y].num = w.d[y].num
                                      /\ v.d[y].parent = w.d[y].parent /\ v.d[y].mp = w.d[y].mp
                                      /\ ~last => v.d[y].live = w.d[y].live
             /\ Heads(v.d) \subseteq Heads(w.d)
             /\ last => v.fr = w.fr + 1 /\ x \in Heads(w.d) \ Heads(v.d)
             /\ ~last => v.fr = w.fr + 0
<1> DEFINE last == w.d[x].ref = 1 /\ w.d[x].parent = 0
<1>1. PICK v : v = vfs_dentry_put(w, x)
  OBVIOUS
<1>2. /\ IsWalk(v) /\ v.mnt = w.mnt /\ v.cur = w.cur /\ v.rc = w.rc
      /\ v.fr = w.fr + (IF last THEN 1 ELSE 0)
  BY <1>1 DEF vfs_dentry_put, IsWalk
<1>3. v.d = [w.d EXCEPT ![x].ref = @ - 1, ![x].live = @ /\ ~last]
  BY <1>1 DEF vfs_dentry_put, IsWalk
<1> DEFINE d == w.d
           e == v.d
<1>4. /\ d = [y \in DOMAIN d |-> d[y]] /\ \E n \in Nat : DOMAIN d \subseteq 1..n
      /\ \A y \in DOMAIN d : /\ d[y] \in DentryIn(d) /\ d[y].parent < y
                             /\ d[y].parent = 0 => d[y].num = RootNum[d[y].sb.type]
  BY DEF DentOK
<1>5. last \in BOOLEAN
  OBVIOUS
<1>6. PICK P \in BOOLEAN : P = ~last
  BY <1>5
<1>7. e = [d EXCEPT ![x].ref = @ - 1, ![x].live = @ /\ P] /\ x \in DOMAIN d
  BY <1>3, <1>6
<1> HIDE DEF d, e
<1>8. DOMAIN e = DOMAIN d /\ (\A y \in DOMAIN d \ {x} : e[y] = d[y]) /\ e = [y \in DOMAIN e |-> e[y]]
  BY <1>7
<1>9. /\ e[x] \in DentryIn(d) /\ e[x].ref = d[x].ref - 1 /\ e[x].live = (d[x].live /\ P)
      /\ e[x].sb = d[x].sb /\ e[x].num = d[x].num /\ e[x].parent = d[x].parent /\ e[x].mp = d[x].mp
      /\ d[x].live \in BOOLEAN /\ d[x].ref \in Int
  <2>1. d = [y \in DOMAIN d |-> d[y]] /\ d[x] \in DentryIn(d)
    BY <1>4, <1>7
  <2>2. e[x] \in DentryIn(d)
    BY <2>1, <1>7 DEF DentryIn
  <2>3. e[x].ref = d[x].ref - 1
    BY <2>1, <1>7 DEF DentryIn
  <2>4. e[x].live = (d[x].live /\ P) /\ e[x].sb = d[x].sb
    BY <2>1, <1>7 DEF DentryIn
  <2>5. e[x].num = d[x].num /\ e[x].parent = d[x].parent /\ e[x].mp = d[x].mp
    BY <2>1, <1>7 DEF DentryIn
  <2> QED
    BY <2>1, <2>2, <2>3, <2>4, <2>5 DEF DentryIn
<1>10. DentryIn(e) = DentryIn(d)
  BY <1>8 DEF DentryIn
<1>11. \A y \in DOMAIN d : /\ e[y] \in DentryIn(e) /\ e[y].parent < y
                           /\ e[y].parent = 0 => e[y].num = RootNum[e[y].sb.type]
  <2>1. ASSUME NEW y \in DOMAIN d
        PROVE  /\ e[y] \in DentryIn(e) /\ e[y].parent < y
               /\ e[y].parent = 0 => e[y].num = RootNum[e[y].sb.type]
    <3>1. /\ d[y] \in DentryIn(d) /\ d[y].parent < y
          /\ d[y].parent = 0 => d[y].num = RootNum[d[y].sb.type]
      BY <1>4
    <3>2. CASE y = x
      BY <1>9, <1>10, <3>1, <3>2
    <3>3. CASE y # x
      <4>1. e[y] = d[y]
        BY <1>8, <3>3
      <4> QED
        BY <1>10, <3>1, <4>1
    <3> QED
      BY <3>2, <3>3
  <2> QED
    BY <2>1
<1>12. DentOK(e)
  <2>1. \E n \in Nat : DOMAIN e \subseteq 1..n
    BY <1>4, <1>8
  <2>2. \A y \in DOMAIN e : /\ e[y] \in DentryIn(e) /\ e[y].parent < y
                            /\ e[y].parent = 0 => e[y].num = RootNum[e[y].sb.type]
    BY <1>8, <1>11
  <2> QED
    BY <1>8, <2>1, <2>2 DEF DentOK
<1>13. \A y \in DOMAIN d : /\ e[y].sb = d[y].sb /\ e[y].num = d[y].num
                           /\ e[y].parent = d[y].parent /\ e[y].mp = d[y].mp
                           /\ P => e[y].live = d[y].live
  BY <1>8, <1>9
<1>14. Heads(e) \subseteq Heads(d)
  BY <1>8, <1>9 DEF Heads
<1>15. ~P => x \in Heads(d) \ Heads(e)
  <2>1. ~P => d[x].ref = 1 /\ d[x].parent = 0
    BY <1>6 DEF d
  <2> QED
    BY <1>7, <1>9, <2>1 DEF Heads
<1> QED
  BY <1>1, <1>2, <1>6, <1>8, <1>12, <1>13, <1>14, <1>15 DEF d, e

(* A page given back by a put is one less that can be given back. *)
LEMMA PutAffords ==
  ASSUME NEW w, IsWalk(w), DentOK(w.d), Afford(w), NEW x \in DOMAIN w.d
  PROVE  Afford(vfs_dentry_put(w, x))
<1>1. PICK v : v = vfs_dentry_put(w, x)
  OBVIOUS
<1> DEFINE last == w.d[x].ref = 1 /\ w.d[x].parent = 0
           H == Heads(w.d)
           G == Heads(v.d)
<1>2. /\ DentOK(v.d) /\ G \subseteq H /\ (last => v.fr = w.fr + 1 /\ x \in H \ G)
      /\ (~last => v.fr = w.fr + 0)
  BY <1>1, PutFacts, ZenonT(60)
<1>3. /\ IsFiniteSet(H) /\ Cardinality(H) \in Nat /\ IsFiniteSet(G) /\ Cardinality(G) \in Nat
      /\ w.fr \in Nat /\ w.fr + Cardinality(H) <= free + Cardinality(Heads(dent))
      /\ free + Cardinality(Heads(dent)) \in Nat
  BY <1>2, HeadsFinite DEF Afford
<1> HIDE DEF H, G, last
<1>4. Cardinality(G) <= Cardinality(H) /\ (last => Cardinality(G) + 1 <= Cardinality(H))
  <2>1. Cardinality(G) <= Cardinality(H)
    BY <1>2, <1>3, FS_Subset
  <2>2. ASSUME last PROVE Cardinality(G) + 1 <= Cardinality(H)
    <3>1. G \cup {x} \subseteq H /\ x \notin G
      BY <1>2, <2>2
    <3>2. Cardinality(G \cup {x}) = Cardinality(G) + 1
      BY <1>3, <3>1, FS_AddElement
    <3>3. Cardinality(G \cup {x}) <= Cardinality(H)
      BY <1>3, <3>1, FS_Subset
    <3> QED
      BY <3>2, <3>3
  <2> QED
    BY <2>1, <2>2
<1>5. v.fr \in Nat /\ v.fr + Cardinality(G) <= w.fr + Cardinality(H)
  BY <1>2, <1>3, <1>4
<1> QED
  <2> DEFINE a == free + Cardinality(Heads(dent))
             b == Cardinality(G)
             c == Cardinality(H)
  <2>1. b \in Nat /\ c \in Nat /\ w.fr \in Nat /\ w.fr + c <= a /\ v.fr + b <= w.fr + c /\ v.fr \in Nat /\ a \in Nat
    BY <1>3, <1>5
  <2>2. v.fr + b <= a
    <3> HIDE DEF a, b, c
    <3> QED
      BY <2>1
  <2> QED
    BY <1>1, <2>1, <2>2 DEF Afford, G

-----------------------------------------------------------------------------
(* Looking a name up *)

(* The mounts, their roots and where they are mounted. *)
LEMMA MountFacts ==
  ASSUME VfsInv
  PROVE  /\ Len(mounts) \in Nat /\ DOMAIN mounts = 1..Len(mounts)
         /\ \A i \in DOMAIN mounts :
               /\ mounts[i] \in [sb : Sb, mp : Nat, root : Nat] /\ MountOK(mounts[i])
               /\ mounts[i].sb \in Sb /\ mounts[i].sb.type \in FsType
               /\ mounts[i].root \in DOMAIN dent /\ dent[mounts[i].root].parent = 0
               /\ mounts[i].mp \in {0} \cup DOMAIN dent
         /\ mounts # <<>> => /\ Len(mounts) \in DOMAIN mounts /\ g_root_mnt = mounts[Len(mounts)]
                             /\ g_root_mnt.mp = 0 /\ g_root_dent = g_root_mnt.root
         /\ 0 \notin DOMAIN dent
<1>1. Len(mounts) \in Nat /\ DOMAIN mounts = 1..Len(mounts)
  BY DEF VfsInv, MountsOK
<1>2. ASSUME NEW i \in DOMAIN mounts
      PROVE  /\ mounts[i] \in [sb : Sb, mp : Nat, root : Nat] /\ MountOK(mounts[i])
             /\ mounts[i].sb \in Sb /\ mounts[i].sb.type \in FsType
             /\ mounts[i].root \in DOMAIN dent /\ dent[mounts[i].root].parent = 0
             /\ mounts[i].mp \in {0} \cup DOMAIN dent
  <2>1. mounts[i] \in [sb : Sb, mp : Nat, root : Nat] /\ MountOK(mounts[i])
    <3>1. mounts \in Seq([sb : Sb, mp : Nat, root : Nat]) /\ MountOK(mounts[i])
      BY DEF VfsInv, MountsOK
    <3> DEFINE M == [sb : Sb, mp : Nat, root : Nat]
    <3> HIDE DEF M
    <3>2. mounts \in Seq(M)
      BY <3>1 DEF M
    <3>3. mounts[i] \in M
      BY <3>2
    <3> QED
      BY <3>1, <3>3 DEF M
  <2>2. mounts[i].sb \in Sb
    BY <2>1
  <2> QED
    BY <2>1, <2>2 DEF Sb, MountOK
<1>3. ASSUME mounts # <<>>
      PROVE  /\ Len(mounts) \in DOMAIN mounts /\ g_root_mnt = mounts[Len(mounts)]
             /\ g_root_mnt.mp = 0 /\ g_root_dent = g_root_mnt.root
  <2>1. mounts \in Seq([sb : Sb, mp : Nat, root : Nat])
    BY DEF VfsInv, MountsOK
  <2>2. Len(mounts) # 0
    BY <1>3, <2>1
  <2>3. Len(mounts) \in DOMAIN mounts
    BY <1>1, <2>2
  <2> QED
    BY <2>3 DEF g_root_mnt, g_root_dent, Last, VfsInv, MountsOK
<1>4. 0 \notin DOMAIN dent
  BY DEF VfsInv, DentOK
<1> QED
  BY <1>1, <1>2, <1>3, <1>4

(* The place of an element in a sequence, or -1. *)
LEMMA PositionFacts ==
  ASSUME NEW s, NEW n \in Nat, DOMAIN s = 1..n, NEW x
  PROVE  Position(s, x) = -1 \/ Position(s, x) \in 1..n
BY DEF Position

(* A directory entry is never the root of a file system. *)
LEMMA ChildFacts ==
  ASSUME NamesOK, NEW n, n.sb.type \in FsType, NEW name
  PROVE  /\ fs_child(n, name) \in Nat
         /\ fs_child(n, name) > 0 => fs_child(n, name) # RootNum[n.sb.type]
<1>1. RootNum["initfs"] = 1 /\ RootNum["ext2"] = 2 /\ RootNum["devfs"] = 1
  BY DEF RootNum
<1>2. CASE n.sb.type = "initfs"
  <2>1. Len(dirs) \in Nat /\ DOMAIN dirs = 1..Len(dirs)
    BY DEF NamesOK
  <2>2. Position(dirs, name) = -1 \/ Position(dirs, name) \in 1..Len(dirs)
    BY <2>1, PositionFacts
  <2>3. fs_child(n, name) = Position(dirs, name) + 1
    BY <1>2 DEF fs_child
  <2> QED
    BY <1>1, <1>2, <2>1, <2>2, <2>3
<1>3. CASE n.sb.type = "devfs"
  <2>1. Len(DevNodes) \in Nat /\ DOMAIN DevNodes = 1..Len(DevNodes)
    BY VfsAssumption
  <2>2. Position(DevNodes, name) = -1 \/ Position(DevNodes, name) \in 1..Len(DevNodes)
    BY <2>1, PositionFacts
  <2>3. fs_child(n, name) = Position(DevNodes, name) + 1
    BY <1>3 DEF fs_child
  <2> QED
    BY <1>1, <1>3, <2>1, <2>2, <2>3
<1>4. CASE n.sb.type = "ext2"
  <2> DEFINE e == <<n.num, name>>
  <2>1. fs_child(n, name) = IF e \in DOMAIN Ext2Tree THEN Ext2Tree[e] ELSE 0
    BY <1>4 DEF fs_child
  <2>2. e \in DOMAIN Ext2Tree => Ext2Tree[e] \in Nat /\ Ext2Tree[e] > 2
    BY VfsAssumption
  <2> QED
    BY <1>1, <1>4, <2>1, <2>2
<1> QED
  BY <1>2, <1>3, <1>4 DEF FsType

(* A lookup that succeeds finds an entry, and there are pages for it. *)
LEMMA LookupRc ==
  ASSUME NEW n, n.sb.type \in FsType, NEW name, NEW fr \in Nat \ {0},
         fs_child(n, name) \in Nat
  PROVE  /\ fs_lookup_rc(n, name, fr - 1) = "OK" =>
              fs_child(n, name) > 0 /\ fr - 1 - InodePages(n) \in Nat
         /\ fs_lookup_rc(n, name, fr - 1) = "ENOENT" => fs_child(n, name) = 0
         /\ fs_lookup_rc(n, name, fr - 1) # "ENOTDIR"
<1> DEFINE r == fs_lookup_rc(n, name, fr - 1)
<1>1. PICK c \in Nat : c = fs_child(n, name)
  OBVIOUS
<1>2. PICK f \in Nat : f = fr - 1
  OBVIOUS
<1>3. CASE n.sb.type = "ext2"
  <2>1. r = ext2_lookup_rc(c > 0, f) /\ InodePages(n) = 2
    BY <1>1, <1>2, <1>3 DEF fs_lookup_rc, InodePages
  <2>2. /\ r = "OK" => c > 0 /\ f - 2 \in Nat
        /\ r = "ENOENT" => c = 0
        /\ r # "ENOTDIR"
    <3> HIDE DEF r
    <3> QED
      BY <2>1 DEF ext2_lookup_rc
  <2> QED
    BY <1>1, <1>2, <2>1, <2>2
<1>4. CASE n.sb.type # "ext2"
  <2>1. /\ r = IF ~(c > 0) THEN "ENOENT" ELSE IF f = 0 THEN "ENOMEM" ELSE "OK"
        /\ InodePages(n) = 1
    BY <1>1, <1>2, <1>4 DEF fs_lookup_rc, InodePages
  <2>2. /\ r = "OK" => c > 0 /\ f - 1 \in Nat
        /\ r = "ENOENT" => c = 0
        /\ r # "ENOTDIR"
    <3> HIDE DEF r
    <3> QED
      BY <2>1
  <2> QED
    BY <1>1, <1>2, <2>1, <2>2
<1> QED
  BY <1>3, <1>4

(* What the lookup of a name in the directory cur may come to: an error, a *)
(* mount on the entry, or a new dentry.                                    *)
Failed(w, v, name) ==
    /\ v.mnt = w.mnt /\ v.cur = w.cur /\ v.d = w.d /\ v.fr <= w.fr /\ v.rc # "OK"
    /\ v.rc = "ENOENT" => fs_child(Node(w.d, w.cur), name) = 0
    /\ v.rc = "ENOTDIR" => ~vfs_is_dir(Node(w.d, w.cur))
ChildEntry(w, name) == [sb |-> w.d[w.cur].sb, num |-> fs_child(Node(w.d, w.cur), name)]
Entered(w, v, name) ==
    /\ v.d = w.d /\ v.fr <= w.fr /\ v.rc = "OK"
    /\ \E i \in DOMAIN mounts :
          /\ mounts[i].mp # 0 /\ Node(w.d, mounts[i].mp) = ChildEntry(w, name)
          /\ v.mnt = mounts[i] /\ v.cur = mounts[i].root
Descended(w, v, name) ==
    /\ v.mnt = w.mnt /\ v.cur = NewId(w.d) /\ v.rc = "OK"
    /\ DOMAIN v.d = DOMAIN w.d \cup {v.cur}
    /\ Node(v.d, v.cur) = ChildEntry(w, name) /\ v.d[v.cur].parent = w.cur
    /\ (IsTemp(w) /\ w.d[w.cur].parent = 0) \/ v.d[v.cur].live
    /\ \A y \in DOMAIN w.d :
          /\ v.d[y].sb = w.d[y].sb /\ v.d[y].num = w.d[y].num
          /\ v.d[y].parent = w.d[y].parent /\ v.d[y].mp = w.d[y].mp
          /\ (IsTemp(w) /\ w.d[w.cur].parent = 0) \/ v.d[y].live = w.d[y].live
    /\ \A i \in DOMAIN mounts :
          ~(mounts[i].mp # 0 /\ Node(w.d, mounts[i].mp) = ChildEntry(w, name))
LEMMA ChildCases ==
  ASSUME VfsInv, NEW w, Walking(w), NEW name, NEW v, v = vfs_lookup_child(w, name), w.rc = "OK"
  PROVE  /\ IsWalk(v) /\ DentOK(v.d) /\ Afford(v)
         /\ \/ Failed(w, v, name)
            \/ /\ vfs_is_dir(Node(w.d, w.cur)) /\ fs_child(Node(w.d, w.cur), name) > 0
               /\ Entered(w, v, name) \/ Descended(w, v, name)
<1> DEFINE dir == Node(w.d, w.cur)
           rc == fs_lookup_rc(dir, name, w.fr - 1)
           n == ChildEntry(w, name)
           sub == vfs_find_mount_by_inode(w.d, n)
           x == NewId(w.d)
           e == WithDentry(w.d, x, NewDentry(n, w.cur))
           y == [w EXCEPT !.fr = @ - 1 - InodePages(dir)]
           z == [y EXCEPT !.d = e]
           u == IF IsTemp(w) THEN vfs_dentry_put(z, w.cur) ELSE z
<1>1. v = IF ~vfs_is_dir(dir) THEN [w EXCEPT !.rc = "ENOTDIR"]
          ELSE IF name \in LongNames \/ w.fr = 0 THEN [w EXCEPT !.rc = "ENOMEM"]
          ELSE IF rc # "OK" THEN [w EXCEPT !.fr = @ - 1, !.rc = rc]
          ELSE IF sub # {} THEN [y EXCEPT !.mnt = mounts[Min(sub)], !.cur = mounts[Min(sub)].root]
          ELSE [u EXCEPT !.cur = x]
  BY Zenon DEF vfs_lookup_child, ChildEntry, Node
<1>2. /\ IsWalk(w) /\ DentOK(w.d) /\ w.cur \in DOMAIN w.d /\ w.fr \in Nat /\ Afford(w)
      /\ dir.sb = w.d[w.cur].sb /\ dir.num = w.d[w.cur].num
      /\ w.d[w.cur].sb \in Sb /\ dir.sb.type \in FsType
  BY DEF Walking, Afford, Node, DentOK, DentryIn, Sb
<1>3. /\ fs_child(dir, name) \in Nat
      /\ w.fr # 0 /\ rc = "OK" => fs_child(dir, name) > 0 /\ w.fr - 1 - InodePages(dir) \in Nat
      /\ w.fr # 0 /\ rc = "ENOENT" => fs_child(dir, name) = 0
      /\ w.fr # 0 => rc # "ENOTDIR"
  <2>1. fs_child(dir, name) \in Nat
    BY <1>2, ChildFacts DEF VfsInv
  <2> HIDE DEF dir
  <2> QED
    BY <1>2, <2>1, LookupRc
<1>4. InodePages(dir) \in {1, 2}
  BY DEF InodePages
<1>5. ASSUME NEW t, IsWalk(t), t.d = w.d, t.fr \in Nat, t.fr <= w.fr PROVE DentOK(t.d) /\ Afford(t)
  <2> DEFINE c == Cardinality(Heads(w.d))
  <2>1. c \in Nat
    BY <1>2, HeadsFinite
  <2> HIDE DEF c
  <2>2. /\ w.fr \in Nat /\ free + Cardinality(Heads(dent)) \in Nat
        /\ w.fr + c <= free + Cardinality(Heads(dent))
    BY <1>2 DEF Afford, c
  <2>3. t.fr + c <= free + Cardinality(Heads(dent))
    <3> DEFINE b == free + Cardinality(Heads(dent))
    <3> HIDE DEF b
    <3>1. w.fr \in Nat /\ b \in Nat /\ w.fr + c <= b
      BY <2>2 DEF b
    <3>2. t.fr + c <= b
      BY <1>5, <2>1, <3>1
    <3> QED
      BY <3>2 DEF b
  <2> QED
    BY <1>2, <1>5, <2>2, <2>3 DEF Afford, c
<1> HIDE DEF dir, rc
<1>6. CASE ~vfs_is_dir(dir)
  <2>1. v = [w EXCEPT !.rc = "ENOTDIR"]
    BY <1>1, <1>6
  <2>2. IsWalk(v) /\ v.mnt = w.mnt /\ v.cur = w.cur /\ v.d = w.d /\ v.fr = w.fr /\ v.rc = "ENOTDIR"
    BY <1>2, <2>1 DEF IsWalk
  <2>3. Failed(w, v, name)
    BY <1>2, <1>6, <2>2 DEF Failed, dir
  <2> QED
    BY <1>2, <1>5, <2>2, <2>3
<1>7. CASE vfs_is_dir(dir) /\ (name \in LongNames \/ w.fr = 0)
  <2>1. v = [w EXCEPT !.rc = "ENOMEM"]
    BY <1>1, <1>7
  <2>2. IsWalk(v) /\ v.mnt = w.mnt /\ v.cur = w.cur /\ v.d = w.d /\ v.fr = w.fr /\ v.rc = "ENOMEM"
    BY <1>2, <2>1 DEF IsWalk
  <2>3. Failed(w, v, name)
    BY <1>2, <2>2 DEF Failed
  <2> QED
    BY <1>2, <1>5, <2>2, <2>3
<1>8. CASE vfs_is_dir(dir) /\ ~(name \in LongNames \/ w.fr = 0) /\ rc # "OK"
  <2>1. v = [w EXCEPT !.fr = @ - 1, !.rc = rc]
    BY <1>1, <1>8
  <2>2. IsWalk(v) /\ v.mnt = w.mnt /\ v.cur = w.cur /\ v.d = w.d /\ v.fr = w.fr - 1 /\ v.rc = rc
    BY <1>2, <2>1 DEF IsWalk
  <2>3. v.fr \in Nat /\ v.fr <= w.fr
    BY <1>2, <1>8, <2>2
  <2>4. Failed(w, v, name)
    BY <1>3, <1>8, <2>2, <2>3 DEF Failed, dir
  <2> QED
    BY <1>5, <2>2, <2>3, <2>4
<1>9. CASE vfs_is_dir(dir) /\ ~(name \in LongNames \/ w.fr = 0) /\ rc = "OK" /\ sub # {}
  <2>1. v = [y EXCEPT !.mnt = mounts[Min(sub)], !.cur = mounts[Min(sub)].root]
    BY <1>1, <1>9
  <2>2. PICK j : j = Min(sub)
    OBVIOUS
  <2>3. j \in DOMAIN mounts /\ mounts[j].mp # 0 /\ Node(w.d, mounts[j].mp) = n
    <3>1. sub \subseteq DOMAIN mounts /\ sub \subseteq Nat
      BY MountFacts DEF vfs_find_mount_by_inode
    <3>2. j \in sub
      BY <1>9, <2>2, <3>1, MinLeast
    <3> QED
      BY <3>2 DEF vfs_find_mount_by_inode
  <2>4. /\ IsWalk(v) /\ v.mnt = mounts[j] /\ v.cur = mounts[j].root /\ v.d = w.d
        /\ v.fr = w.fr - 1 - InodePages(dir) /\ v.rc = "OK"
    <3>1. PICK t : t = y
      OBVIOUS
    <3>2. IsWalk(t) /\ t.d = w.d /\ t.fr = w.fr - 1 - InodePages(dir) /\ t.rc = "OK"
      BY <1>2, <3>1 DEF IsWalk
    <3>3. v = [t EXCEPT !.mnt = mounts[j], !.cur = mounts[j].root]
      BY <2>1, <2>2, <3>1
    <3> QED
      BY <3>2, <3>3 DEF IsWalk
  <2>5. v.fr \in Nat /\ v.fr <= w.fr
    BY <1>2, <1>3, <1>4, <1>9, <2>4
  <2>6. Entered(w, v, name)
    BY <2>3, <2>4, <2>5 DEF Entered
  <2> QED
    BY <1>3, <1>5, <1>9, <2>4, <2>5, <2>6 DEF dir
<1>10. CASE vfs_is_dir(dir) /\ ~(name \in LongNames \/ w.fr = 0) /\ rc = "OK" /\ sub = {}
  <2>1. v = [u EXCEPT !.cur = x]
    BY <1>1, <1>10
  <2>2. n.sb \in Sb /\ n.num \in Nat \ {0}
    BY <1>2, <1>3, <1>10 DEF ChildEntry, dir
  <2>3. /\ DentOK(e) /\ DOMAIN e = DOMAIN w.d \cup {x} /\ Heads(e) = Heads(w.d)
        /\ \A k \in DOMAIN w.d : e[k] = w.d[k]
        /\ e[x] = [sb |-> n.sb, num |-> n.num, parent |-> w.cur, ref |-> 1, mp |-> FALSE, live |-> TRUE]
    BY <1>2, <2>2, WithChild
  <2>4. PICK t : t = z
    OBVIOUS
  <2>5. /\ IsWalk(t) /\ t.mnt = w.mnt /\ t.cur = w.cur /\ t.d = e /\ t.rc = "OK"
        /\ t.fr = w.fr - 1 - InodePages(dir)
    <3>1. PICK s : s = y
      OBVIOUS
    <3>2. /\ IsWalk(s) /\ s.mnt = w.mnt /\ s.cur = w.cur /\ s.rc = "OK"
          /\ s.fr = w.fr - 1 - InodePages(dir)
      BY <1>2, <3>1 DEF IsWalk
    <3>3. t = [s EXCEPT !.d = e]
      BY <2>4, <3>1
    <3> HIDE DEF e
    <3> QED
      BY <3>2, <3>3 DEF IsWalk
  <2>6. t.fr \in Nat /\ t.fr <= w.fr
    BY <1>2, <1>3, <1>4, <1>10, <2>5
  <2>7. Afford(t)
    <3>1. /\ w.fr \in Nat /\ free + Cardinality(Heads(dent)) \in Nat
          /\ w.fr + Cardinality(Heads(w.d)) <= free + Cardinality(Heads(dent))
      BY <1>2 DEF Afford
    <3>2. Cardinality(Heads(w.d)) \in Nat /\ Heads(t.d) = Heads(w.d)
      BY <1>2, <2>3, <2>5, HeadsFinite
    <3> DEFINE c == Cardinality(Heads(w.d))
               b == free + Cardinality(Heads(dent))
    <3> HIDE DEF b, c
    <3>3. t.fr + c <= b
      BY <2>6, <3>1, <3>2 DEF b, c
    <3> QED
      BY <2>6, <3>1, <3>2, <3>3 DEF Afford, b, c
  <2> DEFINE last == t.d[w.cur].ref = 1 /\ t.d[w.cur].parent = 0
  <2>8. /\ IsWalk(u) /\ u.mnt = w.mnt /\ u.rc = "OK" /\ DentOK(u.d) /\ DOMAIN u.d = DOMAIN e
        /\ Afford(u)
        /\ \A k \in DOMAIN e : /\ u.d[k].sb = e[k].sb /\ u.d[k].num = e[k].num
                               /\ u.d[k].parent = e[k].parent /\ u.d[k].mp = e[k].mp
                               /\ (IsTemp(w) /\ w.d[w.cur].parent = 0) \/ u.d[k].live = e[k].live
    <3>1. CASE IsTemp(w)
      <4>1. u = vfs_dentry_put(t, w.cur)
        BY <2>4, <3>1
      <4>2. w.cur \in DOMAIN t.d /\ t.d[w.cur] = w.d[w.cur] /\ DentOK(t.d)
        BY <1>2, <2>3, <2>5
      <4>3. /\ IsWalk(u) /\ u.mnt = t.mnt /\ u.rc = t.rc /\ DentOK(u.d) /\ DOMAIN u.d = DOMAIN t.d
            /\ \A k \in DOMAIN t.d : /\ u.d[k].sb = t.d[k].sb /\ u.d[k].num = t.d[k].num
                                     /\ u.d[k].parent = t.d[k].parent /\ u.d[k].mp = t.d[k].mp
                                     /\ ~last => u.d[k].live = t.d[k].live
        <5> HIDE DEF u
        <5> QED
          BY <2>5, <4>1, <4>2, PutFacts
      <4>4. Afford(u)
        <5> HIDE DEF u
        <5> QED
          BY <2>5, <2>7, <4>1, <4>2, PutAffords
      <4>5. w.d[w.cur].parent # 0 => ~last
        BY <4>2
      <4> HIDE DEF u, e, last
      <4> QED
        BY <2>5, <3>1, <4>3, <4>4, <4>5
    <3>2. CASE ~IsTemp(w)
      <4>1. u = t
        BY <2>4, <3>2
      <4> HIDE DEF u, e
      <4> QED
        BY <2>3, <2>5, <2>7, <4>1
    <3> QED
      BY <3>1, <3>2
  <2> HIDE DEF u, e
  <2>9. /\ IsWalk(v) /\ v.mnt = w.mnt /\ v.cur = x /\ v.rc = "OK" /\ v.d = u.d /\ v.fr = u.fr
    BY <2>1, <2>8 DEF IsWalk
  <2>10. DentOK(v.d) /\ Afford(v)
    BY <2>8, <2>9 DEF Afford
  <2>11. \A i \in DOMAIN mounts : ~(mounts[i].mp # 0 /\ Node(w.d, mounts[i].mp) = ChildEntry(w, name))
    BY <1>10 DEF vfs_find_mount_by_inode
  <2> HIDE DEF sub
  <2>12. x \notin DOMAIN w.d
    BY <1>2, NewIdFacts
  <2>13. /\ DOMAIN v.d = DOMAIN w.d \cup {v.cur} /\ v.d[v.cur].parent = w.cur
         /\ Node(v.d, v.cur) = ChildEntry(w, name)
    <3>1. v.d[x].sb = n.sb /\ v.d[x].num = n.num /\ v.d[x].parent = w.cur
      BY <2>3, <2>8, <2>9
    <3>2. Node(v.d, v.cur) = [sb |-> n.sb, num |-> n.num]
      BY <2>9, <3>1 DEF Node
    <3>3. n = [sb |-> n.sb, num |-> n.num]
      BY DEF ChildEntry
    <3>4. DOMAIN v.d = DOMAIN w.d \cup {x}
      BY <2>3, <2>8, <2>9
    <3> HIDE DEF x
    <3> QED
      BY <2>9, <3>1, <3>2, <3>3, <3>4
  <2>14. \A k \in DOMAIN w.d :
          /\ v.d[k].sb = w.d[k].sb /\ v.d[k].num = w.d[k].num
          /\ v.d[k].parent = w.d[k].parent /\ v.d[k].mp = w.d[k].mp
          /\ (IsTemp(w) /\ w.d[w.cur].parent = 0) \/ v.d[k].live = w.d[k].live
    BY <2>3, <2>8, <2>9
  <2>15. (IsTemp(w) /\ w.d[w.cur].parent = 0) \/ v.d[v.cur].live
    BY <2>3, <2>8, <2>9
  <2>16. Descended(w, v, name)
    BY <2>9, <2>11, <2>13, <2>14, <2>15 DEF Descended
  <2> QED
    BY <1>3, <1>10, <2>9, <2>10, <2>16 DEF dir
<1> QED
  BY <1>6, <1>7, <1>8, <1>9, <1>10

-----------------------------------------------------------------------------
(* Walks *)

(* What a walk sees of the dentries of the mounts is what they are. *)
LEMMA SameNode ==
  ASSUME NEW d, Same(d), NEW x \in DOMAIN dent
  PROVE  x \in DOMAIN d /\ Node(d, x) = Node(dent, x) /\ d[x].parent = dent[x].parent
BY DEF Same, Node

(* A dentry that is not in use before is not a dentry of the mounts. *)
LEMMA SameMore ==
  ASSUME NEW d, Same(d), NEW e, DOMAIN d \subseteq DOMAIN e,
         \A y \in DOMAIN d : /\ e[y].sb = d[y].sb /\ e[y].num = d[y].num
                             /\ e[y].parent = d[y].parent /\ e[y].mp = d[y].mp
  PROVE  Same(e)
BY DEF Same

(* A walk begins at the root of what is mounted over the root. *)
LEMMA StartWalks ==
  ASSUME VfsInv, mounts # <<>>
  PROVE  /\ Walking(Start) /\ Start.rc = "OK" /\ Start.d = dent
         /\ \E i \in DOMAIN mounts :
               /\ Start.mnt = mounts[i] /\ Start.cur = mounts[i].root
               /\ [sb |-> mounts[i].sb, num |-> RootNum[mounts[i].sb.type]] = Cover(RootNode)
<1> DEFINE over == vfs_find_mount_by_mountpoint(g_root_dent)
           R(i) == [sb |-> mounts[i].sb, num |-> RootNum[mounts[i].sb.type]]
<1>1. /\ over \subseteq DOMAIN mounts /\ over \subseteq Nat /\ Len(mounts) \in DOMAIN mounts
      /\ \A i \in over : mounts[i].mp = g_root_dent
      /\ \A i \in DOMAIN mounts \ over : mounts[i].mp # g_root_dent
  BY MountFacts DEF vfs_find_mount_by_mountpoint
<1>2. /\ g_root_dent \in DOMAIN dent /\ g_root_dent # 0 /\ g_root_mnt = mounts[Len(mounts)]
      /\ Node(dent, g_root_dent) = RootNode /\ AtRoot(RootNode)
  BY MountFacts DEF MountOK, RootNode, AtRoot
<1>3. over # {} => dent[g_root_dent].mp
  BY <1>1, <1>2 DEF VfsInv, TableOK, SeenOf
<1>4. \E i \in DOMAIN mounts : StartMount = mounts[i] /\ R(i) = Cover(RootNode)
  <2>1. CASE over # {}
    <3>1. PICK j : j = Min(over)
      OBVIOUS
    <3>2. j \in over /\ j \in DOMAIN mounts
      BY <1>1, <2>1, <3>1, MinLeast
    <3>3. StartMount = mounts[j]
      BY <1>3, <2>1, <3>1 DEF StartMount
    <3>4. RootNode \in DOMAIN mtab /\ mtab[RootNode] = mounts[j].sb
      BY <1>1, <1>2, <3>2 DEF VfsInv, TableOK, SeenOf
    <3>5. R(j) = Cover(RootNode)
      BY <3>4 DEF Cover
    <3> HIDE DEF R
    <3> QED
      BY <3>2, <3>3, <3>5
  <2>2. CASE over = {}
    <3>1. StartMount = mounts[Len(mounts)]
      BY <1>2, <2>2 DEF StartMount
    <3>2. RootNode \notin DOMAIN mtab
      BY <1>1, <1>2, <2>2 DEF VfsInv, TableOK, SeenOf
    <3>3. R(Len(mounts)) = Cover(RootNode)
      BY <1>2, <3>2 DEF Cover, RootNode
    <3> HIDE DEF R
    <3> QED
      BY <1>1, <3>1, <3>3
  <2> QED
    BY <2>1, <2>2
<1>5. PICK i \in DOMAIN mounts : StartMount = mounts[i] /\ R(i) = Cover(RootNode)
  BY <1>4
<1>6. PICK w : w = Start
  OBVIOUS
<1>7. /\ IsWalk(w) /\ w.mnt = mounts[i] /\ w.cur = mounts[i].root /\ w.d = dent /\ w.fr = free
      /\ w.rc = "OK"
  BY <1>5, <1>6 DEF Start, IsWalk
<1>8. Afford(w)
  <2>1. Cardinality(Heads(dent)) \in Nat /\ free \in Nat
    BY HeadsFinite DEF VfsInv, PagesOK
  <2> QED
    BY <1>7, <2>1 DEF Afford
<1>9. Walking(w)
  <2>1. mounts[i] \in Range(mounts) /\ mounts[i].root \in DOMAIN dent
    BY MountFacts DEF Range
  <2> QED
    BY <1>7, <1>8, <2>1 DEF Walking, Same, VfsInv
<1> QED
  BY <1>5, <1>6, <1>7, <1>9

(* Every step of a walk is one. *)
LEMMA StepWalks ==
  ASSUME VfsInv, NEW w, Walking(w), NEW name, NEW v, v = Step(w, name)
  PROVE  Walking(v)
<1>1. CASE w.rc # "OK" \/ name = "."
  BY <1>1 DEF Step
<1>2. CASE w.rc = "OK" /\ name = ".."
  <2>1. v = vfs_dotdot(w)
    BY <1>2 DEF Step
  <2>2. /\ IsWalk(w) /\ w.cur \in DOMAIN w.d /\ DentOK(w.d) /\ Same(w.d)
        /\ \E i \in DOMAIN mounts : w.mnt = mounts[i]
    BY DEF Walking, Range
  <2>3. w.mnt.mp # 0 => w.mnt.mp \in DOMAIN w.d
    BY <2>2, MountFacts DEF Same
  <2>4. w.d[w.cur].parent # 0 => w.d[w.cur].parent \in DOMAIN w.d
    BY <2>2 DEF DentOK, DentryIn
  <2>5. \/ v = w
        \/ \E y \in DOMAIN w.d : v = [w EXCEPT !.cur = y]
    BY <2>1, <2>3, <2>4 DEF vfs_dotdot
  <2>6. ASSUME NEW y \in DOMAIN w.d, v = [w EXCEPT !.cur = y] PROVE Walking(v)
    <3>1. IsWalk(v) /\ v.mnt = w.mnt /\ v.cur = y /\ v.d = w.d /\ v.fr = w.fr
      BY <2>2, <2>6 DEF IsWalk
    <3> QED
      BY <3>1 DEF Walking, Afford
  <2> QED
    BY <2>5, <2>6
<1>3. CASE w.rc = "OK" /\ name # "." /\ name # ".."
  <2>1. v = vfs_lookup_child(w, name)
    BY <1>3 DEF Step
  <2>2. /\ IsWalk(v) /\ DentOK(v.d) /\ Afford(v)
        /\ Failed(w, v, name) \/ Entered(w, v, name) \/ Descended(w, v, name)
    BY <1>3, <2>1, ChildCases
  <2>3. Same(w.d) /\ w.cur \in DOMAIN w.d /\ w.mnt \in Range(mounts)
    BY DEF Walking
  <2>4. CASE Failed(w, v, name)
    BY <2>2, <2>3, <2>4 DEF Walking, Failed
  <2>5. CASE Entered(w, v, name)
    <3>1. PICK i \in DOMAIN mounts : v.mnt = mounts[i] /\ v.cur = mounts[i].root /\ v.d = w.d
      BY <2>5 DEF Entered
    <3>2. mounts[i].root \in DOMAIN w.d /\ mounts[i] \in Range(mounts)
      BY <2>3, MountFacts DEF Same, Range
    <3> QED
      BY <2>2, <2>3, <3>1, <3>2 DEF Walking
  <2>6. CASE Descended(w, v, name)
    <3>1. Same(v.d)
      <4>1. DOMAIN w.d \subseteq DOMAIN v.d
        BY <2>6 DEF Descended
      <4>2. \A y \in DOMAIN w.d : /\ v.d[y].sb = w.d[y].sb /\ v.d[y].num = w.d[y].num
                                  /\ v.d[y].parent = w.d[y].parent /\ v.d[y].mp = w.d[y].mp
        BY <2>6 DEF Descended
      <4> QED
        BY <2>3, <4>1, <4>2, SameMore
    <3>2. v.mnt = w.mnt /\ v.cur \in DOMAIN v.d
      BY <2>6 DEF Descended
    <3> QED
      BY <2>2, <2>3, <3>1, <3>2 DEF Walking
  <2> QED
    BY <2>2, <2>4, <2>5, <2>6
<1> QED
  BY <1>1, <1>2, <1>3

(* So is a whole lookup. *)
LEMMA LookupWalks ==
  ASSUME VfsInv, mounts # <<>>, NEW p \in Seq(STRING)
  PROVE  Walking(vfs_lookup(p))
<1> DEFINE n == Len(p)
<1>1. n \in Nat /\ DOMAIN p = 1..n
  OBVIOUS
<1> HIDE DEF n
<1>2. PICK f : WalkRun(f, Start, p, n)
  BY <1>1, WalkFold
<1> DEFINE S == {k \in Nat : k <= n => Walking(f[k])}
<1>3. 0 \in S
  BY <1>2, StartWalks DEF WalkRun
<1>4. ASSUME NEW k \in Nat, k \in S PROVE k + 1 \in S
  <2>1. SUFFICES ASSUME k + 1 <= n PROVE Walking(f[k + 1])
    OBVIOUS
  <2>2. k + 1 \in 1..n /\ (k + 1) - 1 = k /\ Walking(f[k])
    BY <1>1, <1>4, <2>1
  <2>3. f[k + 1] = Step(f[k], p[k + 1])
    BY <1>2, <2>2 DEF WalkRun
  <2> QED
    BY <2>2, <2>3, StepWalks
<1>5. n \in S
  <2> HIDE DEF S
  <2> QED
    BY <1>1, <1>3, <1>4, SetInduction
<1>6. vfs_lookup(p) = f[n]
  BY <1>2 DEF vfs_lookup, WalkRun, Walk
<1> QED
  BY <1>1, <1>5, <1>6

-----------------------------------------------------------------------------
(* What a walk finds *)

(* The reference walk along one name more. *)
LEMMA RefWalkStep ==
  /\ RefWalk(<<>>) = Cover(RootNode)
  /\ \A q \in Seq(STRING), c \in STRING : RefWalk(Append(q, c)) = RefStep(RefWalk(q), c)
<1>1. \A q : RefWalk(q) = RefFrom(Cover(RootNode), q)
  BY DEF RefWalk, RefFrom
<1>2. \A q \in Seq(STRING), c \in STRING :
         RefFrom(Cover(RootNode), Append(q, c)) = RefStep(RefFrom(Cover(RootNode), q), c)
  BY RefFromFoldAppend
<1>3. RefFrom(Cover(RootNode), <<>>) = Cover(RootNode)
  BY RefFromFoldEmpty
<1> QED
  BY <1>1, <1>2, <1>3

(* The names without dots, of one name more. *)
LEMMA NormalStep ==
  ASSUME NEW p \in Seq(STRING)
  PROVE  /\ Normal(SubSeq(p, 1, 0)) = <<>> /\ SubSeq(p, 1, Len(p)) = p
         /\ \A k \in 0..(Len(p) - 1) :
              Normal(SubSeq(p, 1, k + 1)) = Resolve(Normal(SubSeq(p, 1, k)), p[k + 1])
<1>1. \A q : Normal(q) = NormalFrom(<<>>, q)
  BY DEF Normal, NormalFrom
<1>2. SubSeq(p, 1, 0) = <<>> /\ SubSeq(p, 1, Len(p)) = p
  OBVIOUS
<1>3. ASSUME NEW k \in 0..(Len(p) - 1)
      PROVE  Normal(SubSeq(p, 1, k + 1)) = Resolve(Normal(SubSeq(p, 1, k)), p[k + 1])
  <2>1. /\ SubSeq(p, 1, k) \in Seq(STRING) /\ p[k + 1] \in STRING
        /\ SubSeq(p, 1, k + 1) = Append(SubSeq(p, 1, k), p[k + 1])
    OBVIOUS
  <2>2. \A q \in Seq(STRING), c \in STRING :
           NormalFrom(<<>>, Append(q, c)) = Resolve(NormalFrom(<<>>, q), c)
    BY NormalFromFoldAppend
  <2> QED
    BY <1>1, <2>1, <2>2
<1>4. NormalFrom(<<>>, <<>>) = <<>>
  BY NormalFromFoldEmpty
<1> QED
  BY <1>1, <1>2, <1>3, <1>4

(* Adding a name without dots, or taking one away. *)
LEMMA ResolveType ==
  ASSUME NEW q \in Seq(STRING), NEW c \in STRING
  PROVE  /\ Resolve(q, c) \in Seq(STRING)
         /\ c = "." => Resolve(q, c) = q
         /\ c = ".." /\ q # <<>> => Resolve(q, c) = SubSeq(q, 1, Len(q) - 1)
         /\ c # "." /\ c # ".." => Resolve(q, c) = Append(q, c)
<1>1. Front(q) = SubSeq(q, 1, Len(q) - 1)
  BY DEF Front
<1>2. q # <<>> => SubSeq(q, 1, Len(q) - 1) \in Seq(STRING)
  OBVIOUS
<1>3. CASE c = "."
  <2>1. Resolve(q, c) = q
    BY <1>3 DEF Resolve
  <2> QED
    BY <1>3, <2>1
<1>4. CASE c = ".."
  <2>1. Resolve(q, c) = IF q = <<>> THEN q ELSE Front(q)
    BY <1>4 DEF Resolve
  <2> QED
    BY <1>1, <1>2, <1>4, <2>1
<1>5. CASE c # "." /\ c # ".."
  <2>1. Resolve(q, c) = Append(q, c)
    BY <1>5 DEF Resolve
  <2> QED
    BY <1>5, <2>1
<1> QED
  BY <1>3, <1>4, <1>5

(* A walk that is right so far: the dentries from the root of its mount to *)
(* where it is are those of the names q, h[x] of them at the dentry x.     *)
Trail(w, q, T, h) ==
    /\ T \subseteq DOMAIN w.d /\ w.cur \in T /\ h[w.cur] = Len(q)
    /\ \A x \in T :
          /\ h[x] \in 0..Len(q) /\ Node(w.d, x) = RefWalk(SubSeq(q, 1, h[x]))
          /\ w.d[x].sb = w.mnt.sb
          /\ w.d[x].parent # 0 => w.d[x].parent \in T /\ h[x] = h[w.d[x].parent] + 1
          /\ w.d[x].parent = 0 => x = w.mnt.root
Right(w, q) == \E T, h : Trail(w, q, T, h)
AllLive(d) == \A x \in DOMAIN d : d[x].live

(* It is right at the start. *)
LEMMA StartRight ==
  ASSUME VfsInv, mounts # <<>>
  PROVE  Right(Start, <<>>)
<1>1. PICK i \in DOMAIN mounts :
               /\ Start.mnt = mounts[i] /\ Start.cur = mounts[i].root
               /\ [sb |-> mounts[i].sb, num |-> RootNum[mounts[i].sb.type]] = Cover(RootNode)
  BY StartWalks
<1>2. PICK w : w = Start
  OBVIOUS
<1>3. /\ w.d = dent /\ w.cur = mounts[i].root /\ w.mnt = mounts[i] /\ w.cur \in DOMAIN dent
      /\ dent[w.cur].parent = 0 /\ Node(dent, w.cur) = RefWalk(<<>>) /\ dent[w.cur].sb = mounts[i].sb
  BY <1>1, <1>2, StartWalks, MountFacts, RefWalkStep DEF MountOK, Node
<1> DEFINE h == [x \in {w.cur} |-> 0]
<1>4. Len(<<>>) = 0 /\ SubSeq(<<>>, 1, 0) = <<>> /\ 0 \in 0..0
  OBVIOUS
<1>5. h[w.cur] = 0
  OBVIOUS
<1> HIDE DEF h
<1>6. Trail(w, <<>>, {w.cur}, h)
  BY <1>3, <1>4, <1>5 DEF Trail
<1> QED
  BY <1>2, <1>6 DEF Right

(* At a place that is not the root of a mount there is a parent. *)
LEMMA RightInside ==
  ASSUME VfsInv, NEW w, Walking(w), NEW q, NEW T, NEW h, Trail(w, q, T, h), q \in Seq(STRING)
  PROVE  /\ Node(w.d, w.cur) = RefWalk(q) /\ w.d[w.cur].sb = w.mnt.sb
         /\ w.d[w.cur].parent = 0 => AtRoot(RefWalk(q)) /\ w.cur = w.mnt.root
         /\ w.cur = w.mnt.root => AtRoot(RefWalk(q))
<1>1. Node(w.d, w.cur) = RefWalk(q) /\ w.d[w.cur].sb = w.mnt.sb
  <2>1. SubSeq(q, 1, Len(q)) = q
    OBVIOUS
  <2> QED
    BY <2>1 DEF Trail
<1>2. w.d[w.cur].parent = 0 => w.cur = w.mnt.root
  BY DEF Trail
<1>3. w.cur = w.mnt.root => AtRoot(RefWalk(q))
  <2>1. PICK i \in DOMAIN mounts : w.mnt = mounts[i]
    BY DEF Walking, Range
  <2>2. /\ w.mnt.root \in DOMAIN dent
        /\ Node(dent, w.mnt.root) = [sb |-> w.mnt.sb, num |-> RootNum[w.mnt.sb.type]]
    BY <2>1, MountFacts DEF MountOK
  <2>3. Node(w.d, w.mnt.root) = Node(dent, w.mnt.root)
    BY <2>2, SameNode DEF Walking
  <2> QED
    BY <1>1, <2>2, <2>3 DEF AtRoot
<1> QED
  BY <1>1, <1>2, <1>3

(* ".." goes to the parent, by one name less. *)
LEMMA DotDotRight ==
  ASSUME VfsInv, NEW w, Walking(w), w.rc = "OK", NEW q \in Seq(STRING), NEW T, NEW h,
         Trail(w, q, T, h), ~AtRoot(RefWalk(q)), NEW v, v = vfs_dotdot(w)
  PROVE  v.rc = "OK" /\ v.d = w.d /\ q # <<>> /\ Right(v, SubSeq(q, 1, Len(q) - 1))
<1>1. w.d[w.cur].parent # 0 /\ w.cur # w.mnt.root
  BY RightInside
<1>2. PICK p : p = w.d[w.cur].parent
  OBVIOUS
<1>3. p \in T /\ Len(q) = h[p] + 1 /\ h[p] \in 0..Len(q) /\ Len(q) \in Nat
  BY <1>1, <1>2 DEF Trail
<1>4. v = [w EXCEPT !.cur = p]
  BY <1>1, <1>2 DEF vfs_dotdot
<1>5. v.mnt = w.mnt /\ v.cur = p /\ v.d = w.d /\ v.rc = w.rc
  BY <1>4 DEF Walking, IsWalk
<1> DEFINE r == SubSeq(q, 1, Len(q) - 1)
           U == {x \in T : h[x] <= Len(q) - 1}
<1>6. Len(r) = Len(q) - 1 /\ \A k \in 0..Len(r) : SubSeq(r, 1, k) = SubSeq(q, 1, k)
  BY <1>3
<1>7. p \in U /\ U \subseteq DOMAIN v.d /\ h[p] = Len(r)
  BY <1>3, <1>5, <1>6 DEF Trail
<1>8. ASSUME NEW x \in U
      PROVE  /\ h[x] \in 0..Len(r) /\ Node(v.d, x) = RefWalk(SubSeq(r, 1, h[x]))
             /\ v.d[x].sb = v.mnt.sb
             /\ v.d[x].parent # 0 => v.d[x].parent \in U /\ h[x] = h[v.d[x].parent] + 1
             /\ v.d[x].parent = 0 => x = v.mnt.root
  <2>1. /\ h[x] \in 0..Len(q) /\ Node(w.d, x) = RefWalk(SubSeq(q, 1, h[x]))
        /\ w.d[x].sb = w.mnt.sb
        /\ w.d[x].parent # 0 => w.d[x].parent \in T /\ h[x] = h[w.d[x].parent] + 1
        /\ w.d[x].parent = 0 => x = w.mnt.root
    BY DEF Trail
  <2>2. h[x] \in 0..Len(r) /\ h[x] <= Len(q) - 1
    BY <1>3, <1>6, <2>1
  <2>3. SubSeq(r, 1, h[x]) = SubSeq(q, 1, h[x])
    BY <1>6, <2>2
  <2>4. w.d[x].parent # 0 => h[w.d[x].parent] <= Len(q) - 1
    <3>1. w.d[x].parent # 0 => h[w.d[x].parent] \in 0..Len(q)
      BY <2>1 DEF Trail
    <3> QED
      BY <1>3, <2>1, <2>2, <3>1
  <2> HIDE DEF r
  <2> QED
    BY <1>5, <2>1, <2>2, <2>3, <2>4
<1> HIDE DEF r, U
<1>9. Trail(v, r, U, h)
  BY <1>5, <1>7, <1>8 DEF Trail
<1>10. q # <<>>
  BY <1>3
<1> QED
  BY <1>5, <1>9, <1>10 DEF r, Right

(* A name leads to the entry of the directory and on to what is mounted    *)
(* there: the walk and the reference go to the same place.                 *)
LEMMA NameRight ==
  ASSUME VfsInv, NEW w, Walking(w), w.rc = "OK", NEW q \in Seq(STRING), NEW T, NEW h,
         Trail(w, q, T, h), NEW c \in STRING, NEW v, v = vfs_lookup_child(w, c)
  PROVE  /\ v.rc = "OK" => Right(v, Append(q, c))
         /\ v.rc \in {"ENOENT", "ENOTDIR"} => RefWalk(Append(q, c)).num = 0
         /\ AllLive(w.d) => AllLive(v.d)
<1> DEFINE dir == Node(w.d, w.cur)
           n == ChildEntry(w, c)
           r == Append(q, c)
           ref == RefWalk(r)
<1>1. ref = RefStep(dir, c)
  <2>1. RefWalk(q) = dir
    BY RightInside
  <2> QED
    BY <2>1, RefWalkStep
<1>2. /\ w.cur \in DOMAIN w.d /\ dir = [sb |-> w.d[w.cur].sb, num |-> w.d[w.cur].num]
      /\ dir.num \in Nat \ {0} /\ dir.sb \in Sb /\ dir.sb.type \in FsType
      /\ Same(w.d)
  BY DEF Walking, DentOK, DentryIn, Node, Sb
<1>3. PICK k : k = fs_child(dir, c)
  OBVIOUS
<1>4. k \in Nat /\ (k > 0 => k # RootNum[dir.sb.type])
  <2>1. NamesOK
    BY DEF VfsInv
  <2> HIDE DEF dir
  <2> QED
    BY <1>2, <1>3, <2>1, ChildFacts
<1>5. n = [sb |-> dir.sb, num |-> k]
  BY <1>2, <1>3 DEF ChildEntry
<1>6. w.d[w.cur].parent = 0 => ~IsTemp(w)
  <2>1. w.d[w.cur].parent = 0 => w.cur = w.mnt.root
    BY RightInside
  <2> QED
    BY <2>1 DEF IsTemp
<1>7. \/ Failed(w, v, c)
      \/ vfs_is_dir(dir) /\ k > 0 /\ (Entered(w, v, c) \/ Descended(w, v, c))
  BY <1>3, ChildCases
<1>8. /\ Len(r) = Len(q) + 1 /\ SubSeq(r, 1, Len(r)) = r /\ r \in Seq(STRING) /\ Len(q) \in Nat
      /\ \A i \in 0..Len(q) : SubSeq(r, 1, i) = SubSeq(q, 1, i)
  <2>1. Len(r) = Len(q) + 1 /\ r \in Seq(STRING) /\ Len(q) \in Nat
    OBVIOUS
  <2>2. SubSeq(r, 1, Len(r)) = r
    BY <2>1
  <2>3. \A i \in 0..Len(q) : SubSeq(r, 1, i) = SubSeq(q, 1, i)
    OBVIOUS
  <2> QED
    BY <2>1, <2>2, <2>3
<1> HIDE DEF dir, n, r
<1>9. CASE Failed(w, v, c)
  <2>1. v.d = w.d /\ v.rc # "OK"
    BY <1>9 DEF Failed
  <2>2. v.rc \in {"ENOENT", "ENOTDIR"} => k = 0 \/ ~vfs_is_dir(dir)
    BY <1>3, <1>9 DEF Failed, dir
  <2>3. k = 0 \/ ~vfs_is_dir(dir) => RefStep(dir, c).num = 0
    BY <1>2, <1>3 DEF RefStep
  <2> QED
    BY <1>1, <2>1, <2>2, <2>3 DEF r
<1>10. vfs_is_dir(dir) /\ k > 0 => ref = Cover(n)
  <2>1. ASSUME vfs_is_dir(dir), k > 0 PROVE ref = Cover(n)
    <3>1. RefStep(dir, c) = Cover([dir EXCEPT !.num = k])
      BY <1>2, <1>3, <1>4, <2>1 DEF RefStep
    <3>2. [dir EXCEPT !.num = k] = n
      BY <1>2, <1>5
    <3> QED
      BY <1>1, <3>1, <3>2
  <2> QED
    BY <2>1
<1>11. k > 0 => ~AtRoot(n)
  BY <1>4, <1>5 DEF AtRoot
<1>12. CASE vfs_is_dir(dir) /\ k > 0 /\ Entered(w, v, c)
  <2>1. PICK i \in DOMAIN mounts :
            /\ mounts[i].mp # 0 /\ Node(w.d, mounts[i].mp) = n
            /\ v.mnt = mounts[i] /\ v.cur = mounts[i].root /\ v.d = w.d /\ v.rc = "OK"
    BY <1>12 DEF Entered, n
  <2>2. /\ mounts[i].mp \in DOMAIN dent /\ mounts[i].root \in DOMAIN dent
        /\ dent[mounts[i].root].parent = 0
        /\ Node(dent, mounts[i].root) = [sb |-> mounts[i].sb, num |-> RootNum[mounts[i].sb.type]]
    BY <2>1, MountFacts DEF MountOK
  <2>3. Node(dent, mounts[i].mp) = n
    BY <1>2, <2>1, <2>2, SameNode
  <2>4. n \in DOMAIN mtab /\ mtab[n] = mounts[i].sb
    BY <1>11, <1>12, <2>1, <2>3 DEF VfsInv, TableOK, SeenOf
  <2>5. /\ v.cur \in DOMAIN v.d /\ v.d[v.cur].parent = 0 /\ v.cur = v.mnt.root
        /\ Node(v.d, v.cur) = [sb |-> mounts[i].sb, num |-> RootNum[mounts[i].sb.type]]
    BY <1>2, <2>1, <2>2, SameNode
  <2>6. Node(v.d, v.cur) = ref
    BY <1>10, <1>12, <2>4, <2>5 DEF Cover
  <2>7. v.d[v.cur].sb = v.mnt.sb
    BY <2>1, <2>5 DEF Node
  <2> DEFINE g == [x \in {v.cur} |-> Len(r)]
  <2>8. g[v.cur] = Len(r) /\ Len(r) \in 0..Len(r)
    BY <1>8
  <2> HIDE DEF g
  <2>9. Node(v.d, v.cur) = RefWalk(SubSeq(r, 1, g[v.cur]))
    BY <1>8, <2>6, <2>8
  <2>10. g[v.cur] \in 0..Len(r)
    BY <2>8
  <2>11. Trail(v, r, {v.cur}, g)
    BY <2>5, <2>7, <2>8, <2>9, <2>10 DEF Trail
  <2> QED
    BY <2>1, <2>11 DEF Right, r
<1>13. CASE vfs_is_dir(dir) /\ k > 0 /\ Descended(w, v, c)
  <2> DEFINE x == v.cur
  <2>1. /\ v.mnt = w.mnt /\ x = NewId(w.d) /\ v.rc = "OK" /\ DOMAIN v.d = DOMAIN w.d \cup {x}
        /\ Node(v.d, x) = n /\ v.d[x].parent = w.cur
        /\ \A y \in DOMAIN w.d : /\ v.d[y].sb = w.d[y].sb /\ v.d[y].num = w.d[y].num
                                 /\ v.d[y].parent = w.d[y].parent
    BY <1>13 DEF Descended, n
  <2>2. \A i \in DOMAIN mounts : ~(mounts[i].mp # 0 /\ Node(w.d, mounts[i].mp) = n)
    BY <1>13 DEF Descended, n
  <2>3. n \notin DOMAIN mtab
    <3>1. SUFFICES ASSUME n \in DOMAIN mtab PROVE FALSE
      OBVIOUS
    <3>2. PICK i \in DOMAIN mounts : mounts[i].mp # 0 /\ Node(dent, mounts[i].mp) = n
      BY <3>1 DEF VfsInv, TableOK, SeenOf
    <3>3. mounts[i].mp \in DOMAIN dent
      BY <3>2, MountFacts
    <3>4. Node(w.d, mounts[i].mp) = n
      BY <1>2, <3>2, <3>3, SameNode
    <3> QED
      BY <2>2, <3>2, <3>4
  <2>4. Node(v.d, x) = ref
    BY <1>10, <1>13, <2>1, <2>3 DEF Cover
  <2>5. v.d[x].sb = v.mnt.sb
    <3>1. v.d[x].sb = n.sb /\ n.sb = w.d[w.cur].sb
      BY <1>2, <1>5, <2>1 DEF Node
    <3>2. w.d[w.cur].sb = w.mnt.sb
      BY RightInside
    <3> QED
      BY <2>1, <3>1, <3>2
  <2>6. x \notin DOMAIN w.d /\ w.cur # 0
    BY <2>1, NewIdFacts DEF Walking
  <2> DEFINE g == [y \in T \cup {x} |-> IF y = x THEN Len(r) ELSE h[y]]
  <2>7. /\ T \subseteq DOMAIN w.d /\ w.cur \in T /\ h[w.cur] = Len(q)
        /\ \A y \in T :
          /\ h[y] \in 0..Len(q) /\ Node(w.d, y) = RefWalk(SubSeq(q, 1, h[y]))
          /\ w.d[y].sb = w.mnt.sb
          /\ w.d[y].parent # 0 => w.d[y].parent \in T /\ h[y] = h[w.d[y].parent] + 1
          /\ w.d[y].parent = 0 => y = w.mnt.root
    BY DEF Trail
  <2>8. g[x] = Len(r) /\ \A y \in T : g[y] = h[y]
    BY <2>6, <2>7
  <2> HIDE DEF g, x
  <2>9. ASSUME NEW y \in T
        PROVE  /\ g[y] \in 0..Len(r) /\ Node(v.d, y) = RefWalk(SubSeq(r, 1, g[y]))
               /\ v.d[y].sb = v.mnt.sb
               /\ v.d[y].parent # 0 => v.d[y].parent \in T \cup {x} /\ g[y] = g[v.d[y].parent] + 1
               /\ v.d[y].parent = 0 => y = v.mnt.root
    <3>1. y \in DOMAIN w.d /\ Node(v.d, y) = Node(w.d, y)
      BY <2>1, <2>7 DEF Node
    <3>2. SubSeq(r, 1, h[y]) = SubSeq(q, 1, h[y]) /\ h[y] \in 0..Len(r)
      BY <1>8, <2>7
    <3>3. Node(v.d, y) = RefWalk(SubSeq(r, 1, g[y])) /\ g[y] \in 0..Len(r)
      BY <2>7, <2>8, <3>1, <3>2
    <3>4. v.d[y].sb = v.mnt.sb /\ v.d[y].parent = w.d[y].parent
      BY <2>1, <2>7, <3>1
    <3>5. w.d[y].parent # 0 => g[w.d[y].parent] = h[w.d[y].parent]
      BY <2>7, <2>8
    <3> QED
      BY <2>1, <2>7, <2>8, <3>3, <3>4, <3>5
  <2>10. /\ g[x] \in 0..Len(r) /\ Node(v.d, x) = RefWalk(SubSeq(r, 1, g[x]))
         /\ v.d[x].sb = v.mnt.sb
         /\ v.d[x].parent # 0 /\ v.d[x].parent \in T /\ g[x] = g[v.d[x].parent] + 1
    <3>1. Node(v.d, x) = RefWalk(SubSeq(r, 1, g[x])) /\ g[x] \in 0..Len(r)
      <4>1. SubSeq(r, 1, g[x]) = r
        BY <1>8, <2>8
      <4>2. g[x] \in 0..Len(r)
        BY <1>8, <2>8
      <4> QED
        BY <2>4, <4>1, <4>2
    <3>2. g[w.cur] = Len(q) /\ g[x] = Len(q) + 1
      BY <1>8, <2>7, <2>8
    <3> QED
      BY <2>1, <2>5, <2>6, <2>7, <3>1, <3>2
  <2>11. T \cup {x} \subseteq DOMAIN v.d
    BY <2>1, <2>7
  <2>12. Trail(v, r, T \cup {x}, g)
    BY <2>8, <2>9, <2>10, <2>11 DEF Trail, x
  <2>13. AllLive(w.d) => AllLive(v.d)
    BY <1>6, <1>13 DEF Descended, AllLive
  <2> QED
    BY <2>1, <2>12, <2>13 DEF Right, r
<1> QED
  BY <1>7, <1>9, <1>12, <1>13

(* A step of a walk that does not climb out of a mount. *)
LEMMA StepRight ==
  ASSUME VfsInv, NEW w, Walking(w), w.rc = "OK", NEW q \in Seq(STRING), Right(w, q),
         NEW c \in STRING, c = ".." => ~AtRoot(RefWalk(q)), NEW v, v = Step(w, c)
  PROVE  /\ v.rc = "OK" => Right(v, Resolve(q, c))
         /\ v.rc \in {"ENOENT", "ENOTDIR"} => RefWalk(Resolve(q, c)).num = 0
         /\ AllLive(w.d) => AllLive(v.d)
<1>1. PICK T, h : Trail(w, q, T, h)
  BY DEF Right
<1>2. CASE c = "."
  <2>1. v = w /\ Resolve(q, c) = q
    BY <1>2, ResolveType DEF Step
  <2> QED
    BY <2>1
<1>3. CASE c = ".."
  <2>1. v = vfs_dotdot(w)
    BY <1>3 DEF Step
  <2>2. v.rc = "OK" /\ v.d = w.d /\ q # <<>> /\ Right(v, SubSeq(q, 1, Len(q) - 1))
    BY <1>1, <1>3, <2>1, DotDotRight
  <2>3. Resolve(q, c) = SubSeq(q, 1, Len(q) - 1)
    BY <1>3, <2>2, ResolveType
  <2> QED
    BY <2>2, <2>3
<1>4. CASE c # "." /\ c # ".."
  <2>1. v = vfs_lookup_child(w, c)
    BY <1>4 DEF Step
  <2>2. Resolve(q, c) = Append(q, c)
    BY <1>4, ResolveType
  <2> QED
    BY <1>1, <2>1, <2>2, NameRight
<1> QED
  BY <1>2, <1>3, <1>4

(* No ".." of p is applied at the root of a mount: a lookup of p ends where *)
(* the reference does, or fails for a reason, and frees no dentry.         *)
LEMMA LookupRight ==
  ASSUME VfsInv, mounts # <<>>, NEW p \in Seq(STRING), StaysInside(p), NEW w, w = vfs_lookup(p)
  PROVE  /\ Normal(p) \in Seq(STRING)
         /\ w.rc = "OK" => Right(w, Normal(p))
         /\ w.rc \in {"ENOENT", "ENOTDIR"} =>
              \E k \in 0..Len(p) : RefWalk(Normal(SubSeq(p, 1, k))).num = 0
         /\ AllLive(dent) => AllLive(w.d)
<1> DEFINE n == Len(p)
           N(k) == Normal(SubSeq(p, 1, k))
           Lost(k) == \E j \in 0..k : RefWalk(N(j)).num = 0
<1>1. /\ n \in Nat /\ DOMAIN p = 1..n /\ \A k \in 1..n : p[k] \in STRING
      /\ N(0) = <<>> /\ N(n) = Normal(p)
      /\ \A k \in 0..(n - 1) : N(k + 1) = Resolve(N(k), p[k + 1])
  <2>1. n \in Nat /\ DOMAIN p = 1..n /\ \A k \in 1..n : p[k] \in STRING
    OBVIOUS
  <2>2. N(0) = <<>>
    BY NormalStep
  <2>3. N(n) = Normal(p)
    BY NormalStep
  <2>4. \A k \in 0..(n - 1) : N(k + 1) = Resolve(N(k), p[k + 1])
    BY NormalStep
  <2> QED
    BY <2>1, <2>2, <2>3, <2>4
<1>2. \A k \in DOMAIN p : p[k] = ".." => ~AtRoot(RefWalk(N(k - 1)))
  BY DEF StaysInside, AtRoot
<1> HIDE DEF n, N
<1>3. PICK f : WalkRun(f, Start, p, n)
  BY <1>1, WalkFold
<1> DEFINE Ok(k) == /\ Walking(f[k]) /\ N(k) \in Seq(STRING)
                    /\ f[k].rc = "OK" => Right(f[k], N(k))
                    /\ f[k].rc \in {"ENOENT", "ENOTDIR"} => Lost(k)
                    /\ AllLive(dent) => AllLive(f[k].d)
           S == {k \in Nat : k <= n => Ok(k)}
<1>4. 0 \in S
  <2>1. f[0] = Start /\ N(0) = <<>> /\ <<>> \in Seq(STRING)
    BY <1>1, <1>3 DEF WalkRun
  <2>2. Walking(f[0]) /\ f[0].rc = "OK" /\ f[0].d = dent
    BY <2>1, StartWalks
  <2>3. Right(f[0], N(0))
    BY <2>1, StartRight
  <2>4. Ok(0)
    BY <2>1, <2>2, <2>3
  <2> HIDE DEF Ok
  <2> QED
    BY <2>4
<1>5. ASSUME NEW k \in Nat, k \in S PROVE k + 1 \in S
  <2>1. SUFFICES ASSUME k + 1 <= n PROVE Ok(k + 1)
    <3> HIDE DEF Ok
    <3> QED
      OBVIOUS
  <2>2. /\ k + 1 \in 1..n /\ (k + 1) - 1 = k /\ k \in 0..(n - 1) /\ Ok(k)
    <3> HIDE DEF Ok
    <3> QED
      BY <1>1, <1>5, <2>1
  <2>3. f[k + 1] = Step(f[k], p[k + 1]) /\ p[k + 1] \in STRING /\ N(k + 1) = Resolve(N(k), p[k + 1])
    BY <1>1, <1>3, <2>2 DEF WalkRun
  <2>4. Walking(f[k + 1]) /\ N(k + 1) \in Seq(STRING)
    BY <2>2, <2>3, StepWalks, ResolveType
  <2>5. CASE f[k].rc = "OK"
    <3>1. p[k + 1] = ".." => ~AtRoot(RefWalk(N(k)))
      BY <1>1, <1>2, <2>2
    <3>2. /\ f[k + 1].rc = "OK" => Right(f[k + 1], N(k + 1))
          /\ f[k + 1].rc \in {"ENOENT", "ENOTDIR"} => RefWalk(N(k + 1)).num = 0
          /\ AllLive(f[k].d) => AllLive(f[k + 1].d)
      <4>1. PICK u, q, c, v : u = f[k] /\ q = N(k) /\ c = p[k + 1] /\ v = f[k + 1]
        OBVIOUS
      <4>2. /\ Walking(u) /\ u.rc = "OK" /\ q \in Seq(STRING) /\ Right(u, q)
            /\ c \in STRING /\ (c = ".." => ~AtRoot(RefWalk(q))) /\ v = Step(u, c)
        BY <2>2, <2>3, <2>5, <3>1, <4>1
      <4>3. /\ v.rc = "OK" => Right(v, Resolve(q, c))
            /\ v.rc \in {"ENOENT", "ENOTDIR"} => RefWalk(Resolve(q, c)).num = 0
            /\ AllLive(u.d) => AllLive(v.d)
        BY <4>2, StepRight
      <4> QED
        BY <2>3, <4>1, <4>3
    <3>3. k + 1 \in 0..(k + 1)
      OBVIOUS
    <3> QED
      BY <2>2, <2>4, <3>2, <3>3
  <2>6. CASE f[k].rc # "OK"
    <3>1. f[k + 1] = f[k]
      BY <2>3, <2>6 DEF Step
    <3>2. Lost(k) => Lost(k + 1)
      OBVIOUS
    <3> QED
      BY <2>2, <2>4, <2>6, <3>1, <3>2
  <2> QED
    BY <2>5, <2>6
<1>6. n \in S
  <2> HIDE DEF S
  <2> QED
    BY <1>1, <1>4, <1>5, SetInduction
<1>7. w = f[n]
  BY <1>3 DEF vfs_lookup, WalkRun, Walk
<1> QED
  BY <1>1, <1>6, <1>7 DEF n, N

(* The two claims of WalkCorrect, of every lookup that stays inside. *)
LEMMA InvWalkCorrect ==
  ASSUME VfsInv
  PROVE  WalkCorrect
<1> SUFFICES ASSUME NEW p \in Paths, mounts # <<>>, StaysInside(p)
             PROVE  LET w == vfs_lookup(p)
                    IN  /\ w.rc = "OK" => /\ Node(w.d, w.cur) = RefWalk(Normal(p))
                                          /\ w.mnt.sb = w.d[w.cur].sb
                        /\ w.rc \in {"ENOENT", "ENOTDIR"} =>
                             \E k \in 0..Len(p) : RefWalk(Normal(SubSeq(p, 1, k))).num = 0
  BY DEF WalkCorrect
<1>1. p \in Seq(STRING)
  BY VfsAssumption
<1>2. PICK w : w = vfs_lookup(p)
  OBVIOUS
<1>3. /\ Walking(w) /\ Normal(p) \in Seq(STRING)
      /\ w.rc = "OK" => Right(w, Normal(p))
      /\ w.rc \in {"ENOENT", "ENOTDIR"} =>
           \E k \in 0..Len(p) : RefWalk(Normal(SubSeq(p, 1, k))).num = 0
  BY <1>1, <1>2, LookupWalks, LookupRight
<1>4. ASSUME w.rc = "OK"
      PROVE  Node(w.d, w.cur) = RefWalk(Normal(p)) /\ w.mnt.sb = w.d[w.cur].sb
  <2>1. PICK T, h : Trail(w, Normal(p), T, h)
    BY <1>3, <1>4 DEF Right
  <2> QED
    BY <1>3, <2>1, RightInside
<1> QED
  BY <1>2, <1>3, <1>4

-----------------------------------------------------------------------------
(* What an operation leaves *)

(* Where mounts are: their roots and the directories under them.           *)
Held(ms) == (UNION {{m.root, m.mp} : m \in Range(ms)}) \ {0}
LEMMA HeldFacts ==
  ASSUME NEW ms, NEW x
  PROVE  x \in Held(ms) <=> x # 0 /\ \E m \in Range(ms) : x \in {m.root, m.mp}
<1> DEFINE U == {{m.root, m.mp} : m \in Range(ms)}
<1>1. x \in UNION U <=> \E s \in U : x \in s
  BY Zenon
<1>2. (\E s \in U : x \in s) <=> \E m \in Range(ms) : x \in {m.root, m.mp}
  BY Zenon
<1>3. Held(ms) = (UNION U) \ {0}
  BY Zenon DEF Held
<1> HIDE DEF U
<1>4. x \in Held(ms) <=> x # 0 /\ x \in UNION U
  BY <1>3
<1> QED
  BY <1>1, <1>2, <1>4, Zenon

(* The dentries that mounts reach: their roots, where they are mounted, and *)
(* the parents of these.                                                   *)
LEMMA ReachedFacts ==
  ASSUME NEW d, DentOK(d), NEW ms,
         \A m \in Range(ms) : m.root \in DOMAIN d /\ m.mp \in {0} \cup DOMAIN d
  PROVE  /\ Reached(d, ms) \subseteq DOMAIN d
         /\ \A m \in Range(ms) : m.root \in Reached(d, ms) /\ m.mp \in {0} \cup Reached(d, ms)
         /\ \A x \in Reached(d, ms) : d[x].parent \in {0} \cup Reached(d, ms)
<1> DEFINE from == Held(ms)
           N == NewId(d)
           q == [k \in 1..N |-> d]
<1>1. /\ N \in Nat \ {0} /\ \A x \in DOMAIN d : x \in Nat \ {0} /\ x < N
      /\ \A x \in DOMAIN d : d[x].parent \in {0} \cup DOMAIN d /\ d[x].parent < x
  BY NewIdFacts DEF DentOK, DentryIn
<1>2. from \subseteq DOMAIN d
  <2>1. ASSUME NEW x, x \in from PROVE x \in DOMAIN d
    <3>1. PICK m \in Range(ms) : x \in {m.root, m.mp} /\ x # 0
      BY <2>1, HeldFacts
    <3> QED
      BY <3>1
  <2> QED
    BY <2>1
<1>3. \A m \in Range(ms) : m.root \in from /\ m.mp \in {0} \cup from
  <2>1. ASSUME NEW m \in Range(ms) PROVE m.root \in from /\ m.mp \in {0} \cup from
    <3>1. m.root \in {m.root, m.mp} /\ m.mp \in {m.root, m.mp} /\ m.root # 0
      BY <1>1
    <3>2. m.root \in from
      BY <3>1, HeldFacts
    <3>3. m.mp # 0 => m.mp \in from
      BY <3>1, HeldFacts
    <3> QED
      BY <3>2, <3>3
  <2> QED
    BY <2>1
<1>4. Reached(d, ms) = Climb(from, q)
  BY DEF Reached, Climb, Held
<1> HIDE DEF from, N
<1>5. DOMAIN q = 1..N /\ N \in Nat /\ \A k \in 1..N : q[k] = d
  BY <1>1
<1> HIDE DEF q
<1>6. PICK f : ClimbRun(f, from, q, N)
  BY <1>5, ClimbFold
<1>7. f[0] = from /\ \A k \in 1..N : f[k] = f[k - 1] \cup ({d[x].parent : x \in f[k - 1]} \ {0})
  BY <1>5, <1>6 DEF ClimbRun, Up
<1> DEFINE Ok(k) == /\ from \subseteq f[k] /\ f[k] \subseteq DOMAIN d
                    /\ \A x \in f[k] : d[x].parent \in {0} \cup f[k] \/ x + k <= N
           S == {k \in Nat : k <= N => Ok(k)}
<1>8. 0 \in S
  BY <1>1, <1>2, <1>7
<1>9. ASSUME NEW k \in Nat, k \in S PROVE k + 1 \in S
  <2>1. SUFFICES ASSUME k + 1 <= N PROVE Ok(k + 1)
    OBVIOUS
  <2>2. k + 1 \in 1..N /\ (k + 1) - 1 = k /\ k <= N
    BY <1>1, <2>1
  <2>3. f[k + 1] = f[k] \cup ({d[x].parent : x \in f[k]} \ {0})
    BY <1>7, <2>2
  <2>4. /\ from \subseteq f[k] /\ f[k] \subseteq DOMAIN d
        /\ \A x \in f[k] : d[x].parent \in {0} \cup f[k] \/ x + k <= N
    BY <1>9, <2>2
  <2>5. f[k + 1] \subseteq DOMAIN d
    BY <1>1, <2>3, <2>4
  <2>6. ASSUME NEW x \in f[k + 1], d[x].parent \notin {0} \cup f[k + 1] PROVE x + (k + 1) <= N
    <3>1. x \notin f[k]
      BY <2>3, <2>6
    <3>2. PICK y \in f[k] : x = d[y].parent /\ x # 0
      BY <2>3, <3>1
    <3>3. y + k <= N /\ x < y /\ y \in Nat /\ x \in Nat
      BY <1>1, <2>4, <2>5, <3>1, <3>2
    <3> QED
      BY <1>1, <3>3
  <2> QED
    BY <2>3, <2>4, <2>5, <2>6
<1>10. Ok(N)
  <2>1. N \in S
    <3> HIDE DEF S
    <3> QED
      BY <1>1, <1>8, <1>9, SetInduction
  <2> QED
    BY <1>1, <2>1
<1>11. \A x \in f[N] : d[x].parent \in {0} \cup f[N]
  BY <1>1, <1>10
<1>12. Reached(d, ms) = f[N]
  BY <1>4, <1>6 DEF ClimbRun
<1> QED
  BY <1>3, <1>10, <1>11, <1>12

(* They are dentries as before, and no more of them can be given back. *)
LEMMA KeepDentries ==
  ASSUME NEW d, DentOK(d), NEW ms,
         \A m \in Range(ms) : m.root \in DOMAIN d /\ m.mp \in {0} \cup DOMAIN d,
         NEW e, e = [x \in Reached(d, ms) |-> d[x]]
  PROVE  /\ DentOK(e) /\ DOMAIN e \subseteq DOMAIN d /\ \A x \in DOMAIN e : e[x] = d[x]
         /\ \A m \in Range(ms) : m.root \in DOMAIN e /\ m.mp \in {0} \cup DOMAIN e
         /\ Heads(e) \subseteq Heads(d) /\ Cardinality(Heads(e)) \in Nat
         /\ Cardinality(Heads(d)) \in Nat /\ Cardinality(Heads(e)) <= Cardinality(Heads(d))
<1> DEFINE R == Reached(d, ms)
<1>1. /\ R \subseteq DOMAIN d
      /\ \A m \in Range(ms) : m.root \in R /\ m.mp \in {0} \cup R
      /\ \A x \in R : d[x].parent \in {0} \cup R
  BY ReachedFacts
<1> HIDE DEF R
<1>2. DOMAIN e = R /\ (\A x \in R : e[x] = d[x]) /\ e = [x \in DOMAIN e |-> e[x]]
  BY DEF R
<1>3. ASSUME NEW x \in R
      PROVE  /\ e[x] \in DentryIn(e) /\ e[x].parent < x
             /\ e[x].parent = 0 => e[x].num = RootNum[e[x].sb.type]
  <2>1. /\ d[x] \in DentryIn(d) /\ d[x].parent < x /\ d[x].parent \in {0} \cup R
        /\ d[x].parent = 0 => d[x].num = RootNum[d[x].sb.type]
    BY <1>1 DEF DentOK
  <2> QED
    BY <1>2, <2>1 DEF DentryIn
<1>4. DentOK(e)
  BY <1>1, <1>2, <1>3 DEF DentOK
<1>5. Heads(e) \subseteq Heads(d)
  BY <1>1, <1>2 DEF Heads
<1>6. /\ Cardinality(Heads(e)) \in Nat /\ Cardinality(Heads(d)) \in Nat
      /\ Cardinality(Heads(e)) <= Cardinality(Heads(d))
  BY <1>4, <1>5, HeadsFinite, FS_Subset
<1> QED
  BY <1>1, <1>2, <1>4, <1>5, <1>6

(* There are finitely many mounts. *)
LEMMA MountsFinite ==
  ASSUME VfsInv
  PROVE  /\ IsFiniteSet(Range(mounts)) /\ Cardinality(Range(mounts)) \in Nat
         /\ Ext2Mounts(mounts) \subseteq Range(mounts) /\ IsFiniteSet(Ext2Mounts(mounts))
         /\ Cardinality(Ext2Mounts(mounts)) \in Nat
<1>1. Len(mounts) \in Nat /\ DOMAIN mounts = 1..Len(mounts)
  BY MountFacts
<1>2. IsFiniteSet(1..Len(mounts))
  BY <1>1, FS_Interval
<1>3. mounts \in Surjection(1..Len(mounts), Range(mounts))
  <2>1. mounts = [i \in 1..Len(mounts) |-> mounts[i]]
    BY <1>1 DEF VfsInv, MountsOK
  <2> QED
    BY <1>1, <2>1 DEF Range, Surjection
<1>4. IsFiniteSet(Range(mounts))
  BY <1>2, <1>3, FS_Surjection
<1>5. Cardinality(Range(mounts)) \in Nat
  BY <1>4, FS_CardinalityType
<1>6. Ext2Mounts(mounts) \subseteq Range(mounts)
  BY DEF Ext2Mounts
<1> QED
  BY <1>4, <1>5, <1>6, FS_Subset, FS_CardinalityType

(* A lookup that is over, with or without a root to start from. *)
WalkDone(w) ==
    /\ IsWalk(w) /\ DentOK(w.d) /\ Same(w.d) /\ Afford(w)
    /\ w.rc = "OK" => Walking(w) /\ mounts # <<>>
LEMMA LookupDone ==
  ASSUME VfsInv, NEW p \in Seq(STRING)
  PROVE  WalkDone(vfs_lookup(p))
<1>1. CASE mounts = <<>>
  <2>1. PICK w : w = NoRoot
    OBVIOUS
  <2>2. IsWalk(w) /\ w.d = dent /\ w.fr = free /\ w.rc = "EINVAL"
    BY <2>1 DEF NoRoot, IsWalk
  <2>3. Cardinality(Heads(dent)) \in Nat /\ free \in Nat /\ DentOK(dent)
    BY HeadsFinite DEF VfsInv, PagesOK
  <2>4. WalkDone(w)
    BY <2>2, <2>3 DEF WalkDone, Afford, Same
  <2> QED
    BY <1>1, <2>1, <2>4 DEF vfs_lookup
<1>2. CASE mounts # <<>>
  BY <1>2, LookupWalks DEF WalkDone, Walking
<1> QED
  BY <1>1, <1>2

(* So is the lookup of a parent directory. *)
LEMMA ParentDone ==
  ASSUME VfsInv, NEW p \in Seq(STRING)
  PROVE  /\ WalkDone(vfs_lookup_parent(p))
         /\ vfs_lookup_parent(p).rc = "OK" => p # <<>>
<1>1. CASE p = <<>>
  <2>1. PICK u, w : u = vfs_lookup(p) /\ w = [u EXCEPT !.rc = "EINVAL"]
    OBVIOUS
  <2>2. WalkDone(u)
    BY <2>1, LookupDone
  <2>3. IsWalk(w) /\ w.d = u.d /\ w.fr = u.fr /\ w.rc = "EINVAL"
    BY <2>1, <2>2 DEF WalkDone, IsWalk
  <2>4. WalkDone(w)
    BY <2>2, <2>3 DEF WalkDone, Afford
  <2> QED
    BY <1>1, <2>1, <2>3, <2>4 DEF vfs_lookup_parent
<1>2. CASE p # <<>>
  <2>1. Front(p) \in Seq(STRING)
    BY <1>2 DEF Front
  <2> QED
    BY <1>2, <2>1, LookupDone DEF vfs_lookup_parent
<1> QED
  BY <1>1, <1>2

(* And when the dentry it ended at has been put. *)
LEMMA DropDone ==
  ASSUME NEW w, WalkDone(w)
  PROVE  /\ IsWalk(Drop(w)) /\ DentOK(Drop(w).d) /\ Same(Drop(w).d) /\ Afford(Drop(w))
         /\ w.d[w.cur].parent # 0 /\ AllLive(w.d) /\ w.rc = "OK" => AllLive(Drop(w).d)
         /\ ~IsTemp(w) \/ w.rc # "OK" => Drop(w) = w
<1>1. CASE w.rc = "OK" /\ IsTemp(w)
  <2>1. IsWalk(w) /\ DentOK(w.d) /\ Same(w.d) /\ Afford(w) /\ w.cur \in DOMAIN w.d
    BY <1>1 DEF WalkDone, Walking
  <2>2. PICK v : v = vfs_dentry_put(w, w.cur)
    OBVIOUS
  <2>3. /\ IsWalk(v) /\ DentOK(v.d) /\ DOMAIN v.d = DOMAIN w.d
        /\ \A y \in DOMAIN w.d : /\ v.d[y].sb = w.d[y].sb /\ v.d[y].num = w.d[y].num
                                 /\ v.d[y].parent = w.d[y].parent /\ v.d[y].mp = w.d[y].mp
                                 /\ w.d[w.cur].parent # 0 => v.d[y].live = w.d[y].live
    BY <2>1, <2>2, PutFacts
  <2>4. Afford(v)
    BY <2>1, <2>2, PutAffords
  <2>5. Same(v.d)
    BY <2>1, <2>3, SameMore
  <2>6. w.d[w.cur].parent # 0 /\ AllLive(w.d) => AllLive(v.d)
    BY <2>3 DEF AllLive
  <2> QED
    BY <1>1, <2>2, <2>3, <2>4, <2>5, <2>6 DEF Drop
<1>2. CASE ~(w.rc = "OK" /\ IsTemp(w))
  BY <1>2 DEF Drop, WalkDone
<1> QED
  BY <1>1, <1>2

(* The mounts and the table only depend on what the dentries are. *)
LEMMA SameMounts ==
  ASSUME VfsInv, DOMAIN dent' \subseteq Nat \ {0}, mounts' = mounts, mtab' = mtab, nsb' = nsb,
         \A m \in Range(mounts) : m.root \in DOMAIN dent' /\ m.mp \in {0} \cup DOMAIN dent',
         \A x \in DOMAIN dent' \cap DOMAIN dent :
            /\ dent'[x].sb = dent[x].sb /\ dent'[x].num = dent[x].num
            /\ dent'[x].parent = dent[x].parent /\ dent'[x].mp = dent[x].mp
  PROVE  MountsOK' /\ TableOK'
<1>1. \A i \in DOMAIN mounts :
         /\ mounts[i].root \in DOMAIN dent' \cap DOMAIN dent
         /\ mounts[i].mp # 0 => mounts[i].mp \in DOMAIN dent' \cap DOMAIN dent
  BY MountFacts DEF Range
<1>2. \A x \in DOMAIN dent' \cap DOMAIN dent :
         /\ Node(dent', x) = Node(dent, x) /\ dent'[x].parent = dent[x].parent
         /\ dent'[x].mp = dent[x].mp
  BY DEF Node
<1>3. MountsOK'
  <2>1. ASSUME NEW i \in DOMAIN mounts PROVE MountOK(mounts[i])'
    <3>1. MountOK(mounts[i])
      BY MountFacts
    <3>2. mounts[i].mp \in {0} \cup DOMAIN dent'
      BY <1>1
    <3> QED
      BY <1>1, <1>2, <3>1, <3>2 DEF MountOK
  <2> QED
    BY <2>1 DEF VfsInv, MountsOK
<1>4. (g_root_dent)' = g_root_dent /\ (mounts # <<>> => g_root_dent \in DOMAIN dent' \cap DOMAIN dent)
  <2>1. (g_root_dent)' = g_root_dent
    BY DEF g_root_dent, g_root_mnt
  <2>2. mounts # <<>> => g_root_dent = mounts[Len(mounts)].root /\ Len(mounts) \in DOMAIN mounts
    BY MountFacts
  <2> QED
    BY <1>1, <2>1, <2>2
<1>5. \A i \in DOMAIN mounts : (SeenOf(i))' <=> SeenOf(i)
  BY <1>1, <1>2, <1>4 DEF SeenOf
<1>6. TableOK'
  <2>1. ASSUME NEW i \in DOMAIN mounts, SeenOf(i)'
        PROVE  /\ Node(dent', mounts[i].mp) \in DOMAIN mtab
               /\ mtab[Node(dent', mounts[i].mp)] = mounts[i].sb
               /\ mounts[i].mp = g_root_dent => dent'[g_root_dent].mp
    <3>1. SeenOf(i) /\ mounts # <<>> /\ mounts[i].mp # 0
      BY <1>5, <2>1, MountFacts DEF SeenOf
    <3>2. Node(dent', mounts[i].mp) = Node(dent, mounts[i].mp)
      BY <1>1, <1>2, <3>1
    <3>3. dent'[g_root_dent].mp = dent[g_root_dent].mp
      BY <1>2, <1>4, <3>1
    <3> QED
      BY <3>1, <3>2, <3>3 DEF VfsInv, TableOK
  <2>2. ASSUME NEW n \in DOMAIN mtab
        PROVE  \E i \in DOMAIN mounts : SeenOf(i)' /\ Node(dent', mounts[i].mp) = n /\ mtab[n] = mounts[i].sb
    <3>1. PICK i \in DOMAIN mounts : SeenOf(i) /\ Node(dent, mounts[i].mp) = n /\ mtab[n] = mounts[i].sb
      BY DEF VfsInv, TableOK
    <3>2. Node(dent', mounts[i].mp) = Node(dent, mounts[i].mp)
      BY <1>1, <1>2, <3>1 DEF SeenOf
    <3> QED
      BY <1>5, <3>1, <3>2
  <2>3. mounts = <<>> => DOMAIN mtab = {}
    BY DEF VfsInv, TableOK
  <2> QED
    BY <1>4, <2>1, <2>2, <2>3 DEF TableOK
<1> QED
  BY <1>3, <1>6

(* The pages in use after a lookup, those in use before it, and the pages  *)
(* there are.                                                              *)
LEMMA PagesLeft ==
  ASSUME NEW f \in Nat, NEW o \in Nat, NEW wf \in Nat, NEW op \in Nat, NEW fr \in Nat,
         NEW a \in Nat, NEW g \in Nat, NEW k \in Nat, NEW h \in Nat, NEW n \in Nat,
         f + o <= wf + op, wf + k <= fr + h, g <= k, fr + op + (a + h) <= n
  PROVE  f + o + (a + g) <= n
OBVIOUS

(* A lookup, and pages taken or a file closed, keep the invariant. *)
LEMMA LookupKeeps ==
  ASSUME VfsInv, NEW w, DentOK(w.d), Same(w.d), Afford(w),
         dent' = [x \in Reached(w.d, mounts) |-> w.d[x]], mounts' = mounts, mtab' = mtab, nsb' = nsb,
         free' \in Nat, opened' \in Nat, free' + opened' <= w.fr + opened, NamesOK'
  PROVE  VfsInv'
<1>1. \A m \in Range(mounts) : m.root \in DOMAIN w.d /\ m.mp \in {0} \cup DOMAIN w.d
  BY MountFacts DEF Same, Range
<1>2. /\ DentOK(dent') /\ DOMAIN dent' \subseteq DOMAIN w.d /\ \A x \in DOMAIN dent' : dent'[x] = w.d[x]
      /\ \A m \in Range(mounts) : m.root \in DOMAIN dent' /\ m.mp \in {0} \cup DOMAIN dent'
      /\ Cardinality(Heads(dent')) \in Nat /\ Cardinality(Heads(w.d)) \in Nat
      /\ Cardinality(Heads(dent')) <= Cardinality(Heads(w.d))
  BY <1>1, KeepDentries
<1>3. MountsOK' /\ TableOK'
  <2>1. \A x \in DOMAIN dent' \cap DOMAIN dent :
           /\ dent'[x].sb = dent[x].sb /\ dent'[x].num = dent[x].num
           /\ dent'[x].parent = dent[x].parent /\ dent'[x].mp = dent[x].mp
    BY <1>2 DEF Same
  <2>2. DOMAIN dent' \subseteq Nat \ {0}
    BY <1>2 DEF DentOK
  <2> QED
    BY <1>2, <2>1, <2>2, SameMounts
<1>4. PagesOK'
  <2> DEFINE h == Cardinality(Heads(dent))
             k == Cardinality(Heads(w.d))
             g == Cardinality(Heads(dent'))
             a == 2 * Cardinality(Range(mounts)) + 2 * Cardinality(Ext2Mounts(mounts))
  <2>1. h \in Nat /\ free \in Nat /\ opened \in Nat /\ PagesOwed(dent, mounts) = a + h
    BY HeadsFinite DEF VfsInv, PagesOK, PagesOwed
  <2>2. free + opened + (a + h) <= NPages
    BY <2>1 DEF VfsInv, PagesOK
  <2>3. w.fr \in Nat /\ w.fr + k <= free + h /\ k \in Nat /\ g \in Nat /\ g <= k
    BY <1>2 DEF Afford
  <2>4. PagesOwed(dent', mounts') = a + g
    BY DEF PagesOwed
  <2>5. a \in Nat
    <3>1. Cardinality(Range(mounts)) \in Nat /\ Cardinality(Ext2Mounts(mounts)) \in Nat
      BY MountsFinite
    <3> QED
      BY <3>1
  <2> HIDE DEF h, k, g, a
  <2>6. free' + opened' + (a + g) <= NPages
    <3>1. PICK f, o, u, n : f = free' /\ o = opened' /\ u = w.fr /\ n = NPages
      OBVIOUS
    <3>2. f \in Nat /\ o \in Nat /\ u \in Nat /\ n \in Nat /\ f + o <= u + opened
          /\ u + k <= free + h /\ free + opened + (a + h) <= n
      BY <2>2, <2>3, <3>1, VfsAssumption
    <3>3. f + o + (a + g) <= n
      BY <2>1, <2>3, <2>5, <3>2, PagesLeft
    <3> QED
      BY <3>1, <3>3
  <2> QED
    BY <2>4, <2>6 DEF PagesOK
<1> QED
  BY <1>2, <1>3, <1>4 DEF VfsInv

(* vfs_open and vfs_stat. *)
LEMMA OpenKeeps ==
  ASSUME VfsInv, NEW p \in Paths, vfs_open(p) \/ vfs_stat(p)
  PROVE  VfsInv'
<1>1. PICK w : w = Drop(vfs_lookup(p))
  OBVIOUS
<1>2. IsWalk(w) /\ DentOK(w.d) /\ Same(w.d) /\ Afford(w) /\ w.fr \in Nat
  BY <1>1, VfsAssumption, LookupDone, DropDone DEF Afford
<1>3. /\ mounts' = mounts /\ mtab' = mtab /\ nsb' = nsb /\ dirs' = dirs /\ types' = types
      /\ dent' = [x \in Reached(w.d, mounts) |-> w.d[x]]
      /\ \/ free' = w.fr /\ opened' = opened
         \/ free' = w.fr - 1 /\ w.fr > 0 /\ opened' = opened + 1
  <2>1. CASE vfs_stat(p)
    BY <1>1, <2>1 DEF vfs_stat, Leaves
  <2>2. CASE vfs_open(p)
    <3>1. /\ mounts' = mounts /\ mtab' = mtab /\ nsb' = nsb /\ dirs' = dirs /\ types' = types
      BY <2>2 DEF vfs_open
    <3>2. \/ w.fr > 0 /\ Leaves([w EXCEPT !.fr = @ - 1], mounts) /\ opened' = opened + 1
          \/ Leaves(w, mounts) /\ opened' = opened
      BY <1>1, <2>2 DEF vfs_open
    <3>3. PICK v : v = [w EXCEPT !.fr = @ - 1]
      OBVIOUS
    <3>4. v.d = w.d /\ v.fr = w.fr - 1
      BY <1>2, <3>3 DEF IsWalk
    <3> QED
      BY <3>1, <3>2, <3>3, <3>4 DEF Leaves
  <2> QED
    BY <2>1, <2>2
<1>4. opened \in Nat /\ NamesOK /\ free' \in Nat /\ opened' \in Nat /\ free' + opened' <= w.fr + opened
  BY <1>2, <1>3 DEF VfsInv, PagesOK
<1>5. NamesOK'
  BY <1>3, <1>4 DEF NamesOK
<1> QED
  BY <1>2, <1>3, <1>4, <1>5, LookupKeeps

(* vfs_open_creat and vfs_unlink. *)
LEMMA ParentKeeps ==
  ASSUME VfsInv, NEW p \in Paths, vfs_open_creat(p) \/ vfs_unlink(p)
  PROVE  VfsInv'
<1>1. PICK w : w = vfs_lookup_parent(p)
  OBVIOUS
<1>2. DentOK(w.d) /\ Same(w.d) /\ Afford(w) /\ w.fr \in Nat
  BY <1>1, VfsAssumption, ParentDone DEF Afford, WalkDone
<1>3. /\ mounts' = mounts /\ mtab' = mtab /\ nsb' = nsb /\ dirs' = dirs /\ types' = types
      /\ dent' = [x \in Reached(w.d, mounts) |-> w.d[x]] /\ free' = w.fr /\ opened' = opened
  BY <1>1 DEF vfs_open_creat, vfs_unlink, Leaves
<1>4. opened \in Nat /\ free' \in Nat /\ opened' \in Nat /\ free' + opened' <= w.fr + opened
  BY <1>2, <1>3 DEF VfsInv, PagesOK
<1>5. NamesOK'
  BY <1>3 DEF NamesOK, VfsInv
<1> QED
  BY <1>2, <1>3, <1>4, <1>5, LookupKeeps

(* vfs_mkdir: the name goes into the table of initfs. *)
LEMMA MkdirKeeps ==
  ASSUME VfsInv, NEW p \in Seq(STRING), vfs_mkdir(p)
  PROVE  VfsInv'
<1>1. PICK w : w = vfs_lookup_parent(p)
  OBVIOUS
<1>2. IsWalk(w) /\ DentOK(w.d) /\ Same(w.d) /\ Afford(w) /\ w.fr \in Nat /\ (w.rc = "OK" => p # <<>>)
  BY <1>1, ParentDone DEF Afford, WalkDone
<1> DEFINE dir == Node(w.d, w.cur)
           tried == w.rc = "OK" /\ dir.sb.type = "initfs" /\ w.fr > 0 /\ Last(p) \notin LongNames
           ok == tried /\ initfs_mkdir(Last(p))
           f == IF ok /\ w.fr > 1 THEN w.fr - 2 ELSE IF tried THEN w.fr - 1 ELSE w.fr
<1>3. /\ mounts' = mounts /\ mtab' = mtab /\ nsb' = nsb /\ types' = types /\ opened' = opened
      /\ dirs' = IF ok THEN Append(dirs, Last(p)) ELSE dirs
  BY <1>1 DEF vfs_mkdir
<1>4. Leaves([w EXCEPT !.fr = IF ok /\ @ > 1 THEN @ - 2 ELSE IF tried THEN @ - 1 ELSE @], mounts)
  BY <1>1 DEF vfs_mkdir
<1>5. dent' = [x \in Reached(w.d, mounts) |-> w.d[x]] /\ free' = f
  <2>1. PICK v : v = [w EXCEPT !.fr = IF ok /\ @ > 1 THEN @ - 2 ELSE IF tried THEN @ - 1 ELSE @]
    OBVIOUS
  <2>2. PICK g : g = f
    OBVIOUS
  <2>3. v = [w EXCEPT !.fr = g]
    BY <2>1, <2>2
  <2>4. v.d = w.d /\ v.fr = g
    BY <1>2, <2>3 DEF IsWalk
  <2> QED
    BY <1>4, <2>1, <2>2, <2>4 DEF Leaves
<1>6. opened \in Nat /\ free' \in Nat /\ opened' \in Nat /\ free' + opened' <= w.fr + opened
  <2>1. tried => w.fr > 0
    OBVIOUS
  <2> HIDE DEF tried, ok
  <2> QED
    BY <1>2, <1>3, <1>5, <2>1 DEF VfsInv, PagesOK
<1>7. NamesOK'
  <2>1. /\ types \subseteq FsType /\ nsb \in 0..MaxSb
        /\ dirs \in Seq(STRING) /\ Len(dirs) <= INITFS_MAX_DIRS
    BY DEF VfsInv, NamesOK
  <2>2. ok => p # <<>> /\ Len(dirs) < INITFS_MAX_DIRS
    BY <1>2 DEF initfs_mkdir
  <2>3. p # <<>> => Last(p) \in STRING
    BY DEF Last
  <2>4. dirs' \in Seq(STRING) /\ Len(dirs') <= INITFS_MAX_DIRS
    <3>1. CASE ok
      <4>1. dirs' = Append(dirs, Last(p)) /\ Last(p) \in STRING
        BY <1>3, <2>2, <2>3, <3>1
      <4>2. Len(dirs') = Len(dirs) + 1 /\ dirs' \in Seq(STRING) /\ Len(dirs) \in Nat
        BY <2>1, <4>1
      <4> QED
        BY <2>2, <3>1, <4>2, VfsAssumption
    <3>2. CASE ~ok
      BY <1>3, <2>1, <3>2
    <3> QED
      BY <3>1, <3>2
  <2> QED
    BY <1>3, <2>1, <2>4 DEF NamesOK
<1> QED
  BY <1>2, <1>3, <1>5, <1>6, <1>7, LookupKeeps

(* vfs_close, and the registration of file systems. *)
LEMMA CloseKeeps ==
  ASSUME VfsInv, VfsClose \/ \E t \in FsType : vfs_register_fs(t) \/ vfs_unregister_fs(t)
  PROVE  VfsInv'
<1>1. /\ dent' = dent /\ mounts' = mounts /\ mtab' = mtab /\ nsb' = nsb /\ dirs' = dirs
      /\ types' \subseteq FsType
      /\ free' \in Nat /\ opened' \in Nat /\ free' + opened' = free + opened
  BY DEF VfsClose, vfs_register_fs, vfs_unregister_fs, VfsInv, NamesOK, PagesOK
<1>2. NamesOK' /\ DentOK(dent')
  BY <1>1 DEF VfsInv, NamesOK
<1>3. MountsOK' /\ TableOK'
  <2>1. \A m \in Range(mounts) : m.root \in DOMAIN dent' /\ m.mp \in {0} \cup DOMAIN dent'
    BY <1>1, MountFacts DEF Range
  <2>2. DOMAIN dent' \subseteq Nat \ {0}
    BY <1>2 DEF DentOK
  <2> QED
    BY <1>1, <2>1, <2>2, SameMounts
<1>4. PagesOK'
  <2>1. PagesOwed(dent', mounts') = PagesOwed(dent, mounts)
    BY <1>1 DEF PagesOwed
  <2> QED
    BY <1>1, <2>1 DEF VfsInv, PagesOK
<1> QED
  BY <1>2, <1>3, <1>4 DEF VfsInv

-----------------------------------------------------------------------------
(* Mounts *)

(* A path without dots is its own normal form and never climbs; its last   *)
(* name is looked up in the directory that the others lead to.             *)
LEMMA Dotless ==
  ASSUME NEW p \in Seq(STRING \ {".", ".."})
  PROVE  /\ p \in Seq(STRING) /\ StaysInside(p) /\ Normal(p) = p
         /\ p # <<>> => /\ Front(p) \in Seq(STRING \ {".", ".."})
                        /\ Last(p) \in STRING \ {".", ".."} /\ p = Append(Front(p), Last(p))
<1>1. /\ p \in Seq(STRING) /\ Len(p) \in Nat /\ DOMAIN p = 1..Len(p)
      /\ \A k \in DOMAIN p : p[k] \in STRING \ {".", ".."}
  OBVIOUS
<1>2. StaysInside(p)
  BY <1>1 DEF StaysInside
<1>3. Normal(p) = p
  <2> DEFINE S == {k \in Nat : k <= Len(p) => Normal(SubSeq(p, 1, k)) = SubSeq(p, 1, k)}
  <2>1. 0 \in S
    <3>1. SubSeq(p, 1, 0) = <<>> /\ Normal(SubSeq(p, 1, 0)) = <<>>
      BY <1>1, NormalStep
    <3> QED
      BY <3>1
  <2>2. ASSUME NEW k \in Nat, k \in S PROVE k + 1 \in S
    <3>1. SUFFICES ASSUME k + 1 <= Len(p) PROVE Normal(SubSeq(p, 1, k + 1)) = SubSeq(p, 1, k + 1)
      OBVIOUS
    <3>2. k \in 0..(Len(p) - 1) /\ k + 1 \in DOMAIN p /\ Normal(SubSeq(p, 1, k)) = SubSeq(p, 1, k)
      BY <1>1, <2>2, <3>1
    <3>3. Normal(SubSeq(p, 1, k + 1)) = Resolve(SubSeq(p, 1, k), p[k + 1])
      BY <1>1, <3>2, NormalStep
    <3>4. Resolve(SubSeq(p, 1, k), p[k + 1]) = Append(SubSeq(p, 1, k), p[k + 1])
      <4>1. p[k + 1] # "." /\ p[k + 1] # ".."
        BY <1>1, <3>2
      <4> QED
        BY <4>1 DEF Resolve
    <3>5. SubSeq(p, 1, k + 1) = Append(SubSeq(p, 1, k), p[k + 1])
      BY <1>1, <3>2
    <3> QED
      BY <3>3, <3>4, <3>5
  <2>3. Len(p) \in S
    <3> HIDE DEF S
    <3> QED
      BY <1>1, <2>1, <2>2, SetInduction
  <2>4. SubSeq(p, 1, Len(p)) = p
    BY <1>1, NormalStep
  <2>5. Len(p) <= Len(p) /\ Normal(SubSeq(p, 1, Len(p))) = SubSeq(p, 1, Len(p))
    BY <1>1, <2>3
  <2> QED
    BY <2>4, <2>5
<1>4. ASSUME p # <<>>
      PROVE  /\ Front(p) \in Seq(STRING \ {".", ".."})
             /\ Last(p) \in STRING \ {".", ".."} /\ p = Append(Front(p), Last(p))
  <2>1. Len(p) \in DOMAIN p /\ Len(p) - 1 \in Nat
    BY <1>1, <1>4
  <2>2. Front(p) = SubSeq(p, 1, Len(p) - 1) /\ Last(p) = p[Len(p)]
    BY DEF Front, Last
  <2> QED
    BY <1>1, <2>1, <2>2
<1> QED
  BY <1>1, <1>2, <1>3, <1>4

(* The walk of a path is that of all names but the last, and one step.     *)
LEMMA LastStep ==
  ASSUME mounts # <<>>, NEW p \in Seq(STRING), p # <<>>
  PROVE  /\ Front(p) \in Seq(STRING) /\ Last(p) \in STRING /\ p = Append(Front(p), Last(p))
         /\ vfs_lookup(p) = Step(vfs_lookup(Front(p)), Last(p))
<1>1. Front(p) = SubSeq(p, 1, Len(p) - 1) /\ Last(p) = p[Len(p)]
  BY DEF Front, Last
<1>2. Front(p) \in Seq(STRING) /\ Last(p) \in STRING /\ p = Append(Front(p), Last(p))
  BY <1>1
<1>3. \A q : vfs_lookup(q) = Walk(Start, q)
  BY DEF vfs_lookup, Walk
<1>4. PICK q, c : q = Front(p) /\ c = Last(p)
  OBVIOUS
<1>5. Walk(Start, Append(q, c)) = Step(Walk(Start, q), c)
  BY <1>2, <1>4, WalkFoldAppend
<1> QED
  BY <1>2, <1>3, <1>4, <1>5

(* Where a mount on p goes: to the directory itself when the table has     *)
(* nothing there, else to the root of what covers it.                      *)
LEMMA MountPlace ==
  ASSUME VfsInv, mounts # <<>>, NEW p \in Seq(STRING \ {".", ".."}),
         NEW w, w = vfs_lookup(p), w.rc = "OK"
  PROVE  /\ Covered(p) \in DOMAIN mtab => AtRoot(Node(w.d, w.cur)) /\ w.cur # g_root_dent
         /\ Covered(p) \notin DOMAIN mtab =>
              /\ Node(w.d, w.cur) = Covered(p)
              /\ ~AtRoot(Node(w.d, w.cur)) \/ w.cur = g_root_dent
<1>1. /\ Len(mounts) \in DOMAIN mounts /\ g_root_mnt = mounts[Len(mounts)]
      /\ g_root_dent = mounts[Len(mounts)].root /\ DOMAIN mounts = 1..Len(mounts)
      /\ \A i \in DOMAIN mounts : mounts[i].mp = 0 <=> i = Len(mounts)
      /\ \A i, j \in DOMAIN mounts :
            i # j => mounts[i].sb # mounts[j].sb /\ mounts[i].root # mounts[j].root
  BY MountFacts DEF VfsInv, MountsOK
<1>2. CASE p = <<>>
  <2>1. Covered(p) = RootNode
    BY <1>2 DEF Covered
  <2>2. w = Start
    <3>1. w = Walk(Start, <<>>)
      BY <1>2 DEF vfs_lookup, Walk
    <3> QED
      BY <3>1, WalkFoldEmpty
  <2>3. PICK i \in DOMAIN mounts :
           /\ w.d = dent /\ w.cur = mounts[i].root
           /\ [sb |-> mounts[i].sb, num |-> RootNum[mounts[i].sb.type]] = Cover(RootNode)
    BY <2>2, StartWalks
  <2>4. Node(w.d, w.cur) = Cover(RootNode) /\ AtRoot(Node(w.d, w.cur))
    <3>1. Node(dent, mounts[i].root) = [sb |-> mounts[i].sb, num |-> RootNum[mounts[i].sb.type]]
      BY MountFacts DEF MountOK
    <3> QED
      BY <2>3, <3>1 DEF AtRoot
  <2>5. ASSUME RootNode \in DOMAIN mtab PROVE w.cur # g_root_dent
    <3>1. PICK j \in DOMAIN mounts : mounts[j].mp # 0 /\ mtab[RootNode] = mounts[j].sb
      BY <2>5 DEF VfsInv, TableOK, SeenOf
    <3>2. Cover(RootNode).sb = mounts[j].sb
      BY <2>5, <3>1 DEF Cover
    <3>3. mounts[i].sb = mounts[j].sb
      BY <2>3, <3>2
    <3> QED
      BY <1>1, <2>3, <3>1, <3>3
  <2>6. ASSUME RootNode \notin DOMAIN mtab PROVE Node(w.d, w.cur) = RootNode /\ w.cur = g_root_dent
    <3>1. Cover(RootNode) = RootNode
      BY <2>6 DEF Cover
    <3>2. mounts[i].sb = mounts[Len(mounts)].sb
      BY <1>1, <2>3, <3>1 DEF RootNode
    <3> QED
      BY <1>1, <2>3, <2>4, <3>1, <3>2
  <2> QED
    BY <2>1, <2>4, <2>5, <2>6
<1>3. CASE p # <<>>
  <2>1. PICK q, c, u : q = Front(p) /\ c = Last(p) /\ u = vfs_lookup(q)
    OBVIOUS
  <2>2. /\ q \in Seq(STRING) /\ q \in Seq(STRING \ {".", ".."}) /\ StaysInside(q) /\ Normal(q) = q
        /\ c \in STRING /\ c # "." /\ c # ".."
    BY <1>3, <2>1, Dotless
  <2>3. w = Step(u, c)
    BY <1>3, <2>1, Dotless, LastStep
  <2>4. u.rc = "OK" /\ w = vfs_lookup_child(u, c)
    BY <2>2, <2>3 DEF Step
  <2>5. Walking(u) /\ Right(u, q)
    BY <2>1, <2>2, <2>4, LookupWalks, LookupRight
  <2>6. PICK dir, n : dir = Node(u.d, u.cur) /\ n = ChildEntry(u, c)
    OBVIOUS
  <2>7. RefWalk(q) = dir
    <3>1. PICK T, h : Trail(u, q, T, h)
      BY <2>5 DEF Right
    <3> QED
      BY <2>2, <2>5, <2>6, <3>1, RightInside
  <2>8. Covered(p) = n
    <3>1. Covered(p) = [dir EXCEPT !.num = fs_child(dir, c)]
      BY <1>3, <2>1, <2>7 DEF Covered
    <3>2. dir = [sb |-> u.d[u.cur].sb, num |-> u.d[u.cur].num]
      BY <2>6 DEF Node
    <3> QED
      BY <2>6, <3>1, <3>2 DEF ChildEntry
  <2>9. fs_child(dir, c) > 0 /\ (Entered(u, w, c) \/ Descended(u, w, c))
    <3>1. Failed(u, w, c) => w.rc # "OK"
      BY DEF Failed
    <3> QED
      BY <2>4, <2>5, <2>6, <3>1, ChildCases
  <2>10. ~AtRoot(n)
    <3>1. u.d[u.cur].sb \in Sb
      BY <2>5 DEF Walking, DentOK, DentryIn
    <3>2. dir.sb = u.d[u.cur].sb /\ dir.sb.type \in FsType
      BY <2>6, <3>1 DEF Node, Sb
    <3>3. fs_child(dir, c) # RootNum[dir.sb.type]
      BY <2>9, <3>2, ChildFacts DEF VfsInv
    <3>4. n.num = fs_child(dir, c) /\ n.sb = dir.sb
      BY <2>6, <3>2 DEF ChildEntry
    <3> QED
      BY <3>3, <3>4 DEF AtRoot
  <2>11. Same(u.d)
    BY <2>5 DEF Walking
  <2>12. CASE Entered(u, w, c)
    <3>1. PICK i \in DOMAIN mounts :
             /\ mounts[i].mp # 0 /\ Node(u.d, mounts[i].mp) = n
             /\ w.cur = mounts[i].root /\ w.d = u.d
      BY <2>6, <2>12 DEF Entered
    <3>2. /\ mounts[i].mp \in DOMAIN dent /\ mounts[i].root \in DOMAIN dent
          /\ AtRoot(Node(dent, mounts[i].root))
      <4>1. MountOK(mounts[i]) /\ mounts[i].mp \in DOMAIN dent
        BY <3>1, MountFacts
      <4>2. Node(dent, mounts[i].root) = [sb |-> mounts[i].sb, num |-> RootNum[mounts[i].sb.type]]
        BY <4>1 DEF MountOK
      <4> QED
        BY <4>1, <4>2 DEF MountOK, AtRoot
    <3>3. Node(dent, mounts[i].mp) = n /\ Node(u.d, mounts[i].root) = Node(dent, mounts[i].root)
      BY <2>11, <3>1, <3>2, SameNode
    <3>4. n \in DOMAIN mtab
      BY <2>10, <3>1, <3>3 DEF VfsInv, TableOK, SeenOf
    <3>5. w.cur # g_root_dent
      BY <1>1, <3>1
    <3> QED
      BY <2>8, <3>1, <3>2, <3>3, <3>4, <3>5
  <2>13. CASE Descended(u, w, c)
    <3>1. Node(w.d, w.cur) = n
      BY <2>6, <2>13 DEF Descended
    <3>2. n \notin DOMAIN mtab
      <4>1. SUFFICES ASSUME n \in DOMAIN mtab PROVE FALSE
        OBVIOUS
      <4>2. PICK i \in DOMAIN mounts : mounts[i].mp # 0 /\ Node(dent, mounts[i].mp) = n
        BY <4>1 DEF VfsInv, TableOK, SeenOf
      <4>3. mounts[i].mp \in DOMAIN dent
        BY <4>2, MountFacts
      <4>4. Node(u.d, mounts[i].mp) = n
        BY <2>11, <4>2, <4>3, SameNode
      <4> QED
        BY <2>6, <2>13, <4>2, <4>4 DEF Descended
    <3> QED
      BY <2>8, <2>10, <3>1, <3>2
  <2> QED
    BY <2>9, <2>12, <2>13
<1> QED
  BY <1>2, <1>3

(* Marking a dentry as a mount point, or no longer, changes nothing else.  *)
Marked(d, y, b, e) == DentOK(d) /\ y \in DOMAIN d /\ b \in BOOLEAN /\ e = [d EXCEPT ![y].mp = b]
LEMMA MarkFacts ==
  ASSUME NEW d, NEW y, NEW b, NEW e, Marked(d, y, b, e)
  PROVE  /\ DentOK(e) /\ DOMAIN e = DOMAIN d /\ NewId(e) = NewId(d) /\ Heads(e) = Heads(d)
         /\ \A x \in DOMAIN d : /\ e[x].sb = d[x].sb /\ e[x].num = d[x].num
                                /\ e[x].parent = d[x].parent /\ e[x].live = d[x].live
                                /\ x # y => e[x].mp = d[x].mp
         /\ e[y].mp = b
<1>0. DentOK(d) /\ y \in DOMAIN d /\ b \in BOOLEAN /\ e = [d EXCEPT ![y].mp = b]
  BY DEF Marked
<1>1. /\ d = [x \in DOMAIN d |-> d[x]] /\ \E n \in Nat : DOMAIN d \subseteq 1..n
      /\ \A x \in DOMAIN d : /\ d[x] \in DentryIn(d) /\ d[x].parent < x
                             /\ d[x].parent = 0 => d[x].num = RootNum[d[x].sb.type]
  BY <1>0 DEF DentOK
<1>2. DOMAIN e = DOMAIN d /\ (\A x \in DOMAIN d \ {y} : e[x] = d[x]) /\ e = [x \in DOMAIN e |-> e[x]]
  BY <1>0
<1>3. /\ e[y] \in DentryIn(d) /\ e[y].sb = d[y].sb /\ e[y].num = d[y].num
      /\ e[y].parent = d[y].parent /\ e[y].ref = d[y].ref /\ e[y].live = d[y].live /\ e[y].mp = b
  <2>1. d[y] \in DentryIn(d) /\ e[y] = [d[y] EXCEPT !.mp = b]
    BY <1>0, <1>1
  <2> HIDE DEF DentryIn
  <2>2. e[y] \in DentryIn(d)
    BY <1>0, <2>1 DEF DentryIn
  <2>3. e[y].sb = d[y].sb /\ e[y].num = d[y].num /\ e[y].parent = d[y].parent
    BY <2>1 DEF DentryIn
  <2>4. e[y].ref = d[y].ref /\ e[y].live = d[y].live /\ e[y].mp = b
    BY <2>1 DEF DentryIn
  <2> QED
    BY <2>2, <2>3, <2>4
<1>4. DentryIn(e) = DentryIn(d)
  BY <1>2 DEF DentryIn
<1>5. ASSUME NEW x \in DOMAIN d
      PROVE  /\ e[x] \in DentryIn(e) /\ e[x].parent < x
             /\ e[x].parent = 0 => e[x].num = RootNum[e[x].sb.type]
  <2>1. /\ d[x] \in DentryIn(d) /\ d[x].parent < x
        /\ d[x].parent = 0 => d[x].num = RootNum[d[x].sb.type]
    BY <1>1
  <2>2. CASE x = y
    BY <1>3, <1>4, <2>1, <2>2
  <2>3. CASE x # y
    BY <1>2, <1>4, <2>1, <2>3
  <2> QED
    BY <2>2, <2>3
<1>6. DentOK(e)
  <2>1. \E n \in Nat : DOMAIN e \subseteq 1..n
    BY <1>1, <1>2
  <2>2. \A x \in DOMAIN e : /\ e[x] \in DentryIn(e) /\ e[x].parent < x
                            /\ e[x].parent = 0 => e[x].num = RootNum[e[x].sb.type]
    BY <1>2, <1>5
  <2> QED
    BY <1>2, <2>1, <2>2 DEF DentOK
<1>7. \A x \in DOMAIN d : /\ e[x].sb = d[x].sb /\ e[x].num = d[x].num /\ e[x].ref = d[x].ref
                          /\ e[x].parent = d[x].parent /\ e[x].live = d[x].live
                          /\ x # y => e[x].mp = d[x].mp
  BY <1>0, <1>2, <1>3
<1>8. NewId(e) = NewId(d)
  BY <1>2 DEF NewId
<1>9. Heads(e) = Heads(d)
  BY <1>2, <1>7 DEF Heads
<1> QED
  BY <1>2, <1>3, <1>6, <1>7, <1>8, <1>9

(* The root of a new mount is one page more that can be given back.        *)
Rooted(d, s, x, e) ==
    /\ DentOK(d) /\ s \in Sb /\ x = NewId(d)
    /\ e = WithDentry(d, x, NewDentry([sb |-> s, num |-> RootNum[s.type]], 0))
LEMMA WithRoot ==
  ASSUME NEW d, NEW s, NEW x, NEW e, Rooted(d, s, x, e)
  PROVE  /\ DentOK(e) /\ x \notin DOMAIN d /\ x \in Nat \ {0}
         /\ \A y : y \in DOMAIN e <=> y \in DOMAIN d \/ y = x
         /\ \A y \in DOMAIN d : e[y] = d[y]
         /\ e[x].sb = s /\ e[x].num = RootNum[s.type] /\ e[x].parent = 0 /\ e[x].live
         /\ Cardinality(Heads(d)) \in Nat /\ Cardinality(Heads(e)) = Cardinality(Heads(d)) + 1
<1> DEFINE c == [sb |-> s, num |-> RootNum[s.type], parent |-> 0, ref |-> 1, mp |-> FALSE, live |-> TRUE]
<1>0. DentOK(d) /\ s \in Sb
  BY DEF Rooted
<1>1. x \in Nat \ {0} /\ x \notin DOMAIN d /\ \A y \in DOMAIN d : y \in Nat \ {0} /\ y < x
  BY NewIdFacts DEF Rooted
<1>2. e = WithDentry(d, x, c)
  BY DEF NewDentry, Rooted
<1>3. DOMAIN e = DOMAIN d \cup {x} /\ e[x] = c /\ \A y \in DOMAIN d : e[y] = d[y]
  <2> HIDE DEF c
  <2> QED
    BY <1>1, <1>2 DEF WithDentry
<1>4. c \in DentryIn(e) /\ c.parent < x /\ c.num = RootNum[c.sb.type]
  <2>1. RootNum[s.type] \in Nat \ {0}
    BY <1>0 DEF RootNum, Sb, FsType
  <2> QED
    BY <1>0, <1>1, <2>1 DEF DentryIn
<1>5. ASSUME NEW y \in DOMAIN d
      PROVE  /\ e[y] \in DentryIn(e) /\ e[y].parent < y
             /\ e[y].parent = 0 => e[y].num = RootNum[e[y].sb.type]
  <2>1. /\ d[y] \in DentryIn(d) /\ d[y].parent < y
        /\ d[y].parent = 0 => d[y].num = RootNum[d[y].sb.type]
    BY <1>0 DEF DentOK
  <2>2. e[y] = d[y] /\ DOMAIN d \subseteq DOMAIN e
    BY <1>3
  <2> QED
    BY <2>1, <2>2 DEF DentryIn
<1>6. DentOK(e)
  <2>1. e = [y \in DOMAIN e |-> e[y]]
    BY <1>2, <1>3 DEF WithDentry
  <2>2. \E m \in Nat : DOMAIN e \subseteq 1..m
    <3>1. DOMAIN e \subseteq 1..x
      BY <1>1, <1>3
    <3> QED
      BY <1>1, <3>1
  <2> HIDE DEF c
  <2>3. \A y \in DOMAIN e : /\ e[y] \in DentryIn(e) /\ e[y].parent < y
                            /\ e[y].parent = 0 => e[y].num = RootNum[e[y].sb.type]
    BY <1>3, <1>4, <1>5
  <2> QED
    BY <2>1, <2>2, <2>3 DEF DentOK
<1>7. Heads(e) = Heads(d) \cup {x} /\ x \notin Heads(d)
  <2>1. c.parent = 0 /\ c.ref > 0
    OBVIOUS
  <2> HIDE DEF c
  <2> QED
    BY <1>1, <1>3, <2>1 DEF Heads
<1>8. IsFiniteSet(Heads(d)) /\ Cardinality(Heads(d)) \in Nat
  BY <1>0, HeadsFinite
<1>9. Cardinality(Heads(e)) = Cardinality(Heads(d)) + 1
  BY <1>7, <1>8, FS_AddElement
<1>10. e[x].sb = s /\ e[x].num = RootNum[s.type] /\ e[x].parent = 0 /\ e[x].live
  BY <1>3
<1>11. \A y : y \in DOMAIN e <=> y \in DOMAIN d \/ y = x
  BY <1>3
<1> HIDE DEF c
<1> QED
  BY <1>1, <1>3, <1>6, <1>8, <1>9, <1>10, <1>11

(* A mount that fails leaves a lookup behind. *)
LEMMA FailedMount ==
  ASSUME VfsInv, NEW w, DentOK(w.d), Same(w.d), Afford(w), NEW f \in Nat, f <= w.fr,
         dent' = [x \in Reached(w.d, mounts) |-> w.d[x]], free' = f,
         UNCHANGED <<types, mounts, dirs, nsb, opened, mtab>>
  PROVE  VfsInv'
<1>1. opened \in Nat /\ NamesOK /\ w.fr \in Nat
  BY DEF VfsInv, PagesOK, Afford
<1>2. free' \in Nat /\ opened' \in Nat /\ free' + opened' <= w.fr + opened
  BY <1>1
<1>3. NamesOK'
  BY <1>1 DEF NamesOK
<1> QED
  BY <1>2, <1>3, LookupKeeps

(* A mount more, with what it takes: the sum of what is in use stays.      *)
LEMMA MountPagesLeft ==
  ASSUME NEW f \in Nat, NEW o \in Nat, NEW wf \in Nat, NEW fr \in Nat, NEW mp \in Nat,
         NEW R \in Nat, NEW E \in Nat, NEW x \in {0, 1}, NEW g \in Nat, NEW k \in Nat,
         NEW h \in Nat, NEW n \in Nat,
         f = wf - 2 - mp, 1 + 2 * x <= mp, wf + k <= fr + h, g <= k + 1,
         fr + o + (2 * R + 2 * E + h) <= n
  PROVE  f + o + (2 * (R + 1) + 2 * (E + x) + g) <= n
OBVIOUS

(* A sequence with a new first element. *)
Longer(M, m, q, r) == m \in M /\ q \in Seq(M) /\ r = <<m>> \o q
LEMMA ConsFacts ==
  ASSUME NEW M, NEW m, NEW q, NEW r, Longer(M, m, q, r)
  PROVE  /\ r \in Seq(M) /\ Len(q) \in Nat /\ Len(r) = Len(q) + 1
         /\ DOMAIN q = 1..Len(q) /\ DOMAIN r = 1..(Len(q) + 1) /\ r[1] = m
         /\ \A i \in DOMAIN q : i + 1 \in DOMAIN r /\ r[i + 1] = q[i]
         /\ \A j \in DOMAIN r : j = 1 \/ \E i \in DOMAIN q : j = i + 1 /\ r[j] = q[i]
<1>1. /\ r \in Seq(M) /\ Len(q) \in Nat /\ Len(r) = Len(q) + 1
      /\ DOMAIN q = 1..Len(q) /\ DOMAIN r = 1..(Len(q) + 1) /\ r[1] = m
  BY DEF Longer
<1>2. \A i \in DOMAIN q : i + 1 \in DOMAIN r /\ r[i + 1] = q[i]
  BY DEF Longer
<1>3. ASSUME NEW j \in DOMAIN r, j # 1 PROVE \E i \in DOMAIN q : j = i + 1 /\ r[j] = q[i]
  <2>1. j - 1 \in DOMAIN q /\ j = (j - 1) + 1
    BY <1>1, <1>3
  <2>2. r[(j - 1) + 1] = q[j - 1]
    BY <1>2, <2>1
  <2> QED
    BY <2>1, <2>2
<1> QED
  BY <1>1, <1>2, <1>3

(* A mount that succeeds: the new mount comes first, with a root of its    *)
(* own, and the directory it is on is marked.                              *)
NewMount(p, t, w, mp, e, m) ==
    /\ m = [sb |-> [id |-> nsb, type |-> t], mp |-> mp, root |-> NewId(w.d)]
    /\ \/ mounts = <<>> /\ mp = 0 /\ e = w.d
       \/ /\ mounts # <<>> /\ w = vfs_lookup(p) /\ w.rc = "OK"
          /\ mp = w.cur /\ w.cur \in DOMAIN w.d /\ e = [w.d EXCEPT ![w.cur].mp = TRUE]
    /\ mounts' = <<m>> \o mounts /\ nsb' = nsb + 1 /\ Mounted(p, m.sb)
    /\ LET d == WithDentry(e, m.root, NewDentry([sb |-> m.sb, num |-> RootNum[t]], 0))
       IN  dent' = [y \in Reached(d, mounts') |-> d[y]]
    /\ free' = w.fr - 2 - MountPages[t] /\ free' \in Nat
    /\ UNCHANGED <<types, dirs, opened>>
LEMMA NewMountKeeps ==
  ASSUME VfsInv, NEW p \in Seq(STRING \ {".", ".."}), NEW t \in FsType, nsb < MaxSb,
         NEW w, IsWalk(w), DentOK(w.d), Same(w.d), Afford(w), NEW mp, NEW e, NEW m,
         NewMount(p, t, w, mp, e, m)
  PROVE  VfsInv'
<1> DEFINE ms == <<m>> \o mounts
           s == [id |-> nsb, type |-> t]
           x == NewId(w.d)
           L == Len(mounts)
<1>1. /\ m = [sb |-> s, mp |-> mp, root |-> x] /\ m.sb = s /\ m.mp = mp /\ m.root = x
      /\ mounts' = ms /\ nsb' = nsb + 1 /\ Mounted(p, s)
      /\ free' = w.fr - 2 - MountPages[t] /\ free' \in Nat
      /\ types' = types /\ dirs' = dirs /\ opened' = opened
  BY DEF NewMount
<1>2. s \in Sb /\ nsb \in Nat /\ nsb' \in 0..MaxSb /\ s.id = nsb /\ s.type = t
  BY <1>1, VfsAssumption DEF VfsInv, NamesOK, Sb
<1>3. NamesOK'
  BY <1>1, <1>2 DEF VfsInv, NamesOK
<1> HIDE DEF s
<1>4. /\ DentOK(e) /\ DOMAIN e = DOMAIN w.d /\ NewId(e) = x /\ Heads(e) = Heads(w.d)
      /\ \A y \in DOMAIN w.d : /\ e[y].sb = w.d[y].sb /\ e[y].num = w.d[y].num
                               /\ e[y].parent = w.d[y].parent
                               /\ e[y].mp = w.d[y].mp \/ (y = mp /\ e[y].mp = TRUE)
      /\ mp \in {0} \cup DOMAIN w.d /\ (mp = 0 <=> mounts = <<>>)
      /\ mp # 0 => e[mp].mp = TRUE
  <2>1. CASE mounts = <<>>
    <3>1. mp = 0 /\ e = w.d
      BY <2>1 DEF NewMount
    <3> QED
      BY <2>1, <3>1
  <2>2. CASE mounts # <<>>
    <3>1. mp = w.cur /\ w.cur \in DOMAIN w.d /\ e = [w.d EXCEPT ![w.cur].mp = TRUE]
      BY <2>2 DEF NewMount
    <3>2. mp # 0
      BY <3>1 DEF DentOK
    <3>3. PICK k, b : k = w.d /\ b = TRUE
      OBVIOUS
    <3>4. Marked(k, mp, b, e) /\ mp \in DOMAIN k
      BY <3>1, <3>3 DEF Marked
    <3>5. /\ DentOK(e) /\ DOMAIN e = DOMAIN k /\ NewId(e) = NewId(k) /\ Heads(e) = Heads(k)
          /\ \A y \in DOMAIN k : /\ e[y].sb = k[y].sb /\ e[y].num = k[y].num
                                 /\ e[y].parent = k[y].parent
                                 /\ y # mp => e[y].mp = k[y].mp
          /\ e[mp].mp = b
      BY <3>4, MarkFacts
    <3> QED
      BY <2>2, <3>2, <3>3, <3>4, <3>5
  <2> QED
    BY <2>1, <2>2
<1>5. PICK d : d = WithDentry(e, x, NewDentry([sb |-> s, num |-> RootNum[s.type]], 0))
  OBVIOUS
<1>6. dent' = [y \in Reached(d, ms) |-> d[y]]
  BY <1>1, <1>2, <1>5 DEF NewMount
<1>7. /\ DentOK(d) /\ DOMAIN d = DOMAIN w.d \cup {x} /\ x \notin DOMAIN w.d /\ x \in Nat \ {0}
      /\ \A y \in DOMAIN w.d : d[y] = e[y]
      /\ d[x].sb = s /\ d[x].num = RootNum[t] /\ d[x].parent = 0
      /\ Cardinality(Heads(w.d)) \in Nat /\ Cardinality(Heads(d)) = Cardinality(Heads(w.d)) + 1
  <2>1. /\ DentOK(d) /\ DOMAIN d = DOMAIN e \cup {x} /\ x \notin DOMAIN e /\ x \in Nat \ {0}
        /\ \A y \in DOMAIN e : d[y] = e[y]
        /\ d[x].sb = s /\ d[x].num = RootNum[s.type] /\ d[x].parent = 0
        /\ Cardinality(Heads(e)) \in Nat /\ Cardinality(Heads(d)) = Cardinality(Heads(e)) + 1
    <3>1. PICK y, r : y = x /\ r = s
      OBVIOUS
    <3> HIDE DEF x
    <3>2. Rooted(e, r, y, d)
      BY <1>2, <1>4, <1>5, <3>1 DEF Rooted
    <3>3. /\ DentOK(d) /\ y \notin DOMAIN e /\ y \in Nat \ {0}
          /\ \A z : z \in DOMAIN d <=> z \in DOMAIN e \/ z = y
          /\ \A z \in DOMAIN e : d[z] = e[z]
          /\ d[y].sb = r /\ d[y].num = RootNum[r.type] /\ d[y].parent = 0
          /\ Cardinality(Heads(e)) \in Nat /\ Cardinality(Heads(d)) = Cardinality(Heads(e)) + 1
      BY <3>2, WithRoot
    <3> QED
      BY <3>1, <3>3
  <2>2. d[x].sb = s /\ d[x].num = RootNum[t] /\ d[x].parent = 0
    BY <1>2, <2>1
  <2> HIDE DEF x
  <2> QED
    BY <1>4, <2>1, <2>2
<1> HIDE DEF x
<1>8. /\ L \in Nat /\ DOMAIN mounts = 1..L
      /\ \A i \in DOMAIN mounts :
            /\ mounts[i].root \in DOMAIN dent /\ mounts[i].mp \in {0} \cup DOMAIN dent
            /\ mounts[i] \in [sb : Sb, mp : Nat, root : Nat]
            /\ mounts[i].mp = 0 <=> i = L
            /\ mounts[i].sb.id < nsb /\ MountOK(mounts[i])
      /\ \A i, j \in DOMAIN mounts :
            i # j => mounts[i].sb # mounts[j].sb /\ mounts[i].root # mounts[j].root
      /\ mounts \in Seq([sb : Sb, mp : Nat, root : Nat])
  BY MountFacts DEF VfsInv, MountsOK, MountOK
<1>9. /\ m \in [sb : Sb, mp : Nat, root : Nat] /\ ms \in Seq([sb : Sb, mp : Nat, root : Nat])
  <2>1. mp \in Nat
    BY <1>4 DEF DentOK
  <2>2. m \in [sb : Sb, mp : Nat, root : Nat]
    BY <1>1, <1>2, <1>7, <2>1
  <2> DEFINE M == [sb : Sb, mp : Nat, root : Nat]
  <2>3. m \in M /\ mounts \in Seq(M)
    BY <1>8, <2>2
  <2> HIDE DEF M
  <2>4. ms \in Seq(M)
    <3>1. PICK r : r = ms
      OBVIOUS
    <3>2. Longer(M, m, mounts, r)
      BY <2>3, <3>1 DEF Longer
    <3> HIDE DEF ms
    <3> QED
      BY <3>1, <3>2, ConsFacts
  <2> QED
    BY <2>2, <2>4 DEF M
<1>10. /\ Len(ms) = L + 1 /\ DOMAIN ms = 1..(L + 1) /\ ms[1] = m
       /\ \A i \in DOMAIN mounts : i + 1 \in DOMAIN ms /\ ms[i + 1] = mounts[i]
       /\ \A j \in DOMAIN ms : j = 1 \/ \E i \in DOMAIN mounts : j = i + 1 /\ ms[j] = mounts[i]
  <2> DEFINE M == [sb : Sb, mp : Nat, root : Nat]
  <2>1. m \in M /\ mounts \in Seq(M)
    BY <1>8, <1>9
  <2> HIDE DEF M
  <2>2. PICK r : r = ms
    OBVIOUS
  <2>3. /\ Len(r) = L + 1 /\ DOMAIN r = 1..(L + 1) /\ r[1] = m
        /\ \A i \in DOMAIN mounts : i + 1 \in DOMAIN r /\ r[i + 1] = mounts[i]
        /\ \A j \in DOMAIN r : j = 1 \/ \E i \in DOMAIN mounts : j = i + 1 /\ r[j] = mounts[i]
    <3>1. Longer(M, m, mounts, r)
      BY <2>1, <2>2 DEF Longer
    <3> QED
      BY <3>1, ConsFacts
  <2> HIDE DEF ms, L
  <2> QED
    BY <2>2, <2>3
<1> HIDE DEF ms, L
<1>11. Range(ms) = Range(mounts) \cup {m} /\ m \notin Range(mounts)
  <2>1. Range(ms) \subseteq Range(mounts) \cup {m}
    BY <1>10 DEF Range
  <2>2. Range(mounts) \cup {m} \subseteq Range(ms)
    <3>1. 1 \in DOMAIN ms
      BY <1>8, <1>10
    <3> QED
      BY <1>10, <3>1 DEF Range
  <2>3. m \notin Range(mounts)
    <3>1. \A i \in DOMAIN mounts : mounts[i].sb.id # m.sb.id
      BY <1>1, <1>2, <1>8 DEF Sb
    <3> QED
      BY <3>1 DEF Range
  <2> QED
    BY <2>1, <2>2, <2>3
<1>12. /\ DentOK(dent') /\ DOMAIN dent' \subseteq DOMAIN d /\ \A y \in DOMAIN dent' : dent'[y] = d[y]
       /\ \A k \in Range(ms) : k.root \in DOMAIN dent' /\ k.mp \in {0} \cup DOMAIN dent'
       /\ Cardinality(Heads(dent')) \in Nat /\ Cardinality(Heads(dent')) <= Cardinality(Heads(d))
  <2>1. \A k \in Range(ms) : k.root \in DOMAIN d /\ k.mp \in {0} \cup DOMAIN d
    <3>1. m.root \in DOMAIN d /\ m.mp \in {0} \cup DOMAIN d
      BY <1>1, <1>4, <1>7
    <3>2. \A k \in Range(mounts) : k.root \in DOMAIN w.d /\ k.mp \in {0} \cup DOMAIN w.d
      BY <1>8 DEF Range, Same
    <3> QED
      BY <1>7, <1>11, <3>1, <3>2
  <2> QED
    BY <1>6, <1>7, <2>1, KeepDentries
<1>13. /\ \A y \in DOMAIN w.d \cap DOMAIN dent' :
             /\ Node(dent', y) = Node(w.d, y) /\ dent'[y].parent = w.d[y].parent
             /\ dent'[y].mp = w.d[y].mp \/ (y = mp /\ dent'[y].mp = TRUE)
       /\ mp # 0 => mp \in DOMAIN dent' /\ dent'[mp].mp = TRUE
       /\ x \in DOMAIN dent' /\ dent'[x].parent = 0 /\ Node(dent', x) = [sb |-> s, num |-> RootNum[t]]
  <2>1. x \in DOMAIN dent' /\ mp \in {0} \cup DOMAIN dent'
    BY <1>1, <1>11, <1>12
  <2>2. dent'[x].parent = 0 /\ Node(dent', x) = [sb |-> s, num |-> RootNum[t]]
    BY <1>7, <1>12, <2>1 DEF Node
  <2>3. ASSUME NEW y \in DOMAIN w.d \cap DOMAIN dent'
        PROVE  /\ Node(dent', y) = Node(w.d, y) /\ dent'[y].parent = w.d[y].parent
               /\ dent'[y].mp = w.d[y].mp \/ (y = mp /\ dent'[y].mp = TRUE)
    <3>1. dent'[y] = e[y]
      BY <1>7, <1>12
    <3> QED
      BY <1>4, <3>1 DEF Node
  <2>4. mp # 0 => dent'[mp] = e[mp]
    BY <1>4, <1>7, <1>12, <2>1
  <2> QED
    BY <1>4, <2>1, <2>2, <2>3, <2>4
<1>14. ASSUME NEW i \in DOMAIN mounts
       PROVE  /\ mounts[i].root \in DOMAIN dent' /\ mounts[i].mp \in {0} \cup DOMAIN dent'
              /\ mounts[i].root \in DOMAIN dent
              /\ Node(dent', mounts[i].root) = Node(dent, mounts[i].root)
              /\ dent'[mounts[i].root].parent = dent[mounts[i].root].parent
              /\ mounts[i].mp # 0 => /\ mounts[i].mp \in DOMAIN dent
                                     /\ Node(dent', mounts[i].mp) = Node(dent, mounts[i].mp)
  <2>1. mounts[i] \in Range(ms)
    BY <1>11 DEF Range
  <2>2. mounts[i].root \in DOMAIN dent' /\ mounts[i].mp \in {0} \cup DOMAIN dent'
    BY <1>12, <2>1
  <2>3. \A y \in DOMAIN dent \cap DOMAIN dent' :
           Node(dent', y) = Node(dent, y) /\ dent'[y].parent = dent[y].parent
    BY <1>13, SameNode DEF Same
  <2> QED
    BY <1>8, <2>2, <2>3
<1>15. MountsOK'
  <2>1. MountOK(m)'
    BY <1>1, <1>2, <1>13 DEF MountOK
  <2>2. ASSUME NEW i \in DOMAIN mounts, NEW k, k = mounts[i] PROVE MountOK(k)'
    <3>1. /\ k.sb.id < nsb + 1 /\ dent[k.root].parent = 0
          /\ Node(dent, k.root) = [sb |-> k.sb, num |-> RootNum[k.sb.type]]
      <4>1. k.sb.id \in Nat /\ k.sb.id < nsb
        BY <1>8, <2>2 DEF Sb
      <4> QED
        BY <1>2, <1>8, <2>2, <4>1 DEF MountOK
    <3> QED
      BY <1>1, <1>14, <2>2, <3>1 DEF MountOK
  <2>3. ASSUME NEW j \in DOMAIN ms, NEW k, k = ms[j] PROVE MountOK(k)' /\ (k.mp = 0 <=> j = Len(ms))
    <3>1. CASE j = 1
      <4>1. 1 = L + 1 <=> mounts = <<>>
        BY <1>8 DEF L
      <4>2. k = m
        BY <1>10, <2>3, <3>1
      <4> QED
        BY <1>1, <1>4, <1>10, <2>1, <3>1, <4>1, <4>2
    <3>2. CASE j # 1
      <4>1. PICK i \in DOMAIN mounts : j = i + 1 /\ k = mounts[i]
        BY <1>10, <2>3, <3>2
      <4>2. MountOK(k)' /\ (k.mp = 0 <=> i = L) /\ i \in Nat
        BY <1>8, <2>2, <4>1
      <4> QED
        BY <1>8, <1>10, <4>1, <4>2
    <3> QED
      BY <3>1, <3>2
  <2>4. ASSUME NEW i \in DOMAIN ms, NEW j \in DOMAIN ms, i # j
        PROVE  ms[i].sb # ms[j].sb /\ ms[i].root # ms[j].root
    <3>1. ASSUME NEW k \in DOMAIN mounts PROVE mounts[k].sb # m.sb /\ mounts[k].root # m.root
      <4>1. mounts[k].root \in DOMAIN w.d /\ x \notin DOMAIN w.d
        BY <1>7, <1>8 DEF Same
      <4>2. mounts[k].sb.id < nsb /\ mounts[k].sb.id \in Nat
        BY <1>8 DEF Sb
      <4>3. mounts[k].sb.id # s.id
        BY <1>2, <4>2
      <4> QED
        BY <1>1, <4>1, <4>3
    <3>2. i = 1 \/ \E k \in DOMAIN mounts : i = k + 1 /\ ms[i] = mounts[k]
      BY <1>10
    <3>3. j = 1 \/ \E k \in DOMAIN mounts : j = k + 1 /\ ms[j] = mounts[k]
      BY <1>10
    <3>4. CASE i = 1
      BY <1>10, <2>4, <3>1, <3>3, <3>4
    <3>5. CASE j = 1
      BY <1>10, <2>4, <3>1, <3>2, <3>5
    <3>6. CASE i # 1 /\ j # 1
      <4>1. PICK k \in DOMAIN mounts : i = k + 1 /\ ms[i] = mounts[k]
        BY <3>2, <3>6
      <4>2. PICK l \in DOMAIN mounts : j = l + 1 /\ ms[j] = mounts[l]
        BY <3>3, <3>6
      <4>3. k # l
        BY <2>4, <4>1, <4>2
      <4> QED
        BY <1>8, <4>1, <4>2, <4>3
    <3> QED
      BY <3>4, <3>5, <3>6
  <2>5. ASSUME NEW i \in DOMAIN mounts'
        PROVE  MountOK(mounts[i])' /\ (mounts'[i].mp = 0 <=> i = Len(mounts'))
    <3>1. PICK k : k = mounts'[i]
      OBVIOUS
    <3>2. i \in DOMAIN ms /\ k = ms[i]
      BY <1>1, <3>1
    <3>3. MountOK(k)' /\ (k.mp = 0 <=> i = Len(ms))
      BY <2>3, <3>2
    <3> QED
      BY <1>1, <3>1, <3>3 DEF MountOK
  <2>6. \A i, j \in DOMAIN mounts' :
           i # j => mounts'[i].sb # mounts'[j].sb /\ mounts'[i].root # mounts'[j].root
    BY <1>1, <2>4
  <2>7. mounts' \in Seq([sb : Sb, mp : Nat, root : Nat])
    BY <1>1, <1>9
  <2> QED
    BY <2>5, <2>6, <2>7 DEF MountsOK
<1>16. PagesOK'
  <2> DEFINE R == Cardinality(Range(mounts))
             E == Cardinality(Ext2Mounts(mounts))
             h == Cardinality(Heads(dent))
             k == Cardinality(Heads(w.d))
             g == Cardinality(Heads(dent'))
             y == IF t = "ext2" THEN 1 ELSE 0
  <2>1. /\ R \in Nat /\ E \in Nat /\ h \in Nat /\ k \in Nat /\ g \in Nat /\ y \in {0, 1}
        /\ free \in Nat /\ opened \in Nat /\ w.fr \in Nat /\ MountPages[t] \in Nat /\ NPages \in Nat
    <3>1. MountPages[t] \in Nat
      BY DEF MountPages, FsType
    <3>2. h \in Nat /\ free \in Nat /\ opened \in Nat
      BY HeadsFinite DEF VfsInv, PagesOK
    <3>3. w.fr \in Nat /\ NPages \in Nat
      BY VfsAssumption DEF Afford
    <3>4. y \in {0, 1}
      OBVIOUS
    <3> HIDE DEF y
    <3> QED
      BY <1>7, <1>12, <3>1, <3>2, <3>3, <3>4, MountsFinite
  <2>2. 1 + 2 * y <= MountPages[t]
    BY DEF MountPages, FsType
  <2>3. w.fr + k <= free + h /\ g <= k + 1
    BY <1>7, <1>12 DEF Afford
  <2>4. free + opened + (2 * R + 2 * E + h) <= NPages
    BY DEF VfsInv, PagesOK, PagesOwed
  <2>5. Cardinality(Range(ms)) = R + 1
    <3>1. PICK S : S = Range(mounts) /\ IsFiniteSet(S) /\ Range(ms) = S \cup {m} /\ m \notin S
      BY <1>11, MountsFinite
    <3>2. Cardinality(S \cup {m}) = Cardinality(S) + 1
      BY <3>1, FS_AddElement
    <3> QED
      BY <3>1, <3>2
  <2>6. Cardinality(Ext2Mounts(ms)) = E + y
    <3>1. CASE t = "ext2"
      <4>1. Ext2Mounts(ms) = Ext2Mounts(mounts) \cup {m} /\ m \notin Ext2Mounts(mounts)
        BY <1>1, <1>2, <1>11, <3>1 DEF Ext2Mounts
      <4>2. PICK S : S = Ext2Mounts(mounts) /\ IsFiniteSet(S) /\ Ext2Mounts(ms) = S \cup {m} /\ m \notin S
        BY <4>1, MountsFinite
      <4>3. Cardinality(S \cup {m}) = Cardinality(S) + 1
        BY <4>2, FS_AddElement
      <4> QED
        BY <3>1, <4>2, <4>3
    <3>2. CASE t # "ext2"
      <4>1. Ext2Mounts(ms) = Ext2Mounts(mounts)
        BY <1>1, <1>2, <1>11, <3>2 DEF Ext2Mounts
      <4> QED
        BY <2>1, <3>2, <4>1
    <3> QED
      BY <3>1, <3>2
  <2>7. PagesOwed(dent', mounts') = 2 * (R + 1) + 2 * (E + y) + g
    BY <1>1, <2>5, <2>6 DEF PagesOwed
  <2> HIDE DEF R, E, h, k, g, y
  <2>8. PICK f, wf, b, n : f = free' /\ wf = w.fr /\ b = MountPages[t] /\ n = NPages
    OBVIOUS
  <2>9. /\ f \in Nat /\ wf \in Nat /\ b \in Nat /\ n \in Nat /\ f = wf - 2 - b /\ 1 + 2 * y <= b
        /\ wf + k <= free + h /\ free + opened + (2 * R + 2 * E + h) <= n
    BY <1>1, <2>1, <2>2, <2>3, <2>4, <2>8
  <2>10. f + opened + (2 * (R + 1) + 2 * (E + y) + g) <= n
    BY <2>1, <2>3, <2>9, MountPagesLeft
  <2> QED
    BY <1>1, <2>1, <2>7, <2>8, <2>10 DEF PagesOK
<1>17. TableOK'
  <2>1. CASE mounts = <<>>
    <3>1. DOMAIN mtab' = {} /\ DOMAIN ms = {1} /\ mp = 0
      <4>1. mtab' = mtab /\ DOMAIN mtab = {}
        BY <1>1, <2>1 DEF Mounted, VfsInv, TableOK
      <4>2. L = 0 /\ mp = 0
        BY <1>4, <2>1 DEF L
      <4> QED
        BY <1>10, <4>1, <4>2
    <3>2. ~SeenOf(1)'
      BY <1>1, <1>10, <3>1 DEF SeenOf
    <3> QED
      BY <1>1, <3>1, <3>2 DEF TableOK
  <2>2. CASE mounts # <<>>
    <3> DEFINE n == Node(w.d, w.cur)
               cov == Covered(p)
    <3>1. /\ mp = w.cur /\ w = vfs_lookup(p) /\ w.rc = "OK" /\ w.cur \in DOMAIN w.d /\ mp # 0
      BY <1>4, <2>2 DEF NewMount
    <3>2. /\ cov \in DOMAIN mtab => AtRoot(n) /\ w.cur # g_root_dent
          /\ cov \notin DOMAIN mtab => n = cov /\ (~AtRoot(n) \/ w.cur = g_root_dent)
      BY <2>2, <3>1, MountPlace
    <3>3. mtab' = IF cov \in DOMAIN mtab THEN mtab ELSE WithDentry(mtab, cov, s)
      BY <1>1, <2>2 DEF Mounted
    <3> HIDE DEF cov, n
    <3>4. /\ g_root_dent' = g_root_dent /\ g_root_dent = mounts[L].root /\ L \in DOMAIN mounts
      <4>1. L \in DOMAIN mounts /\ g_root_dent = mounts[L].root
        BY <2>2, MountFacts DEF L
      <4>2. ms[Len(ms)] = mounts[L]
        BY <1>8, <1>10, <4>1
      <4> QED
        BY <1>1, <4>1, <4>2 DEF g_root_dent, g_root_mnt, Last, L
    <3>5. Node(dent', mp) = n
      BY <1>13, <3>1 DEF n
    <3>6. SeenOf(1)' <=> ~AtRoot(n) \/ w.cur = g_root_dent
      BY <1>1, <1>10, <3>1, <3>4, <3>5 DEF SeenOf
    <3>7. \A i \in DOMAIN mounts : SeenOf(i + 1)' <=> SeenOf(i)
      BY <1>1, <1>10, <1>14, <3>4 DEF SeenOf
    <3>8. /\ DOMAIN mtab' = IF cov \in DOMAIN mtab THEN DOMAIN mtab ELSE DOMAIN mtab \cup {cov}
          /\ \A k \in DOMAIN mtab : mtab'[k] = mtab[k]
          /\ cov \notin DOMAIN mtab => mtab'[cov] = s
      BY <3>3 DEF WithDentry
    <3>9. dent[g_root_dent].mp => dent'[g_root_dent].mp
      <4>1. g_root_dent \in DOMAIN dent /\ g_root_dent \in DOMAIN dent'
        BY <1>14, <3>4
      <4>2. g_root_dent \in DOMAIN w.d /\ w.d[g_root_dent].mp = dent[g_root_dent].mp
        BY <4>1 DEF Same
      <4> QED
        BY <1>13, <4>1, <4>2
    <3>10. ASSUME NEW i \in DOMAIN ms, SeenOf(i)'
           PROVE  /\ Node(dent', ms[i].mp) \in DOMAIN mtab'
                  /\ mtab'[Node(dent', ms[i].mp)] = ms[i].sb
                  /\ ms[i].mp = g_root_dent => dent'[g_root_dent].mp
      <4>1. CASE i = 1
        <5>1. cov \notin DOMAIN mtab /\ n = cov
          BY <3>2, <3>6, <3>10, <4>1
        <5>2. ms[1].mp = mp /\ ms[1].sb = s
          BY <1>1, <1>10
        <5> QED
          BY <1>13, <3>1, <3>5, <3>8, <4>1, <5>1, <5>2
      <4>2. CASE i # 1
        <5>1. PICK j \in DOMAIN mounts : i = j + 1 /\ ms[i] = mounts[j]
          BY <1>10, <4>2
        <5>2. i = j + 1 /\ ms[i] = mounts[j]
          BY <5>1
        <5>3. SeenOf(j)
          BY <3>7, <3>10, <5>2
        <5>4. /\ Node(dent, mounts[j].mp) \in DOMAIN mtab
              /\ mtab[Node(dent, mounts[j].mp)] = mounts[j].sb
              /\ mounts[j].mp = g_root_dent => dent[g_root_dent].mp
          BY <5>3 DEF VfsInv, TableOK
        <5>5. Node(dent', mounts[j].mp) = Node(dent, mounts[j].mp)
          BY <1>14, <5>3 DEF SeenOf
        <5> QED
          BY <3>8, <3>9, <5>2, <5>4, <5>5
      <4> QED
        BY <4>1, <4>2
    <3>11. ASSUME NEW k \in DOMAIN mtab'
           PROVE  \E i \in DOMAIN ms : SeenOf(i)' /\ Node(dent', ms[i].mp) = k /\ mtab'[k] = ms[i].sb
      <4>1. CASE k \in DOMAIN mtab
        <5>1. PICK j \in DOMAIN mounts : SeenOf(j) /\ Node(dent, mounts[j].mp) = k /\ mtab[k] = mounts[j].sb
          BY <4>1 DEF VfsInv, TableOK
        <5>2. j + 1 \in DOMAIN ms /\ ms[j + 1] = mounts[j] /\ SeenOf(j + 1)'
          BY <1>10, <3>7, <5>1
        <5>3. Node(dent', mounts[j].mp) = k
          BY <1>14, <5>1 DEF SeenOf
        <5>4. mtab'[k] = mounts[j].sb
          BY <3>8, <4>1, <5>1
        <5> QED
          BY <5>2, <5>3, <5>4
      <4>2. CASE k \notin DOMAIN mtab
        <5>1. k = cov /\ cov \notin DOMAIN mtab
          BY <3>8, <4>2
        <5>2. SeenOf(1)' /\ n = cov /\ mtab'[k] = s
          BY <3>2, <3>6, <3>8, <5>1
        <5>3. 1 \in DOMAIN ms /\ ms[1].mp = mp /\ ms[1].sb = s
          BY <1>1, <1>8, <1>10
        <5> QED
          BY <3>5, <5>1, <5>2, <5>3
      <4> QED
        BY <4>1, <4>2
    <3>12. mounts' # <<>>
      BY <1>1, <1>8, <1>10
    <3> QED
      BY <1>1, <3>4, <3>10, <3>11, <3>12 DEF TableOK
  <2> QED
    BY <2>1, <2>2
<1> QED
  BY <1>3, <1>12, <1>15, <1>16, <1>17 DEF VfsInv

(* vfs_mount. *)
LEMMA MountKeeps ==
  ASSUME VfsInv, NEW p \in Seq(STRING \ {".", ".."}), NEW t \in FsType, NEW ok, vfs_mount(t, p, ok)
  PROVE  VfsInv'
<1> DEFINE isRoot == p = <<>> /\ mounts = <<>>
<1>1. PICK w : w = IF isRoot THEN [NoRoot EXCEPT !.rc = "OK"] ELSE vfs_lookup(p)
  OBVIOUS
<1> DEFINE s == [id |-> nsb, type |-> t]
           x == NewId(w.d)
           mp == IF isRoot THEN 0 ELSE w.cur
           e == IF isRoot THEN w.d ELSE [w.d EXCEPT ![w.cur].mp = TRUE]
           d == WithDentry(e, x, NewDentry([sb |-> s, num |-> RootNum[t]], 0))
           m == [sb |-> s, mp |-> mp, root |-> x]
           ms == <<m>> \o mounts
           made == w.fr - 1 - MountPages[t]
           able == IF w.rc # "OK" \/ ~ok THEN FALSE
                   ELSE IF isRoot THEN TRUE ELSE vfs_is_dir(Node(w.d, w.cur))
<1>2. /\ nsb < MaxSb /\ UNCHANGED <<types, dirs, opened>>
      /\ \/ Leaves(w, mounts) /\ UNCHANGED <<mounts, nsb, mtab>>
         \/ /\ made = 0 /\ UNCHANGED <<mounts, nsb, mtab>>
            /\ Leaves([w EXCEPT !.fr = UnmountPages[t] + 1], mounts)
         \/ /\ able /\ made > 0 /\ mounts' = ms /\ nsb' = nsb + 1 /\ Mounted(p, s)
            /\ Leaves([w EXCEPT !.d = d, !.fr = made - 1], ms)
  BY <1>1 DEF vfs_mount
<1>3. /\ IsWalk(w) /\ DentOK(w.d) /\ Same(w.d) /\ Afford(w) /\ w.fr \in Nat
      /\ ~isRoot => w = vfs_lookup(p) /\ (w.rc = "OK" => mounts # <<>> /\ w.cur \in DOMAIN w.d)
  <2>1. CASE isRoot
    <3>1. IsWalk(w) /\ w.d = dent /\ w.fr = free
      BY <1>1, <2>1 DEF NoRoot, IsWalk
    <3>2. Cardinality(Heads(dent)) \in Nat /\ free \in Nat /\ DentOK(dent)
      BY HeadsFinite DEF VfsInv, PagesOK
    <3> QED
      BY <2>1, <3>1, <3>2 DEF Afford, Same
  <2>2. CASE ~isRoot
    <3>1. w = vfs_lookup(p) /\ p \in Seq(STRING)
      BY <1>1, <2>2, Dotless
    <3>2. WalkDone(w)
      BY <3>1, LookupDone
    <3> QED
      BY <3>1, <3>2 DEF WalkDone, Afford, Walking
  <2> QED
    BY <2>1, <2>2
<1> HIDE DEF isRoot
<1>4. MountPages[t] \in Nat /\ UnmountPages[t] \in Nat /\ UnmountPages[t] <= MountPages[t]
  BY DEF MountPages, UnmountPages, FsType
<1>5. CASE Leaves(w, mounts) /\ UNCHANGED <<mounts, nsb, mtab>>
  <2>1. w.fr <= w.fr
    BY <1>3
  <2> QED
    BY <1>2, <1>3, <1>5, <2>1, FailedMount DEF Leaves
<1>6. CASE /\ made = 0 /\ UNCHANGED <<mounts, nsb, mtab>>
           /\ Leaves([w EXCEPT !.fr = UnmountPages[t] + 1], mounts)
  <2>1. PICK f, v : f = UnmountPages[t] + 1 /\ v = [w EXCEPT !.fr = f]
    OBVIOUS
  <2>2. f \in Nat /\ f <= w.fr
    BY <1>3, <1>4, <1>6, <2>1
  <2>3. v.d = w.d /\ v.fr = f
    BY <1>3, <2>1 DEF IsWalk
  <2>4. dent' = [y \in Reached(w.d, mounts) |-> w.d[y]] /\ free' = f
    BY <1>6, <2>1, <2>3 DEF Leaves
  <2> QED
    BY <1>2, <1>3, <1>6, <2>2, <2>4, FailedMount
<1>7. CASE /\ able /\ made > 0 /\ mounts' = ms /\ nsb' = nsb + 1 /\ Mounted(p, s)
           /\ Leaves([w EXCEPT !.d = d, !.fr = made - 1], ms)
  <2>1. w.rc = "OK"
    BY <1>7
  <2>2. PICK g, f, v : g = d /\ f = made - 1 /\ v = [w EXCEPT !.d = g, !.fr = f]
    OBVIOUS
  <2>3. v.d = g /\ v.fr = f
    BY <1>3, <2>2 DEF IsWalk
  <2>4. dent' = [y \in Reached(d, ms) |-> d[y]] /\ free' = made - 1
    <3>1. Leaves(v, ms)
      BY <1>7, <2>2
    <3> HIDE DEF d, ms, made
    <3> QED
      BY <2>2, <2>3, <3>1 DEF Leaves
  <2>5. free' = w.fr - 2 - MountPages[t] /\ free' \in Nat
    BY <1>3, <1>4, <1>7, <2>4
  <2>6. \/ mounts = <<>> /\ mp = 0 /\ e = w.d
        \/ /\ mounts # <<>> /\ w = vfs_lookup(p) /\ w.rc = "OK"
           /\ mp = w.cur /\ w.cur \in DOMAIN w.d /\ e = [w.d EXCEPT ![w.cur].mp = TRUE]
    BY <1>3, <2>1 DEF isRoot
  <2>7. m.sb = s /\ m.root = x /\ s = [id |-> nsb, type |-> t]
    OBVIOUS
  <2>8. PICK k, a, b, r : k = m /\ a = mp /\ b = e /\ r = s
    OBVIOUS
  <2>9. NewMount(p, t, w, a, b, k)
    <3>1. /\ k = [sb |-> [id |-> nsb, type |-> t], mp |-> a, root |-> NewId(w.d)]
          /\ k.sb = r /\ k.root = x /\ mounts' = <<k>> \o mounts
      BY <1>7, <2>7, <2>8
    <3>2. dent' = [y \in Reached(d, mounts') |-> d[y]]
      BY <1>7, <2>4
    <3>3. d = WithDentry(b, k.root, NewDentry([sb |-> k.sb, num |-> RootNum[t]], 0))
      BY <2>8, <3>1
    <3>4. nsb' = nsb + 1 /\ Mounted(p, k.sb) /\ UNCHANGED <<types, dirs, opened>>
      BY <1>2, <1>7, <2>8, <3>1
    <3>5. \/ mounts = <<>> /\ a = 0 /\ b = w.d
          \/ /\ mounts # <<>> /\ w = vfs_lookup(p) /\ w.rc = "OK"
             /\ a = w.cur /\ w.cur \in DOMAIN w.d /\ b = [w.d EXCEPT ![w.cur].mp = TRUE]
      BY <2>6, <2>8
    <3> HIDE DEF d
    <3> QED
      BY <2>5, <3>1, <3>2, <3>3, <3>4, <3>5 DEF NewMount
  <2> QED
    BY <1>2, <1>3, <2>9, NewMountKeeps
<1> QED
  BY <1>2, <1>5, <1>6, <1>7

(* A sequence without its i-th element. *)
Past(i, j) == IF j < i THEN j ELSE j + 1
Shorter(M, q, i, r) == q \in Seq(M) /\ i \in 1..Len(q) /\ r = RemoveAt(q, i)
LEMMA RemoveFacts ==
  ASSUME NEW M, NEW q, NEW i, NEW r, Shorter(M, q, i, r)
  PROVE  /\ r \in Seq(M) /\ Len(q) \in Nat /\ Len(r) = Len(q) - 1
         /\ DOMAIN q = 1..Len(q) /\ DOMAIN r = 1..(Len(q) - 1)
         /\ \A j \in DOMAIN r : Past(i, j) \in DOMAIN q \ {i} /\ r[j] = q[Past(i, j)]
         /\ \A k \in DOMAIN q \ {i} : \E j \in DOMAIN r : Past(i, j) = k
<1>1. q \in Seq(M) /\ Len(q) \in Nat /\ i \in 1..Len(q) /\ DOMAIN q = 1..Len(q)
  BY DEF Shorter
<1> DEFINE a == SubSeq(q, 1, i - 1)
           b == SubSeq(q, i + 1, Len(q))
<1>2. r = a \o b
  BY DEF Shorter, RemoveAt
<1>3. /\ a \in Seq(M) /\ b \in Seq(M) /\ Len(a) = i - 1 /\ Len(b) = Len(q) - i
      /\ \A j \in 1..(i - 1) : a[j] = q[j]
      /\ \A j \in 1..(Len(q) - i) : b[j] = q[i + j]
  <2>1. a \in Seq(M) /\ Len(a) = i - 1 /\ \A j \in 1..(i - 1) : a[j] = q[j]
    BY <1>1
  <2>2. PICK m, n : m = i + 1 /\ n = Len(q)
    OBVIOUS
  <2>3. m \in Int /\ n \in Int /\ \A k \in m..n : q[k] \in M
    BY <1>1, <2>2
  <2>4. /\ b \in Seq(M) /\ Len(b) = IF m <= n THEN n - m + 1 ELSE 0
        /\ \A k \in 1..(n - m + 1) : b[k] = q[m + k - 1]
    BY <2>2, <2>3, SubSeqProperties
  <2>5. n \in Nat /\ i \in 1..n /\ m = i + 1
    BY <1>1, <2>2
  <2>6. (IF m <= n THEN n - m + 1 ELSE 0) = n - i
    BY <2>5
  <2>7. n - m + 1 = n - i /\ \A k \in 1..(n - i) : m + k - 1 = i + k
    BY <2>5
  <2>8. Len(b) = n - i /\ \A k \in 1..(n - i) : b[k] = q[i + k]
    BY <2>4, <2>6, <2>7
  <2> QED
    BY <2>1, <2>2, <2>4, <2>8
<1> HIDE DEF a, b
<1>4. /\ r \in Seq(M) /\ Len(r) = Len(a) + Len(b)
      /\ \A j \in 1..(Len(a) + Len(b)) : r[j] = IF j <= Len(a) THEN a[j] ELSE b[j - Len(a)]
  BY <1>2, <1>3
<1>5. Len(r) = Len(q) - 1 /\ DOMAIN r = 1..(Len(q) - 1)
  BY <1>1, <1>3, <1>4
<1>6. ASSUME NEW j \in DOMAIN r PROVE Past(i, j) \in DOMAIN q \ {i} /\ r[j] = q[Past(i, j)]
  <2>1. r[j] = IF j <= i - 1 THEN a[j] ELSE b[j - (i - 1)]
    BY <1>1, <1>3, <1>4, <1>5, <1>6
  <2>2. CASE j < i
    BY <1>1, <1>3, <1>5, <1>6, <2>1, <2>2 DEF Past
  <2>3. CASE ~(j < i)
    <3>1. j - (i - 1) \in 1..(Len(q) - i) /\ i + (j - (i - 1)) = j + 1 /\ ~(j <= i - 1)
      BY <1>1, <1>5, <1>6, <2>3
    <3>2. b[j - (i - 1)] = q[j + 1]
      BY <1>3, <3>1
    <3> QED
      BY <1>1, <1>5, <1>6, <2>1, <2>3, <3>1, <3>2 DEF Past
  <2> QED
    BY <2>2, <2>3
<1>7. ASSUME NEW k \in DOMAIN q \ {i} PROVE \E j \in DOMAIN r : Past(i, j) = k
  <2>1. CASE k < i
    <3>1. k \in DOMAIN r /\ Past(i, k) = k
      BY <1>1, <1>5, <2>1 DEF Past
    <3> QED
      BY <3>1
  <2>2. CASE k > i
    <3>1. k - 1 \in DOMAIN r /\ Past(i, k - 1) = k
      BY <1>1, <1>5, <2>2 DEF Past
    <3> QED
      BY <3>1
  <2> QED
    BY <1>1, <2>1, <2>2
<1> QED
  BY <1>1, <1>4, <1>5, <1>6, <1>7

(* A mount less, with what it gives back. *)
LEMMA UmountPagesLeft ==
  ASSUME NEW f \in Nat, NEW o \in Nat, NEW wf \in Nat, NEW fr \in Nat,
         NEW R \in Nat, NEW E \in Nat, NEW y \in {0, 1}, NEW g \in Nat, NEW k \in Nat,
         NEW h \in Nat, NEW n \in Nat,
         f = wf + 2 + 2 * y, wf + k <= fr + h, g <= k,
         fr + o + (2 * R + 2 * E + h) <= n
  PROVE  f + o + (2 * (R - 1) + 2 * (E - y) + g) <= n
OBVIOUS

(* A mount that goes: its mount point is no longer marked, and the table   *)
(* forgets its superblock.                                                 *)
OldMount(w, i, e) ==
    /\ i \in DOMAIN mounts /\ mounts[i].mp = w.cur /\ w.cur # 0
    /\ e = [w.d EXCEPT ![w.cur].mp = FALSE]
    /\ mounts' = RemoveAt(mounts, i)
    /\ mtab' = [n \in {k \in DOMAIN mtab : mtab[k] # mounts[i].sb} |-> mtab[n]]
    /\ dent' = [y \in Reached(e, mounts') |-> e[y]]
    /\ free' = w.fr + 2 + UnmountPages[mounts[i].sb.type]
    /\ UNCHANGED <<types, dirs, nsb, opened>>
LEMMA OldMountKeeps ==
  ASSUME VfsInv, NEW w, Walking(w), NEW i, NEW e, OldMount(w, i, e)
  PROVE  VfsInv'
<1> DEFINE L == Len(mounts)
<1>1. PICK m : m = mounts[i]
  OBVIOUS
<1>2. PICK ms : ms = RemoveAt(mounts, i)
  OBVIOUS
<1>3. /\ i \in DOMAIN mounts /\ m.mp = w.cur /\ m.mp # 0
      /\ e = [w.d EXCEPT ![m.mp].mp = FALSE] /\ mounts' = ms
      /\ mtab' = [n \in {k \in DOMAIN mtab : mtab[k] # m.sb} |-> mtab[n]]
      /\ dent' = [y \in Reached(e, ms) |-> e[y]]
      /\ free' = w.fr + 2 + UnmountPages[m.sb.type]
      /\ types' = types /\ dirs' = dirs /\ nsb' = nsb /\ opened' = opened
  BY <1>1, <1>2 DEF OldMount
<1>4. /\ L \in Nat /\ DOMAIN mounts = 1..L
      /\ \A j \in DOMAIN mounts :
            /\ mounts[j].root \in DOMAIN dent /\ mounts[j].mp \in {0} \cup DOMAIN dent
            /\ mounts[j].mp = 0 <=> j = L
            /\ MountOK(mounts[j])
      /\ \A j, k \in DOMAIN mounts :
            j # k => mounts[j].sb # mounts[k].sb /\ mounts[j].root # mounts[k].root
      /\ mounts \in Seq([sb : Sb, mp : Nat, root : Nat])
  BY MountFacts DEF VfsInv, MountsOK
<1> HIDE DEF L
<1>5. m.mp \in DOMAIN dent /\ i # L /\ m.sb.type \in FsType
  BY <1>1, <1>3, <1>4, MountFacts DEF L
<1>6. /\ ms \in Seq([sb : Sb, mp : Nat, root : Nat]) /\ Len(ms) = L - 1 /\ DOMAIN ms = 1..(L - 1)
      /\ \A j \in DOMAIN ms : Past(i, j) \in DOMAIN mounts \ {i} /\ ms[j] = mounts[Past(i, j)]
      /\ \A k \in DOMAIN mounts \ {i} : \E j \in DOMAIN ms : Past(i, j) = k
  <2> DEFINE M == [sb : Sb, mp : Nat, root : Nat]
  <2>1. mounts \in Seq(M) /\ i \in 1..Len(mounts)
    BY <1>3, <1>4 DEF L
  <2> HIDE DEF M
  <2>2. Shorter(M, mounts, i, ms)
    BY <1>2, <2>1 DEF Shorter
  <2>3. /\ ms \in Seq(M) /\ Len(ms) = Len(mounts) - 1 /\ DOMAIN ms = 1..(Len(mounts) - 1)
        /\ \A j \in DOMAIN ms : Past(i, j) \in DOMAIN mounts \ {i} /\ ms[j] = mounts[Past(i, j)]
        /\ \A k \in DOMAIN mounts \ {i} : \E j \in DOMAIN ms : Past(i, j) = k
    BY <2>2, RemoveFacts
  <2> QED
    BY <2>3 DEF M, L
<1>7. /\ DentOK(e) /\ DOMAIN e = DOMAIN w.d /\ Heads(e) = Heads(w.d)
      /\ \A y \in DOMAIN w.d : /\ e[y].sb = w.d[y].sb /\ e[y].num = w.d[y].num
                               /\ e[y].parent = w.d[y].parent
                               /\ y # m.mp => e[y].mp = w.d[y].mp
  <2>1. PICK k, b, x : k = w.d /\ b = FALSE /\ x = m.mp
    OBVIOUS
  <2>2. x \in DOMAIN k /\ DentOK(k)
    BY <1>3, <2>1 DEF Walking
  <2>3. Marked(k, x, b, e)
    BY <1>3, <2>1, <2>2 DEF Marked
  <2>4. /\ DentOK(e) /\ DOMAIN e = DOMAIN k /\ Heads(e) = Heads(k)
        /\ \A y \in DOMAIN k : /\ e[y].sb = k[y].sb /\ e[y].num = k[y].num
                               /\ e[y].parent = k[y].parent
                               /\ y # x => e[y].mp = k[y].mp
    BY <2>3, MarkFacts
  <2> QED
    BY <2>1, <2>4
<1>8. Range(ms) = Range(mounts) \ {m} /\ m \in Range(mounts)
  <2>1. ASSUME NEW k \in Range(ms) PROVE k \in Range(mounts) /\ k # m
    <3>1. PICK j \in DOMAIN ms : k = ms[j]
      BY <2>1 DEF Range
    <3>2. k = mounts[Past(i, j)] /\ Past(i, j) \in DOMAIN mounts \ {i}
      BY <1>6, <3>1
    <3>3. k.sb # m.sb
      BY <1>1, <1>3, <1>4, <3>2
    <3> QED
      BY <3>2, <3>3 DEF Range
  <2>2. ASSUME NEW k \in Range(mounts), k # m PROVE k \in Range(ms)
    <3>1. PICK j \in DOMAIN mounts : k = mounts[j]
      BY <2>2 DEF Range
    <3>2. j \in DOMAIN mounts \ {i}
      BY <1>1, <2>2, <3>1
    <3>3. PICK l \in DOMAIN ms : Past(i, l) = j
      BY <1>6, <3>2
    <3>4. ms[l] = k
      BY <1>6, <3>1, <3>3
    <3> QED
      BY <3>4 DEF Range
  <2>3. m \in Range(mounts)
    BY <1>1, <1>3 DEF Range
  <2> QED
    BY <2>1, <2>2, <2>3
<1>9. /\ DentOK(dent') /\ DOMAIN dent' \subseteq DOMAIN e /\ \A y \in DOMAIN dent' : dent'[y] = e[y]
      /\ \A k \in Range(ms) : k.root \in DOMAIN dent' /\ k.mp \in {0} \cup DOMAIN dent'
      /\ Cardinality(Heads(dent')) \in Nat /\ Cardinality(Heads(dent')) <= Cardinality(Heads(e))
  <2>1. \A k \in Range(ms) : k.root \in DOMAIN e /\ k.mp \in {0} \cup DOMAIN e
    <3>1. \A k \in Range(mounts) : k.root \in DOMAIN w.d /\ k.mp \in {0} \cup DOMAIN w.d
      BY <1>4 DEF Range, Same, Walking
    <3> QED
      BY <1>7, <1>8, <3>1
  <2> QED
    <3>1. PICK r : r = dent' /\ r = [y \in Reached(e, ms) |-> e[y]] /\ DentOK(e)
      BY <1>3, <1>7
    <3>2. /\ DentOK(r) /\ DOMAIN r \subseteq DOMAIN e /\ \A x \in DOMAIN r : r[x] = e[x]
          /\ \A k \in Range(ms) : k.root \in DOMAIN r /\ k.mp \in {0} \cup DOMAIN r
          /\ Cardinality(Heads(r)) \in Nat /\ Cardinality(Heads(r)) <= Cardinality(Heads(e))
      BY <2>1, <3>1, KeepDentries
    <3> QED
      BY <3>1, <3>2
<1>10. \A y \in DOMAIN dent \cap DOMAIN dent' :
          /\ Node(dent', y) = Node(dent, y) /\ dent'[y].parent = dent[y].parent
          /\ y # m.mp => dent'[y].mp = dent[y].mp
  <2>1. ASSUME NEW y \in DOMAIN dent \cap DOMAIN dent'
        PROVE  /\ Node(dent', y) = Node(dent, y) /\ dent'[y].parent = dent[y].parent
               /\ y # m.mp => dent'[y].mp = dent[y].mp
    <3>1. /\ y \in DOMAIN w.d /\ w.d[y].sb = dent[y].sb /\ w.d[y].num = dent[y].num
          /\ w.d[y].parent = dent[y].parent /\ w.d[y].mp = dent[y].mp
      BY DEF Walking, Same
    <3>2. dent'[y] = e[y]
      BY <1>9
    <3> QED
      BY <1>7, <3>1, <3>2 DEF Node
  <2> QED
    BY <2>1
<1>11. ASSUME NEW j \in DOMAIN mounts, j # i
       PROVE  /\ mounts[j].root \in DOMAIN dent \cap DOMAIN dent'
              /\ mounts[j].mp # 0 => mounts[j].mp \in DOMAIN dent \cap DOMAIN dent'
  <2>1. mounts[j] \in Range(ms)
    <3>1. j \in DOMAIN mounts \ {i}
      BY <1>11
    <3>2. PICK l \in DOMAIN ms : Past(i, l) = j
      BY <1>6, <3>1
    <3>3. ms[l] = mounts[j]
      BY <1>6, <3>2
    <3> QED
      BY <3>3 DEF Range
  <2> QED
    BY <1>4, <1>9, <2>1
<1>12. MountsOK'
  <2>1. ASSUME NEW j \in DOMAIN ms, NEW k, k = ms[j] PROVE MountOK(k)' /\ (k.mp = 0 <=> j = L - 1)
    <3>1. PICK l : l = Past(i, j) /\ l \in DOMAIN mounts \ {i} /\ k = mounts[l]
      BY <1>6, <2>1
    <3>2. /\ k.sb.id < nsb /\ dent[k.root].parent = 0
          /\ Node(dent, k.root) = [sb |-> k.sb, num |-> RootNum[k.sb.type]]
      BY <1>4, <3>1 DEF MountOK
    <3>3. MountOK(k)'
      <4>1. k.root \in DOMAIN dent \cap DOMAIN dent' /\ k.mp \in {0} \cup DOMAIN dent'
        BY <1>11, <3>1
      <4>2. Node(dent', k.root) = Node(dent, k.root) /\ dent'[k.root].parent = 0
        BY <1>10, <3>2, <4>1
      <4> QED
        BY <1>3, <3>2, <4>1, <4>2 DEF MountOK
    <3>4. l = L <=> j = L - 1
      <4>1. i \in 1..L /\ i # L /\ L \in Nat /\ j \in 1..(L - 1) /\ l = IF j < i THEN j ELSE j + 1
        BY <1>3, <1>4, <1>5, <1>6, <2>1, <3>1 DEF Past
      <4> QED
        BY <4>1
    <3> QED
      BY <1>4, <3>1, <3>3, <3>4
  <2>2. ASSUME NEW j \in DOMAIN ms, NEW k \in DOMAIN ms, j # k
        PROVE  ms[j].sb # ms[k].sb /\ ms[j].root # ms[k].root
    <3>1. PICK a, b : /\ a = Past(i, j) /\ a \in DOMAIN mounts /\ ms[j] = mounts[a]
                      /\ b = Past(i, k) /\ b \in DOMAIN mounts /\ ms[k] = mounts[b]
      BY <1>6
    <3>2. a # b
      <4>1. /\ i \in 1..L /\ L \in Nat /\ j \in 1..(L - 1) /\ k \in 1..(L - 1) /\ j # k
            /\ a = IF j < i THEN j ELSE j + 1
            /\ b = IF k < i THEN k ELSE k + 1
        BY <1>3, <1>4, <1>6, <2>2, <3>1 DEF Past
      <4> QED
        BY <4>1
    <3> QED
      BY <1>4, <3>1, <3>2
  <2>3. ASSUME NEW j \in DOMAIN mounts'
        PROVE  MountOK(mounts[j])' /\ (mounts'[j].mp = 0 <=> j = Len(mounts'))
    <3>1. PICK k : k = mounts'[j]
      OBVIOUS
    <3>2. j \in DOMAIN ms /\ k = ms[j]
      BY <1>3, <3>1
    <3>3. MountOK(k)' /\ (k.mp = 0 <=> j = Len(ms))
      BY <1>6, <2>1, <3>2
    <3> QED
      BY <1>3, <3>1, <3>3 DEF MountOK
  <2>4. \A j, k \in DOMAIN mounts' :
           j # k => mounts'[j].sb # mounts'[k].sb /\ mounts'[j].root # mounts'[k].root
    BY <1>3, <2>2
  <2> QED
    BY <1>3, <1>6, <2>3, <2>4 DEF MountsOK
<1>13. PagesOK'
  <2> DEFINE R == Cardinality(Range(mounts))
             E == Cardinality(Ext2Mounts(mounts))
             h == Cardinality(Heads(dent))
             k == Cardinality(Heads(w.d))
             g == Cardinality(Heads(dent'))
             y == IF m.sb.type = "ext2" THEN 1 ELSE 0
  <2>1. /\ R \in Nat /\ E \in Nat /\ h \in Nat /\ k \in Nat /\ g \in Nat /\ y \in {0, 1}
        /\ free \in Nat /\ opened \in Nat /\ w.fr \in Nat /\ NPages \in Nat
    <3>1. h \in Nat /\ free \in Nat /\ opened \in Nat
      BY HeadsFinite DEF VfsInv, PagesOK
    <3>2. w.fr \in Nat /\ NPages \in Nat /\ k \in Nat
      BY VfsAssumption, HeadsFinite DEF Afford, Walking
    <3>3. y \in {0, 1}
      OBVIOUS
    <3> HIDE DEF y
    <3> QED
      BY <1>9, <3>1, <3>2, <3>3, MountsFinite
  <2>2. UnmountPages[m.sb.type] = 2 * y
    BY <1>5 DEF UnmountPages, FsType
  <2>3. w.fr + k <= free + h /\ g <= k
    BY <1>7, <1>9 DEF Afford, Walking
  <2>4. free + opened + (2 * R + 2 * E + h) <= NPages
    BY DEF VfsInv, PagesOK, PagesOwed
  <2>5. Cardinality(Range(ms)) = R - 1
    <3>1. PICK S : S = Range(mounts) /\ IsFiniteSet(S) /\ Range(ms) = S \ {m} /\ m \in S
      BY <1>8, MountsFinite
    <3>2. Cardinality(S \ {m}) = Cardinality(S) - 1
      BY <3>1, FS_RemoveElement
    <3> QED
      BY <3>1, <3>2
  <2>6. Cardinality(Ext2Mounts(ms)) = E - y
    <3>1. PICK S : S = Ext2Mounts(mounts) /\ IsFiniteSet(S) /\ Ext2Mounts(ms) = S \ {m}
                   /\ (m \in S <=> m.sb.type = "ext2")
      <4>1. Ext2Mounts(ms) = Ext2Mounts(mounts) \ {m} /\ (m \in Ext2Mounts(mounts) <=> m.sb.type = "ext2")
        BY <1>8 DEF Ext2Mounts
      <4> QED
        BY <4>1, MountsFinite
    <3>2. Cardinality(S \ {m}) = IF m \in S THEN Cardinality(S) - 1 ELSE Cardinality(S)
      BY <3>1, FS_RemoveElement
    <3> QED
      BY <2>1, <3>1, <3>2
  <2>7. PagesOwed(dent', mounts') = 2 * (R - 1) + 2 * (E - y) + g
    BY <1>3, <2>5, <2>6 DEF PagesOwed
  <2> HIDE DEF R, E, h, k, g, y
  <2>8. PICK f, wf, n : f = free' /\ wf = w.fr /\ n = NPages
    OBVIOUS
  <2>9. /\ f \in Nat /\ wf \in Nat /\ n \in Nat /\ f = wf + 2 + 2 * y
        /\ wf + k <= free + h /\ free + opened + (2 * R + 2 * E + h) <= n
    BY <1>3, <2>1, <2>2, <2>3, <2>4, <2>8
  <2>10. f + opened + (2 * (R - 1) + 2 * (E - y) + g) <= n
    BY <2>1, <2>3, <2>9, UmountPagesLeft
  <2> QED
    BY <1>3, <2>1, <2>7, <2>8, <2>9, <2>10 DEF PagesOK
<1>14. g_root_dent' = g_root_dent /\ g_root_dent = mounts[L].root /\ ms # <<>>
  <2>1. L \in DOMAIN mounts /\ g_root_dent = mounts[L].root /\ L >= 2
    <3>1. L >= 2 /\ mounts # <<>>
      BY <1>3, <1>4, <1>5
    <3> QED
      BY <1>4, <3>1, MountFacts DEF L
  <2>2. ms[Len(ms)] = mounts[L] /\ ms # <<>>
    <3>1. i \in 1..L /\ i # L /\ L \in Nat /\ L >= 2 /\ Len(ms) = L - 1 /\ DOMAIN ms = 1..(L - 1)
      BY <1>3, <1>4, <1>5, <1>6, <2>1
    <3>2. L - 1 \in DOMAIN ms /\ ms # <<>> /\ Past(i, L - 1) = L
      BY <3>1 DEF Past
    <3>3. ms[L - 1] = mounts[L]
      BY <1>6, <3>2
    <3> QED
      BY <3>1, <3>2, <3>3
  <2> QED
    BY <1>3, <2>1, <2>2 DEF g_root_dent, g_root_mnt, Last, L
<1>15. \A j \in DOMAIN ms : SeenOf(j)' <=> SeenOf(Past(i, j))
  <2>1. ASSUME NEW j \in DOMAIN ms PROVE SeenOf(j)' <=> SeenOf(Past(i, j))
    <3>1. PICK k, l : l = Past(i, j) /\ l \in DOMAIN mounts /\ l # i /\ ms[j] = k /\ k = mounts[l]
      BY <1>6
    <3>2. k.mp # 0 => Node(dent', k.mp) = Node(dent, k.mp)
      BY <1>10, <1>11, <3>1
    <3>3. SeenOf(j)' <=> k.mp # 0 /\ (~AtRoot(Node(dent', k.mp)) \/ k.mp = g_root_dent)
      BY <1>3, <1>14, <3>1 DEF SeenOf
    <3>4. SeenOf(l) <=> k.mp # 0 /\ (~AtRoot(Node(dent, k.mp)) \/ k.mp = g_root_dent)
      BY <3>1 DEF SeenOf
    <3> QED
      BY <3>1, <3>2, <3>3, <3>4
  <2> QED
    BY <2>1
<1>16. TableOK'
  <2>1. DOMAIN mtab' = {k \in DOMAIN mtab : mtab[k] # m.sb} /\ \A k \in DOMAIN mtab' : mtab'[k] = mtab[k]
    BY <1>3
  <2>2. ASSUME NEW j \in DOMAIN ms, SeenOf(j)'
        PROVE  /\ Node(dent', ms[j].mp) \in DOMAIN mtab'
               /\ mtab'[Node(dent', ms[j].mp)] = ms[j].sb
               /\ ms[j].mp = g_root_dent => dent'[g_root_dent].mp
    <3>1. PICK k, l : l = Past(i, j) /\ l \in DOMAIN mounts /\ l # i /\ ms[j] = k /\ k = mounts[l]
      BY <1>6
    <3>2. SeenOf(l) /\ k.mp # 0
      BY <1>15, <2>2, <3>1 DEF SeenOf
    <3>3. /\ Node(dent, k.mp) \in DOMAIN mtab /\ mtab[Node(dent, k.mp)] = k.sb
          /\ k.mp = g_root_dent => dent[g_root_dent].mp
      BY <3>1, <3>2 DEF VfsInv, TableOK
    <3>4. Node(dent', k.mp) = Node(dent, k.mp) /\ k.sb # m.sb
      <4>1. k.mp \in DOMAIN dent \cap DOMAIN dent'
        BY <1>11, <3>1, <3>2
      <4>2. k.sb # m.sb
        BY <1>1, <1>3, <1>4, <3>1
      <4> QED
        BY <1>10, <4>1, <4>2
    <3>5. ASSUME k.mp = g_root_dent PROVE g_root_dent # m.mp
      <4>1. SUFFICES ASSUME m.mp = g_root_dent PROVE FALSE
        OBVIOUS
      <4>2. SeenOf(i)
        BY <1>1, <1>3, <4>1 DEF SeenOf
      <4>3. mtab[Node(dent, m.mp)] = m.sb
        BY <1>1, <1>3, <4>2 DEF VfsInv, TableOK
      <4> QED
        BY <3>3, <3>4, <3>5, <4>1, <4>3
    <3>6. k.mp = g_root_dent => dent'[g_root_dent].mp
      <4>1. SUFFICES ASSUME k.mp = g_root_dent PROVE dent'[g_root_dent].mp
        OBVIOUS
      <4>2. g_root_dent \in DOMAIN dent \cap DOMAIN dent'
        BY <1>11, <3>1, <3>2, <4>1
      <4> QED
        BY <1>10, <3>3, <3>5, <4>1, <4>2
    <3> QED
      BY <2>1, <3>1, <3>3, <3>4, <3>6
  <2>3. ASSUME NEW n \in DOMAIN mtab'
        PROVE  \E j \in DOMAIN ms : SeenOf(j)' /\ Node(dent', ms[j].mp) = n /\ mtab'[n] = ms[j].sb
    <3>1. PICK l \in DOMAIN mounts : SeenOf(l) /\ Node(dent, mounts[l].mp) = n /\ mtab[n] = mounts[l].sb
      BY <2>1 DEF VfsInv, TableOK
    <3>2. l # i /\ mounts[l].mp # 0
      BY <1>1, <2>1, <3>1 DEF SeenOf
    <3>3. PICK j \in DOMAIN ms : Past(i, j) = l
      BY <1>6, <3>2
    <3>4. ms[j] = mounts[l]
      BY <1>6, <3>3
    <3>5. Node(dent', mounts[l].mp) = n
      BY <1>10, <1>11, <3>1, <3>2
    <3> QED
      BY <1>15, <2>1, <3>1, <3>3, <3>4, <3>5
  <2>4. \A j \in DOMAIN mounts' : SeenOf(j)' =>
           /\ Node(dent', mounts'[j].mp) \in DOMAIN mtab'
           /\ mtab'[Node(dent', mounts'[j].mp)] = mounts'[j].sb
           /\ mounts'[j].mp = g_root_dent' => dent'[g_root_dent'].mp
    BY <1>3, <1>14, <2>2
  <2>5. \A n \in DOMAIN mtab' :
           \E j \in DOMAIN mounts' : SeenOf(j)' /\ Node(dent', mounts'[j].mp) = n /\ mtab'[n] = mounts'[j].sb
    BY <1>3, <2>3
  <2>6. mounts' # <<>>
    BY <1>3, <1>14
  <2> QED
    BY <2>4, <2>5, <2>6 DEF TableOK
<1>17. NamesOK'
  BY <1>3 DEF VfsInv, NamesOK
<1> QED
  BY <1>9, <1>12, <1>13, <1>16, <1>17 DEF VfsInv

(* vfs_umount. *)
LEMMA UmountKeeps ==
  ASSUME VfsInv, NEW p \in Seq(STRING), vfs_umount(p)
  PROVE  VfsInv'
<1>1. PICK w : w = vfs_lookup(p)
  OBVIOUS
<1>2. WalkDone(w)
  BY <1>1, LookupDone
<1> DEFINE at == vfs_find_mount_by_mountpoint(w.cur)
           m == mounts[Min(at)]
<1>3. CASE w.rc = "OK" /\ at # {}
  <2>1. Walking(w)
    BY <1>2, <1>3 DEF WalkDone
  <2>2. PICK i : i = Min(at)
    OBVIOUS
  <2>3. i \in DOMAIN mounts /\ mounts[i].mp = w.cur
    <3>1. at \subseteq Nat
      BY MountFacts DEF vfs_find_mount_by_mountpoint
    <3>2. i \in at
      BY <1>3, <2>2, <3>1, MinLeast
    <3> QED
      BY <3>2 DEF vfs_find_mount_by_mountpoint
  <2>4. PICK e, f, v : /\ e = [w.d EXCEPT ![w.cur].mp = FALSE]
                       /\ f = w.fr + 2 + UnmountPages[mounts[i].sb.type]
                       /\ v = [w EXCEPT !.d = e, !.fr = f]
    OBVIOUS
  <2>5. v.d = e /\ v.fr = f
    BY <1>2, <2>4 DEF WalkDone, IsWalk
  <2>6. /\ mounts' = RemoveAt(mounts, i)
        /\ mtab' = [n \in {k \in DOMAIN mtab : mtab[k] # mounts[i].sb} |-> mtab[n]]
        /\ UNCHANGED <<types, dirs, nsb, opened>>
    BY <1>1, <1>3, <2>2 DEF vfs_umount
  <2>7. Leaves([w EXCEPT !.d[w.cur].mp = FALSE, !.fr = @ + 2 + UnmountPages[mounts[i].sb.type]],
               RemoveAt(mounts, i))
    BY <1>1, <1>3, <2>2 DEF vfs_umount
  <2>8. [w EXCEPT !.d[w.cur].mp = FALSE, !.fr = @ + 2 + UnmountPages[mounts[i].sb.type]] = v
    BY <1>2, <2>4 DEF WalkDone, IsWalk
  <2>9. Leaves(v, RemoveAt(mounts, i))
    BY <2>7, <2>8
  <2>10. dent' = [y \in Reached(e, mounts') |-> e[y]] /\ free' = f
    BY <2>5, <2>6, <2>9 DEF Leaves
  <2>11. w.cur # 0
    BY <2>1 DEF Walking, DentOK
  <2>12. OldMount(w, i, e)
    BY <2>3, <2>4, <2>6, <2>10, <2>11 DEF OldMount
  <2> QED
    BY <2>1, <2>12, OldMountKeeps
<1>4. CASE ~(w.rc = "OK" /\ at # {})
  <2>1. Leaves(w, mounts) /\ UNCHANGED <<mounts, mtab>> /\ UNCHANGED <<types, dirs, nsb, opened>>
    BY <1>1, <1>4 DEF vfs_umount
  <2>2. w.fr \in Nat /\ w.fr <= w.fr
    BY <1>2 DEF WalkDone, Afford
  <2> QED
    BY <1>2, <2>1, <2>2, FailedMount DEF WalkDone, Leaves
<1> QED
  BY <1>3, <1>4

-----------------------------------------------------------------------------
(* The invariant *)

LEMMA InitInv ==
  ASSUME VfsInit
  PROVE  VfsInv
<1>1. /\ types = {} /\ mounts = <<>> /\ dirs = <<>> /\ DOMAIN dent = {} /\ DOMAIN mtab = {}
      /\ free = NPages /\ nsb = 0 /\ opened = 0 /\ dent = [x \in DOMAIN dent |-> dent[x]]
      /\ NPages \in Nat /\ MaxSb \in Nat /\ INITFS_MAX_DIRS \in Nat
  BY VfsAssumption DEF VfsInit
<1>2. NamesOK
  BY <1>1 DEF NamesOK
<1>3. DentOK(dent)
  <2>1. 0 \in Nat /\ DOMAIN dent \subseteq 1..0
    BY <1>1
  <2> QED
    BY <1>1, <2>1 DEF DentOK
<1>4. MountsOK /\ TableOK
  BY <1>1 DEF MountsOK, TableOK
<1>5. PagesOK
  <2>1. Range(mounts) = {} /\ Ext2Mounts(mounts) = {} /\ Heads(dent) = {}
    BY <1>1 DEF Range, Ext2Mounts, Heads
  <2>2. PagesOwed(dent, mounts) = 0
    BY <2>1, FS_EmptySet DEF PagesOwed
  <2> QED
    BY <1>1, <2>2 DEF PagesOK
<1> QED
  BY <1>2, <1>3, <1>4, <1>5 DEF VfsInv

LEMMA CallPaths ==
  ASSUME NEW c \in MountCalls
  PROVE  c[1] \in FsType /\ c[2] \in Seq(STRING \ {".", ".."}) /\ c[2] \in Seq(STRING)
<1>1. c \in FsType \X Seq(STRING \ {".", ".."})
  BY VfsAssumption
<1>2. c[1] \in FsType /\ c[2] \in Seq(STRING \ {".", ".."})
  BY <1>1
<1> QED
  BY <1>2, Dotless

LEMMA NextInv ==
  ASSUME VfsInv, [VfsNext]_VfsVars
  PROVE  VfsInv'
<1>1. \A p \in Paths : p \in Seq(STRING)
  BY VfsAssumption
<1>2. CASE \E t \in FsType : vfs_register_fs(t) \/ vfs_unregister_fs(t)
  BY <1>2, CloseKeeps
<1>3. ASSUME NEW c \in MountCalls, vfs_mount(c[1], c[2], TRUE) \/ vfs_mount(c[1], c[2], FALSE)
      PROVE  VfsInv'
  <2>1. PICK t, p : t = c[1] /\ p = c[2]
    OBVIOUS
  <2>2. t \in FsType /\ p \in Seq(STRING \ {".", ".."})
    BY <2>1, CallPaths
  <2>3. \E ok : vfs_mount(t, p, ok)
    BY <1>3, <2>1
  <2> QED
    BY <2>2, <2>3, MountKeeps
<1>4. ASSUME NEW c \in MountCalls, vfs_mkdir(c[2])
      PROVE  VfsInv'
  <2>1. PICK p : p = c[2]
    OBVIOUS
  <2>2. p \in Seq(STRING) /\ vfs_mkdir(p)
    BY <1>4, <2>1, CallPaths
  <2> QED
    BY <2>2, MkdirKeeps
<1>5. ASSUME NEW p \in Paths, vfs_open(p) \/ vfs_stat(p)
      PROVE  VfsInv'
  BY <1>5, OpenKeeps
<1>6. ASSUME NEW p \in Paths, vfs_open_creat(p) \/ vfs_unlink(p)
      PROVE  VfsInv'
  BY <1>6, ParentKeeps
<1>7. ASSUME NEW p \in Paths, vfs_umount(p)
      PROVE  VfsInv'
  BY <1>1, <1>7, UmountKeeps
<1>8. CASE VfsClose
  BY <1>8, CloseKeeps
<1>9. CASE UNCHANGED VfsVars
  <2>1. /\ dent' = dent /\ mounts' = mounts /\ mtab' = mtab /\ nsb' = nsb /\ dirs' = dirs
        /\ types' = types /\ free' = free /\ opened' = opened
    BY <1>9 DEF VfsVars
  <2>2. NamesOK' /\ DentOK(dent')
    BY <2>1 DEF VfsInv, NamesOK
  <2>3. MountsOK' /\ TableOK'
    <3>1. \A m \in Range(mounts) : m.root \in DOMAIN dent' /\ m.mp \in {0} \cup DOMAIN dent'
      BY <2>1, MountFacts DEF Range
    <3>2. DOMAIN dent' \subseteq Nat \ {0}
      BY <2>2 DEF DentOK
    <3> QED
      BY <2>1, <3>1, <3>2, SameMounts
  <2>4. PagesOK'
    <3>1. PagesOwed(dent', mounts') = PagesOwed(dent, mounts)
      BY <2>1 DEF PagesOwed
    <3> QED
      BY <2>1, <3>1 DEF VfsInv, PagesOK
  <2> QED
    BY <2>2, <2>3, <2>4 DEF VfsInv
<1> QED
  BY <1>2, <1>3, <1>4, <1>5, <1>6, <1>7, <1>8, <1>9 DEF VfsNext

THEOREM VfsInvariant == VfsSpec => []VfsInv
<1>1. VfsInit => VfsInv
  BY InitInv
<1>2. VfsInv /\ [VfsNext]_VfsVars => VfsInv'
  BY NextInv
<1> QED
  BY <1>1, <1>2, PTL DEF VfsSpec

(* Every variable keeps its type; in particular no page is given back that *)
(* was not taken, so that the pages never run over.                        *)
THEOREM VfsTypes == VfsSpec => []VfsTypeOK
<1>1. ASSUME VfsInv PROVE VfsTypeOK
  <2>1. types \subseteq FsType /\ nsb \in 0..MaxSb /\ dirs \in Seq(STRING) /\ Len(dirs) <= INITFS_MAX_DIRS
    BY <1>1 DEF VfsInv, NamesOK
  <2>2. mounts \in Seq([sb : Sb, mp : Nat, root : Nat])
    BY <1>1 DEF VfsInv, MountsOK
  <2>3. ASSUME NEW x \in DOMAIN dent
        PROVE  dent[x] \in [sb : Sb, num : Nat, parent : {0} \cup DOMAIN dent, ref : Int,
                            mp : BOOLEAN, live : BOOLEAN]
    <3>1. dent[x] \in DentryIn(dent)
      BY <1>1 DEF VfsInv, DentOK
    <3> QED
      BY <3>1 DEF DentryIn
  <2>4. free \in 0..NPages /\ opened \in 0..NPages
    <3>1. PagesOwed(dent, mounts) \in Nat
      <4>1. PICK a, b, c : /\ a = Cardinality(Range(mounts)) /\ b = Cardinality(Ext2Mounts(mounts))
                           /\ c = Cardinality(Heads(dent))
        OBVIOUS
      <4>2. a \in Nat /\ b \in Nat /\ c \in Nat
        BY <1>1, <4>1, MountsFinite, HeadsFinite DEF VfsInv
      <4>3. 2 * a + 2 * b + c \in Nat
        BY <4>2
      <4> QED
        BY <4>1, <4>3 DEF PagesOwed
    <3>2. PICK o : o = PagesOwed(dent, mounts)
      OBVIOUS
    <3>3. /\ o \in Nat /\ free \in Nat /\ opened \in Nat /\ free + opened + o <= NPages
      BY <1>1, <3>1, <3>2 DEF VfsInv, PagesOK
    <3> QED
      BY <3>3, VfsAssumption
  <2>5. Range(mtab) \subseteq Sb
    <3>1. ASSUME NEW n \in DOMAIN mtab PROVE mtab[n] \in Sb
      <4>1. PICK i \in DOMAIN mounts : mtab[n] = mounts[i].sb
        BY <1>1 DEF VfsInv, TableOK
      <4> QED
        BY <1>1, <4>1, MountFacts
    <3> QED
      BY <3>1 DEF Range
  <2> QED
    BY <2>1, <2>2, <2>3, <2>4, <2>5 DEF VfsTypeOK
<1> QED
  BY <1>1, VfsInvariant, PTL

(* vfs_lookup finds what the path names in the tree of the mounted file    *)
(* systems, and in the mount it belongs to, whatever was mounted, unmounted *)
(* and looked up before; and when it says that a file does not exist, it    *)
(* does not: in every reachable state, for every set of paths, mounts,      *)
(* directories and pages.                                                   *)
THEOREM LookupCorrect == VfsSpec => []WalkCorrect
<1>1. VfsInv => WalkCorrect
  BY InvWalkCorrect
<1> QED
  BY <1>1, VfsInvariant, PTL

-----------------------------------------------------------------------------
(* What lookups free *)

(* The mount that a walk is in lies on a dentry with a parent, or on the   *)
(* root of all mounts.                                                     *)
Outside(m) == m.mp = 0 \/ m.mp = g_root_dent \/ dent[m.mp].parent # 0
LEMMA LookupOutside ==
  ASSUME VfsInv, mounts # <<>>, NEW p \in Seq(STRING)
  PROVE  Outside(vfs_lookup(p).mnt)
<1> DEFINE n == Len(p)
<1>1. n \in Nat /\ DOMAIN p = 1..n
  OBVIOUS
<1> HIDE DEF n
<1>2. PICK f : WalkRun(f, Start, p, n)
  BY <1>1, WalkFold
<1> DEFINE Ok(k) == Walking(f[k]) /\ Outside(f[k].mnt)
           S == {k \in Nat : k <= n => Ok(k)}
<1>3. 0 \in S
  <2>1. f[0] = Start
    BY <1>2 DEF WalkRun
  <2>2. Start.mnt = StartMount
    BY DEF Start
  <2>3. Outside(StartMount)
    <3> DEFINE over == vfs_find_mount_by_mountpoint(g_root_dent)
    <3>1. CASE dent[g_root_dent].mp /\ over # {}
      <4>1. PICK i : i = Min(over)
        OBVIOUS
      <4>2. over \subseteq Nat
        BY MountFacts DEF vfs_find_mount_by_mountpoint
      <4>3. i \in over
        BY <3>1, <4>1, <4>2, MinLeast
      <4>4. mounts[i].mp = g_root_dent
        BY <4>3 DEF vfs_find_mount_by_mountpoint
      <4>5. StartMount = mounts[i]
        BY <3>1, <4>1 DEF StartMount
      <4> QED
        BY <4>4, <4>5 DEF Outside
    <3>2. CASE ~(dent[g_root_dent].mp /\ over # {})
      <4>1. StartMount = g_root_mnt
        BY <3>2 DEF StartMount
      <4> QED
        BY <4>1, MountFacts DEF Outside
    <3> QED
      BY <3>1, <3>2
  <2> QED
    BY <2>1, <2>2, <2>3, StartWalks
<1>4. ASSUME NEW k \in Nat, k \in S PROVE k + 1 \in S
  <2>1. SUFFICES ASSUME k + 1 <= n PROVE Ok(k + 1)
    <3> HIDE DEF Ok
    <3> QED
      OBVIOUS
  <2>2. k + 1 \in 1..n /\ (k + 1) - 1 = k /\ Ok(k)
    <3> HIDE DEF Ok
    <3> QED
      BY <1>1, <1>4, <2>1
  <2>3. PICK w, v, c : w = f[k] /\ v = f[k + 1] /\ c = p[k + 1]
    OBVIOUS
  <2>4. v = Step(w, c) /\ Walking(w) /\ Outside(w.mnt)
    BY <1>2, <2>2, <2>3 DEF WalkRun
  <2>5. Walking(v)
    BY <2>4, StepWalks
  <2>9. SUFFICES Outside(v.mnt)
    BY <2>3, <2>5
  <2>6. CASE w.rc # "OK" \/ c = "."
    BY <2>4, <2>6 DEF Step
  <2>7. CASE w.rc = "OK" /\ c = ".."
    <3>1. v = vfs_dotdot(w)
      BY <2>4, <2>7 DEF Step
    <3>2. v.mnt = w.mnt
      BY <2>4, <3>1 DEF vfs_dotdot, Walking, IsWalk
    <3> QED
      BY <2>4, <3>2
  <2>8. CASE w.rc = "OK" /\ c # "." /\ c # ".."
    <3>1. v = vfs_lookup_child(w, c)
      BY <2>4, <2>8 DEF Step
    <3>2. \/ Failed(w, v, c)
          \/ fs_child(Node(w.d, w.cur), c) > 0 /\ (Entered(w, v, c) \/ Descended(w, v, c))
      BY <2>4, <2>8, <3>1, ChildCases
    <3>3. CASE Failed(w, v, c) \/ Descended(w, v, c)
      BY <2>4, <3>3 DEF Failed, Descended
    <3>4. CASE Entered(w, v, c) /\ fs_child(Node(w.d, w.cur), c) > 0
      <4>1. PICK i \in DOMAIN mounts :
               mounts[i].mp # 0 /\ Node(w.d, mounts[i].mp) = ChildEntry(w, c) /\ v.mnt = mounts[i]
        BY <3>4 DEF Entered
      <4>2. PICK m, x, dir : m = mounts[i] /\ x = m.mp /\ dir = Node(w.d, w.cur)
        OBVIOUS
      <4>3. x \in DOMAIN dent /\ Node(w.d, x) = Node(dent, x)
        BY <2>4, <4>1, <4>2, MountFacts, SameNode DEF Walking
      <4>4. dir.sb.type \in FsType /\ dir.sb = w.d[w.cur].sb
        <5>1. w.d[w.cur].sb \in Sb
          BY <2>4 DEF Walking, DentOK, DentryIn
        <5> QED
          BY <4>2, <5>1 DEF Node, Sb
      <4>5. fs_child(dir, c) # RootNum[dir.sb.type]
        BY <3>4, <4>2, <4>4, ChildFacts DEF VfsInv
      <4>6. dent[x].num = fs_child(dir, c) /\ dent[x].sb = dir.sb
        BY <4>1, <4>2, <4>3, <4>4 DEF ChildEntry, Node
      <4>7. dent[x].parent # 0
        BY <4>3, <4>5, <4>6 DEF VfsInv, DentOK
      <4> QED
        BY <4>1, <4>2, <4>7 DEF Outside
    <3> QED
      BY <3>2, <3>3, <3>4
  <2> QED
    BY <2>6, <2>7, <2>8
<1>5. n \in S
  <2> HIDE DEF S
  <2> QED
    BY <1>1, <1>3, <1>4, SetInduction
<1>6. vfs_lookup(p) = f[n]
  BY <1>2 DEF vfs_lookup, WalkRun, Walk
<1> QED
  BY <1>1, <1>5, <1>6

(* A dentry whose put frees nothing: it has a parent, or it is a root.     *)
Safe(w) == w.d[w.cur].parent # 0 \/ ~IsTemp(w)

(* Inside a mount, only its root has no parent. *)
LEMMA RightSafe ==
  ASSUME NEW w, NEW q, NEW T, NEW h, Trail(w, q, T, h), NEW x \in T
  PROVE  w.d[x].parent # 0 \/ x = w.mnt.root
BY DEF Trail

(* A lookup that climbs out of a mount with its last ".." at most frees no *)
(* dentry, nor does the put of the dentry it ends at.                      *)
LEMMA LookupFrees ==
  ASSUME VfsInv, mounts # <<>>, NEW p \in Seq(STRING), p # <<>> => StaysInside(Front(p)),
         AllLive(dent), NEW v, v = vfs_lookup(p)
  PROVE  AllLive(v.d) /\ (v.rc = "OK" => Safe(v))
<1>1. CASE p = <<>>
  <2>1. v = Start
    <3>1. v = Walk(Start, <<>>)
      BY <1>1 DEF vfs_lookup, Walk
    <3> QED
      BY <3>1, WalkFoldEmpty
  <2>2. v.d = dent /\ v.cur = v.mnt.root
    BY <2>1, StartWalks
  <2> QED
    BY <2>2 DEF Safe, IsTemp
<1>2. CASE p # <<>>
  <2>1. PICK u, r, c, q : r = Front(p) /\ c = Last(p) /\ u = vfs_lookup(r) /\ q = Normal(r)
    OBVIOUS
  <2>2. r \in Seq(STRING) /\ c \in STRING /\ v = Step(u, c) /\ StaysInside(r)
    BY <1>2, <2>1, LastStep
  <2>3. /\ q \in Seq(STRING) /\ (u.rc = "OK" => Right(u, q)) /\ AllLive(u.d)
    BY <2>1, <2>2, LookupRight
  <2>4. Walking(u) /\ Outside(u.mnt)
    BY <2>1, <2>2, LookupWalks, LookupOutside
  <2>5. CASE u.rc # "OK"
    <3>1. v = u
      BY <2>2, <2>5 DEF Step
    <3> QED
      BY <2>3, <2>5, <3>1
  <2>6. CASE u.rc = "OK"
    <3>1. PICK T, h : Trail(u, q, T, h)
      BY <2>3, <2>6 DEF Right
    <3>2. u.cur \in T
      BY <3>1 DEF Trail
    <3>3. u.d[u.cur].parent # 0 \/ u.cur = u.mnt.root
      BY <3>1, <3>2, RightSafe
    <3>4. CASE c = "."
      <4>1. v = u
        BY <2>2, <3>4 DEF Step
      <4> QED
        BY <2>3, <3>3, <4>1 DEF Safe, IsTemp
    <3>5. CASE c = ".."
      <4>1. v = vfs_dotdot(u) /\ IsWalk(u)
        BY <2>2, <2>4, <2>6, <3>5 DEF Step, Walking
      <4>2. v.d = u.d /\ v.mnt = u.mnt
        BY <4>1 DEF vfs_dotdot, IsWalk
      <4>3. CASE u.cur = u.mnt.root /\ u.mnt.mp # 0
        <5>1. v.cur = u.mnt.mp
          BY <4>1, <4>3 DEF vfs_dotdot, IsWalk
        <5>2. PICK x : x = u.mnt.mp
          OBVIOUS
        <5>3. x = g_root_dent \/ dent[x].parent # 0
          BY <2>4, <4>3, <5>2 DEF Outside
        <5>4. x \in DOMAIN dent
          <6>1. PICK i \in DOMAIN mounts : u.mnt = mounts[i]
            BY <2>4 DEF Walking, Range
          <6> QED
            BY <4>3, <5>2, <6>1, MountFacts
        <5>5. u.d[x].parent = dent[x].parent
          BY <2>4, <5>4 DEF Walking, Same
        <5> QED
          BY <2>3, <4>2, <5>1, <5>2, <5>3, <5>5 DEF Safe, IsTemp
      <4>4. CASE ~(u.cur = u.mnt.root /\ u.mnt.mp # 0) /\ u.d[u.cur].parent # 0
        <5>1. PICK y : y = u.d[u.cur].parent
          OBVIOUS
        <5>2. v.cur = y
          BY <4>1, <4>4, <5>1 DEF vfs_dotdot, IsWalk
        <5>3. y \in T
          BY <3>1, <3>2, <4>4, <5>1 DEF Trail
        <5>4. u.d[y].parent # 0 \/ y = u.mnt.root
          BY <3>1, <5>3, RightSafe
        <5> QED
          BY <2>3, <4>2, <5>2, <5>4 DEF Safe, IsTemp
      <4>5. CASE ~(u.cur = u.mnt.root /\ u.mnt.mp # 0) /\ u.d[u.cur].parent = 0
        <5>1. v = u
          BY <4>1, <4>5 DEF vfs_dotdot
        <5> QED
          BY <2>3, <3>3, <5>1 DEF Safe, IsTemp
      <4> QED
        BY <4>3, <4>4, <4>5
    <3>6. CASE c # "." /\ c # ".."
      <4>1. v = vfs_lookup_child(u, c)
        BY <2>2, <2>6, <3>6 DEF Step
      <4>2. (v.rc = "OK" => Right(v, Append(q, c))) /\ AllLive(v.d)
        BY <2>2, <2>3, <2>4, <2>6, <3>1, <4>1, NameRight
      <4>3. ASSUME v.rc = "OK" PROVE Safe(v)
        <5>1. PICK t : t = Append(q, c)
          OBVIOUS
        <5>2. PICK U, g : Trail(v, t, U, g)
          BY <4>2, <4>3, <5>1 DEF Right
        <5>3. v.cur \in U
          BY <5>2 DEF Trail
        <5> QED
          BY <5>2, <5>3, RightSafe DEF Safe, IsTemp
      <4> QED
        BY <4>2, <4>3
    <3> QED
      BY <3>4, <3>5, <3>6
  <2> QED
    BY <2>5, <2>6
<1> QED
  BY <1>1, <1>2

(* Every path that programs use climbs out of a mount with its last ".."   *)
(* at most.                                                                *)
ClimbsLast == mounts # <<>> => \A p \in Paths : p # <<>> => StaysInside(Front(p))

(* No dentry that mounts reach has been freed. *)
LEMMA KeptLive ==
  ASSUME NEW d, DentOK(d), AllLive(d), NEW ms,
         \A m \in Range(ms) : m.root \in DOMAIN d /\ m.mp \in {0} \cup DOMAIN d,
         NEW e, e = [x \in Reached(d, ms) |-> d[x]]
  PROVE  AllLive(e)
<1>1. DOMAIN e \subseteq DOMAIN d /\ \A x \in DOMAIN e : e[x] = d[x]
  BY KeepDentries
<1> QED
  BY <1>1 DEF AllLive

LEMMA HeldDentries ==
  ASSUME VfsInv, NEW d, Same(d)
  PROVE  \A m \in Range(mounts) : m.root \in DOMAIN d /\ m.mp \in {0} \cup DOMAIN d
BY MountFacts DEF Same, Range

(* A lookup, before and after the put of the dentry it ends at. *)
LEMMA LookupLive ==
  ASSUME VfsInv, AllLive(dent), NEW p \in Seq(STRING),
         mounts # <<>> /\ p # <<>> => StaysInside(Front(p)), NEW w, w = vfs_lookup(p)
  PROVE  WalkDone(w) /\ AllLive(w.d) /\ AllLive(Drop(w).d)
<1>1. WalkDone(w)
  BY LookupDone
<1>2. CASE mounts = <<>>
  <2>1. w = NoRoot
    BY <1>2 DEF vfs_lookup
  <2>2. w.d = dent /\ w.rc # "OK"
    BY <2>1 DEF NoRoot
  <2>3. Drop(w) = w
    BY <1>1, <2>2, DropDone
  <2> QED
    BY <1>1, <2>2, <2>3
<1>3. CASE mounts # <<>>
  <2>1. AllLive(w.d) /\ (w.rc = "OK" => Safe(w))
    BY <1>3, LookupFrees
  <2>2. AllLive(Drop(w).d)
    <3>1. CASE w.rc = "OK" /\ w.d[w.cur].parent # 0
      BY <1>1, <2>1, <3>1, DropDone
    <3>2. CASE ~IsTemp(w) \/ w.rc # "OK"
      <4>1. Drop(w) = w
        BY <1>1, <3>2, DropDone
      <4> QED
        BY <2>1, <4>1
    <3> QED
      BY <2>1, <3>1, <3>2 DEF Safe
  <2> QED
    BY <1>1, <2>1, <2>2
<1> QED
  BY <1>2, <1>3

(* The lookup of a parent directory. *)
LEMMA ParentLive ==
  ASSUME VfsInv, AllLive(dent), NEW p \in Seq(STRING),
         mounts # <<>> /\ p # <<>> => StaysInside(Front(p)), NEW w, w = vfs_lookup_parent(p)
  PROVE  DentOK(w.d) /\ Same(w.d) /\ AllLive(w.d)
<1>1. WalkDone(w)
  BY ParentDone
<1>2. DentOK(w.d) /\ Same(w.d)
  BY <1>1 DEF WalkDone
<1>3. CASE p = <<>>
  <2>1. PICK u : u = vfs_lookup(p) /\ w = [u EXCEPT !.rc = "EINVAL"]
    BY <1>3 DEF vfs_lookup_parent
  <2>2. IsWalk(u) /\ AllLive(u.d)
    BY <1>3, <2>1, LookupLive DEF WalkDone
  <2>3. w.d = u.d
    BY <2>1, <2>2 DEF IsWalk
  <2> QED
    BY <1>2, <2>2, <2>3
<1>4. CASE p # <<>>
  <2>1. w = vfs_lookup(Front(p)) /\ Front(p) \in Seq(STRING)
    BY <1>4 DEF vfs_lookup_parent, Front
  <2>2. CASE mounts = <<>>
    <3>1. w.d = dent
      BY <2>1, <2>2 DEF vfs_lookup, NoRoot
    <3> QED
      BY <1>2, <3>1
  <2>3. CASE mounts # <<>>
    <3>1. PICK r : r = Front(p)
      OBVIOUS
    <3>2. r \in Seq(STRING) /\ StaysInside(r) /\ w = vfs_lookup(r)
      BY <1>4, <2>1, <2>3, <3>1
    <3>3. AllLive(dent) => AllLive(w.d)
      BY <2>3, <3>2, LookupRight
    <3> QED
      BY <1>2, <3>3
  <2> QED
    BY <2>2, <2>3
<1> QED
  BY <1>3, <1>4

(* What is left of dentries that are live is live. *)
LEMMA LeftLive ==
  ASSUME VfsInv, NEW w, DentOK(w.d), Same(w.d), AllLive(w.d), mounts' = mounts,
         dent' = [x \in Reached(w.d, mounts) |-> w.d[x]]
  PROVE  AllLive(dent')
<1>1. PICK d, e : d = w.d /\ e = dent'
  OBVIOUS
<1>2. DentOK(d) /\ AllLive(d) /\ Same(d) /\ e = [x \in Reached(d, mounts) |-> d[x]]
  BY <1>1
<1>3. \A m \in Range(mounts) : m.root \in DOMAIN d /\ m.mp \in {0} \cup DOMAIN d
  BY <1>2, HeldDentries
<1>4. AllLive(e)
  BY <1>2, <1>3, KeptLive
<1> QED
  BY <1>1, <1>4

(* Names without dots never climb. *)
LEMMA DotlessInside ==
  ASSUME NEW p \in Seq(STRING \ {".", ".."}), p # <<>>
  PROVE  StaysInside(Front(p))
<1>1. PICK r : r = Front(p)
  OBVIOUS
<1>2. r \in Seq(STRING \ {".", ".."})
  BY <1>1, Dotless
<1> QED
  BY <1>1, <1>2, Dotless

(* The root of a new mount is live, and marking a mount point frees nothing. *)
LEMMA NewMountLive ==
  ASSUME VfsInv, NEW p \in Seq(STRING \ {".", ".."}), NEW t \in FsType, nsb < MaxSb,
         NEW w, DentOK(w.d), Same(w.d), AllLive(w.d), NEW mp, NEW e, NEW m,
         NewMount(p, t, w, mp, e, m)
  PROVE  AllLive(dent')
<1>1. PICK k, s, x : k = w.d /\ s = [id |-> nsb, type |-> t] /\ x = NewId(k)
  OBVIOUS
<1>2. /\ m = [sb |-> s, mp |-> mp, root |-> x] /\ m.sb = s /\ m.mp = mp /\ m.root = x
      /\ mounts' = <<m>> \o mounts
  BY <1>1 DEF NewMount
<1>3. s \in Sb
  BY <1>1, VfsAssumption DEF VfsInv, NamesOK, Sb
<1>4. /\ DentOK(e) /\ AllLive(e) /\ DOMAIN e = DOMAIN k /\ NewId(e) = x
      /\ mp \in {0} \cup DOMAIN k
  <2>1. CASE mounts = <<>>
    <3>1. mp = 0 /\ e = k
      BY <1>1, <2>1 DEF NewMount
    <3> QED
      BY <1>1, <3>1
  <2>2. CASE mounts # <<>>
    <3>1. mp \in DOMAIN k /\ e = [k EXCEPT ![mp].mp = TRUE]
      BY <1>1, <2>2 DEF NewMount
    <3>2. PICK b : b = TRUE
      OBVIOUS
    <3>3. Marked(k, mp, b, e)
      BY <1>1, <3>1, <3>2 DEF Marked
    <3>4. /\ DentOK(e) /\ DOMAIN e = DOMAIN k /\ NewId(e) = NewId(k)
          /\ \A y \in DOMAIN k : e[y].live = k[y].live
      BY <3>3, MarkFacts
    <3> QED
      BY <1>1, <3>1, <3>4 DEF AllLive
  <2> QED
    BY <2>1, <2>2
<1>5. PICK d : d = WithDentry(e, x, NewDentry([sb |-> s, num |-> RootNum[s.type]], 0))
  OBVIOUS
<1>6. dent' = [y \in Reached(d, mounts') |-> d[y]]
  <2>1. s.type = t
    BY <1>1
  <2>2. LET g == WithDentry(e, m.root, NewDentry([sb |-> m.sb, num |-> RootNum[t]], 0))
        IN  dent' = [y \in Reached(g, mounts') |-> g[y]]
    BY DEF NewMount
  <2> QED
    BY <1>2, <1>5, <2>1, <2>2
<1>7. /\ DentOK(d) /\ AllLive(d) /\ x \in DOMAIN d /\ DOMAIN k \subseteq DOMAIN d
  <2>1. Rooted(e, s, x, d)
    BY <1>3, <1>4, <1>5 DEF Rooted
  <2>2. /\ DentOK(d) /\ (\A y : y \in DOMAIN d <=> y \in DOMAIN e \/ y = x)
        /\ (\A y \in DOMAIN e : d[y] = e[y]) /\ d[x].live
    BY <2>1, WithRoot
  <2> QED
    BY <1>4, <2>2 DEF AllLive
<1>8. \A a \in Range(mounts') : a.root \in DOMAIN d /\ a.mp \in {0} \cup DOMAIN d
  <2>1. ASSUME NEW a \in Range(mounts') PROVE a = m \/ a \in Range(mounts)
    <3>1. PICK r, j : r = mounts' /\ j \in DOMAIN r /\ a = r[j]
      BY <2>1 DEF Range
    <3> DEFINE M == [sb : Sb, mp : Nat, root : Nat]
    <3>2. m \in M /\ mounts \in Seq(M)
      <4>1. mp \in Nat /\ x \in Nat
        BY <1>1, <1>4, NewIdFacts, SMTT(30) DEF DentOK
      <4> QED
        BY <1>2, <1>3, <4>1 DEF VfsInv, MountsOK
    <3> HIDE DEF M
    <3>3. Longer(M, m, mounts, r)
      BY <1>2, <3>1, <3>2 DEF Longer
    <3>4. r[1] = m /\ (j = 1 \/ \E i \in DOMAIN mounts : j = i + 1 /\ r[j] = mounts[i])
      BY <3>1, <3>3, ConsFacts
    <3> QED
      BY <3>1, <3>4 DEF Range
  <2>2. m.root \in DOMAIN d /\ m.mp \in {0} \cup DOMAIN d
    BY <1>2, <1>4, <1>7
  <2>3. \A a \in Range(mounts) : a.root \in DOMAIN k /\ a.mp \in {0} \cup DOMAIN k
    BY <1>1, HeldDentries
  <2> QED
    BY <1>7, <2>1, <2>2, <2>3
<1>9. PICK g, ms : g = dent' /\ ms = mounts'
  OBVIOUS
<1>10. AllLive(g)
  <2>1. g = [y \in Reached(d, ms) |-> d[y]] /\ \A a \in Range(ms) : a.root \in DOMAIN d /\ a.mp \in {0} \cup DOMAIN d
    BY <1>6, <1>8, <1>9
  <2> QED
    BY <1>7, <2>1, KeptLive
<1> QED
  BY <1>9, <1>10

LEMMA OldMountLive ==
  ASSUME VfsInv, NEW w, Walking(w), AllLive(w.d), NEW i, NEW e, OldMount(w, i, e)
  PROVE  AllLive(dent')
<1>1. PICK k, x, b, ms : k = w.d /\ x = w.cur /\ b = FALSE /\ ms = RemoveAt(mounts, i)
  OBVIOUS
<1>2. /\ x \in DOMAIN k /\ DentOK(k) /\ Same(k) /\ i \in DOMAIN mounts
      /\ e = [k EXCEPT ![x].mp = b] /\ mounts' = ms /\ dent' = [y \in Reached(e, ms) |-> e[y]]
  BY <1>1 DEF Walking, OldMount
<1>3. Marked(k, x, b, e)
  BY <1>1, <1>2 DEF Marked
<1>4. DentOK(e) /\ DOMAIN e = DOMAIN k /\ \A y \in DOMAIN k : e[y].live = k[y].live
  BY <1>3, MarkFacts
<1>5. AllLive(e)
  BY <1>1, <1>4 DEF AllLive
<1>6. \A a \in Range(ms) : a \in Range(mounts)
  <2> DEFINE M == [sb : Sb, mp : Nat, root : Nat]
  <2>1. mounts \in Seq(M) /\ i \in 1..Len(mounts)
    BY <1>2, MountFacts DEF VfsInv, MountsOK
  <2> HIDE DEF M
  <2>2. Shorter(M, mounts, i, ms)
    BY <1>1, <2>1 DEF Shorter
  <2>3. \A j \in DOMAIN ms : Past(i, j) \in DOMAIN mounts \ {i} /\ ms[j] = mounts[Past(i, j)]
    BY <2>2, RemoveFacts
  <2> QED
    BY <2>3 DEF Range
<1>7. \A a \in Range(ms) : a.root \in DOMAIN e /\ a.mp \in {0} \cup DOMAIN e
  <2>1. \A a \in Range(mounts) : a.root \in DOMAIN k /\ a.mp \in {0} \cup DOMAIN k
    BY <1>2, HeldDentries
  <2> QED
    BY <1>4, <1>6, <2>1
<1>8. PICK g : g = dent' /\ g = [y \in Reached(e, ms) |-> e[y]]
  BY <1>2
<1>9. AllLive(g)
  BY <1>4, <1>5, <1>7, <1>8, KeptLive
<1> QED
  BY <1>8, <1>9

(* Each operation leaves only live dentries. *)
LEMMA MountLive ==
  ASSUME VfsInv, AllLive(dent), NEW p \in Seq(STRING \ {".", ".."}), NEW t \in FsType, NEW ok,
         vfs_mount(t, p, ok)
  PROVE  AllLive(dent')
<1> DEFINE isRoot == p = <<>> /\ mounts = <<>>
<1>1. PICK w : w = IF isRoot THEN [NoRoot EXCEPT !.rc = "OK"] ELSE vfs_lookup(p)
  OBVIOUS
<1> DEFINE s == [id |-> nsb, type |-> t]
           x == NewId(w.d)
           mp == IF isRoot THEN 0 ELSE w.cur
           e == IF isRoot THEN w.d ELSE [w.d EXCEPT ![w.cur].mp = TRUE]
           d == WithDentry(e, x, NewDentry([sb |-> s, num |-> RootNum[t]], 0))
           m == [sb |-> s, mp |-> mp, root |-> x]
           ms == <<m>> \o mounts
           made == w.fr - 1 - MountPages[t]
           able == IF w.rc # "OK" \/ ~ok THEN FALSE
                   ELSE IF isRoot THEN TRUE ELSE vfs_is_dir(Node(w.d, w.cur))
<1>2. /\ nsb < MaxSb /\ UNCHANGED <<types, dirs, opened>>
      /\ \/ Leaves(w, mounts) /\ UNCHANGED <<mounts, nsb, mtab>>
         \/ /\ made = 0 /\ UNCHANGED <<mounts, nsb, mtab>>
            /\ Leaves([w EXCEPT !.fr = UnmountPages[t] + 1], mounts)
         \/ /\ able /\ made > 0 /\ mounts' = ms /\ nsb' = nsb + 1 /\ Mounted(p, s)
            /\ Leaves([w EXCEPT !.d = d, !.fr = made - 1], ms)
  BY <1>1 DEF vfs_mount
<1>3. /\ IsWalk(w) /\ DentOK(w.d) /\ Same(w.d) /\ AllLive(w.d) /\ w.fr \in Nat
      /\ ~isRoot => w = vfs_lookup(p) /\ (w.rc = "OK" => mounts # <<>> /\ w.cur \in DOMAIN w.d)
  <2>1. CASE isRoot
    <3>1. IsWalk(w) /\ w.d = dent /\ w.fr = free
      BY <1>1, <2>1 DEF NoRoot, IsWalk
    <3> QED
      BY <2>1, <3>1 DEF Same, VfsInv, PagesOK
  <2>2. CASE ~isRoot
    <3>1. w = vfs_lookup(p) /\ p \in Seq(STRING)
      BY <1>1, <2>2, Dotless
    <3>2. p # <<>> => StaysInside(Front(p))
      BY DotlessInside
    <3>3. WalkDone(w) /\ AllLive(w.d)
      BY <3>1, <3>2, LookupLive
    <3> QED
      BY <3>1, <3>3 DEF WalkDone, Afford, Walking
  <2> QED
    BY <2>1, <2>2
<1> HIDE DEF isRoot
<1>4. CASE Leaves(w, mounts) /\ UNCHANGED <<mounts, nsb, mtab>>
  BY <1>3, <1>4, LeftLive DEF Leaves
<1>5. CASE /\ made = 0 /\ UNCHANGED <<mounts, nsb, mtab>>
           /\ Leaves([w EXCEPT !.fr = UnmountPages[t] + 1], mounts)
  <2>1. PICK f, v : f = UnmountPages[t] + 1 /\ v = [w EXCEPT !.fr = f]
    OBVIOUS
  <2>2. v.d = w.d
    BY <1>3, <2>1 DEF IsWalk
  <2>3. dent' = [y \in Reached(w.d, mounts) |-> w.d[y]]
    BY <1>5, <2>1, <2>2 DEF Leaves
  <2> QED
    BY <1>3, <1>5, <2>3, LeftLive
<1>6. CASE /\ able /\ made > 0 /\ mounts' = ms /\ nsb' = nsb + 1 /\ Mounted(p, s)
           /\ Leaves([w EXCEPT !.d = d, !.fr = made - 1], ms)
  <2>1. w.rc = "OK"
    BY <1>6
  <2>2. PICK g, f, v : g = d /\ f = made - 1 /\ v = [w EXCEPT !.d = g, !.fr = f]
    OBVIOUS
  <2>3. v.d = g /\ v.fr = f
    BY <1>3, <2>2 DEF IsWalk
  <2>4. dent' = [y \in Reached(d, ms) |-> d[y]] /\ free' = made - 1
    <3>1. Leaves(v, ms)
      BY <1>6, <2>2
    <3> HIDE DEF d, ms, made
    <3> QED
      BY <2>2, <2>3, <3>1 DEF Leaves
  <2>5. free' = w.fr - 2 - MountPages[t] /\ free' \in Nat
    <3>1. MountPages[t] \in Nat
      BY DEF MountPages, FsType
    <3> QED
      BY <1>3, <1>6, <2>4, <3>1
  <2>6. \/ mounts = <<>> /\ mp = 0 /\ e = w.d
        \/ /\ mounts # <<>> /\ w = vfs_lookup(p) /\ w.rc = "OK"
           /\ mp = w.cur /\ w.cur \in DOMAIN w.d /\ e = [w.d EXCEPT ![w.cur].mp = TRUE]
    BY <1>3, <2>1 DEF isRoot
  <2>7. m.sb = s /\ m.root = x /\ s = [id |-> nsb, type |-> t]
    OBVIOUS
  <2>8. PICK k, a, b, r : k = m /\ a = mp /\ b = e /\ r = s
    OBVIOUS
  <2>9. NewMount(p, t, w, a, b, k)
    <3>1. /\ k = [sb |-> [id |-> nsb, type |-> t], mp |-> a, root |-> NewId(w.d)]
          /\ k.sb = r /\ k.root = x /\ mounts' = <<k>> \o mounts
      BY <1>6, <2>7, <2>8
    <3>2. dent' = [y \in Reached(d, mounts') |-> d[y]]
      BY <1>6, <2>4
    <3>3. d = WithDentry(b, k.root, NewDentry([sb |-> k.sb, num |-> RootNum[t]], 0))
      BY <2>8, <3>1
    <3>4. nsb' = nsb + 1 /\ Mounted(p, k.sb) /\ UNCHANGED <<types, dirs, opened>>
      BY <1>2, <1>6, <2>8, <3>1
    <3>5. \/ mounts = <<>> /\ a = 0 /\ b = w.d
          \/ /\ mounts # <<>> /\ w = vfs_lookup(p) /\ w.rc = "OK"
             /\ a = w.cur /\ w.cur \in DOMAIN w.d /\ b = [w.d EXCEPT ![w.cur].mp = TRUE]
      BY <2>6, <2>8
    <3> HIDE DEF d
    <3> QED
      BY <2>5, <3>1, <3>2, <3>3, <3>4, <3>5 DEF NewMount
  <2> QED
    BY <1>2, <1>3, <2>9, NewMountLive
<1> QED
  BY <1>2, <1>4, <1>5, <1>6

LEMMA UmountLive ==
  ASSUME VfsInv, AllLive(dent), NEW p \in Seq(STRING),
         mounts # <<>> /\ p # <<>> => StaysInside(Front(p)), vfs_umount(p)
  PROVE  AllLive(dent')
<1>1. PICK w : w = vfs_lookup(p)
  OBVIOUS
<1>2. WalkDone(w) /\ AllLive(w.d)
  BY <1>1, LookupLive
<1> DEFINE at == vfs_find_mount_by_mountpoint(w.cur)
<1>3. CASE w.rc = "OK" /\ at # {}
  <2>1. Walking(w)
    BY <1>2, <1>3 DEF WalkDone
  <2>2. PICK i : i = Min(at)
    OBVIOUS
  <2>3. i \in DOMAIN mounts /\ mounts[i].mp = w.cur
    <3>1. at \subseteq Nat
      BY MountFacts DEF vfs_find_mount_by_mountpoint
    <3>2. i \in at
      BY <1>3, <2>2, <3>1, MinLeast
    <3> QED
      BY <3>2 DEF vfs_find_mount_by_mountpoint
  <2>4. PICK e, f, v : /\ e = [w.d EXCEPT ![w.cur].mp = FALSE]
                       /\ f = w.fr + 2 + UnmountPages[mounts[i].sb.type]
                       /\ v = [w EXCEPT !.d = e, !.fr = f]
    OBVIOUS
  <2>5. v.d = e /\ v.fr = f
    BY <1>2, <2>4 DEF WalkDone, IsWalk
  <2>6. /\ mounts' = RemoveAt(mounts, i)
        /\ mtab' = [n \in {k \in DOMAIN mtab : mtab[k] # mounts[i].sb} |-> mtab[n]]
        /\ UNCHANGED <<types, dirs, nsb, opened>>
    BY <1>1, <1>3, <2>2 DEF vfs_umount
  <2>7. Leaves([w EXCEPT !.d[w.cur].mp = FALSE, !.fr = @ + 2 + UnmountPages[mounts[i].sb.type]],
               RemoveAt(mounts, i))
    BY <1>1, <1>3, <2>2 DEF vfs_umount
  <2>8. [w EXCEPT !.d[w.cur].mp = FALSE, !.fr = @ + 2 + UnmountPages[mounts[i].sb.type]] = v
    BY <1>2, <2>4 DEF WalkDone, IsWalk
  <2>9. Leaves(v, RemoveAt(mounts, i))
    BY <2>7, <2>8
  <2>10. dent' = [y \in Reached(e, mounts') |-> e[y]] /\ free' = f
    BY <2>5, <2>6, <2>9 DEF Leaves
  <2>11. w.cur # 0
    BY <2>1 DEF Walking, DentOK
  <2>12. OldMount(w, i, e)
    BY <2>3, <2>4, <2>6, <2>10, <2>11 DEF OldMount
  <2> QED
    BY <1>2, <2>1, <2>12, OldMountLive
<1>4. CASE ~(w.rc = "OK" /\ at # {})
  <2>1. Leaves(w, mounts) /\ mounts' = mounts
    BY <1>1, <1>4 DEF vfs_umount
  <2> QED
    BY <1>2, <2>1, LeftLive DEF WalkDone, Leaves
<1> QED
  BY <1>3, <1>4

(* Whichever dentries an operation keeps, it keeps those of a walk.        *)
LEMMA WalkLive ==
  ASSUME VfsInv, AllLive(dent), NEW p \in Seq(STRING),
         mounts # <<>> /\ p # <<>> => StaysInside(Front(p)),
         vfs_open(p) \/ vfs_stat(p) \/ vfs_open_creat(p) \/ vfs_unlink(p) \/ vfs_mkdir(p)
  PROVE  AllLive(dent')
<1>1. CASE vfs_open(p) \/ vfs_stat(p)
  <2>1. PICK u, w : u = vfs_lookup(p) /\ w = Drop(u)
    OBVIOUS
  <2>2. WalkDone(u) /\ AllLive(w.d)
    BY <2>1, LookupLive
  <2>3. IsWalk(w) /\ DentOK(w.d) /\ Same(w.d)
    BY <2>1, <2>2, DropDone
  <2>4. Leaves(w, mounts) \/ Leaves([w EXCEPT !.fr = @ - 1], mounts)
    BY <1>1, <2>1 DEF vfs_open, vfs_stat
  <2>5. PICK v : v = [w EXCEPT !.fr = @ - 1]
    OBVIOUS
  <2>6. v.d = w.d
    BY <2>3, <2>5 DEF IsWalk
  <2>7. mounts' = mounts /\ dent' = [x \in Reached(w.d, mounts) |-> w.d[x]]
    BY <1>1, <2>4, <2>5, <2>6 DEF Leaves, vfs_open, vfs_stat
  <2> QED
    BY <2>2, <2>3, <2>7, LeftLive
<1>2. CASE vfs_open_creat(p) \/ vfs_unlink(p)
  <2>1. PICK w : w = vfs_lookup_parent(p)
    OBVIOUS
  <2>2. DentOK(w.d) /\ Same(w.d) /\ AllLive(w.d)
    BY <2>1, ParentLive
  <2>3. mounts' = mounts /\ dent' = [x \in Reached(w.d, mounts) |-> w.d[x]]
    BY <1>2, <2>1 DEF Leaves, vfs_open_creat, vfs_unlink
  <2> QED
    BY <2>2, <2>3, LeftLive
<1>3. CASE vfs_mkdir(p)
  <2>1. PICK w : w = vfs_lookup_parent(p)
    OBVIOUS
  <2>2. DentOK(w.d) /\ Same(w.d) /\ AllLive(w.d) /\ IsWalk(w)
    BY <2>1, ParentLive, ParentDone DEF WalkDone
  <2>3. mounts' = mounts /\ \E f : Leaves([w EXCEPT !.fr = f], mounts)
    BY <1>3, <2>1 DEF vfs_mkdir
  <2>4. PICK f, v : v = [w EXCEPT !.fr = f] /\ Leaves(v, mounts)
    BY <2>3
  <2>5. v.d = w.d
    BY <2>2, <2>4 DEF IsWalk
  <2>6. dent' = [x \in Reached(w.d, mounts) |-> w.d[x]]
    BY <2>4, <2>5 DEF Leaves
  <2> QED
    BY <2>2, <2>3, <2>6, LeftLive
<1> QED
  BY <1>1, <1>2, <1>3

LEMMA NextLive ==
  ASSUME VfsInv, ClimbsLast, AllLive(dent), [VfsNext]_VfsVars
  PROVE  AllLive(dent')
<1>1. \A p \in Paths : p \in Seq(STRING) /\ (mounts # <<>> /\ p # <<>> => StaysInside(Front(p)))
  BY VfsAssumption DEF ClimbsLast
<1>2. CASE VfsClose \/ UNCHANGED VfsVars \/ \E t \in FsType : vfs_register_fs(t) \/ vfs_unregister_fs(t)
  <2>1. dent' = dent
    BY <1>2 DEF VfsClose, VfsVars, vfs_register_fs, vfs_unregister_fs
  <2> QED
    BY <2>1
<1>3. ASSUME NEW c \in MountCalls, vfs_mount(c[1], c[2], TRUE) \/ vfs_mount(c[1], c[2], FALSE)
      PROVE  AllLive(dent')
  <2>1. PICK t, p : t = c[1] /\ p = c[2]
    OBVIOUS
  <2>2. t \in FsType /\ p \in Seq(STRING \ {".", ".."})
    BY <2>1, CallPaths
  <2>3. \E ok : vfs_mount(t, p, ok)
    BY <1>3, <2>1
  <2> QED
    BY <2>2, <2>3, MountLive
<1>4. ASSUME NEW c \in MountCalls, vfs_mkdir(c[2])
      PROVE  AllLive(dent')
  <2>1. PICK p : p = c[2]
    OBVIOUS
  <2>2. p \in Seq(STRING) /\ p \in Seq(STRING \ {".", ".."}) /\ vfs_mkdir(p)
    BY <1>4, <2>1, CallPaths
  <2>3. p # <<>> => StaysInside(Front(p))
    BY <2>2, DotlessInside
  <2> QED
    BY <2>2, <2>3, WalkLive
<1>5. ASSUME NEW p \in Paths, vfs_open(p) \/ vfs_stat(p) \/ vfs_open_creat(p) \/ vfs_unlink(p)
      PROVE  AllLive(dent')
  BY <1>1, <1>5, WalkLive
<1>6. ASSUME NEW p \in Paths, vfs_umount(p)
      PROVE  AllLive(dent')
  BY <1>1, <1>6, UmountLive
<1> QED
  BY <1>2, <1>3, <1>4, <1>5, <1>6 DEF VfsNext

(* As long as no path climbs out of a mount before its last name, no       *)
(* lookup, mount, umount or mkdir frees the root or the mount point of a    *)
(* mount: vfs_dentry_put frees dentries of its own walk only.              *)
THEOREM RootsAlive == VfsSpec /\ []ClimbsLast => []MountRootsAlive
<1>1. VfsInit => AllLive(dent)
  BY DEF VfsInit, AllLive
<1>2. VfsInv /\ ClimbsLast /\ AllLive(dent) /\ [VfsNext]_VfsVars => AllLive(dent)'
  BY NextLive
<1>3. VfsInv /\ AllLive(dent) => MountRootsAlive
  BY MountFacts DEF AllLive, MountRootsAlive
<1> QED
  BY <1>1, <1>2, <1>3, VfsInvariant, PTL DEF VfsSpec
=============================================================================
