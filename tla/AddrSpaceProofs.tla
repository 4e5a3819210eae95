-------------------------- MODULE AddrSpaceProofs --------------------------
(***************************************************************************)
(* Proofs that AddrSpace keeps its invariants for any number of CPUs,      *)
(* slots and pages and any image and heap: the types, that no page has two *)
(* uses (NoAlias), that none is forgotten (NoLeak), and that a CPU runs in *)
(* the space of its process (OwnSpace).  One lemma per action.             *)
(***************************************************************************)
EXTENDS AddrSpace, SetOrderProofs

(* What a CPU holds in its locals, by the point of the call it is at. *)
LocalInv ==
    \A c \in CPU :
      /\ pc[c] \in {"boot", "sched", "user"} => op[c] = "none"
      /\ pc[c] \notin {"boot", "sched", "user"} => op[c] # "none"
      /\ pc[c] = "alloc" => op[c] \in {"create", "fork"}
      /\ pc[c] = "pml4" => op[c] # "brk"
      /\ pc[c] = "lcr3" => op[c] = "exec"
      /\ proc[c] = None <=> pc[c] \in {"boot", "sched"} \/ op[c] = "create"
      /\ child[c] # None <=> op[c] \in {"create", "fork"} /\ pc[c] # "alloc"
      /\ root[c] # None <=> op[c] # "none" /\ pc[c] \notin {"alloc", "pml4"}
      /\ elf[c] # None => op[c] \in {"create", "exec"} /\ pc[c] # "lcr3"
      /\ op[c] \in {"create", "exec"} /\ pc[c] \notin {"lcr3", "panic"} => elf[c] # None
      /\ page[c] # None => pc[c] \in {"table", "panic"}
      /\ pc[c] = "table" => page[c] # None /\ todo[c] # <<>>
      /\ op[c] = "brk" => arg[c] \in 0..Len(Heap)

(* Who a slot belongs to, and which pointers its state promises. *)
SlotInv ==
    /\ \A c \in CPU : proc[c] # None => state[proc[c]] = "RUNNING"
    /\ \A c, d \in CPU : proc[c] # None /\ proc[c] = proc[d] => c = d
    /\ \A c \in CPU : child[c] # None => state[child[c]] = "EMBRYO"
    /\ \A c, d \in CPU : child[c] # None /\ child[c] = child[d] => c = d
    /\ \A s \in Slots : kstack[s] = None <=> state[s] = "UNUSED"
    /\ \A s \in Slots : state[s] = "UNUSED" => pml4[s] = None
    /\ \A s \in Slots : pml4[s] = None => state[s] \in {"UNUSED", "EMBRYO"}
    /\ \A c \in CPU : pc[c] = "pml4" /\ child[c] # None => pml4[child[c]] = None

(* exec's new space is nobody's yet. *)
Unowned(r) == \A s \in Slots : pml4[s] # r

(* The space a call maps into: the child's, the caller's, or exec's new    *)
(* one, which no other call maps into.                                     *)
RootInv ==
    /\ \A c \in CPU : root[c] # None =>
         /\ op[c] \in {"create", "fork"} => root[c] = pml4[child[c]]
         /\ op[c] = "brk" \/ pc[c] = "lcr3" => root[c] = pml4[proc[c]]
         /\ op[c] = "exec" /\ pc[c] \notin {"lcr3", "panic"} => Unowned(root[c])
         /\ op[c] = "exec" /\ pc[c] = "panic" => root[c] = pml4[proc[c]] \/ Unowned(root[c])
    /\ \A c, d \in CPU : root[c] # None /\ root[c] = root[d] => c = d
    /\ \A s, t \in Slots : pml4[s] # None /\ pml4[s] = pml4[t] => s = t

(* A page that is no root has nothing below it. *)
Tidy == \A r \in Page \ Roots : tree[r] = EmptyTree

(* What each holder holds, no page by two of them, free or lost. *)
Hold == [h \in Holders |-> Held(h)]
Exclusive ==
    /\ \A h, g \in DOMAIN Hold : Hold[h] # None /\ Hold[h] = Hold[g] => h = g
    /\ \A h \in DOMAIN Hold : Hold[h] # None => Hold[h] \notin free \cup lost
    /\ free \cap lost = {}

IInv == TypeOK /\ LocalInv /\ SlotInv /\ RootInv /\ Tidy /\ OwnSpace /\ Exclusive /\ NoLeak

-----------------------------------------------------------------------------
(* Constants *)

(* The null pointer is no page, slot or number. *)
LEMMA Disjoint ==
  /\ None \notin Page /\ None \notin Slots /\ None \notin Nat
  /\ Page \subseteq Nat /\ Slots \subseteq Nat /\ VA \subseteq Nat
  /\ BSP \in CPU /\ Len(Heap) \in Nat /\ MaxCalls \in Nat
<1>1. VA \subseteq Nat
  BY AddrAssumption DEF VA, ToSet
<1> QED
  BY <1>1, AddrAssumption DEF Page, Slots

(* The values of a sequence are a finite set. *)
LEMMA ToSetFinite ==
  ASSUME NEW S, NEW s \in Seq(S)
  PROVE  IsFiniteSet(ToSet(s)) /\ s \in Seq(ToSet(s))
<1>1. Len(s) \in Nat /\ DOMAIN s = 1..Len(s)
  OBVIOUS
<1>2. s \in Surjection(1..Len(s), ToSet(s)) /\ s \in [1..Len(s) -> ToSet(s)]
  BY <1>1 DEF Surjection, ToSet
<1>3. IsFiniteSet(1..Len(s))
  BY <1>1, FS_Interval
<1> QED
  BY <1>1, <1>2, <1>3, FS_Surjection

(* The lists of pages the loops run over. *)
LEMMA Lists ==
  /\ Image \in Seq(VA)
  /\ \A a \in Nat, b \in 0..Len(Heap) : SubSeq(Heap, a + 1, b) \in Seq(VA)
  /\ \A P \in SUBSET VA : Ascending(P) \in Seq(VA)
<1>1. /\ IsFiniteSet(ToSet(Image)) /\ Image \in Seq(ToSet(Image))
      /\ IsFiniteSet(ToSet(Heap)) /\ Heap \in Seq(ToSet(Heap))
  BY ToSetFinite, AddrAssumption
<1>2. IsFiniteSet(VA)
  BY <1>1, FS_Union DEF VA
<1>3. Image \in Seq(VA) /\ Heap \in Seq(VA)
  BY <1>1 DEF VA
<1>4. ASSUME NEW a \in Nat, NEW b \in 0..Len(Heap)
      PROVE  SubSeq(Heap, a + 1, b) \in Seq(VA)
  BY <1>3
<1>5. ASSUME NEW P \in SUBSET VA
      PROVE  Ascending(P) \in Seq(VA)
  <2>1. P \subseteq Nat /\ IsFiniteSet(P)
    BY <1>2, FS_Subset, Disjoint
  <2>2. Ascending(P) \in Seq(P)
    BY <2>1, AscendingFacts
  <2> QED
    BY <2>2
<1> QED
  BY <1>3, <1>4, <1>5

(* The types, by the part of the state they are about. *)
MemTypes ==
    /\ free \subseteq Page /\ lost \subseteq Page
    /\ tree \in [Page -> [tab : [Tbl -> Page \cup {None}], leaf : [VA -> Page \cup {None}]]]
TabTypes ==
    /\ state \in [Slots -> {"UNUSED", "EMBRYO", "RUNNABLE", "RUNNING", "ZOMBIE"}]
    /\ pml4 \in [Slots -> Page \cup {None}] /\ kstack \in [Slots -> Page \cup {None}]
CpuTypes ==
    /\ cr3 \in [CPU -> Page \cup {None}] /\ root \in [CPU -> Page \cup {None}]
    /\ elf \in [CPU -> Page \cup {None}] /\ page \in [CPU -> Page \cup {None}]
    /\ proc \in [CPU -> Slots \cup {None}] /\ child \in [CPU -> Slots \cup {None}]
    /\ pc \in [CPU -> {"boot", "sched", "user", "alloc", "pml4", "map", "table", "lcr3", "panic"}]
    /\ op \in [CPU -> {"none", "create", "fork", "exec", "brk"}]
ArgTypes ==
    /\ parent \in [Slots -> Slots \cup {None}]
    /\ brk \in [Slots -> 0..Len(Heap)]
    /\ todo \in [CPU -> Seq(VA)]
    /\ arg \in [CPU -> Nat \cup {None}]

(* Together they are TypeOK. *)
LEMMA TypeParts == TypeOK <=> MemTypes /\ TabTypes /\ CpuTypes /\ ArgTypes /\ calls \in 0..MaxCalls
BY DEF TypeOK, MemTypes, TabTypes, CpuTypes, ArgTypes

(* And after a step. *)
LEMMA TypePartsNext ==
  (MemTypes /\ TabTypes /\ CpuTypes /\ ArgTypes /\ calls \in 0..MaxCalls)' => TypeOK'
BY TypeParts, PTL

(* The pages mapped in a space, as a list. *)
LEMMA MappedType == \A r : Mapped(r) \in Seq(VA)
BY Lists DEF Mapped

-----------------------------------------------------------------------------
(* Holders *)

(* The page tables there are: of a slot, or of a call. *)
RootFacts ==
    /\ Roots \subseteq Page
    /\ \A r : r \in Roots <=> r # None /\ (\/ \E s \in Slots : pml4[s] = r
                                           \/ \E c \in CPU : root[c] = r)

(* They are as described in every state. *)
LEMMA RootsAre == TypeOK => RootFacts
<1> SUFFICES ASSUME TypeOK PROVE RootFacts
  OBVIOUS
<1>1. pml4 \in [Slots -> Page \cup {None}] /\ root \in [CPU -> Page \cup {None}]
  BY DEF TypeOK
<1>2. \A r : r \in Present(pml4) <=> r # None /\ \E s \in Slots : pml4[s] = r
  BY <1>1 DEF Present
<1>3. \A r : r \in Present(root) <=> r # None /\ \E c \in CPU : root[c] = r
  BY <1>1 DEF Present
<1>4. Roots \subseteq Page
  BY <1>1, <1>2, <1>3 DEF Roots
<1> QED
  BY <1>2, <1>3, <1>4 DEF Roots, RootFacts

(* And after a step. *)
LEMMA RootsAreNext == TypeOK' => RootFacts'
BY RootsAre, PTL

(* Each kind of holder and what it holds. *)
HoldFacts ==
    /\ \A s : <<"kstack", s>> \in DOMAIN Hold <=> s \in Slots
    /\ \A r : <<"pml4", r>> \in DOMAIN Hold <=> r \in Roots
    /\ \A c : <<"elf", c>> \in DOMAIN Hold <=> c \in CPU
    /\ \A c : <<"page", c>> \in DOMAIN Hold <=> c \in CPU
    /\ \A r, t : <<"tab", r, t>> \in DOMAIN Hold <=> r \in Roots /\ t \in Tbl
    /\ \A r, va : <<"leaf", r, va>> \in DOMAIN Hold <=> r \in Roots /\ va \in VA
    /\ \A s \in Slots : Hold[<<"kstack", s>>] = kstack[s]
    /\ \A r \in Roots : Hold[<<"pml4", r>>] = r
    /\ \A c \in CPU : Hold[<<"elf", c>>] = elf[c] /\ Hold[<<"page", c>>] = page[c]
    /\ \A r \in Roots, t \in Tbl : Hold[<<"tab", r, t>>] = tree[r].tab[t]
    /\ \A r \in Roots, va \in VA : Hold[<<"leaf", r, va>>] = tree[r].leaf[va]
    /\ \A h \in DOMAIN Hold : \/ \E s \in Slots : h = <<"kstack", s>>
                              \/ \E r \in Roots : h = <<"pml4", r>>
                              \/ \E c \in CPU : h = <<"elf", c>>
                              \/ \E c \in CPU : h = <<"page", c>>
                              \/ \E r \in Roots, t \in Tbl : h = <<"tab", r, t>>
                              \/ \E r \in Roots, va \in VA : h = <<"leaf", r, va>>

(* They hold in every state. *)
LEMMA HoldFactsHold == HoldFacts
<1>1. DOMAIN Hold = Holders
  BY DEF Hold
<1>2. \A h \in Holders : Hold[h] = Held(h)
  BY DEF Hold
<1>3. \A s : <<"kstack", s>> \in Holders <=> s \in Slots
  BY DEF Holders
<1>4. \A r : <<"pml4", r>> \in Holders <=> r \in Roots
  BY DEF Holders
<1>5. \A c : <<"elf", c>> \in Holders <=> c \in CPU
  BY DEF Holders
<1>6. \A c : <<"page", c>> \in Holders <=> c \in CPU
  BY DEF Holders
<1>7. \A r, t : <<"tab", r, t>> \in Holders <=> r \in Roots /\ t \in Tbl
  BY DEF Holders
<1>8. \A r, va : <<"leaf", r, va>> \in Holders <=> r \in Roots /\ va \in VA
  BY DEF Holders
<1>9. /\ \A s : Held(<<"kstack", s>>) = kstack[s]
      /\ \A r : Held(<<"pml4", r>>) = r
      /\ \A c : Held(<<"elf", c>>) = elf[c] /\ Held(<<"page", c>>) = page[c]
      /\ \A r, t : Held(<<"tab", r, t>>) = tree[r].tab[t]
      /\ \A r, va : Held(<<"leaf", r, va>>) = tree[r].leaf[va]
  BY DEF Held
<1>10. \A h \in Holders : \/ \E s \in Slots : h = <<"kstack", s>>
                          \/ \E r \in Roots : h = <<"pml4", r>>
                          \/ \E c \in CPU : h = <<"elf", c>>
                          \/ \E c \in CPU : h = <<"page", c>>
                          \/ \E r \in Roots, t \in Tbl : h = <<"tab", r, t>>
                          \/ \E r \in Roots, va \in VA : h = <<"leaf", r, va>>
  BY DEF Holders
<1> QED
  BY <1>1, <1>2, <1>3, <1>4, <1>5, <1>6, <1>7, <1>8, <1>9, <1>10 DEF HoldFacts

(* Exclusive is NoAlias for the holders. *)
LEMMA ExclusiveNoAlias == Exclusive /\ RootInv => NoAlias
<1>1. DOMAIN Hold = Holders /\ \A h \in Holders : Hold[h] = Held(h)
  BY DEF Hold
<1> QED
  BY <1>1 DEF Exclusive, NoAlias, RootInv, InUse

(* And in the state after a step. *)
LEMMA HoldFactsNext == HoldFacts'
BY HoldFactsHold, PTL

(* A step that leaves every holder what it had. *)
LEMMA SameHolders ==
  ASSUME Exclusive, NoLeak, Tidy, UNCHANGED <<free, lost, tree, kstack, elf, page>>,
         Roots' = Roots
  PROVE  Exclusive' /\ NoLeak' /\ Tidy'
<1>1. Holders' = Holders
  BY DEF Holders
<1>2. ASSUME NEW h PROVE Held(h)' = Held(h)
  BY DEF Held
<1>3. Hold' = Hold
  BY <1>1, <1>2 DEF Hold
<1>4. InUse' = InUse
  BY <1>1, <1>2 DEF InUse
<1> QED
  BY <1>3, <1>4 DEF Exclusive, NoLeak, Tidy, EmptyTree

-----------------------------------------------------------------------------
(* Steps that move pages *)

(* After the step every holder but x holds nothing, or what it held. *)
Kept(x) ==
    /\ \A s \in Slots : <<"kstack", s>> # x => kstack'[s] \in {None, kstack[s]}
    /\ \A r \in Roots' : <<"pml4", r>> # x => r \in Roots
    /\ \A c \in CPU : <<"elf", c>> # x => elf'[c] \in {None, elf[c]}
    /\ \A c \in CPU : <<"page", c>> # x => page'[c] \in {None, page[c]}
    /\ \A r \in Roots', t \in Tbl : <<"tab", r, t>> # x =>
         tree'[r].tab[t] = None \/ (r \in Roots /\ tree'[r].tab[t] = tree[r].tab[t])
    /\ \A r \in Roots', va \in VA : <<"leaf", r, va>> # x =>
         tree'[r].leaf[va] = None \/ (r \in Roots /\ tree'[r].leaf[va] = tree[r].leaf[va])

(* Some holder had the page p before the step and has not any more. *)
Released(p) == \E g \in DOMAIN Hold : Hold[g] = p /\ (g \notin DOMAIN Hold' \/ Hold'[g] # p)

(* No page gets a second use in a step that gives x a page that was free   *)
(* or has been released, and frees or loses only what has been released.   *)
LEMMA KeepExclusive ==
  ASSUME Exclusive, NEW x, Kept(x),
         x \in DOMAIN Hold' /\ Hold'[x] # None =>
            /\ Hold'[x] \in free \/ Released(Hold'[x])
            /\ Hold'[x] \notin free' \cup lost',
         \A p \in free' \cup lost' : p # None /\ (p \in free \cup lost \/ Released(p)),
         free' \cap lost' = {}
  PROVE  Exclusive'
<1>1. ASSUME NEW h \in DOMAIN Hold', h # x, Hold'[h] # None
      PROVE  h \in DOMAIN Hold /\ Hold[h] = Hold'[h]
  <2> USE <1>1, HoldFactsHold, HoldFactsNext
  <2>1. CASE \E s \in Slots : h = <<"kstack", s>>
    BY <2>1 DEF HoldFacts, Kept
  <2>2. CASE \E r \in Roots' : h = <<"pml4", r>>
    BY <2>2 DEF HoldFacts, Kept
  <2>3. CASE \E c \in CPU : h = <<"elf", c>>
    <3>1. PICK c \in CPU : h = <<"elf", c>>
      BY <2>3
    <3>2. h \in DOMAIN Hold /\ Hold[h] = elf[c] /\ Hold'[h] = elf'[c]
      BY <3>1 DEF HoldFacts
    <3> QED
      BY <3>1, <3>2 DEF Kept
  <2>4. CASE \E c \in CPU : h = <<"page", c>>
    <3>1. PICK c \in CPU : h = <<"page", c>>
      BY <2>4
    <3>2. h \in DOMAIN Hold /\ Hold[h] = page[c] /\ Hold'[h] = page'[c]
      BY <3>1 DEF HoldFacts
    <3> QED
      BY <3>1, <3>2 DEF Kept
  <2>5. CASE \E r \in Roots', t \in Tbl : h = <<"tab", r, t>>
    BY <2>5 DEF HoldFacts, Kept
  <2>6. CASE \E r \in Roots', va \in VA : h = <<"leaf", r, va>>
    BY <2>6 DEF HoldFacts, Kept
  <2> QED
    BY <2>1, <2>2, <2>3, <2>4, <2>5, <2>6 DEF HoldFacts
<1>2. ASSUME NEW h \in DOMAIN Hold', h # x, Hold'[h] # None, Released(Hold'[h])
      PROVE  FALSE
  BY <1>1, <1>2 DEF Exclusive, Released
<1>3. ASSUME NEW h \in DOMAIN Hold', h # x, Hold'[h] # None
      PROVE  Hold'[h] \notin free' \cup lost' /\ (x \in DOMAIN Hold' => Hold'[h] # Hold'[x])
  BY <1>1, <1>2, <1>3 DEF Exclusive
<1>4. ASSUME NEW h \in DOMAIN Hold', NEW g \in DOMAIN Hold', Hold'[h] # None, Hold'[h] = Hold'[g]
      PROVE  h = g
  BY <1>1, <1>3, <1>4 DEF Exclusive
<1> QED
  BY <1>3, <1>4 DEF Exclusive

(* What is still accounted for after the step. *)
Still(p) == p \in free' \cup lost' \cup InUse'

(* A page some holder has after the step is accounted for. *)
LEMMA HeldStill ==
  /\ \A s \in Slots : kstack'[s] # None => Still(kstack'[s])
  /\ \A r \in Roots' : r # None => Still(r)
  /\ \A c \in CPU : elf'[c] # None => Still(elf'[c])
  /\ \A c \in CPU : page'[c] # None => Still(page'[c])
  /\ \A r \in Roots', t \in Tbl : tree'[r].tab[t] # None => Still(tree'[r].tab[t])
  /\ \A r \in Roots', va \in VA : tree'[r].leaf[va] # None => Still(tree'[r].leaf[va])
<1>1. \A h \in DOMAIN Hold' : Hold'[h] # None => Still(Hold'[h])
  BY DEF Hold, Still, InUse
<1> USE <1>1, HoldFactsNext DEF HoldFacts
<1>2. \A s \in Slots : kstack'[s] # None => Still(kstack'[s])
  OBVIOUS
<1>3. \A r \in Roots' : r # None => Still(r)
  OBVIOUS
<1>4. ASSUME NEW c \in CPU
      PROVE  (elf'[c] # None => Still(elf'[c])) /\ (page'[c] # None => Still(page'[c]))
  <2>1. <<"elf", c>> \in DOMAIN Hold' /\ Hold'[<<"elf", c>>] = elf'[c]
    OBVIOUS
  <2>2. <<"page", c>> \in DOMAIN Hold' /\ Hold'[<<"page", c>>] = page'[c]
    OBVIOUS
  <2> QED
    BY <2>1, <2>2
<1>5. ASSUME NEW r \in Roots', NEW t \in Tbl, tree'[r].tab[t] # None
      PROVE  Still(tree'[r].tab[t])
  <2>1. <<"tab", r, t>> \in DOMAIN Hold' /\ Hold'[<<"tab", r, t>>] = tree'[r].tab[t]
    OBVIOUS
  <2> QED
    BY <2>1, <1>5
<1>6. ASSUME NEW r \in Roots', NEW va \in VA, tree'[r].leaf[va] # None
      PROVE  Still(tree'[r].leaf[va])
  <2>1. <<"leaf", r, va>> \in DOMAIN Hold' /\ Hold'[<<"leaf", r, va>>] = tree'[r].leaf[va]
    OBVIOUS
  <2> QED
    BY <2>1, <1>6
<1> QED
  BY <1>2, <1>3, <1>4, <1>5, <1>6

(* No page is forgotten in a step after which every page is accounted for. *)
LEMMA KeepNoLeak ==
  ASSUME NoLeak, TypeOK', \A p \in free \cup lost : Still(p),
         \A s \in Slots : kstack[s] # None => Still(kstack[s]),
         \A r \in Roots : r # None => Still(r),
         \A c \in CPU : elf[c] # None => Still(elf[c]),
         \A c \in CPU : page[c] # None => Still(page[c]),
         \A r \in Roots, t \in Tbl : tree[r].tab[t] # None => Still(tree[r].tab[t]),
         \A r \in Roots, va \in VA : tree[r].leaf[va] # None => Still(tree[r].leaf[va])
  PROVE  NoLeak'
<1>1. ASSUME NEW h \in DOMAIN Hold, Hold[h] # None
      PROVE  Still(Hold[h])
  <2> USE <1>1, HoldFactsHold
  <2>1. ASSUME NEW s \in Slots, h = <<"kstack", s>> PROVE Hold[h] = kstack[s]
    BY <2>1 DEF HoldFacts
  <2>2. ASSUME NEW r \in Roots, h = <<"pml4", r>> PROVE Hold[h] = r
    BY <2>2 DEF HoldFacts
  <2>3. ASSUME NEW c \in CPU, h = <<"elf", c>> PROVE Hold[h] = elf[c]
    BY <2>3 DEF HoldFacts
  <2>4. ASSUME NEW c \in CPU, h = <<"page", c>> PROVE Hold[h] = page[c]
    BY <2>4 DEF HoldFacts
  <2>5. ASSUME NEW r \in Roots, NEW t \in Tbl, h = <<"tab", r, t>> PROVE Hold[h] = tree[r].tab[t]
    BY <2>5 DEF HoldFacts
  <2>6. ASSUME NEW r \in Roots, NEW va \in VA, h = <<"leaf", r, va>> PROVE Hold[h] = tree[r].leaf[va]
    BY <2>6 DEF HoldFacts
  <2> QED
    BY <2>1, <2>2, <2>3, <2>4, <2>5, <2>6 DEF HoldFacts
<1>2. \A p \in Page : Still(p)
  BY <1>1 DEF NoLeak, Hold, InUse
<1>3. Roots' \subseteq Page
  BY RootsAreNext DEF RootFacts
<1>4. ASSUME NEW h \in DOMAIN Hold'
      PROVE  Hold'[h] \in Page \cup {None}
  <2> USE <1>4, HoldFactsNext
  <2>1. ASSUME NEW s \in Slots, h = <<"kstack", s>> PROVE Hold'[h] = kstack'[s]
    BY <2>1 DEF HoldFacts
  <2>2. ASSUME NEW r \in Roots', h = <<"pml4", r>> PROVE Hold'[h] = r
    BY <2>2 DEF HoldFacts
  <2>3. ASSUME NEW c \in CPU, h = <<"elf", c>> PROVE Hold'[h] = elf'[c]
    BY <2>3 DEF HoldFacts
  <2>4. ASSUME NEW c \in CPU, h = <<"page", c>> PROVE Hold'[h] = page'[c]
    BY <2>4 DEF HoldFacts
  <2>5. ASSUME NEW r \in Roots', NEW t \in Tbl, h = <<"tab", r, t>> PROVE Hold'[h] = tree'[r].tab[t]
    BY <2>5 DEF HoldFacts
  <2>6. ASSUME NEW r \in Roots', NEW va \in VA, h = <<"leaf", r, va>> PROVE Hold'[h] = tree'[r].leaf[va]
    BY <2>6 DEF HoldFacts
  <2>7. /\ kstack' \in [Slots -> Page \cup {None}]
        /\ elf' \in [CPU -> Page \cup {None}] /\ page' \in [CPU -> Page \cup {None}]
        /\ \A r \in Page, t \in Tbl : tree'[r].tab[t] \in Page \cup {None}
        /\ \A r \in Page, va \in VA : tree'[r].leaf[va] \in Page \cup {None}
    BY DEF TypeOK
  <2> QED
    BY <2>1, <2>2, <2>3, <2>4, <2>5, <2>6, <2>7, <1>3 DEF HoldFacts
<1>5. InUse' \subseteq Page
  BY <1>4 DEF InUse, Hold
<1> QED
  BY <1>2, <1>5 DEF NoLeak, Still, TypeOK

-----------------------------------------------------------------------------
(* Steps that move no page *)

(* The first state satisfies the invariant. *)
LEMMA InitInv == Init => IInv
<1> SUFFICES ASSUME Init PROVE IInv
  OBVIOUS
<1> USE Disjoint
<1>1. TypeOK
  BY DEF Init, TypeOK, EmptyTree
<1>2. LocalInv /\ SlotInv /\ RootInv /\ OwnSpace
  BY DEF Init, LocalInv, SlotInv, RootInv, OwnSpace
<1>3. Roots = {}
  BY <1>1, RootsAre DEF Init, RootFacts
<1>4. Tidy
  BY DEF Init, Tidy
<1>5. ASSUME NEW h \in DOMAIN Hold
      PROVE  Hold[h] = None
  <2> USE <1>3, <1>5, HoldFactsHold DEF HoldFacts, Init
  <2>1. CASE \E s \in Slots : h = <<"kstack", s>>
    BY <2>1
  <2>2. CASE \E d \in CPU : h = <<"elf", d>>
    <3>1. PICK d \in CPU : h = <<"elf", d>>
      BY <2>2
    <3> QED
      BY <3>1
  <2>3. CASE \E d \in CPU : h = <<"page", d>>
    <3>1. PICK d \in CPU : h = <<"page", d>>
      BY <2>3
    <3> QED
      BY <3>1
  <2> QED
    BY <2>1, <2>2, <2>3
<1>6. Exclusive
  BY <1>5 DEF Init, Exclusive
<1>7. NoLeak
  BY <1>5 DEF Init, NoLeak, InUse, Hold
<1> QED
  BY <1>1, <1>2, <1>4, <1>6, <1>7 DEF IInv

(* A call that takes or drops a pointer to the tables of a slot leaves the set of tables alone. *)
LEMMA SameRoots ==
  ASSUME TypeOK, TypeOK', pml4' = pml4,
         \A d \in CPU : root'[d] # root[d] =>
            /\ root[d] # None => \E s \in Slots : pml4[s] = root[d]
            /\ root'[d] # None => \E s \in Slots : pml4[s] = root'[d]
  PROVE  Roots' = Roots
<1>1. \A r : r \in Roots' <=> r \in Roots
  BY RootsAre, RootsAreNext DEF RootFacts
<1> QED
  BY <1>1

(* Whose tables a call maps into. *)
LEMMA RootOwner ==
  ASSUME TypeOK, LocalInv, SlotInv, RootInv,
         NEW d \in CPU, NEW s \in Slots, root[d] # None, root[d] = pml4[s]
  PROVE  \/ op[d] \in {"brk", "exec"} /\ s = proc[d] /\ state[s] = "RUNNING"
         \/ op[d] \in {"create", "fork"} /\ s = child[d] /\ state[s] = "EMBRYO"
<1> USE Disjoint
<1>1. TabTypes /\ CpuTypes
  BY TypeParts
<1>2. op[d] # "none" /\ pc[d] \notin {"alloc", "pml4"}
  BY DEF LocalInv
<1>3. CASE op[d] \in {"create", "fork"}
  <2>1. child[d] \in Slots /\ root[d] = pml4[child[d]]
    BY <1>1, <1>2, <1>3 DEF LocalInv, CpuTypes, RootInv
  <2>2. s = child[d]
    BY <2>1 DEF RootInv
  <2> QED
    BY <1>3, <2>1, <2>2 DEF SlotInv
<1>4. CASE op[d] \in {"brk", "exec"}
  <2>1. proc[d] \in Slots
    BY <1>1, <1>2, <1>4 DEF LocalInv, CpuTypes
  <2>2. root[d] = pml4[proc[d]]
    BY <1>1, <1>2, <1>4 DEF RootInv, Unowned, CpuTypes
  <2>3. s = proc[d]
    BY <2>1, <2>2 DEF RootInv
  <2> QED
    BY <1>4, <2>1, <2>3 DEF SlotInv
<1> QED
  BY <1>1, <1>2, <1>3, <1>4 DEF CpuTypes

(* A CPU takes a process that no other CPU runs. *)
LEMMA ScheduleInv ==
  ASSUME IInv, NEW c \in CPU, NEW s \in Slots, calls' \in 0..MaxCalls,
         Schedule(c, s)
  PROVE  IInv'
<1> USE Disjoint
<1>a. /\ LocalInv /\ SlotInv /\ RootInv /\ Tidy /\ OwnSpace /\ Exclusive /\ NoLeak
      /\ TypeOK /\ MemTypes /\ TabTypes /\ CpuTypes /\ ArgTypes
  BY TypeParts DEF IInv
<1>b. /\ pc[c] = "sched" /\ state[s] = "RUNNABLE"
      /\ state' = [state EXCEPT ![s] = "RUNNING"]
      /\ proc' = [proc EXCEPT ![c] = s]
      /\ cr3' = [cr3 EXCEPT ![c] = pml4[s]]
      /\ pc' = [pc EXCEPT ![c] = "user"]
      /\ UNCHANGED <<free, lost, tree, parent, pml4, kstack, brk, op, child, root, elf, todo, page, arg>>
  BY DEF Schedule, Goto, memVars, tabVars, callVars
<1>c. /\ proc[c] = None /\ op[c] = "none" /\ child[c] = None
  BY <1>a, <1>b DEF CpuTypes, LocalInv
<1>d. /\ pml4[s] \in Page
      /\ \A d \in CPU : proc[d] # s /\ child[d] # s
  BY <1>a, <1>b, <1>c DEF TabTypes, CpuTypes, SlotInv, RootInv
<1>1. TypeOK'
  <2>1. MemTypes'
    BY <1>a, <1>b, <1>c, <1>d DEF MemTypes
  <2>2. TabTypes'
    BY <1>a, <1>b, <1>c, <1>d DEF TabTypes
  <2>3. CpuTypes'
    BY <1>a, <1>b, <1>c, <1>d DEF CpuTypes
  <2>4. ArgTypes'
    BY <1>a, <1>b, <1>c, <1>d DEF ArgTypes
  <2> QED
    BY <2>1, <2>2, <2>3, <2>4, TypePartsNext
<1>2. LocalInv'
  BY <1>a, <1>b, <1>c, <1>d DEF CpuTypes, LocalInv
<1>3. SlotInv'
  BY <1>a, <1>b, <1>c, <1>d DEF TabTypes, CpuTypes, SlotInv
<1>4. RootInv'
  BY <1>a, <1>b, <1>c, <1>d DEF TabTypes, CpuTypes, LocalInv, RootInv, Unowned
<1>5. OwnSpace'
  BY <1>a, <1>b, <1>c, <1>d DEF TabTypes, CpuTypes, OwnSpace
<1>6. Roots' = Roots
  BY <1>b DEF Roots
<1>7. Exclusive' /\ NoLeak' /\ Tidy'
  BY <1>a, <1>b, <1>6, SameHolders
<1> QED
  BY <1>1, <1>2, <1>3, <1>4, <1>5, <1>7 DEF IInv

(* A process gives up its CPU. *)
LEMMA LeaveInv ==
  ASSUME IInv, NEW c \in CPU, NEW st \in {"RUNNABLE", "ZOMBIE"}, calls' \in 0..MaxCalls,
         Leave(c, st)
  PROVE  IInv'
<1> USE Disjoint
<1>a. /\ LocalInv /\ SlotInv /\ RootInv /\ Tidy /\ OwnSpace /\ Exclusive /\ NoLeak
      /\ TypeOK /\ MemTypes /\ TabTypes /\ CpuTypes /\ ArgTypes
  BY TypeParts DEF IInv
<1>b. /\ pc[c] = "user"
      /\ state' = [state EXCEPT ![proc[c]] = st]
      /\ proc' = [proc EXCEPT ![c] = None]
      /\ pc' = [pc EXCEPT ![c] = "sched"]
      /\ UNCHANGED <<free, lost, tree, parent, pml4, kstack, brk, cr3, op, child, root, elf, todo, page, arg>>
  BY DEF Leave, Goto, memVars, tabVars, callVars
<1>c. /\ proc[c] \in Slots /\ op[c] = "none"
  BY <1>a, <1>b DEF CpuTypes, LocalInv
<1>d. /\ pml4[proc[c]] # None /\ kstack[proc[c]] # None
      /\ \A d \in CPU : child[d] # proc[c]
      /\ \A d \in CPU : d # c => proc[d] # proc[c]
  <2>1. state[proc[c]] = "RUNNING"
    BY <1>a, <1>c DEF SlotInv
  <2>2. pml4[proc[c]] # None /\ kstack[proc[c]] # None
    BY <1>a, <1>c, <2>1 DEF SlotInv
  <2> QED
    BY <1>a, <1>c, <2>1, <2>2 DEF SlotInv
<1>1. TypeOK'
  <2>1. MemTypes'
    BY <1>a, <1>b, <1>c, <1>d DEF MemTypes
  <2>2. TabTypes'
    BY <1>a, <1>b, <1>c, <1>d DEF TabTypes
  <2>3. CpuTypes'
    BY <1>a, <1>b, <1>c, <1>d DEF CpuTypes
  <2>4. ArgTypes'
    BY <1>a, <1>b, <1>c, <1>d DEF ArgTypes
  <2> QED
    BY <2>1, <2>2, <2>3, <2>4, TypePartsNext
<1>2. LocalInv'
  BY <1>a, <1>b, <1>c, <1>d DEF CpuTypes, LocalInv
<1>3. SlotInv'
  BY <1>a, <1>b, <1>c, <1>d DEF TabTypes, CpuTypes, SlotInv
<1>4. RootInv'
  BY <1>a, <1>b, <1>c, <1>d DEF TabTypes, CpuTypes, LocalInv, RootInv, Unowned
<1>5. OwnSpace'
  BY <1>a, <1>b, <1>c, <1>d DEF TabTypes, CpuTypes, OwnSpace
<1>6. Roots' = Roots
  BY <1>b DEF Roots
<1>7. Exclusive' /\ NoLeak' /\ Tidy'
  BY <1>a, <1>b, <1>6, SameHolders
<1> QED
  BY <1>1, <1>2, <1>3, <1>4, <1>5, <1>7 DEF IInv

(* proc_create gives up without a file. *)
LEMMA NoInitInv ==
  ASSUME IInv, NEW c \in CPU, calls' \in 0..MaxCalls,
         NoInit(c)
  PROVE  IInv'
<1> USE Disjoint
<1>a. /\ LocalInv /\ SlotInv /\ RootInv /\ Tidy /\ OwnSpace /\ Exclusive /\ NoLeak
      /\ TypeOK /\ MemTypes /\ TabTypes /\ CpuTypes /\ ArgTypes
  BY TypeParts DEF IInv
<1>b. /\ pc[c] = "boot"
      /\ pc' = [pc EXCEPT ![c] = "sched"]
      /\ UNCHANGED <<free, lost, tree, state, parent, pml4, kstack, brk, cr3, proc, op, child, root, elf, todo, page, arg>>
  BY DEF NoInit, Goto, memVars, tabVars, callVars
<1>c. /\ proc[c] = None /\ op[c] = "none"
  BY <1>a, <1>b DEF CpuTypes, LocalInv
<1>1. TypeOK'
  <2>1. MemTypes'
    BY <1>a, <1>b, <1>c DEF MemTypes
  <2>2. TabTypes'
    BY <1>a, <1>b, <1>c DEF TabTypes
  <2>3. CpuTypes'
    BY <1>a, <1>b, <1>c DEF CpuTypes
  <2>4. ArgTypes'
    BY <1>a, <1>b, <1>c DEF ArgTypes
  <2> QED
    BY <2>1, <2>2, <2>3, <2>4, TypePartsNext
<1>2. LocalInv'
  BY <1>a, <1>b, <1>c DEF CpuTypes, LocalInv
<1>3. SlotInv'
  BY <1>a, <1>b, <1>c DEF TabTypes, CpuTypes, SlotInv
<1>4. RootInv'
  BY <1>a, <1>b, <1>c DEF TabTypes, CpuTypes, LocalInv, RootInv, Unowned
<1>5. OwnSpace'
  BY <1>a, <1>b, <1>c DEF TabTypes, CpuTypes, OwnSpace
<1>6. Roots' = Roots
  BY <1>b DEF Roots
<1>7. Exclusive' /\ NoLeak' /\ Tidy'
  BY <1>a, <1>b, <1>6, SameHolders
<1> QED
  BY <1>1, <1>2, <1>3, <1>4, <1>5, <1>7 DEF IInv

(* proc_fork begins. *)
LEMMA ForkInv ==
  ASSUME IInv, NEW c \in CPU, calls' \in 0..MaxCalls,
         proc_fork(c)
  PROVE  IInv'
<1> USE Disjoint
<1>a. /\ LocalInv /\ SlotInv /\ RootInv /\ Tidy /\ OwnSpace /\ Exclusive /\ NoLeak
      /\ TypeOK /\ MemTypes /\ TabTypes /\ CpuTypes /\ ArgTypes
  BY TypeParts DEF IInv
<1>b. /\ pc[c] = "user"
      /\ pc' = [pc EXCEPT ![c] = "alloc"]
      /\ op' = [op EXCEPT ![c] = "fork"]
      /\ UNCHANGED <<free, lost, tree, state, parent, pml4, kstack, brk, cr3, proc, child, root, elf, todo, page, arg>>
  BY DEF proc_fork, Goto, memVars, tabVars, callVars
<1>c. /\ proc[c] \in Slots /\ op[c] = "none"
      /\ child[c] = None /\ root[c] = None /\ elf[c] = None /\ page[c] = None
  BY <1>a, <1>b DEF CpuTypes, LocalInv
<1>1. TypeOK'
  <2>1. MemTypes'
    BY <1>a, <1>b, <1>c DEF MemTypes
  <2>2. TabTypes'
    BY <1>a, <1>b, <1>c DEF TabTypes
  <2>3. CpuTypes'
    BY <1>a, <1>b, <1>c DEF CpuTypes
  <2>4. ArgTypes'
    BY <1>a, <1>b, <1>c DEF ArgTypes
  <2> QED
    BY <2>1, <2>2, <2>3, <2>4, TypePartsNext
<1>2. LocalInv'
  BY <1>a, <1>b, <1>c DEF CpuTypes, LocalInv
<1>3. SlotInv'
  BY <1>a, <1>b, <1>c DEF TabTypes, CpuTypes, SlotInv
<1>4. RootInv'
  BY <1>a, <1>b, <1>c DEF TabTypes, CpuTypes, LocalInv, RootInv, Unowned
<1>5. OwnSpace'
  BY <1>a, <1>b, <1>c DEF TabTypes, CpuTypes, OwnSpace
<1>6. Roots' = Roots
  BY <1>b DEF Roots
<1>7. Exclusive' /\ NoLeak' /\ Tidy'
  BY <1>a, <1>b, <1>6, SameHolders
<1> QED
  BY <1>1, <1>2, <1>3, <1>4, <1>5, <1>7 DEF IInv

(* sys_brk shrinks the heap. *)
LEMMA BrkShrinkInv ==
  ASSUME IInv, NEW c \in CPU, NEW b \in 0..Len(Heap), calls' \in 0..MaxCalls,
         sys_brk(c, b), ~(b > brk[proc[c]])
  PROVE  IInv'
<1> USE Disjoint
<1>a. /\ LocalInv /\ SlotInv /\ RootInv /\ Tidy /\ OwnSpace /\ Exclusive /\ NoLeak
      /\ TypeOK /\ MemTypes /\ TabTypes /\ CpuTypes /\ ArgTypes
  BY TypeParts DEF IInv
<1>b. /\ pc[c] = "user"
      /\ brk' = [brk EXCEPT ![proc[c]] = b]
      /\ UNCHANGED <<free, lost, tree, state, parent, pml4, kstack, cr3, proc, pc, op, child, root, elf, todo, page, arg>>
  BY DEF sys_brk, memVars, tabVars, callVars
<1>c. /\ proc[c] \in Slots /\ op[c] = "none"
      /\ child[c] = None /\ root[c] = None /\ elf[c] = None /\ page[c] = None
  BY <1>a, <1>b DEF CpuTypes, LocalInv
<1>1. TypeOK'
  <2>1. MemTypes'
    BY <1>a, <1>b, <1>c DEF MemTypes
  <2>2. TabTypes'
    BY <1>a, <1>b, <1>c DEF TabTypes
  <2>3. CpuTypes'
    BY <1>a, <1>b, <1>c DEF CpuTypes
  <2>4. ArgTypes'
    BY <1>a, <1>b, <1>c DEF ArgTypes
  <2> QED
    BY <2>1, <2>2, <2>3, <2>4, TypePartsNext
<1>2. LocalInv'
  BY <1>a, <1>b, <1>c DEF CpuTypes, LocalInv
<1>3. SlotInv'
  BY <1>a, <1>b, <1>c DEF TabTypes, CpuTypes, SlotInv
<1>4. RootInv'
  BY <1>a, <1>b, <1>c DEF TabTypes, CpuTypes, LocalInv, RootInv, Unowned
<1>5. OwnSpace'
  BY <1>a, <1>b, <1>c DEF TabTypes, CpuTypes, OwnSpace
<1>6. Roots' = Roots
  BY <1>b DEF Roots
<1>7. Exclusive' /\ NoLeak' /\ Tidy'
  BY <1>a, <1>b, <1>6, SameHolders
<1> QED
  BY <1>1, <1>2, <1>3, <1>4, <1>5, <1>7 DEF IInv

(* sys_brk begins to map pages. *)
LEMMA BrkGrowInv ==
  ASSUME IInv, NEW c \in CPU, NEW b \in 0..Len(Heap), calls' \in 0..MaxCalls,
         sys_brk(c, b), b > brk[proc[c]]
  PROVE  IInv'
<1> USE Disjoint
<1>a. /\ LocalInv /\ SlotInv /\ RootInv /\ Tidy /\ OwnSpace /\ Exclusive /\ NoLeak
      /\ TypeOK /\ MemTypes /\ TabTypes /\ CpuTypes /\ ArgTypes
  BY TypeParts DEF IInv
<1>b. /\ pc[c] = "user"
      /\ pc' = [pc EXCEPT ![c] = "map"]
      /\ op' = [op EXCEPT ![c] = "brk"]
      /\ root' = [root EXCEPT ![c] = pml4[proc[c]]]
      /\ todo' = [todo EXCEPT ![c] = SubSeq(Heap, brk[proc[c]] + 1, b)]
      /\ arg' = [arg EXCEPT ![c] = b]
      /\ UNCHANGED <<free, lost, tree, state, parent, pml4, kstack, brk, cr3, proc, child, elf, page>>
  BY DEF sys_brk, Goto, Own, memVars, tabVars, callVars
<1>c. /\ proc[c] \in Slots /\ op[c] = "none"
      /\ child[c] = None /\ root[c] = None /\ elf[c] = None /\ page[c] = None
  BY <1>a, <1>b DEF CpuTypes, LocalInv
<1>d. /\ brk[proc[c]] \in Nat /\ pml4[proc[c]] \in Page /\ state[proc[c]] = "RUNNING"
  <2>1. state[proc[c]] = "RUNNING"
    BY <1>a, <1>c DEF SlotInv
  <2>2. pml4[proc[c]] # None
    BY <1>a, <1>c, <2>1 DEF SlotInv
  <2> QED
    <3>1. brk[proc[c]] \in 0..Len(Heap)
      BY <1>a, <1>c DEF ArgTypes
    <3>2. pml4[proc[c]] \in Page \cup {None}
      BY <1>a, <1>c DEF TabTypes
    <3> QED
      BY <2>1, <2>2, <3>1, <3>2
<1>1. TypeOK'
  <2>1. MemTypes'
    BY <1>a, <1>b, <1>c, <1>d DEF MemTypes
  <2>2. TabTypes'
    BY <1>a, <1>b, <1>c, <1>d DEF TabTypes
  <2>3. CpuTypes'
    BY <1>a, <1>b, <1>c, <1>d DEF CpuTypes
  <2>4. ArgTypes'
    <3>1. SubSeq(Heap, brk[proc[c]] + 1, b) \in Seq(VA)
      BY <1>d, Lists
    <3> QED
      BY <1>a, <1>b, <1>c, <3>1 DEF ArgTypes
  <2> QED
    BY <2>1, <2>2, <2>3, <2>4, TypePartsNext
<1>2. LocalInv'
  <2>1. arg'[c] = b
    BY <1>a, <1>b DEF ArgTypes
  <2>2. \A d \in CPU : d # c => arg'[d] = arg[d] /\ todo'[d] = todo[d]
    BY <1>a, <1>b DEF ArgTypes
  <2> QED
    BY <1>a, <1>b, <1>c, <1>d, <2>1, <2>2 DEF CpuTypes, LocalInv
<1>3. SlotInv'
  BY <1>a, <1>b, <1>c, <1>d DEF TabTypes, CpuTypes, SlotInv
<1>4. RootInv'
  <2>1. \A d \in CPU : root[d] # pml4[proc[c]]
    <3> SUFFICES ASSUME NEW d \in CPU, root[d] = pml4[proc[c]] PROVE FALSE
      OBVIOUS
    <3>0. /\ TypeOK /\ LocalInv /\ SlotInv /\ RootInv
          /\ proc[c] \in Slots /\ root[d] # None /\ state[proc[c]] = "RUNNING"
      BY <1>a, <1>c, <1>d, Disjoint
    <3>1. proc[d] = proc[c] /\ op[d] \in {"brk", "exec"}
      BY <3>0, RootOwner
    <3> QED
      BY <1>a, <1>c, <3>1 DEF SlotInv
  <2> QED
    BY <1>a, <1>b, <1>c, <1>d, <2>1 DEF TabTypes, CpuTypes, LocalInv, RootInv, Unowned
<1>5. OwnSpace'
  BY <1>a, <1>b, <1>c, <1>d DEF TabTypes, CpuTypes, OwnSpace
<1>6. Roots' = Roots
  <2>1. \A d \in CPU : d # c => root'[d] = root[d]
    BY <1>a, <1>b DEF CpuTypes
  <2>2. /\ root[c] # None => \E s \in Slots : pml4[s] = root[c]
        /\ root'[c] # None => \E s \in Slots : pml4[s] = root'[c]
    BY <1>a, <1>b, <1>c, <1>d DEF CpuTypes
  <2> QED
    BY <1>a, <1>b, <1>1, <2>1, <2>2, SameRoots
<1>7. Exclusive' /\ NoLeak' /\ Tidy'
  <2>1. elf' = elf /\ page' = page
    BY <1>a, <1>b, <1>c DEF CpuTypes
  <2> QED
    BY <1>a, <1>b, <2>1, <1>6, SameHolders
<1> QED
  BY <1>1, <1>2, <1>3, <1>4, <1>5, <1>7 DEF IInv

(* fork goes on without a page it has no memory for. *)
LEMMA CopySkipInv ==
  ASSUME IInv, NEW c \in CPU, calls' \in 0..MaxCalls,
         CopySkip(c)
  PROVE  IInv'
<1> USE Disjoint
<1>a. /\ LocalInv /\ SlotInv /\ RootInv /\ Tidy /\ OwnSpace /\ Exclusive /\ NoLeak
      /\ TypeOK /\ MemTypes /\ TabTypes /\ CpuTypes /\ ArgTypes
  BY TypeParts DEF IInv
<1>b. /\ pc[c] = "map" /\ op[c] = "fork" /\ todo[c] # <<>>
      /\ todo' = [todo EXCEPT ![c] = Tail(@)]
      /\ UNCHANGED <<free, lost, tree, state, parent, pml4, kstack, brk, cr3, proc, pc, op, child, root, elf, page, arg>>
  BY DEF CopySkip, Goto, memVars, tabVars, callVars
<1>c. /\ todo[c] \in Seq(VA)
  BY <1>a DEF ArgTypes
<1>1. TypeOK'
  <2>1. MemTypes'
    BY <1>a, <1>b, <1>c DEF MemTypes
  <2>2. TabTypes'
    BY <1>a, <1>b, <1>c DEF TabTypes
  <2>3. CpuTypes'
    BY <1>a, <1>b, <1>c DEF CpuTypes
  <2>4. ArgTypes'
    BY <1>a, <1>b, <1>c DEF ArgTypes
  <2> QED
    BY <2>1, <2>2, <2>3, <2>4, TypePartsNext
<1>2. LocalInv'
  BY <1>a, <1>b, <1>c DEF CpuTypes, LocalInv
<1>3. SlotInv'
  BY <1>a, <1>b, <1>c DEF TabTypes, CpuTypes, SlotInv
<1>4. RootInv'
  BY <1>a, <1>b, <1>c DEF TabTypes, CpuTypes, LocalInv, RootInv, Unowned
<1>5. OwnSpace'
  BY <1>a, <1>b, <1>c DEF TabTypes, CpuTypes, OwnSpace
<1>6. Roots' = Roots
  BY <1>b DEF Roots
<1>7. Exclusive' /\ NoLeak' /\ Tidy'
  BY <1>a, <1>b, <1>6, SameHolders
<1> QED
  BY <1>1, <1>2, <1>3, <1>4, <1>5, <1>7 DEF IInv

(* sys_brk fails for want of memory. *)
LEMMA BrkFailInv ==
  ASSUME IInv, NEW c \in CPU, calls' \in 0..MaxCalls,
         BrkFail(c)
  PROVE  IInv'
<1> USE Disjoint
<1>a. /\ LocalInv /\ SlotInv /\ RootInv /\ Tidy /\ OwnSpace /\ Exclusive /\ NoLeak
      /\ TypeOK /\ MemTypes /\ TabTypes /\ CpuTypes /\ ArgTypes
  BY TypeParts DEF IInv
<1>b. /\ pc[c] = "map" /\ op[c] = "brk"
      /\ pc' = [pc EXCEPT ![c] = "user"]
      /\ op' = [op EXCEPT ![c] = "none"]
      /\ child' = [child EXCEPT ![c] = None]
      /\ root' = [root EXCEPT ![c] = None]
      /\ elf' = [elf EXCEPT ![c] = None]
      /\ todo' = [todo EXCEPT ![c] = <<>>]
      /\ page' = [page EXCEPT ![c] = None]
      /\ arg' = [arg EXCEPT ![c] = None]
      /\ UNCHANGED <<free, lost, tree, state, parent, pml4, kstack, brk, cr3, proc>>
  BY DEF BrkFail, Return, Goto, memVars, tabVars, callVars
<1>c. /\ elf[c] = None /\ page[c] = None /\ root[c] # None /\ proc[c] \in Slots
      /\ child[c] = None
  BY <1>a, <1>b DEF CpuTypes, LocalInv
<1>d. /\ root[c] = pml4[proc[c]] /\ proc[c] \in Slots
  BY <1>a, <1>b, <1>c DEF TabTypes, CpuTypes, SlotInv, RootInv
<1>1. TypeOK'
  <2>1. MemTypes'
    BY <1>a, <1>b, <1>c, <1>d DEF MemTypes
  <2>2. TabTypes'
    BY <1>a, <1>b, <1>c, <1>d DEF TabTypes
  <2>3. CpuTypes'
    BY <1>a, <1>b, <1>c, <1>d DEF CpuTypes
  <2>4. ArgTypes'
    BY <1>a, <1>b, <1>c, <1>d DEF ArgTypes
  <2> QED
    BY <2>1, <2>2, <2>3, <2>4, TypePartsNext
<1>2. LocalInv'
  <2>1. \A d \in CPU : d # c => arg'[d] = arg[d] /\ todo'[d] = todo[d]
    BY <1>a, <1>b DEF ArgTypes
  <2> QED
    BY <1>a, <1>b, <1>c, <1>d, <2>1 DEF CpuTypes, LocalInv
<1>3. SlotInv'
  BY <1>a, <1>b, <1>c, <1>d DEF TabTypes, CpuTypes, SlotInv
<1>4. RootInv'
  BY <1>a, <1>b, <1>c, <1>d DEF TabTypes, CpuTypes, LocalInv, RootInv, Unowned
<1>5. OwnSpace'
  BY <1>a, <1>b, <1>c, <1>d DEF TabTypes, CpuTypes, OwnSpace
<1>6. Roots' = Roots
  <2>1. \A d \in CPU : d # c => root'[d] = root[d]
    BY <1>a, <1>b DEF CpuTypes
  <2>2. /\ root[c] # None => \E s \in Slots : pml4[s] = root[c]
        /\ root'[c] # None => \E s \in Slots : pml4[s] = root'[c]
    BY <1>a, <1>b, <1>c, <1>d DEF CpuTypes
  <2> QED
    BY <1>a, <1>b, <1>1, <2>1, <2>2, SameRoots
<1>7. Exclusive' /\ NoLeak' /\ Tidy'
  <2>1. elf' = elf /\ page' = page
    BY <1>a, <1>b, <1>c DEF CpuTypes
  <2> QED
    BY <1>a, <1>b, <2>1, <1>6, SameHolders
<1> QED
  BY <1>1, <1>2, <1>3, <1>4, <1>5, <1>7 DEF IInv

(* map_page_pml4 has no memory for a table. *)
LEMMA TableFaultInv ==
  ASSUME IInv, NEW c \in CPU, calls' \in 0..MaxCalls,
         TableFault(c)
  PROVE  IInv'
<1> USE Disjoint
<1>a. /\ LocalInv /\ SlotInv /\ RootInv /\ Tidy /\ OwnSpace /\ Exclusive /\ NoLeak
      /\ TypeOK /\ MemTypes /\ TabTypes /\ CpuTypes /\ ArgTypes
  BY TypeParts DEF IInv
<1>b. /\ pc[c] = "table"
      /\ pc' = [pc EXCEPT ![c] = "panic"]
      /\ UNCHANGED <<free, lost, tree, state, parent, pml4, kstack, brk, cr3, proc, op, child, root, elf, todo, page, arg>>
  BY DEF TableFault, Goto, memVars, tabVars, callVars
<1>c. /\ op[c] # "none"
  BY <1>a, <1>b DEF CpuTypes, LocalInv
<1>1. TypeOK'
  <2>1. MemTypes'
    BY <1>a, <1>b, <1>c DEF MemTypes
  <2>2. TabTypes'
    BY <1>a, <1>b, <1>c DEF TabTypes
  <2>3. CpuTypes'
    BY <1>a, <1>b, <1>c DEF CpuTypes
  <2>4. ArgTypes'
    BY <1>a, <1>b, <1>c DEF ArgTypes
  <2> QED
    BY <2>1, <2>2, <2>3, <2>4, TypePartsNext
<1>2. LocalInv'
  BY <1>a, <1>b, <1>c DEF CpuTypes, LocalInv
<1>3. SlotInv'
  BY <1>a, <1>b, <1>c DEF TabTypes, CpuTypes, SlotInv
<1>4. RootInv'
  BY <1>a, <1>b, <1>c DEF TabTypes, CpuTypes, LocalInv, RootInv, Unowned
<1>5. OwnSpace'
  BY <1>a, <1>b, <1>c DEF TabTypes, CpuTypes, OwnSpace
<1>6. Roots' = Roots
  BY <1>b DEF Roots
<1>7. Exclusive' /\ NoLeak' /\ Tidy'
  BY <1>a, <1>b, <1>6, SameHolders
<1> QED
  BY <1>1, <1>2, <1>3, <1>4, <1>5, <1>7 DEF IInv

(* sys_brk returns. *)
LEMMA BrkDoneInv ==
  ASSUME IInv, NEW c \in CPU, calls' \in 0..MaxCalls,
         BrkDone(c)
  PROVE  IInv'
<1> USE Disjoint
<1>a. /\ LocalInv /\ SlotInv /\ RootInv /\ Tidy /\ OwnSpace /\ Exclusive /\ NoLeak
      /\ TypeOK /\ MemTypes /\ TabTypes /\ CpuTypes /\ ArgTypes
  BY TypeParts DEF IInv
<1>b. /\ pc[c] = "map" /\ op[c] = "brk"
      /\ brk' = [brk EXCEPT ![proc[c]] = arg[c]]
      /\ pc' = [pc EXCEPT ![c] = "user"]
      /\ op' = [op EXCEPT ![c] = "none"]
      /\ child' = [child EXCEPT ![c] = None]
      /\ root' = [root EXCEPT ![c] = None]
      /\ elf' = [elf EXCEPT ![c] = None]
      /\ todo' = [todo EXCEPT ![c] = <<>>]
      /\ page' = [page EXCEPT ![c] = None]
      /\ arg' = [arg EXCEPT ![c] = None]
      /\ UNCHANGED <<free, lost, tree, state, parent, pml4, kstack, cr3, proc>>
  BY DEF BrkDone, MapDone, Return, Goto, memVars, tabVars, callVars
<1>c. /\ elf[c] = None /\ page[c] = None /\ root[c] # None /\ proc[c] \in Slots
      /\ child[c] = None /\ arg[c] \in 0..Len(Heap)
  BY <1>a, <1>b DEF CpuTypes, LocalInv
<1>d. /\ root[c] = pml4[proc[c]] /\ proc[c] \in Slots
  BY <1>a, <1>b, <1>c DEF TabTypes, CpuTypes, SlotInv, RootInv
<1>1. TypeOK'
  <2>1. MemTypes'
    BY <1>a, <1>b, <1>c, <1>d DEF MemTypes
  <2>2. TabTypes'
    BY <1>a, <1>b, <1>c, <1>d DEF TabTypes
  <2>3. CpuTypes'
    BY <1>a, <1>b, <1>c, <1>d DEF CpuTypes
  <2>4. ArgTypes'
    BY <1>a, <1>b, <1>c, <1>d DEF ArgTypes
  <2> QED
    BY <2>1, <2>2, <2>3, <2>4, TypePartsNext
<1>2. LocalInv'
  <2>1. \A d \in CPU : d # c => arg'[d] = arg[d] /\ todo'[d] = todo[d]
    BY <1>a, <1>b DEF ArgTypes
  <2> QED
    BY <1>a, <1>b, <1>c, <1>d, <2>1 DEF CpuTypes, LocalInv
<1>3. SlotInv'
  BY <1>a, <1>b, <1>c, <1>d DEF TabTypes, CpuTypes, SlotInv
<1>4. RootInv'
  BY <1>a, <1>b, <1>c, <1>d DEF TabTypes, CpuTypes, LocalInv, RootInv, Unowned
<1>5. OwnSpace'
  BY <1>a, <1>b, <1>c, <1>d DEF TabTypes, CpuTypes, OwnSpace
<1>6. Roots' = Roots
  <2>1. \A d \in CPU : d # c => root'[d] = root[d]
    BY <1>a, <1>b DEF CpuTypes
  <2>2. /\ root[c] # None => \E s \in Slots : pml4[s] = root[c]
        /\ root'[c] # None => \E s \in Slots : pml4[s] = root'[c]
    BY <1>a, <1>b, <1>c, <1>d DEF CpuTypes
  <2> QED
    BY <1>a, <1>b, <1>1, <2>1, <2>2, SameRoots
<1>7. Exclusive' /\ NoLeak' /\ Tidy'
  <2>1. elf' = elf /\ page' = page
    BY <1>a, <1>b, <1>c DEF CpuTypes
  <2> QED
    BY <1>a, <1>b, <2>1, <1>6, SameHolders
<1> QED
  BY <1>1, <1>2, <1>3, <1>4, <1>5, <1>7 DEF IInv

(* proc_fork returns and the child may run. *)
LEMMA ForkDoneInv ==
  ASSUME IInv, NEW c \in CPU, calls' \in 0..MaxCalls,
         ForkDone(c)
  PROVE  IInv'
<1> USE Disjoint
<1>a. /\ LocalInv /\ SlotInv /\ RootInv /\ Tidy /\ OwnSpace /\ Exclusive /\ NoLeak
      /\ TypeOK /\ MemTypes /\ TabTypes /\ CpuTypes /\ ArgTypes
  BY TypeParts DEF IInv
<1>b. /\ pc[c] = "map" /\ op[c] = "fork"
      /\ state' = [state EXCEPT ![child[c]] = "RUNNABLE"]
      /\ parent' = [parent EXCEPT ![child[c]] = proc[c]]
      /\ brk' = [brk EXCEPT ![child[c]] = brk[proc[c]]]
      /\ pc' = [pc EXCEPT ![c] = "user"]
      /\ op' = [op EXCEPT ![c] = "none"]
      /\ child' = [child EXCEPT ![c] = None]
      /\ root' = [root EXCEPT ![c] = None]
      /\ elf' = [elf EXCEPT ![c] = None]
      /\ todo' = [todo EXCEPT ![c] = <<>>]
      /\ page' = [page EXCEPT ![c] = None]
      /\ arg' = [arg EXCEPT ![c] = None]
      /\ UNCHANGED <<free, lost, tree, pml4, kstack, cr3, proc>>
  BY DEF ForkDone, MapDone, Return, Goto, memVars, tabVars, callVars
<1>c. /\ elf[c] = None /\ page[c] = None /\ root[c] # None /\ proc[c] \in Slots
      /\ child[c] \in Slots
  BY <1>a, <1>b DEF CpuTypes, LocalInv
<1>d. /\ root[c] = pml4[child[c]] /\ child[c] \in Slots
      /\ state[child[c]] = "EMBRYO"
      /\ \A d \in CPU : proc[d] # child[c]
      /\ \A d \in CPU : d # c => child[d] # child[c]
  BY <1>a, <1>b, <1>c DEF TabTypes, CpuTypes, SlotInv, RootInv
<1>1. TypeOK'
  <2>1. MemTypes'
    BY <1>a, <1>b, <1>c, <1>d DEF MemTypes
  <2>2. TabTypes'
    BY <1>a, <1>b, <1>c, <1>d DEF TabTypes
  <2>3. CpuTypes'
    BY <1>a, <1>b, <1>c, <1>d DEF CpuTypes
  <2>4. ArgTypes'
    <3>1. brk[proc[c]] \in 0..Len(Heap)
      BY <1>a, <1>c DEF ArgTypes
    <3>2. brk' \in [Slots -> 0..Len(Heap)] /\ parent' \in [Slots -> Slots \cup {None}]
      BY <1>a, <1>b, <1>c, <3>1 DEF ArgTypes
    <3> QED
      BY <1>a, <1>b, <3>2 DEF ArgTypes
  <2> QED
    BY <2>1, <2>2, <2>3, <2>4, TypePartsNext
<1>2. LocalInv'
  <2>1. \A d \in CPU : d # c => arg'[d] = arg[d] /\ todo'[d] = todo[d]
    BY <1>a, <1>b DEF ArgTypes
  <2> QED
    BY <1>a, <1>b, <1>c, <1>d, <2>1 DEF CpuTypes, LocalInv
<1>3. SlotInv'
  BY <1>a, <1>b, <1>c, <1>d DEF TabTypes, CpuTypes, SlotInv
<1>4. RootInv'
  BY <1>a, <1>b, <1>c, <1>d DEF TabTypes, CpuTypes, LocalInv, RootInv, Unowned
<1>5. OwnSpace'
  BY <1>a, <1>b, <1>c, <1>d DEF TabTypes, CpuTypes, OwnSpace
<1>6. Roots' = Roots
  <2>1. \A d \in CPU : d # c => root'[d] = root[d]
    BY <1>a, <1>b DEF CpuTypes
  <2>2. /\ root[c] # None => \E s \in Slots : pml4[s] = root[c]
        /\ root'[c] # None => \E s \in Slots : pml4[s] = root'[c]
    BY <1>a, <1>b, <1>c, <1>d DEF CpuTypes
  <2> QED
    BY <1>a, <1>b, <1>1, <2>1, <2>2, SameRoots
<1>7. Exclusive' /\ NoLeak' /\ Tidy'
  <2>1. elf' = elf /\ page' = page
    BY <1>a, <1>b, <1>c DEF CpuTypes
  <2> QED
    BY <1>a, <1>b, <2>1, <1>6, SameHolders
<1> QED
  BY <1>1, <1>2, <1>3, <1>4, <1>5, <1>7 DEF IInv

-----------------------------------------------------------------------------
(* Steps that take pages from the allocator or give pages back *)

(* After the step every holder has what it had, but for the pages in D. *)
Shrunk(D) ==
    /\ \A s \in Slots : kstack[s] # None => kstack'[s] = kstack[s] \/ kstack[s] \in D
    /\ \A r \in Roots : r \in Roots' \/ r \in D
    /\ \A c \in CPU : elf[c] # None => elf'[c] = elf[c] \/ elf[c] \in D
    /\ \A c \in CPU : page[c] # None => page'[c] = page[c] \/ page[c] \in D
    /\ \A r \in Roots, t \in Tbl : tree[r].tab[t] # None =>
         (r \in Roots' /\ tree'[r].tab[t] = tree[r].tab[t]) \/ tree[r].tab[t] \in D
    /\ \A r \in Roots, va \in VA : tree[r].leaf[va] # None =>
         (r \in Roots' /\ tree'[r].leaf[va] = tree[r].leaf[va]) \/ tree[r].leaf[va] \in D

(* No page is forgotten if those that lost their holder are accounted for. *)
LEMMA ShrunkNoLeak ==
  ASSUME NoLeak, TypeOK', NEW D, Shrunk(D), \A p \in D \cup free \cup lost : Still(p)
  PROVE  NoLeak'
<1>1. \A s \in Slots : kstack[s] # None => Still(kstack[s])
  BY HeldStill DEF Shrunk
<1>2. \A r \in Roots : r # None => Still(r)
  BY HeldStill DEF Shrunk
<1>3. \A c \in CPU : elf[c] # None => Still(elf[c])
  BY HeldStill DEF Shrunk
<1>4. \A c \in CPU : page[c] # None => Still(page[c])
  BY HeldStill DEF Shrunk
<1>5. \A r \in Roots, t \in Tbl : tree[r].tab[t] # None => Still(tree[r].tab[t])
  BY HeldStill DEF Shrunk
<1>6. \A r \in Roots, va \in VA : tree[r].leaf[va] # None => Still(tree[r].leaf[va])
  BY HeldStill DEF Shrunk
<1> QED
  BY <1>1, <1>2, <1>3, <1>4, <1>5, <1>6, KeepNoLeak

(* kalloc: the holder x gets a page that was free. *)
LEMMA AllocKeeps ==
  ASSUME TypeOK', Exclusive, NoLeak, NEW p \in free, p # None, free' = free \ {p}, lost' = lost,
         NEW x, x \in DOMAIN Hold', Hold'[x] = p, Kept(x), Shrunk({}), None \notin free \cup lost
  PROVE  Exclusive' /\ NoLeak'
<1>1. Exclusive'
  <2>1. Hold'[x] \in free /\ Hold'[x] \notin free' \cup lost'
    BY DEF Exclusive
  <2>2. \A q \in free' \cup lost' : q # None /\ q \in free \cup lost
    OBVIOUS
  <2>3. free' \cap lost' = {}
    BY DEF Exclusive
  <2> QED
    BY <2>1, <2>2, <2>3, KeepExclusive
<1>2. Still(p)
  BY DEF Still, InUse, Hold
<1>3. NoLeak'
  BY <1>2, ShrunkNoLeak DEF Still
<1> QED
  BY <1>1, <1>3

(* No holder is new: <<"kstack", 0>> stands for none. *)
Nobody == <<"kstack", 0>>

(* Pages are given back: those in F are free, those in L are lost. *)
LEMMA FreeKeeps ==
  ASSUME TypeOK', Exclusive, NoLeak, NEW F, NEW L, free' = free \cup F, lost' = lost \cup L,
         F \cap L = {}, \A p \in F \cup L : p # None /\ Released(p),
         None \notin free \cup lost, Kept(Nobody), Shrunk(F \cup L)
  PROVE  Exclusive' /\ NoLeak'
<1>1. Nobody \notin DOMAIN Hold'
  BY HoldFactsNext DEF HoldFacts, Nobody, Slots
<1>2. \A p : Released(p) /\ p # None => p \notin free \cup lost
  BY DEF Released, Exclusive
<1>3. free' \cap lost' = {}
  BY <1>2 DEF Exclusive
<1>4. Exclusive'
  BY <1>1, <1>3, KeepExclusive
<1>5. NoLeak'
  BY ShrunkNoLeak DEF Still
<1> QED
  BY <1>4, <1>5

(* What a step releases. *)
LEMMA ReleasedIs ==
  /\ \A s \in Slots : kstack'[s] # kstack[s] => Released(kstack[s])
  /\ \A c \in CPU : elf'[c] # elf[c] => Released(elf[c])
  /\ \A c \in CPU : page'[c] # page[c] => Released(page[c])
  /\ \A r \in Roots, va \in VA : tree'[r].leaf[va] # tree[r].leaf[va] => Released(tree[r].leaf[va])
  /\ \A r \in Roots : r \notin Roots' => /\ Released(r)
                                         /\ \A t \in Tbl : Released(tree[r].tab[t])
                                         /\ \A va \in VA : Released(tree[r].leaf[va])
<1> USE HoldFactsHold, HoldFactsNext DEF Released, HoldFacts
<1>1. ASSUME NEW s \in Slots, kstack'[s] # kstack[s] PROVE Released(kstack[s])
  <2> WITNESS <<"kstack", s>> \in DOMAIN Hold
  <2> QED
    BY <1>1
<1>2. ASSUME NEW c \in CPU, elf'[c] # elf[c] PROVE Released(elf[c])
  <2> WITNESS <<"elf", c>> \in DOMAIN Hold
  <2> QED
    BY <1>2
<1>3. ASSUME NEW c \in CPU, page'[c] # page[c] PROVE Released(page[c])
  <2> WITNESS <<"page", c>> \in DOMAIN Hold
  <2> QED
    BY <1>3
<1>4. ASSUME NEW r \in Roots, NEW va \in VA, tree'[r].leaf[va] # tree[r].leaf[va]
      PROVE  Released(tree[r].leaf[va])
  <2> WITNESS <<"leaf", r, va>> \in DOMAIN Hold
  <2> QED
    BY <1>4
<1>5. ASSUME NEW r \in Roots, r \notin Roots' PROVE Released(r)
  <2> WITNESS <<"pml4", r>> \in DOMAIN Hold
  <2> QED
    BY <1>5
<1>6. ASSUME NEW r \in Roots, r \notin Roots', NEW t \in Tbl PROVE Released(tree[r].tab[t])
  <2> WITNESS <<"tab", r, t>> \in DOMAIN Hold
  <2> QED
    BY <1>6
<1>7. ASSUME NEW r \in Roots, r \notin Roots', NEW va \in VA PROVE Released(tree[r].leaf[va])
  <2> WITNESS <<"leaf", r, va>> \in DOMAIN Hold
  <2> QED
    BY <1>7
<1> QED
  BY <1>1, <1>2, <1>3, <1>4, <1>5, <1>6, <1>7

-----------------------------------------------------------------------------
(* Every step that moves pages *)

(* proc_create begins with a buffer for the file. *)
LEMMA CreateInv ==
  ASSUME IInv, NEW c \in CPU, calls' \in 0..MaxCalls,
         proc_create(c)
  PROVE  IInv'
<1> USE Disjoint
<1>a. /\ LocalInv /\ SlotInv /\ RootInv /\ Tidy /\ OwnSpace /\ Exclusive /\ NoLeak
      /\ TypeOK /\ MemTypes /\ TabTypes /\ CpuTypes /\ ArgTypes
  BY TypeParts DEF IInv
<1>p. PICK p \in Page : kalloc(p) /\ elf' = [elf EXCEPT ![c] = p]
  BY DEF proc_create, read_elf
<1>b. /\ pc[c] = "boot"
      /\ pc' = [pc EXCEPT ![c] = "alloc"]
      /\ op' = [op EXCEPT ![c] = "create"]
      /\ elf' = [elf EXCEPT ![c] = p]
      /\ p \in free /\ free' = free \ {p}
      /\ UNCHANGED <<lost, tree, state, parent, pml4, kstack, brk, cr3, proc, child, root, todo, page, arg>>
  BY <1>p DEF proc_create, read_elf, kalloc, Goto, memVars, tabVars, callVars
<1>c. /\ proc[c] = None /\ op[c] = "none"
      /\ child[c] = None /\ root[c] = None /\ elf[c] = None /\ page[c] = None
  BY <1>a, <1>b DEF CpuTypes, LocalInv
<1>1. TypeOK'
  <2>1. MemTypes'
    BY <1>a, <1>b, <1>c DEF MemTypes
  <2>2. TabTypes'
    BY <1>a, <1>b, <1>c DEF TabTypes
  <2>3. CpuTypes'
    BY <1>a, <1>b, <1>c DEF CpuTypes
  <2>4. ArgTypes'
    BY <1>a, <1>b, <1>c DEF ArgTypes
  <2> QED
    BY <2>1, <2>2, <2>3, <2>4, TypePartsNext
<1>2. LocalInv'
  BY <1>a, <1>b, <1>c DEF CpuTypes, LocalInv
<1>3. SlotInv'
  BY <1>a, <1>b, <1>c DEF TabTypes, CpuTypes, SlotInv
<1>4. RootInv'
  BY <1>a, <1>b, <1>c DEF TabTypes, CpuTypes, LocalInv, RootInv, Unowned
<1>5. OwnSpace'
  BY <1>a, <1>b, <1>c DEF TabTypes, CpuTypes, OwnSpace
<1>6. Roots' = Roots
  BY <1>b DEF Roots
<1>7. Exclusive' /\ NoLeak' /\ Tidy'
  <2>1. <<"elf", c>> \in DOMAIN Hold' /\ Hold'[<<"elf", c>>] = p
    BY <1>a, <1>b, <1>c, <1>6, HoldFactsNext DEF HoldFacts, CpuTypes
  <2>2. Kept(<<"elf", c>>)
    BY <1>a, <1>b, <1>c, <1>6 DEF Kept, CpuTypes
  <2>3. Shrunk({})
    BY <1>a, <1>b, <1>c, <1>6 DEF Shrunk, CpuTypes
  <2>4. p # None /\ None \notin free \cup lost
    BY <1>a, <1>b DEF MemTypes
  <2>5. Tidy'
    BY <1>a, <1>b, <1>6 DEF Tidy, EmptyTree
  <2> QED
    BY <1>a, <1>b, <1>1, <2>1, <2>2, <2>3, <2>4, <2>5, AllocKeeps
<1> QED
  BY <1>1, <1>2, <1>3, <1>4, <1>5, <1>7 DEF IInv

(* proc_exec begins with a buffer for the file. *)
LEMMA ExecInv ==
  ASSUME IInv, NEW c \in CPU, calls' \in 0..MaxCalls,
         proc_exec(c)
  PROVE  IInv'
<1> USE Disjoint
<1>a. /\ LocalInv /\ SlotInv /\ RootInv /\ Tidy /\ OwnSpace /\ Exclusive /\ NoLeak
      /\ TypeOK /\ MemTypes /\ TabTypes /\ CpuTypes /\ ArgTypes
  BY TypeParts DEF IInv
<1>p. PICK p \in Page : kalloc(p) /\ elf' = [elf EXCEPT ![c] = p]
  BY DEF proc_exec, read_elf
<1>b. /\ pc[c] = "user"
      /\ pc' = [pc EXCEPT ![c] = "pml4"]
      /\ op' = [op EXCEPT ![c] = "exec"]
      /\ elf' = [elf EXCEPT ![c] = p]
      /\ p \in free /\ free' = free \ {p}
      /\ UNCHANGED <<lost, tree, state, parent, pml4, kstack, brk, cr3, proc, child, root, todo, page>>
  BY <1>p DEF proc_exec, read_elf, kalloc, Goto, memVars, tabVars, callVars
<1>c. /\ proc[c] \in Slots /\ op[c] = "none"
      /\ child[c] = None /\ root[c] = None /\ elf[c] = None /\ page[c] = None
  BY <1>a, <1>b DEF CpuTypes, LocalInv
<1>1. TypeOK'
  <2>1. MemTypes'
    BY <1>a, <1>b, <1>c DEF MemTypes
  <2>2. TabTypes'
    BY <1>a, <1>b, <1>c DEF TabTypes
  <2>3. CpuTypes'
    BY <1>a, <1>b, <1>c DEF CpuTypes
  <2>4. ArgTypes'
    <3>1. PICK va \in ToSet(Mapped(Own(c))) : arg' = [arg EXCEPT ![c] = va]
      BY DEF proc_exec
    <3>2. va \in Nat
      <4>1. Mapped(Own(c)) \in Seq(VA)
        BY MappedType
      <4>2. va \in VA
        BY <4>1, <3>1 DEF ToSet
      <4> QED
        BY <4>2
    <3> QED
      BY <1>a, <1>b, <3>1, <3>2 DEF ArgTypes
  <2> QED
    BY <2>1, <2>2, <2>3, <2>4, TypePartsNext
<1>2. LocalInv'
  <2>1. \A d \in CPU : d # c => arg'[d] = arg[d]
    BY <1>a DEF proc_exec, ArgTypes
  <2> QED
    BY <1>a, <1>b, <1>c, <2>1 DEF CpuTypes, LocalInv
<1>3. SlotInv'
  BY <1>a, <1>b, <1>c DEF TabTypes, CpuTypes, SlotInv
<1>4. RootInv'
  BY <1>a, <1>b, <1>c DEF TabTypes, CpuTypes, LocalInv, RootInv, Unowned
<1>5. OwnSpace'
  BY <1>a, <1>b, <1>c DEF TabTypes, CpuTypes, OwnSpace
<1>6. Roots' = Roots
  BY <1>b DEF Roots
<1>7. Exclusive' /\ NoLeak' /\ Tidy'
  <2>1. <<"elf", c>> \in DOMAIN Hold' /\ Hold'[<<"elf", c>>] = p
    BY <1>a, <1>b, <1>c, <1>6, HoldFactsNext DEF HoldFacts, CpuTypes
  <2>2. Kept(<<"elf", c>>)
    BY <1>a, <1>b, <1>c, <1>6 DEF Kept, CpuTypes
  <2>3. Shrunk({})
    BY <1>a, <1>b, <1>c, <1>6 DEF Shrunk, CpuTypes
  <2>4. p # None /\ None \notin free \cup lost
    BY <1>a, <1>b DEF MemTypes
  <2>5. Tidy'
    BY <1>a, <1>b, <1>6 DEF Tidy, EmptyTree
  <2> QED
    BY <1>a, <1>b, <1>1, <2>1, <2>2, <2>3, <2>4, <2>5, AllocKeeps
<1> QED
  BY <1>1, <1>2, <1>3, <1>4, <1>5, <1>7 DEF IInv

(* A page to map. *)
LEMMA MapPageInv ==
  ASSUME IInv, NEW c \in CPU, calls' \in 0..MaxCalls,
         MapPage(c)
  PROVE  IInv'
<1> USE Disjoint
<1>a. /\ LocalInv /\ SlotInv /\ RootInv /\ Tidy /\ OwnSpace /\ Exclusive /\ NoLeak
      /\ TypeOK /\ MemTypes /\ TabTypes /\ CpuTypes /\ ArgTypes
  BY TypeParts DEF IInv
<1>p. PICK p \in Page : kalloc(p) /\ page' = [page EXCEPT ![c] = p]
  BY DEF MapPage
<1>b. /\ pc[c] = "map" /\ todo[c] # <<>>
      /\ pc' = [pc EXCEPT ![c] = "table"]
      /\ page' = [page EXCEPT ![c] = p]
      /\ p \in free /\ free' = free \ {p}
      /\ UNCHANGED <<lost, tree, state, parent, pml4, kstack, brk, cr3, proc, op, child, root, elf, todo, arg>>
  BY <1>p DEF MapPage, kalloc, Goto, memVars, tabVars, callVars
<1>c. /\ page[c] = None /\ op[c] # "none" /\ root[c] # None
  BY <1>a, <1>b DEF CpuTypes, LocalInv
<1>1. TypeOK'
  <2>1. MemTypes'
    BY <1>a, <1>b, <1>c DEF MemTypes
  <2>2. TabTypes'
    BY <1>a, <1>b, <1>c DEF TabTypes
  <2>3. CpuTypes'
    BY <1>a, <1>b, <1>c DEF CpuTypes
  <2>4. ArgTypes'
    BY <1>a, <1>b, <1>c DEF ArgTypes
  <2> QED
    BY <2>1, <2>2, <2>3, <2>4, TypePartsNext
<1>2. LocalInv'
  BY <1>a, <1>b, <1>c DEF CpuTypes, LocalInv
<1>3. SlotInv'
  BY <1>a, <1>b, <1>c DEF TabTypes, CpuTypes, SlotInv
<1>4. RootInv'
  BY <1>a, <1>b, <1>c DEF TabTypes, CpuTypes, LocalInv, RootInv, Unowned
<1>5. OwnSpace'
  BY <1>a, <1>b, <1>c DEF TabTypes, CpuTypes, OwnSpace
<1>6. Roots' = Roots
  BY <1>b DEF Roots
<1>7. Exclusive' /\ NoLeak' /\ Tidy'
  <2>1. <<"page", c>> \in DOMAIN Hold' /\ Hold'[<<"page", c>>] = p
    <3>1. page'[c] = p
      BY <1>a, <1>b DEF CpuTypes
    <3>2. /\ \A d : <<"page", d>> \in DOMAIN Hold' <=> d \in CPU
          /\ \A d \in CPU : Hold'[<<"page", d>>] = page'[d]
      BY HoldFactsNext DEF HoldFacts
    <3> QED
      BY <3>1, <3>2
  <2>2. Kept(<<"page", c>>)
    BY <1>a, <1>b, <1>c, <1>6 DEF Kept, CpuTypes
  <2>3. Shrunk({})
    BY <1>a, <1>b, <1>c, <1>6 DEF Shrunk, CpuTypes
  <2>4. p # None /\ None \notin free \cup lost
    BY <1>a, <1>b DEF MemTypes
  <2>5. Tidy'
    BY <1>a, <1>b, <1>6 DEF Tidy, EmptyTree
  <2> QED
    BY <1>a, <1>b, <1>1, <2>1, <2>2, <2>3, <2>4, <2>5, AllocKeeps
<1> QED
  BY <1>1, <1>2, <1>3, <1>4, <1>5, <1>7 DEF IInv

(* proc_alloc takes a slot and its kernel stack. *)
LEMMA AllocInv ==
  ASSUME IInv, NEW c \in CPU, calls' \in 0..MaxCalls,
         proc_alloc(c)
  PROVE  IInv'
<1> USE Disjoint
<1>a. /\ LocalInv /\ SlotInv /\ RootInv /\ Tidy /\ OwnSpace /\ Exclusive /\ NoLeak
      /\ TypeOK /\ MemTypes /\ TabTypes /\ CpuTypes /\ ArgTypes
  BY TypeParts DEF IInv
<1> DEFINE m == Min(Unused)
<1>m. m \in Slots /\ state[m] = "UNUSED"
  <2>1. Unused # {} /\ Unused \subseteq Nat
    BY DEF proc_alloc, Unused
  <2>2. m \in Unused
    BY <2>1, MinLeast
  <2> QED
    BY <2>2 DEF Unused
<1>p. PICK p \in Page : /\ kalloc(p)
                       /\ state' = [state EXCEPT ![m] = "EMBRYO"]
                       /\ kstack' = [kstack EXCEPT ![m] = p]
                       /\ child' = [child EXCEPT ![c] = m]
  BY DEF proc_alloc
<1> HIDE DEF m
<1>b. /\ pc[c] = "alloc"
      /\ pc' = [pc EXCEPT ![c] = "pml4"]
      /\ state' = [state EXCEPT ![m] = "EMBRYO"]
      /\ kstack' = [kstack EXCEPT ![m] = p]
      /\ child' = [child EXCEPT ![c] = m]
      /\ p \in free /\ free' = free \ {p}
      /\ UNCHANGED <<lost, tree, parent, pml4, brk, cr3, proc, op, root, elf, todo, page, arg>>
  BY <1>p DEF proc_alloc, kalloc, Goto, memVars, tabVars, callVars
<1>c. /\ op[c] \in {"create", "fork"} /\ child[c] = None /\ root[c] = None
  BY <1>a, <1>b DEF CpuTypes, LocalInv
<1>d. /\ kstack[m] = None /\ pml4[m] = None
      /\ \A d \in CPU : proc[d] # m /\ child[d] # m
  <2>1. \A d \in CPU : state[proc[d]] = "UNUSED" => proc[d] = None
    BY <1>a DEF SlotInv
  <2>2. \A d \in CPU : state[child[d]] = "UNUSED" => child[d] = None
    BY <1>a DEF SlotInv
  <2> QED
    <3>1. kstack[m] = None /\ pml4[m] = None
      BY <1>a, <1>m DEF SlotInv
    <3>2. m # None
      BY <1>m
    <3> QED
      BY <1>m, <2>1, <2>2, <3>1, <3>2
<1>1. TypeOK'
  <2>1. MemTypes'
    BY <1>a, <1>b, <1>c, <1>d, <1>m DEF MemTypes
  <2>2. TabTypes'
    BY <1>a, <1>b, <1>c, <1>d, <1>m DEF TabTypes
  <2>3. CpuTypes'
    BY <1>a, <1>b, <1>c, <1>d, <1>m DEF CpuTypes
  <2>4. ArgTypes'
    BY <1>a, <1>b, <1>c, <1>d, <1>m DEF ArgTypes
  <2> QED
    BY <2>1, <2>2, <2>3, <2>4, TypePartsNext
<1>2. LocalInv'
  BY <1>a, <1>b, <1>c, <1>d, <1>m DEF CpuTypes, LocalInv
<1>3. SlotInv'
  BY <1>a, <1>b, <1>c, <1>d, <1>m DEF TabTypes, CpuTypes, SlotInv
<1>4. RootInv'
  BY <1>a, <1>b, <1>c, <1>d, <1>m DEF TabTypes, CpuTypes, LocalInv, RootInv, Unowned
<1>5. OwnSpace'
  BY <1>a, <1>b, <1>c, <1>d, <1>m DEF TabTypes, CpuTypes, OwnSpace
<1>6. Roots' = Roots
  BY <1>b DEF Roots
<1>7. Exclusive' /\ NoLeak' /\ Tidy'
  <2>1. <<"kstack", m>> \in DOMAIN Hold' /\ Hold'[<<"kstack", m>>] = p
    BY <1>a, <1>b, <1>d, <1>m, <1>6, HoldFactsNext DEF HoldFacts, TabTypes
  <2>2. Kept(<<"kstack", m>>)
    BY <1>a, <1>b, <1>d, <1>m, <1>6 DEF Kept, TabTypes
  <2>3. Shrunk({})
    BY <1>a, <1>b, <1>d, <1>m, <1>6 DEF Shrunk, TabTypes
  <2>4. p # None /\ None \notin free \cup lost
    BY <1>a, <1>b DEF MemTypes
  <2>5. Tidy'
    BY <1>a, <1>b, <1>6 DEF Tidy, EmptyTree
  <2> QED
    BY <1>a, <1>b, <1>1, <2>1, <2>2, <2>3, <2>4, <2>5, AllocKeeps
<1> QED
  BY <1>1, <1>2, <1>3, <1>4, <1>5, <1>7 DEF IInv

(* A page that is free is not the root of any space. *)
LEMMA RootsApart ==
  ASSUME TypeOK, Exclusive
  PROVE  \A p \in free : p \notin Roots
<1> SUFFICES ASSUME NEW p \in free, p \in Roots PROVE FALSE
  OBVIOUS
<1>1. <<"pml4", p>> \in DOMAIN Hold /\ Hold[<<"pml4", p>>] = p
  BY HoldFactsHold DEF HoldFacts
<1>2. p # None
  BY RootsAre DEF RootFacts
<1> QED
  BY <1>1, <1>2 DEF Exclusive

(* create and fork make the tables of the child. *)
LEMMA Pml4ChildInv ==
  ASSUME IInv, NEW c \in CPU, calls' \in 0..MaxCalls,
         create_user_pml4(c), op[c] # "exec"
  PROVE  IInv'
<1> USE Disjoint
<1>a. /\ LocalInv /\ SlotInv /\ RootInv /\ Tidy /\ OwnSpace /\ Exclusive /\ NoLeak
      /\ TypeOK /\ MemTypes /\ TabTypes /\ CpuTypes /\ ArgTypes
  BY TypeParts DEF IInv
<1>p. PICK p \in Page : /\ kalloc(p)
                       /\ root' = [root EXCEPT ![c] = p]
                       /\ pml4' = IF op[c] = "exec" THEN pml4 ELSE [pml4 EXCEPT ![child[c]] = p]
  BY DEF create_user_pml4
<1>b. /\ pc[c] = "pml4"
      /\ pc' = [pc EXCEPT ![c] = "map"]
      /\ root' = [root EXCEPT ![c] = p]
      /\ pml4' = [pml4 EXCEPT ![child[c]] = p]
      /\ p \in free /\ free' = free \ {p}
      /\ UNCHANGED <<lost, tree, state, parent, kstack, brk, cr3, proc, op, child, elf, page, arg>>
  BY <1>p DEF create_user_pml4, kalloc, Goto, memVars, tabVars, callVars
<1>c. /\ op[c] \in {"create", "fork"} /\ child[c] \in Slots /\ root[c] = None
  BY <1>a, <1>b DEF CpuTypes, LocalInv
<1>d. /\ pml4[child[c]] = None /\ state[child[c]] = "EMBRYO"
      /\ \A d \in CPU : proc[d] # child[c]
      /\ \A d \in CPU : d # c => child[d] # child[c]
  BY <1>a, <1>b, <1>c DEF TabTypes, CpuTypes, SlotInv, RootInv
<1>e. /\ p # None /\ p \in Page
      /\ \A s \in Slots : pml4[s] # p
      /\ \A d \in CPU : root[d] # p
  BY <1>a, <1>b, RootsApart, RootsAre DEF RootFacts, MemTypes
<1>1. TypeOK'
  <2>1. MemTypes'
    BY <1>a, <1>b, <1>c, <1>d, <1>e DEF MemTypes
  <2>2. TabTypes'
    BY <1>a, <1>b, <1>c, <1>d, <1>e DEF TabTypes
  <2>3. CpuTypes'
    BY <1>a, <1>b, <1>c, <1>d, <1>e DEF CpuTypes
  <2>4. ArgTypes'
    <3>1. todo' = [todo EXCEPT ![c] = IF op[c] = "fork" THEN Mapped(Own(c)) ELSE Image]
      BY DEF create_user_pml4
    <3>2. (IF op[c] = "fork" THEN Mapped(Own(c)) ELSE Image) \in Seq(VA)
      BY MappedType, Lists
    <3> QED
      BY <1>a, <1>b, <3>1, <3>2 DEF ArgTypes
  <2> QED
    BY <2>1, <2>2, <2>3, <2>4, TypePartsNext
<1>2. LocalInv'
  <2>1. \A d \in CPU : d # c => todo'[d] = todo[d]
    BY <1>a DEF create_user_pml4, ArgTypes
  <2> QED
    BY <1>a, <1>b, <1>c, <1>d, <1>e, <2>1 DEF CpuTypes, LocalInv
<1>3. SlotInv'
  BY <1>a, <1>b, <1>c, <1>d, <1>e DEF TabTypes, CpuTypes, SlotInv
<1>4. RootInv'
  BY <1>a, <1>b, <1>c, <1>d, <1>e DEF TabTypes, CpuTypes, LocalInv, RootInv, Unowned
<1>5. OwnSpace'
  BY <1>a, <1>b, <1>c, <1>d, <1>e DEF TabTypes, CpuTypes, OwnSpace
<1>6. Roots' = Roots \cup {p} /\ p \notin Roots
  <2>1. \A r : r \in Roots' <=> r \in Roots \cup {p}
    BY <1>a, <1>b, <1>c, <1>d, <1>e, <1>1, RootsAre, RootsAreNext DEF RootFacts, CpuTypes, TabTypes
  <2> QED
    BY <1>a, <1>b, <2>1, RootsApart
<1>7. Exclusive' /\ NoLeak' /\ Tidy'
  <2>e. \A t \in Tbl : tree[p].tab[t] = None
    BY <1>a, <1>b, <1>6, <1>e DEF Tidy, EmptyTree
  <2>f. \A va \in VA : tree[p].leaf[va] = None
    BY <1>a, <1>b, <1>6, <1>e DEF Tidy, EmptyTree
  <2>1. <<"pml4", p>> \in DOMAIN Hold' /\ Hold'[<<"pml4", p>>] = p
    BY <1>a, <1>b, <1>6, <2>e, <2>f, HoldFactsNext DEF HoldFacts, MemTypes
  <2>2. Kept(<<"pml4", p>>)
    BY <1>a, <1>b, <1>6, <2>e, <2>f DEF Kept, MemTypes
  <2>3. Shrunk({})
    BY <1>a, <1>b, <1>6, <2>e, <2>f DEF Shrunk, MemTypes
  <2>4. p # None /\ None \notin free \cup lost
    BY <1>a, <1>b DEF MemTypes
  <2>5. Tidy'
    BY <1>a, <1>b, <1>6 DEF Tidy, EmptyTree
  <2> QED
    BY <1>a, <1>b, <1>1, <2>1, <2>2, <2>3, <2>4, <2>5, AllocKeeps
<1> QED
  BY <1>1, <1>2, <1>3, <1>4, <1>5, <1>7 DEF IInv

(* exec makes new tables. *)
LEMMA Pml4ExecInv ==
  ASSUME IInv, NEW c \in CPU, calls' \in 0..MaxCalls,
         create_user_pml4(c), op[c] = "exec"
  PROVE  IInv'
<1> USE Disjoint
<1>a. /\ LocalInv /\ SlotInv /\ RootInv /\ Tidy /\ OwnSpace /\ Exclusive /\ NoLeak
      /\ TypeOK /\ MemTypes /\ TabTypes /\ CpuTypes /\ ArgTypes
  BY TypeParts DEF IInv
<1>p. PICK p \in Page : /\ kalloc(p)
                       /\ root' = [root EXCEPT ![c] = p]
                       /\ pml4' = IF op[c] = "exec" THEN pml4 ELSE [pml4 EXCEPT ![child[c]] = p]
  BY DEF create_user_pml4
<1>b. /\ pc[c] = "pml4"
      /\ pc' = [pc EXCEPT ![c] = "map"]
      /\ root' = [root EXCEPT ![c] = p]
      /\ p \in free /\ free' = free \ {p}
      /\ UNCHANGED <<lost, tree, state, parent, pml4, kstack, brk, cr3, proc, op, child, elf, page, arg>>
  BY <1>p DEF create_user_pml4, kalloc, Goto, memVars, tabVars, callVars
<1>c. /\ op[c] = "exec" /\ proc[c] \in Slots /\ child[c] = None /\ root[c] = None
  BY <1>a, <1>b DEF CpuTypes, LocalInv
<1>d. /\ pml4[proc[c]] # None
  BY <1>a, <1>b, <1>c DEF TabTypes, CpuTypes, SlotInv, RootInv
<1>e. /\ p # None /\ p \in Page
      /\ \A s \in Slots : pml4[s] # p
      /\ \A d \in CPU : root[d] # p
  BY <1>a, <1>b, RootsApart, RootsAre DEF RootFacts, MemTypes
<1>1. TypeOK'
  <2>1. MemTypes'
    BY <1>a, <1>b, <1>c, <1>d, <1>e DEF MemTypes
  <2>2. TabTypes'
    BY <1>a, <1>b, <1>c, <1>d, <1>e DEF TabTypes
  <2>3. CpuTypes'
    BY <1>a, <1>b, <1>c, <1>d, <1>e DEF CpuTypes
  <2>4. ArgTypes'
    <3>1. todo' = [todo EXCEPT ![c] = IF op[c] = "fork" THEN Mapped(Own(c)) ELSE Image]
      BY DEF create_user_pml4
    <3>2. (IF op[c] = "fork" THEN Mapped(Own(c)) ELSE Image) \in Seq(VA)
      BY MappedType, Lists
    <3> QED
      BY <1>a, <1>b, <3>1, <3>2 DEF ArgTypes
  <2> QED
    BY <2>1, <2>2, <2>3, <2>4, TypePartsNext
<1>2. LocalInv'
  <2>1. \A d \in CPU : d # c => todo'[d] = todo[d]
    BY <1>a DEF create_user_pml4, ArgTypes
  <2> QED
    BY <1>a, <1>b, <1>c, <1>d, <1>e, <2>1 DEF CpuTypes, LocalInv
<1>3. SlotInv'
  BY <1>a, <1>b, <1>c, <1>d, <1>e DEF TabTypes, CpuTypes, SlotInv
<1>4. RootInv'
  BY <1>a, <1>b, <1>c, <1>d, <1>e DEF TabTypes, CpuTypes, LocalInv, RootInv, Unowned
<1>5. OwnSpace'
  BY <1>a, <1>b, <1>c, <1>d, <1>e DEF TabTypes, CpuTypes, OwnSpace
<1>6. Roots' = Roots \cup {p} /\ p \notin Roots
  <2>1. \A r : r \in Roots' <=> r \in Roots \cup {p}
    BY <1>a, <1>b, <1>c, <1>d, <1>e, <1>1, RootsAre, RootsAreNext DEF RootFacts, CpuTypes, TabTypes
  <2> QED
    BY <1>a, <1>b, <2>1, RootsApart
<1>7. Exclusive' /\ NoLeak' /\ Tidy'
  <2>e. \A t \in Tbl : tree[p].tab[t] = None
    BY <1>a, <1>b, <1>6, <1>e DEF Tidy, EmptyTree
  <2>f. \A va \in VA : tree[p].leaf[va] = None
    BY <1>a, <1>b, <1>6, <1>e DEF Tidy, EmptyTree
  <2>1. <<"pml4", p>> \in DOMAIN Hold' /\ Hold'[<<"pml4", p>>] = p
    BY <1>a, <1>b, <1>6, <2>e, <2>f, HoldFactsNext DEF HoldFacts, MemTypes
  <2>2. Kept(<<"pml4", p>>)
    BY <1>a, <1>b, <1>6, <2>e, <2>f DEF Kept, MemTypes
  <2>3. Shrunk({})
    BY <1>a, <1>b, <1>6, <2>e, <2>f DEF Shrunk, MemTypes
  <2>4. p # None /\ None \notin free \cup lost
    BY <1>a, <1>b DEF MemTypes
  <2>5. Tidy'
    BY <1>a, <1>b, <1>6 DEF Tidy, EmptyTree
  <2> QED
    BY <1>a, <1>b, <1>1, <2>1, <2>2, <2>3, <2>4, <2>5, AllocKeeps
<1> QED
  BY <1>1, <1>2, <1>3, <1>4, <1>5, <1>7 DEF IInv

(* A table on the way to the page. *)
LEMMA MapTableInv ==
  ASSUME IInv, NEW c \in CPU, calls' \in 0..MaxCalls,
         MapTable(c)
  PROVE  IInv'
<1> USE Disjoint
<1>a. /\ LocalInv /\ SlotInv /\ RootInv /\ Tidy /\ OwnSpace /\ Exclusive /\ NoLeak
      /\ TypeOK /\ MemTypes /\ TabTypes /\ CpuTypes /\ ArgTypes
  BY TypeParts DEF IInv
<1> DEFINE way == Walk[Head(todo[c])]
           t == way[Min(Missing(c))]
<1>t. t \in Tbl /\ tree[root[c]].tab[t] = None
  <2>1. todo[c] \in Seq(VA) /\ todo[c] # <<>>
    BY <1>a DEF MapTable, ArgTypes, LocalInv
  <2>a. Head(todo[c]) \in VA
    BY <2>1
  <2>2. way \in Seq(Tbl)
    BY <2>a, AddrAssumption
  <2>b. Missing(c) = {i \in DOMAIN way : tree[root[c]].tab[way[i]] = None}
    BY DEF Missing
  <2>c. \A i \in DOMAIN way : i \in Nat /\ way[i] \in Tbl
    <3> HIDE DEF way
    <3> QED
      BY <2>2
  <2>3. Missing(c) # {} /\ Missing(c) \subseteq Nat
    BY <2>b, <2>c DEF MapTable
  <2>4. Min(Missing(c)) \in Missing(c)
    BY <2>3, MinLeast
  <2> QED
    BY <2>b, <2>c, <2>4
<1>p. PICK p \in Page : kalloc(p) /\ tree' = [tree EXCEPT ![root[c]].tab[t] = p]
  BY DEF MapTable
<1> HIDE DEF t, way
<1>b. /\ pc[c] = "table"
      /\ tree' = [tree EXCEPT ![root[c]].tab[t] = p]
      /\ p \in free /\ free' = free \ {p}
      /\ UNCHANGED <<lost, state, parent, pml4, kstack, brk, cr3, proc, pc, op, child, root, elf, todo, page, arg>>
  BY <1>p DEF MapTable, kalloc, Goto, callVars, memVars, tabVars, callVars
<1>c. /\ op[c] # "none" /\ root[c] \in Page /\ root[c] # None
  BY <1>a, <1>b DEF CpuTypes, LocalInv
<1>1. TypeOK'
  <2>1. MemTypes'
    BY <1>a, <1>b, <1>c, <1>t DEF MemTypes
  <2>2. TabTypes'
    BY <1>a, <1>b, <1>c DEF TabTypes
  <2>3. CpuTypes'
    BY <1>a, <1>b, <1>c DEF CpuTypes
  <2>4. ArgTypes'
    BY <1>a, <1>b, <1>c DEF ArgTypes
  <2> QED
    BY <2>1, <2>2, <2>3, <2>4, TypePartsNext
<1>2. LocalInv'
  BY <1>a, <1>b, <1>c DEF CpuTypes, LocalInv
<1>3. SlotInv'
  BY <1>a, <1>b, <1>c DEF TabTypes, CpuTypes, SlotInv
<1>4. RootInv'
  BY <1>a, <1>b, <1>c DEF TabTypes, CpuTypes, LocalInv, RootInv, Unowned
<1>5. OwnSpace'
  BY <1>a, <1>b, <1>c DEF TabTypes, CpuTypes, OwnSpace
<1>6. Roots' = Roots /\ root[c] \in Roots
  <2>1. root[c] \in Roots
    BY <1>a, <1>c, RootsAre DEF RootFacts
  <2> QED
    BY <1>b, <2>1 DEF Roots
<1>u. /\ \A r \in Page : r # root[c] => tree'[r] = tree[r]
      /\ \A va \in VA : tree'[root[c]].leaf[va] = tree[root[c]].leaf[va]
      /\ \A k \in Tbl : k # t => tree'[root[c]].tab[k] = tree[root[c]].tab[k]
      /\ tree'[root[c]].tab[t] = p
      /\ UNCHANGED <<kstack, elf, page>> /\ Roots \subseteq Page
  BY <1>a, <1>b, <1>c, <1>t, RootsAre DEF MemTypes, RootFacts
<1>7. Exclusive' /\ NoLeak' /\ Tidy'
  <2>1. <<"tab", root[c], t>> \in DOMAIN Hold' /\ Hold'[<<"tab", root[c], t>>] = p
    BY <1>a, <1>c, <1>6, <1>t, <1>u, HoldFactsNext DEF HoldFacts, MemTypes
  <2>2. Kept(<<"tab", root[c], t>>)
    BY <1>a, <1>c, <1>6, <1>t, <1>u DEF Kept, MemTypes
  <2>3. Shrunk({})
    BY <1>a, <1>c, <1>6, <1>t, <1>u DEF Shrunk, MemTypes
  <2>4. p # None /\ None \notin free \cup lost
    BY <1>a, <1>b DEF MemTypes
  <2>5. Tidy'
    BY ZenonT(30), <1>a, <1>6, <1>t, <1>u DEF Tidy, EmptyTree
  <2> QED
    BY <1>a, <1>b, <1>1, <2>1, <2>2, <2>3, <2>4, <2>5, AllocKeeps
<1> QED
  BY <1>1, <1>2, <1>3, <1>4, <1>5, <1>7 DEF IInv

(* The page is mapped, over whatever was there. *)
LEMMA MapEntryInv ==
  ASSUME IInv, NEW c \in CPU, calls' \in 0..MaxCalls,
         MapEntry(c)
  PROVE  IInv'
<1> USE Disjoint
<1>a. /\ LocalInv /\ SlotInv /\ RootInv /\ Tidy /\ OwnSpace /\ Exclusive /\ NoLeak
      /\ TypeOK /\ MemTypes /\ TabTypes /\ CpuTypes /\ ArgTypes
  BY TypeParts DEF IInv
<1> DEFINE v == Head(todo[c])
<1>b. /\ pc[c] = "table"
      /\ pc' = [pc EXCEPT ![c] = "map"]
      /\ tree' = [tree EXCEPT ![root[c]].leaf[v] = page[c]]
      /\ lost' = lost \cup ({tree[root[c]].leaf[v]} \ {None})
      /\ todo' = [todo EXCEPT ![c] = Tail(@)]
      /\ page' = [page EXCEPT ![c] = None]
      /\ UNCHANGED <<free, state, parent, pml4, kstack, brk, cr3, proc, op, child, root, elf, arg>>
  BY DEF MapEntry, Goto, memVars, tabVars, callVars
<1>c. /\ op[c] # "none" /\ root[c] \in Page /\ root[c] # None
      /\ page[c] \in Page /\ page[c] # None /\ todo[c] # <<>>
  BY <1>a, <1>b DEF CpuTypes, LocalInv
<1>d. /\ v \in VA /\ todo[c] \in Seq(VA)
  <2>1. todo[c] \in Seq(VA)
    BY <1>a DEF ArgTypes
  <2> QED
    BY <1>c, <2>1
<1> HIDE DEF v
<1>1. TypeOK'
  <2>1. MemTypes'
    <3>1. tree[root[c]].leaf[v] \in Page \cup {None}
      <4>1. tree[root[c]].leaf \in [VA -> Page \cup {None}]
        BY <1>a, <1>c DEF MemTypes
      <4> QED
        BY <1>d, <4>1
    <3>2. lost' \subseteq Page /\ free' \subseteq Page
      BY <1>a, <1>b, <3>1 DEF MemTypes
    <3>3. tree' \in [Page -> [tab : [Tbl -> Page \cup {None}], leaf : [VA -> Page \cup {None}]]]
      BY <1>a, <1>b, <1>c, <1>d DEF MemTypes
    <3> QED
      BY <3>2, <3>3 DEF MemTypes
  <2>2. TabTypes'
    BY <1>a, <1>b, <1>c, <1>d DEF TabTypes
  <2>3. CpuTypes'
    BY <1>a, <1>b, <1>c, <1>d DEF CpuTypes
  <2>4. ArgTypes'
    BY <1>a, <1>b, <1>c, <1>d DEF ArgTypes
  <2> QED
    BY <2>1, <2>2, <2>3, <2>4, TypePartsNext
<1>2. LocalInv'
  BY <1>a, <1>b, <1>c, <1>d DEF CpuTypes, LocalInv
<1>3. SlotInv'
  BY <1>a, <1>b, <1>c, <1>d DEF TabTypes, CpuTypes, SlotInv
<1>4. RootInv'
  BY <1>a, <1>b, <1>c, <1>d DEF TabTypes, CpuTypes, LocalInv, RootInv, Unowned
<1>5. OwnSpace'
  BY <1>a, <1>b, <1>c, <1>d DEF TabTypes, CpuTypes, OwnSpace
<1>6. Roots' = Roots /\ root[c] \in Roots
  <2>1. root[c] \in Roots
    BY <1>a, <1>c, RootsAre DEF RootFacts
  <2> QED
    BY <1>b, <2>1 DEF Roots
<1>7. Exclusive' /\ NoLeak' /\ Tidy'
  <2> DEFINE x == <<"leaf", root[c], v>>
             old == {tree[root[c]].leaf[v]} \ {None}
  <2>1. /\ \A r \in Page : r # root[c] => tree'[r] = tree[r]
        /\ \A k \in Tbl : tree'[root[c]].tab[k] = tree[root[c]].tab[k]
        /\ \A k \in VA : k # v => tree'[root[c]].leaf[k] = tree[root[c]].leaf[k]
        /\ tree'[root[c]].leaf[v] = page[c]
        /\ \A d \in CPU : d # c => page'[d] = page[d]
        /\ page'[c] = None /\ UNCHANGED <<kstack, elf>> /\ Roots \subseteq Page
    BY <1>a, <1>b, <1>c, <1>d, RootsAre DEF MemTypes, CpuTypes, RootFacts
  <2>2. x \in DOMAIN Hold' /\ Hold'[x] = page[c]
    BY <1>d, <1>6, <2>1, HoldFactsNext DEF HoldFacts
  <2>3. Kept(x)
    BY <1>6, <2>1 DEF Kept
  <2>4. Released(page[c]) /\ page[c] # tree[root[c]].leaf[v]
    <3>1. Released(page[c])
      BY <1>c, <2>1, ReleasedIs
    <3>2. <<"page", c>> \in DOMAIN Hold /\ Hold[<<"page", c>>] = page[c]
      BY HoldFactsHold DEF HoldFacts
    <3>3. x \in DOMAIN Hold /\ Hold[x] = tree[root[c]].leaf[v]
      BY <1>d, <1>6, HoldFactsHold DEF HoldFacts
    <3>4. <<"page", c>> # x
      OBVIOUS
    <3> QED
      BY <1>a, <1>c, <3>1, <3>2, <3>3, <3>4 DEF Exclusive
  <2>5. page[c] \notin free \cup lost
    BY <1>a, <1>c, HoldFactsHold DEF HoldFacts, Exclusive
  <2>6. \A q \in old : q # None /\ Released(q) /\ q \notin free
    <3>1. tree[root[c]].leaf[v] # None => tree[root[c]].leaf[v] \notin free
      <4>1. x \in DOMAIN Hold /\ Hold[x] = tree[root[c]].leaf[v]
        BY <1>d, <1>6, HoldFactsHold DEF HoldFacts
      <4> QED
        BY <1>a, <4>1 DEF Exclusive
    <3>2. tree'[root[c]].leaf[v] # tree[root[c]].leaf[v]
      BY <2>1, <2>4
    <3>3. Released(tree[root[c]].leaf[v])
      <4>1. \A r \in Roots, va \in VA :
              tree'[r].leaf[va] # tree[r].leaf[va] => Released(tree[r].leaf[va])
        BY ReleasedIs
      <4> QED
        BY <1>d, <1>6, <3>2, <4>1
    <3> QED
      BY <3>1, <3>3
  <2>7. None \notin free \cup lost
    BY <1>a DEF MemTypes
  <2>8. Exclusive'
    <3>1. free' \cap lost' = {}
      BY <1>a, <1>b, <2>6 DEF Exclusive
    <3>2. Hold'[x] \notin free' \cup lost'
      BY <1>b, <2>2, <2>4, <2>5
    <3>3. \A q \in free' \cup lost' : q # None /\ (q \in free \cup lost \/ Released(q))
      BY <1>b, <2>6, <2>7
    <3> QED
      BY <1>a, <2>2, <2>3, <2>4, <3>1, <3>2, <3>3, KeepExclusive
  <2>9. NoLeak'
    <3>1. Shrunk(old \cup {page[c]})
      BY <1>6, <2>1 DEF Shrunk
    <3>2. Still(page[c])
      BY <1>c, <1>d, <1>6, <2>1, HeldStill
    <3>3. \A q \in old \cup {page[c]} \cup free \cup lost : Still(q)
      BY <1>b, <3>2 DEF Still
    <3> QED
      BY <1>a, <1>1, <3>1, <3>3, ShrunkNoLeak
  <2>10. Tidy'
    BY <1>a, <1>6, <2>1 DEF Tidy, EmptyTree
  <2> QED
    BY <2>8, <2>9, <2>10
<1> QED
  BY <1>1, <1>2, <1>3, <1>4, <1>5, <1>7 DEF IInv

(* The pages of a space. *)
LEMMA SpaceIs ==
  ASSUME TypeOK, Exclusive, NEW r \in Roots
  PROVE  /\ \A p : p \in Space(r) <=> \/ p = r
                                      \/ p # None /\ \E t \in Tbl : tree[r].tab[t] = p
                                      \/ p # None /\ \E va \in VA : tree[r].leaf[va] = p
         /\ \A s \in Slots : kstack[s] # None => kstack[s] \notin Space(r)
         /\ Space(r) \subseteq Page /\ None \notin Space(r)
<1> USE Disjoint
<1>1. r \in Page /\ r # None
  BY RootsAre DEF RootFacts
<1>2. /\ DOMAIN tree[r].tab = Tbl /\ DOMAIN tree[r].leaf = VA
      /\ \A t \in Tbl : tree[r].tab[t] \in Page \cup {None}
      /\ \A va \in VA : tree[r].leaf[va] \in Page \cup {None}
  BY <1>1, TypeParts DEF MemTypes
<1>3. \A p : p \in Space(r) <=> \/ p = r
                                \/ p # None /\ \E t \in Tbl : tree[r].tab[t] = p
                                \/ p # None /\ \E va \in VA : tree[r].leaf[va] = p
  BY <1>2 DEF Space, Present
<1>4. ASSUME NEW s \in Slots, kstack[s] # None
      PROVE  kstack[s] \notin Space(r)
  <2>1. <<"kstack", s>> \in DOMAIN Hold /\ Hold[<<"kstack", s>>] = kstack[s]
    BY HoldFactsHold DEF HoldFacts
  <2>2. kstack[s] # r
    <3>1. <<"pml4", r>> \in DOMAIN Hold /\ Hold[<<"pml4", r>>] = r
      BY HoldFactsHold DEF HoldFacts
    <3> QED
      BY <1>4, <2>1, <3>1 DEF Exclusive
  <2>3. ASSUME NEW t \in Tbl PROVE kstack[s] # tree[r].tab[t]
    <3>1. <<"tab", r, t>> \in DOMAIN Hold /\ Hold[<<"tab", r, t>>] = tree[r].tab[t]
      BY HoldFactsHold DEF HoldFacts
    <3>2. <<"tab", r, t>> # <<"kstack", s>>
      OBVIOUS
    <3> QED
      BY <1>4, <2>1, <3>1, <3>2 DEF Exclusive
  <2>4. ASSUME NEW va \in VA PROVE kstack[s] # tree[r].leaf[va]
    <3>1. <<"leaf", r, va>> \in DOMAIN Hold /\ Hold[<<"leaf", r, va>>] = tree[r].leaf[va]
      BY HoldFactsHold DEF HoldFacts
    <3>2. <<"leaf", r, va>> # <<"kstack", s>>
      OBVIOUS
    <3> QED
      BY <1>4, <2>1, <3>1, <3>2 DEF Exclusive
  <2> QED
    BY <1>3, <2>2, <2>3, <2>4
<1>5. Space(r) \subseteq Page /\ None \notin Space(r)
  <2>1. \A p \in Space(r) : p \in Page /\ p # None
    BY <1>1, <1>2, <1>3
  <2> QED
    BY <2>1
<1> QED
  BY <1>3, <1>4, <1>5

(* When the root of a space goes, the whole space is released. *)
LEMMA SpaceReleased ==
  ASSUME TypeOK, Exclusive, NEW r \in Roots, r \notin Roots'
  PROVE  \A p \in Space(r) : p # None /\ Released(p)
BY SpaceIs, ReleasedIs

(* What goes with a space. *)
LEMMA SpaceGone ==
  ASSUME TypeOK, Exclusive, NEW r \in Roots, Roots' = Roots \ {r},
         \A q \in Roots' : tree'[q] = tree[q], NEW D, Space(r) \subseteq D,
         \A s \in Slots : kstack[s] # None => kstack'[s] = kstack[s] \/ kstack[s] \in D,
         \A c \in CPU : elf[c] # None => elf'[c] = elf[c] \/ elf[c] \in D,
         page' = page
  PROVE  Shrunk(D)
<1>1. \A q \in Roots : q \in Roots' \/ q \in D
  BY SpaceIs
<1>2. ASSUME NEW q \in Roots, NEW t \in Tbl, tree[q].tab[t] # None
      PROVE  (q \in Roots' /\ tree'[q].tab[t] = tree[q].tab[t]) \/ tree[q].tab[t] \in D
  BY <1>2, SpaceIs
<1>3. ASSUME NEW q \in Roots, NEW va \in VA, tree[q].leaf[va] # None
      PROVE  (q \in Roots' /\ tree'[q].leaf[va] = tree[q].leaf[va]) \/ tree[q].leaf[va] \in D
  BY <1>3, SpaceIs
<1> QED
  BY <1>1, <1>2, <1>3 DEF Shrunk

(* The slot a call fills in is only its own. *)
LEMMA ChildFacts ==
  ASSUME TypeOK, SlotInv, NEW c \in CPU, child[c] \in Slots
  PROVE  /\ state[child[c]] = "EMBRYO" /\ kstack[child[c]] \in Page
         /\ \A d \in CPU : proc[d] # child[c]
         /\ \A d \in CPU : d # c => child[d] # child[c]
<1> USE Disjoint
<1>1. state[child[c]] = "EMBRYO"
  BY DEF SlotInv
<1>2. kstack[child[c]] \in Page \cup {None} /\ kstack[child[c]] # None
  BY <1>1, TypeParts DEF SlotInv, TabTypes
<1>3. \A d \in CPU : d # c => child[d] # child[c]
  BY DEF SlotInv
<1>4. \A d \in CPU : proc[d] # child[c]
  BY <1>1 DEF SlotInv
<1> QED
  BY <1>1, <1>2, <1>3, <1>4

(* A kernel stack is not the buffer of a call. *)
LEMMA StackApart ==
  ASSUME Exclusive, NEW s \in Slots, NEW c \in CPU, kstack[s] # None
  PROVE  kstack[s] # elf[c]
<1>1. <<"kstack", s>> \in DOMAIN Hold /\ Hold[<<"kstack", s>>] = kstack[s]
  BY HoldFactsHold DEF HoldFacts
<1>2. <<"elf", c>> \in DOMAIN Hold /\ Hold[<<"elf", c>>] = elf[c]
  BY HoldFactsHold DEF HoldFacts
<1> QED
  BY <1>1, <1>2 DEF Exclusive

(* No slot or no stack: the buffer is freed. *)
LEMMA AllocFailInv ==
  ASSUME IInv, NEW c \in CPU, calls' \in 0..MaxCalls,
         AllocFail(c)
  PROVE  IInv'
<1> USE Disjoint
<1>a. /\ LocalInv /\ SlotInv /\ RootInv /\ Tidy /\ OwnSpace /\ Exclusive /\ NoLeak
      /\ TypeOK /\ MemTypes /\ TabTypes /\ CpuTypes /\ ArgTypes
  BY TypeParts DEF IInv
<1>b. /\ pc[c] = "alloc"
      /\ free' = free \cup ({elf[c]} \ {None})
      /\ pc' = [pc EXCEPT ![c] = IF op[c] = "create" THEN "sched" ELSE "user"]
      /\ op' = [op EXCEPT ![c] = "none"]
      /\ child' = [child EXCEPT ![c] = None]
      /\ root' = [root EXCEPT ![c] = None]
      /\ elf' = [elf EXCEPT ![c] = None]
      /\ todo' = [todo EXCEPT ![c] = <<>>]
      /\ page' = [page EXCEPT ![c] = None]
      /\ arg' = [arg EXCEPT ![c] = None]
      /\ UNCHANGED <<lost, tree, state, parent, pml4, kstack, brk, cr3, proc>>
  BY DEF AllocFail, Return, Goto, memVars, tabVars, callVars
<1>c. /\ op[c] \in {"create", "fork"} /\ child[c] = None /\ root[c] = None /\ page[c] = None
      /\ proc[c] = None <=> op[c] = "create"
  BY <1>a, <1>b DEF CpuTypes, LocalInv
<1>d. /\ elf[c] \in Page \cup {None}
  BY <1>a, <1>b, <1>c DEF TabTypes, CpuTypes, SlotInv, RootInv
<1>1. TypeOK'
  <2>1. MemTypes'
    BY <1>a, <1>b, <1>c, <1>d DEF MemTypes, CpuTypes
  <2>2. TabTypes'
    BY <1>a, <1>b, <1>c, <1>d DEF TabTypes
  <2>3. CpuTypes'
    BY <1>a, <1>b, <1>c, <1>d DEF CpuTypes
  <2>4. ArgTypes'
    BY <1>a, <1>b, <1>c, <1>d DEF ArgTypes
  <2> QED
    BY <2>1, <2>2, <2>3, <2>4, TypePartsNext
<1>2. LocalInv'
  <2>1. \A d \in CPU : d # c => arg'[d] = arg[d] /\ todo'[d] = todo[d]
    BY <1>a, <1>b DEF ArgTypes
  <2> QED
    BY <1>a, <1>b, <1>c, <1>d, <2>1 DEF CpuTypes, LocalInv
<1>3. SlotInv'
  BY <1>a, <1>b, <1>c, <1>d DEF TabTypes, CpuTypes, SlotInv
<1>4. RootInv'
  BY <1>a, <1>b, <1>c, <1>d DEF TabTypes, CpuTypes, LocalInv, RootInv, Unowned
<1>5. OwnSpace'
  BY <1>a, <1>b, <1>c, <1>d DEF TabTypes, CpuTypes, OwnSpace
<1>6. Roots' = Roots
  <2>1. \A d \in CPU : d # c => root'[d] = root[d]
    BY <1>a, <1>b DEF CpuTypes
  <2>2. root'[c] = None /\ (root[c] # None => \E s \in Slots : pml4[s] = root[c])
    BY <1>a, <1>b, <1>c, <1>d DEF CpuTypes
  <2> QED
    BY <1>a, <1>b, <1>d, <1>1, <2>1, <2>2, SameRoots
<1>7. Exclusive' /\ NoLeak' /\ Tidy'
  <2> DEFINE F == {elf[c]} \ {None}
             L == {}
  <2>1. Kept(Nobody)
    BY <1>a, <1>b, <1>c, <1>6 DEF Kept, TabTypes, CpuTypes
  <2>2. Shrunk(F \cup L)
    BY <1>a, <1>b, <1>c, <1>6 DEF Shrunk, TabTypes, CpuTypes
  <2>3. \A p \in F \cup L : p # None /\ Released(p)
    BY <1>a, <1>b, <1>c, ReleasedIs DEF CpuTypes
  <2>4. F \cap L = {}
    OBVIOUS
  <2>5. None \notin free \cup lost
    BY <1>a DEF MemTypes
  <2>6. Tidy'
    BY <1>a, <1>b, <1>c, <1>6 DEF Tidy, EmptyTree
  <2>7. free' = free \cup F /\ lost' = lost \cup L
    BY <1>b
  <2> HIDE DEF F, L
  <2> QED
    BY <1>a, <1>1, <2>1, <2>2, <2>3, <2>4, <2>5, <2>6, <2>7, FreeKeeps
<1> QED
  BY <1>1, <1>2, <1>3, <1>4, <1>5, <1>7 DEF IInv

(* proc_create frees its buffer; init may run. *)
LEMMA CreateDoneInv ==
  ASSUME IInv, NEW c \in CPU, calls' \in 0..MaxCalls,
         CreateDone(c)
  PROVE  IInv'
<1> USE Disjoint
<1>a. /\ LocalInv /\ SlotInv /\ RootInv /\ Tidy /\ OwnSpace /\ Exclusive /\ NoLeak
      /\ TypeOK /\ MemTypes /\ TabTypes /\ CpuTypes /\ ArgTypes
  BY TypeParts DEF IInv
<1>b. /\ pc[c] = "map" /\ op[c] = "create"
      /\ free' = free \cup {elf[c]}
      /\ state' = [state EXCEPT ![child[c]] = "RUNNABLE"]
      /\ parent' = [parent EXCEPT ![child[c]] = None]
      /\ brk' = [brk EXCEPT ![child[c]] = 0]
      /\ pc' = [pc EXCEPT ![c] = "sched"]
      /\ op' = [op EXCEPT ![c] = "none"]
      /\ child' = [child EXCEPT ![c] = None]
      /\ root' = [root EXCEPT ![c] = None]
      /\ elf' = [elf EXCEPT ![c] = None]
      /\ todo' = [todo EXCEPT ![c] = <<>>]
      /\ page' = [page EXCEPT ![c] = None]
      /\ arg' = [arg EXCEPT ![c] = None]
      /\ UNCHANGED <<lost, tree, pml4, kstack, cr3, proc>>
  BY DEF CreateDone, MapDone, Return, Goto, memVars, tabVars, callVars
<1>c. /\ proc[c] = None /\ child[c] \in Slots /\ elf[c] # None /\ page[c] = None /\ root[c] # None
  BY <1>a, <1>b DEF CpuTypes, LocalInv
<1>d. /\ root[c] = pml4[child[c]] /\ state[child[c]] = "EMBRYO" /\ elf[c] \in Page
      /\ \A d \in CPU : proc[d] # child[c]
      /\ \A d \in CPU : d # c => child[d] # child[c]
  BY <1>a, <1>b, <1>c DEF TabTypes, CpuTypes, SlotInv, RootInv
<1>1. TypeOK'
  <2>1. MemTypes'
    BY <1>a, <1>b, <1>c, <1>d DEF MemTypes, CpuTypes
  <2>2. TabTypes'
    BY <1>a, <1>b, <1>c, <1>d DEF TabTypes
  <2>3. CpuTypes'
    BY <1>a, <1>b, <1>c, <1>d DEF CpuTypes
  <2>4. ArgTypes'
    BY <1>a, <1>b, <1>c, <1>d DEF ArgTypes
  <2> QED
    BY <2>1, <2>2, <2>3, <2>4, TypePartsNext
<1>2. LocalInv'
  <2>1. \A d \in CPU : d # c => arg'[d] = arg[d] /\ todo'[d] = todo[d]
    BY <1>a, <1>b DEF ArgTypes
  <2> QED
    BY <1>a, <1>b, <1>c, <1>d, <2>1 DEF CpuTypes, LocalInv
<1>3. SlotInv'
  BY <1>a, <1>b, <1>c, <1>d DEF TabTypes, CpuTypes, SlotInv
<1>4. RootInv'
  BY <1>a, <1>b, <1>c, <1>d DEF TabTypes, CpuTypes, LocalInv, RootInv, Unowned
<1>5. OwnSpace'
  BY <1>a, <1>b, <1>c, <1>d DEF TabTypes, CpuTypes, OwnSpace
<1>6. Roots' = Roots
  <2>1. \A d \in CPU : d # c => root'[d] = root[d]
    BY <1>a, <1>b DEF CpuTypes
  <2>2. root'[c] = None /\ (root[c] # None => \E s \in Slots : pml4[s] = root[c])
    BY <1>a, <1>b, <1>c, <1>d DEF CpuTypes
  <2> QED
    BY <1>a, <1>b, <1>d, <1>1, <2>1, <2>2, SameRoots
<1>7. Exclusive' /\ NoLeak' /\ Tidy'
  <2> DEFINE F == {elf[c]}
             L == {}
  <2>1. Kept(Nobody)
    BY <1>a, <1>b, <1>c, <1>6 DEF Kept, TabTypes, CpuTypes
  <2>2. Shrunk(F \cup L)
    BY <1>a, <1>b, <1>c, <1>6 DEF Shrunk, TabTypes, CpuTypes
  <2>3. \A p \in F \cup L : p # None /\ Released(p)
    BY <1>a, <1>b, <1>c, ReleasedIs DEF CpuTypes
  <2>4. F \cap L = {}
    OBVIOUS
  <2>5. None \notin free \cup lost
    BY <1>a DEF MemTypes
  <2>6. Tidy'
    BY <1>a, <1>b, <1>c, <1>6 DEF Tidy, EmptyTree
  <2>7. free' = free \cup F /\ lost' = lost \cup L
    BY <1>b
  <2> HIDE DEF F, L
  <2> QED
    BY <1>a, <1>1, <2>1, <2>2, <2>3, <2>4, <2>5, <2>6, <2>7, FreeKeeps
<1> QED
  BY <1>1, <1>2, <1>3, <1>4, <1>5, <1>7 DEF IInv

(* No tables for the child: its slot is given back and its stack lost. *)
LEMMA Pml4FailChildInv ==
  ASSUME IInv, NEW c \in CPU, calls' \in 0..MaxCalls,
         Pml4Fail(c), child[c] # None
  PROVE  IInv'
<1> USE Disjoint
<1>a. /\ LocalInv /\ SlotInv /\ RootInv /\ Tidy /\ OwnSpace /\ Exclusive /\ NoLeak
      /\ TypeOK /\ MemTypes /\ TabTypes /\ CpuTypes /\ ArgTypes
  BY TypeParts DEF IInv
<1>b. /\ pc[c] = "pml4"
      /\ free' = free \cup ({elf[c]} \ {None})
      /\ pc' = [pc EXCEPT ![c] = IF op[c] = "create" THEN "sched" ELSE "user"]
      /\ state' = [state EXCEPT ![child[c]] = "UNUSED"]
      /\ pml4' = [pml4 EXCEPT ![child[c]] = None]
      /\ kstack' = [kstack EXCEPT ![child[c]] = None]
      /\ lost' = lost \cup {kstack[child[c]]}
      /\ op' = [op EXCEPT ![c] = "none"]
      /\ child' = [child EXCEPT ![c] = None]
      /\ root' = [root EXCEPT ![c] = None]
      /\ elf' = [elf EXCEPT ![c] = None]
      /\ todo' = [todo EXCEPT ![c] = <<>>]
      /\ page' = [page EXCEPT ![c] = None]
      /\ arg' = [arg EXCEPT ![c] = None]
      /\ UNCHANGED <<tree, parent, brk, cr3, proc>>
  BY DEF Pml4Fail, DropSlot, Return, Goto, memVars, tabVars, callVars
<1>c. /\ op[c] \in {"create", "fork"} /\ child[c] \in Slots /\ root[c] = None /\ page[c] = None
      /\ proc[c] = None <=> op[c] = "create"
  BY <1>a, <1>b DEF CpuTypes, LocalInv
<1>d. /\ pml4' = pml4 /\ elf[c] \in Page \cup {None}
      /\ state[child[c]] = "EMBRYO" /\ kstack[child[c]] \in Page
      /\ \A d \in CPU : proc[d] # child[c]
      /\ \A d \in CPU : d # c => child[d] # child[c]
  <2>1. pml4' = pml4 /\ elf[c] \in Page \cup {None}
    BY <1>a, <1>b, <1>c DEF SlotInv, TabTypes, CpuTypes
  <2> QED
    BY <1>a, <1>c, <2>1, ChildFacts
<1>1. TypeOK'
  <2>1. MemTypes'
    BY <1>a, <1>b, <1>c, <1>d DEF MemTypes, CpuTypes
  <2>2. TabTypes'
    BY <1>a, <1>b, <1>c, <1>d DEF TabTypes
  <2>3. CpuTypes'
    BY <1>a, <1>b, <1>c, <1>d DEF CpuTypes
  <2>4. ArgTypes'
    BY <1>a, <1>b, <1>c, <1>d DEF ArgTypes
  <2> QED
    BY <2>1, <2>2, <2>3, <2>4, TypePartsNext
<1>2. LocalInv'
  <2>1. \A d \in CPU : d # c => arg'[d] = arg[d] /\ todo'[d] = todo[d]
    BY <1>a, <1>b DEF ArgTypes
  <2> QED
    BY <1>a, <1>b, <1>c, <1>d, <2>1 DEF CpuTypes, LocalInv
<1>3. SlotInv'
  BY <1>a, <1>b, <1>c, <1>d DEF TabTypes, CpuTypes, SlotInv
<1>4. RootInv'
  BY <1>a, <1>b, <1>c, <1>d DEF TabTypes, CpuTypes, LocalInv, RootInv, Unowned
<1>5. OwnSpace'
  BY <1>a, <1>b, <1>c, <1>d DEF TabTypes, CpuTypes, OwnSpace
<1>6. Roots' = Roots
  <2>1. \A d \in CPU : d # c => root'[d] = root[d]
    BY <1>a, <1>b DEF CpuTypes
  <2>2. root'[c] = None /\ (root[c] # None => \E s \in Slots : pml4[s] = root[c])
    BY <1>a, <1>b, <1>c, <1>d DEF CpuTypes
  <2> QED
    BY <1>a, <1>b, <1>d, <1>1, <2>1, <2>2, SameRoots
<1>7. Exclusive' /\ NoLeak' /\ Tidy'
  <2> DEFINE F == {elf[c]} \ {None}
             L == {kstack[child[c]]}
  <2>1. Kept(Nobody)
    BY <1>a, <1>b, <1>c, <1>d, <1>6 DEF Kept, TabTypes, CpuTypes
  <2>2. Shrunk(F \cup L)
    BY <1>a, <1>b, <1>c, <1>d, <1>6 DEF Shrunk, TabTypes, CpuTypes
  <2>3. \A p \in F \cup L : p # None /\ Released(p)
    BY <1>a, <1>b, <1>c, <1>d, ReleasedIs DEF CpuTypes, TabTypes
  <2>4. F \cap L = {}
    BY <1>a, <1>c, <1>d, StackApart
  <2>5. None \notin free \cup lost
    BY <1>a DEF MemTypes
  <2>6. Tidy'
    BY <1>a, <1>b, <1>c, <1>d, <1>6 DEF Tidy, EmptyTree
  <2>7. free' = free \cup F /\ lost' = lost \cup L
    BY <1>b
  <2> HIDE DEF F, L
  <2> QED
    BY <1>a, <1>1, <2>1, <2>2, <2>3, <2>4, <2>5, <2>6, <2>7, FreeKeeps
<1> QED
  BY <1>1, <1>2, <1>3, <1>4, <1>5, <1>7 DEF IInv

(* No new tables for exec: only the buffer is freed. *)
LEMMA Pml4FailExecInv ==
  ASSUME IInv, NEW c \in CPU, calls' \in 0..MaxCalls,
         Pml4Fail(c), child[c] = None
  PROVE  IInv'
<1> USE Disjoint
<1>a. /\ LocalInv /\ SlotInv /\ RootInv /\ Tidy /\ OwnSpace /\ Exclusive /\ NoLeak
      /\ TypeOK /\ MemTypes /\ TabTypes /\ CpuTypes /\ ArgTypes
  BY TypeParts DEF IInv
<1>b. /\ pc[c] = "pml4"
      /\ free' = free \cup ({elf[c]} \ {None})
      /\ pc' = [pc EXCEPT ![c] = IF op[c] = "create" THEN "sched" ELSE "user"]
      /\ op' = [op EXCEPT ![c] = "none"]
      /\ child' = [child EXCEPT ![c] = None]
      /\ root' = [root EXCEPT ![c] = None]
      /\ elf' = [elf EXCEPT ![c] = None]
      /\ todo' = [todo EXCEPT ![c] = <<>>]
      /\ page' = [page EXCEPT ![c] = None]
      /\ arg' = [arg EXCEPT ![c] = None]
      /\ UNCHANGED <<lost, tree, state, parent, pml4, kstack, brk, cr3, proc>>
  BY DEF Pml4Fail, DropSlot, Return, Goto, memVars, tabVars, callVars
<1>c. /\ op[c] = "exec" /\ child[c] = None /\ root[c] = None /\ page[c] = None /\ proc[c] \in Slots
  BY <1>a, <1>b DEF CpuTypes, LocalInv
<1>d. /\ elf[c] \in Page \cup {None}
  BY <1>a, <1>b, <1>c DEF TabTypes, CpuTypes, SlotInv, RootInv
<1>1. TypeOK'
  <2>1. MemTypes'
    BY <1>a, <1>b, <1>c, <1>d DEF MemTypes, CpuTypes
  <2>2. TabTypes'
    BY <1>a, <1>b, <1>c, <1>d DEF TabTypes
  <2>3. CpuTypes'
    BY <1>a, <1>b, <1>c, <1>d DEF CpuTypes
  <2>4. ArgTypes'
    BY <1>a, <1>b, <1>c, <1>d DEF ArgTypes
  <2> QED
    BY <2>1, <2>2, <2>3, <2>4, TypePartsNext
<1>2. LocalInv'
  <2>1. \A d \in CPU : d # c => arg'[d] = arg[d] /\ todo'[d] = todo[d]
    BY <1>a, <1>b DEF ArgTypes
  <2> QED
    BY <1>a, <1>b, <1>c, <1>d, <2>1 DEF CpuTypes, LocalInv
<1>3. SlotInv'
  BY <1>a, <1>b, <1>c, <1>d DEF TabTypes, CpuTypes, SlotInv
<1>4. RootInv'
  BY <1>a, <1>b, <1>c, <1>d DEF TabTypes, CpuTypes, LocalInv, RootInv, Unowned
<1>5. OwnSpace'
  BY <1>a, <1>b, <1>c, <1>d DEF TabTypes, CpuTypes, OwnSpace
<1>6. Roots' = Roots
  <2>1. \A d \in CPU : d # c => root'[d] = root[d]
    BY <1>a, <1>b DEF CpuTypes
  <2>2. root'[c] = None /\ (root[c] # None => \E s \in Slots : pml4[s] = root[c])
    BY <1>a, <1>b, <1>c, <1>d DEF CpuTypes
  <2> QED
    BY <1>a, <1>b, <1>d, <1>1, <2>1, <2>2, SameRoots
<1>7. Exclusive' /\ NoLeak' /\ Tidy'
  <2> DEFINE F == {elf[c]} \ {None}
             L == {}
  <2>1. Kept(Nobody)
    BY <1>a, <1>b, <1>c, <1>6 DEF Kept, TabTypes, CpuTypes
  <2>2. Shrunk(F \cup L)
    BY <1>a, <1>b, <1>c, <1>6 DEF Shrunk, TabTypes, CpuTypes
  <2>3. \A p \in F \cup L : p # None /\ Released(p)
    BY <1>a, <1>b, <1>c, ReleasedIs DEF CpuTypes
  <2>4. F \cap L = {}
    OBVIOUS
  <2>5. None \notin free \cup lost
    BY <1>a DEF MemTypes
  <2>6. Tidy'
    BY <1>a, <1>b, <1>c, <1>6 DEF Tidy, EmptyTree
  <2>7. free' = free \cup F /\ lost' = lost \cup L
    BY <1>b
  <2> HIDE DEF F, L
  <2> QED
    BY <1>a, <1>1, <2>1, <2>2, <2>3, <2>4, <2>5, <2>6, <2>7, FreeKeeps
<1> QED
  BY <1>1, <1>2, <1>3, <1>4, <1>5, <1>7 DEF IInv

(* proc_create cannot load the file: everything but the stack is freed. *)
LEMMA LoadFailCreateInv ==
  ASSUME IInv, NEW c \in CPU, calls' \in 0..MaxCalls,
         LoadFail(c), op[c] = "create"
  PROVE  IInv'
<1> USE Disjoint
<1>a. /\ LocalInv /\ SlotInv /\ RootInv /\ Tidy /\ OwnSpace /\ Exclusive /\ NoLeak
      /\ TypeOK /\ MemTypes /\ TabTypes /\ CpuTypes /\ ArgTypes
  BY TypeParts DEF IInv
<1>g. child[c] # None
  BY <1>a DEF LoadFail, LocalInv
<1>b. /\ pc[c] = "map"
      /\ free' = free \cup Space(root[c]) \cup {elf[c]}
      /\ tree' = [tree EXCEPT ![root[c]] = EmptyTree]
      /\ pc' = [pc EXCEPT ![c] = "sched"]
      /\ state' = [state EXCEPT ![child[c]] = "UNUSED"]
      /\ pml4' = [pml4 EXCEPT ![child[c]] = None]
      /\ kstack' = [kstack EXCEPT ![child[c]] = None]
      /\ lost' = lost \cup {kstack[child[c]]}
      /\ op' = [op EXCEPT ![c] = "none"]
      /\ child' = [child EXCEPT ![c] = None]
      /\ root' = [root EXCEPT ![c] = None]
      /\ elf' = [elf EXCEPT ![c] = None]
      /\ todo' = [todo EXCEPT ![c] = <<>>]
      /\ page' = [page EXCEPT ![c] = None]
      /\ arg' = [arg EXCEPT ![c] = None]
      /\ UNCHANGED <<parent, brk, cr3, proc>>
  BY <1>g DEF LoadFail, DropSlot, Return, Goto, memVars, tabVars, callVars
<1>c. /\ proc[c] = None /\ child[c] \in Slots /\ root[c] # None /\ elf[c] # None /\ page[c] = None
  BY <1>a, <1>b DEF CpuTypes, LocalInv
<1>d. /\ pml4[child[c]] = root[c] /\ elf[c] \in Page
      /\ state[child[c]] = "EMBRYO" /\ kstack[child[c]] \in Page
      /\ \A d \in CPU : proc[d] # child[c]
      /\ \A d \in CPU : d # c => child[d] # child[c]
  <2>1. pml4[child[c]] = root[c] /\ elf[c] \in Page
    BY <1>a, <1>b, <1>c DEF RootInv, CpuTypes
  <2> QED
    BY <1>a, <1>c, <2>1, ChildFacts
<1>1. TypeOK'
  <2>1. MemTypes'
    <3>1. root[c] \in Page /\ root[c] \in Roots
      BY <1>a, <1>c, <1>d, RootsAre DEF RootFacts
    <3>2. Space(root[c]) \subseteq Page
      BY <1>a, <3>1, SpaceIs
    <3>3. EmptyTree \in [tab : [Tbl -> Page \cup {None}], leaf : [VA -> Page \cup {None}]]
      BY DEF EmptyTree
    <3>4. tree' \in [Page -> [tab : [Tbl -> Page \cup {None}], leaf : [VA -> Page \cup {None}]]]
      BY <1>a, <1>b, <3>1, <3>3 DEF MemTypes
    <3> QED
      BY <1>a, <1>b, <1>c, <1>d, <3>2, <3>4 DEF MemTypes
  <2>2. TabTypes'
    BY <1>a, <1>b, <1>c, <1>d DEF TabTypes
  <2>3. CpuTypes'
    BY <1>a, <1>b, <1>c, <1>d DEF CpuTypes
  <2>4. ArgTypes'
    BY <1>a, <1>b, <1>c, <1>d DEF ArgTypes
  <2> QED
    BY <2>1, <2>2, <2>3, <2>4, TypePartsNext
<1>2. LocalInv'
  <2>1. \A d \in CPU : d # c => arg'[d] = arg[d] /\ todo'[d] = todo[d]
    BY <1>a, <1>b DEF ArgTypes
  <2> QED
    BY <1>a, <1>b, <1>c, <1>d, <2>1 DEF CpuTypes, LocalInv
<1>3. SlotInv'
  BY <1>a, <1>b, <1>c, <1>d DEF TabTypes, CpuTypes, SlotInv
<1>4. RootInv'
  <2>1. \A d \in CPU : d # c => root'[d] = root[d] /\ proc'[d] # child[c]
    BY <1>a, <1>b, <1>d DEF CpuTypes
  <2> QED
    BY <1>a, <1>b, <1>c, <1>d, <2>1 DEF TabTypes, CpuTypes, LocalInv, RootInv, Unowned
<1>5. OwnSpace'
  BY <1>a, <1>b, <1>c, <1>d DEF TabTypes, CpuTypes, OwnSpace
<1>6. Roots' = Roots \ {root[c]} /\ root[c] \in Roots
  <2>1. root[c] \in Roots /\ root[c] \in Page /\ root[c] # None
    BY <1>a, <1>c, <1>d, RootsAre DEF RootFacts
  <2>2. /\ \A s \in Slots : s # child[c] => pml4[s] # root[c]
        /\ \A d \in CPU : d # c => root[d] # root[c]
    <3>1. /\ root[c] # None /\ pml4[child[c]] = root[c] /\ child[c] \in Slots
          /\ \A d, e \in CPU : root[d] # None /\ root[d] = root[e] => d = e
          /\ \A s, q \in Slots : pml4[s] # None /\ pml4[s] = pml4[q] => s = q
      BY <1>a, <1>c, <1>d, <2>1 DEF RootInv
    <3> QED
      BY <3>1
  <2>3. \A r : r \in Roots' <=> r \in Roots /\ r # root[c]
    BY <1>a, <1>b, <1>c, <1>d, <2>1, <2>2, <1>1, RootsAre, RootsAreNext DEF RootFacts, CpuTypes, TabTypes
  <2> QED
    BY <2>1, <2>3
<1>e. /\ \A r \in Roots' : tree'[r] = tree[r]
      /\ tree'[root[c]] = EmptyTree
      /\ \A r \in Page : r # root[c] => tree'[r] = tree[r]
  BY <1>a, <1>b, <1>6, RootsAre DEF RootFacts, MemTypes
<1>f. /\ Space(root[c]) \subseteq Page
      /\ \A p \in Space(root[c]) : p # None /\ Released(p)
  <2>1. root[c] \notin Roots' /\ root[c] \in Roots
    BY <1>6
  <2>2. \A p \in Space(root[c]) : p # None /\ Released(p)
    BY <1>a, <2>1, SpaceReleased
  <2>3. Space(root[c]) \subseteq Page
    BY <1>a, <2>1, SpaceIs
  <2> QED
    BY <2>2, <2>3
<1>7. Exclusive' /\ NoLeak' /\ Tidy'
  <2> DEFINE F == Space(root[c]) \cup {elf[c]}
             L == {kstack[child[c]]}
  <2>1. Kept(Nobody)
    BY <1>a, <1>b, <1>c, <1>d, <1>6, <1>e, <1>f DEF Kept, TabTypes, CpuTypes
  <2>2. Shrunk(F \cup L)
    <3>1. Space(root[c]) \subseteq F \cup L
      OBVIOUS
    <3>2. \A s \in Slots : kstack[s] # None => kstack'[s] = kstack[s] \/ kstack[s] \in F \cup L
      BY <1>a, <1>b, <1>c, <1>d DEF TabTypes
    <3>3. \A d \in CPU : elf[d] # None => elf'[d] = elf[d] \/ elf[d] \in F \cup L
      BY <1>a, <1>b DEF CpuTypes
    <3>4. page' = page
      BY <1>a, <1>b, <1>c DEF CpuTypes
    <3> HIDE DEF F, L
    <3> QED
      BY <1>a, <1>6, <1>e, <3>1, <3>2, <3>3, <3>4, SpaceGone
  <2>3. \A p \in F \cup L : p # None /\ Released(p)
    BY <1>a, <1>b, <1>c, <1>d, <1>f, ReleasedIs DEF CpuTypes, TabTypes
  <2>4. F \cap L = {}
    <3>1. kstack[child[c]] \notin Space(root[c])
      BY <1>a, <1>c, <1>d, <1>6, SpaceIs
    <3>2. kstack[child[c]] # elf[c]
      BY <1>a, <1>c, <1>d, StackApart
    <3> QED
      BY <3>1, <3>2
  <2>5. None \notin free \cup lost
    BY <1>a DEF MemTypes
  <2>6. Tidy'
    BY <1>a, <1>6, <1>e DEF Tidy, EmptyTree
  <2>7. free' = free \cup F /\ lost' = lost \cup L
    BY <1>b
  <2> HIDE DEF F, L
  <2> QED
    BY <1>a, <1>1, <2>1, <2>2, <2>3, <2>4, <2>5, <2>6, <2>7, FreeKeeps
<1> QED
  BY <1>1, <1>2, <1>3, <1>4, <1>5, <1>7 DEF IInv

(* proc_exec cannot load the file: the new space is freed. *)
LEMMA LoadFailExecInv ==
  ASSUME IInv, NEW c \in CPU, calls' \in 0..MaxCalls,
         LoadFail(c), op[c] = "exec"
  PROVE  IInv'
<1> USE Disjoint
<1>a. /\ LocalInv /\ SlotInv /\ RootInv /\ Tidy /\ OwnSpace /\ Exclusive /\ NoLeak
      /\ TypeOK /\ MemTypes /\ TabTypes /\ CpuTypes /\ ArgTypes
  BY TypeParts DEF IInv
<1>g. child[c] = None
  BY <1>a DEF LoadFail, LocalInv
<1>b. /\ pc[c] = "map"
      /\ free' = free \cup Space(root[c]) \cup {elf[c]}
      /\ tree' = [tree EXCEPT ![root[c]] = EmptyTree]
      /\ pc' = [pc EXCEPT ![c] = "user"]
      /\ op' = [op EXCEPT ![c] = "none"]
      /\ child' = [child EXCEPT ![c] = None]
      /\ root' = [root EXCEPT ![c] = None]
      /\ elf' = [elf EXCEPT ![c] = None]
      /\ todo' = [todo EXCEPT ![c] = <<>>]
      /\ page' = [page EXCEPT ![c] = None]
      /\ arg' = [arg EXCEPT ![c] = None]
      /\ UNCHANGED <<lost, state, parent, pml4, kstack, brk, cr3, proc>>
  BY <1>g DEF LoadFail, DropSlot, Return, Goto, memVars, tabVars, callVars
<1>c. /\ proc[c] \in Slots /\ child[c] = None /\ root[c] # None /\ elf[c] # None /\ page[c] = None
  BY <1>a, <1>b DEF CpuTypes, LocalInv
<1>d. /\ Unowned(root[c]) /\ elf[c] \in Page
  BY <1>a, <1>b, <1>c DEF RootInv, CpuTypes
<1>1. TypeOK'
  <2>1. MemTypes'
    <3>1. root[c] \in Page /\ root[c] \in Roots
      BY <1>a, <1>c, <1>d, RootsAre DEF RootFacts
    <3>2. Space(root[c]) \subseteq Page
      BY <1>a, <3>1, SpaceIs
    <3>3. EmptyTree \in [tab : [Tbl -> Page \cup {None}], leaf : [VA -> Page \cup {None}]]
      BY DEF EmptyTree
    <3>4. tree' \in [Page -> [tab : [Tbl -> Page \cup {None}], leaf : [VA -> Page \cup {None}]]]
      BY <1>a, <1>b, <3>1, <3>3 DEF MemTypes
    <3> QED
      BY <1>a, <1>b, <1>c, <1>d, <3>2, <3>4 DEF MemTypes
  <2>2. TabTypes'
    BY <1>a, <1>b, <1>c, <1>d DEF TabTypes
  <2>3. CpuTypes'
    BY <1>a, <1>b, <1>c, <1>d DEF CpuTypes
  <2>4. ArgTypes'
    BY <1>a, <1>b, <1>c, <1>d DEF ArgTypes
  <2> QED
    BY <2>1, <2>2, <2>3, <2>4, TypePartsNext
<1>2. LocalInv'
  <2>1. \A d \in CPU : d # c => arg'[d] = arg[d] /\ todo'[d] = todo[d]
    BY <1>a, <1>b DEF ArgTypes
  <2> QED
    BY <1>a, <1>b, <1>c, <1>d, <2>1 DEF CpuTypes, LocalInv
<1>3. SlotInv'
  BY <1>a, <1>b, <1>c, <1>d DEF TabTypes, CpuTypes, SlotInv
<1>4. RootInv'
  BY <1>a, <1>b, <1>c, <1>d DEF TabTypes, CpuTypes, LocalInv, RootInv, Unowned
<1>5. OwnSpace'
  BY <1>a, <1>b, <1>c, <1>d DEF TabTypes, CpuTypes, OwnSpace
<1>6. Roots' = Roots \ {root[c]} /\ root[c] \in Roots
  <2>1. root[c] \in Roots /\ root[c] \in Page /\ root[c] # None
    BY <1>a, <1>c, RootsAre DEF RootFacts
  <2>2. \A d \in CPU : d # c => root[d] # root[c]
    BY <1>a, <1>c DEF RootInv
  <2>3. \A r : r \in Roots' <=> r \in Roots /\ r # root[c]
    BY <1>a, <1>b, <1>c, <1>d, <2>1, <2>2, <1>1, RootsAre, RootsAreNext DEF RootFacts, Unowned, CpuTypes, TabTypes
  <2> QED
    BY <2>1, <2>3
<1>e. /\ \A r \in Roots' : tree'[r] = tree[r]
      /\ tree'[root[c]] = EmptyTree
      /\ \A r \in Page : r # root[c] => tree'[r] = tree[r]
  BY <1>a, <1>b, <1>6, RootsAre DEF RootFacts, MemTypes
<1>f. /\ Space(root[c]) \subseteq Page
      /\ \A p \in Space(root[c]) : p # None /\ Released(p)
  <2>1. root[c] \notin Roots' /\ root[c] \in Roots
    BY <1>6
  <2>2. \A p \in Space(root[c]) : p # None /\ Released(p)
    BY <1>a, <2>1, SpaceReleased
  <2>3. Space(root[c]) \subseteq Page
    BY <1>a, <2>1, SpaceIs
  <2> QED
    BY <2>2, <2>3
<1>7. Exclusive' /\ NoLeak' /\ Tidy'
  <2> DEFINE F == Space(root[c]) \cup {elf[c]}
             L == {}
  <2>1. Kept(Nobody)
    BY <1>a, <1>b, <1>c, <1>d, <1>6, <1>e, <1>f DEF Kept, TabTypes, CpuTypes
  <2>2. Shrunk(F \cup L)
    <3>1. Space(root[c]) \subseteq F \cup L
      OBVIOUS
    <3>2. \A s \in Slots : kstack[s] # None => kstack'[s] = kstack[s] \/ kstack[s] \in F \cup L
      BY <1>a, <1>b, <1>c, <1>d DEF TabTypes
    <3>3. \A d \in CPU : elf[d] # None => elf'[d] = elf[d] \/ elf[d] \in F \cup L
      BY <1>a, <1>b DEF CpuTypes
    <3>4. page' = page
      BY <1>a, <1>b, <1>c DEF CpuTypes
    <3> HIDE DEF F, L
    <3> QED
      BY <1>a, <1>6, <1>e, <3>1, <3>2, <3>3, <3>4, SpaceGone
  <2>3. \A p \in F \cup L : p # None /\ Released(p)
    BY <1>a, <1>b, <1>c, <1>d, <1>f, ReleasedIs DEF CpuTypes, TabTypes
  <2>4. F \cap L = {}
    OBVIOUS
  <2>5. None \notin free \cup lost
    BY <1>a DEF MemTypes
  <2>6. Tidy'
    BY <1>a, <1>6, <1>e DEF Tidy, EmptyTree
  <2>7. free' = free \cup F /\ lost' = lost \cup L
    BY <1>b
  <2> HIDE DEF F, L
  <2> QED
    BY <1>a, <1>1, <2>1, <2>2, <2>3, <2>4, <2>5, <2>6, <2>7, FreeKeeps
<1> QED
  BY <1>1, <1>2, <1>3, <1>4, <1>5, <1>7 DEF IInv

(* exec replaces the space it runs in and frees the old one. *)
LEMMA ExecFreeInv ==
  ASSUME IInv, NEW c \in CPU, calls' \in 0..MaxCalls,
         ExecFree(c)
  PROVE  IInv'
<1> USE Disjoint
<1>a. /\ LocalInv /\ SlotInv /\ RootInv /\ Tidy /\ OwnSpace /\ Exclusive /\ NoLeak
      /\ TypeOK /\ MemTypes /\ TabTypes /\ CpuTypes /\ ArgTypes
  BY TypeParts DEF IInv
<1>b. /\ pc[c] = "map" /\ op[c] = "exec"
      /\ free' = free \cup {elf[c]} \cup Space(pml4[proc[c]])
      /\ tree' = [tree EXCEPT ![pml4[proc[c]]] = EmptyTree]
      /\ brk' = [brk EXCEPT ![proc[c]] = 0]
      /\ pml4' = [pml4 EXCEPT ![proc[c]] = root[c]]
      /\ elf' = [elf EXCEPT ![c] = None]
      /\ pc' = [pc EXCEPT ![c] = "lcr3"]
      /\ UNCHANGED <<lost, state, parent, kstack, cr3, proc, op, child, root, todo, page, arg>>
  BY DEF ExecFree, MapDone, Own, Goto, memVars, tabVars, callVars
<1>c. /\ proc[c] \in Slots /\ child[c] = None /\ root[c] # None /\ elf[c] # None /\ page[c] = None
  BY <1>a, <1>b DEF CpuTypes, LocalInv
<1>d. /\ state[proc[c]] = "RUNNING" /\ pml4[proc[c]] \in Page /\ pml4[proc[c]] # None
      /\ Unowned(root[c]) /\ root[c] \in Page /\ elf[c] \in Page
      /\ \A d \in CPU : d # c => root[d] # root[c] /\ proc[d] # proc[c]
      /\ \A d \in CPU : child[d] # proc[c]
  <2>1. state[proc[c]] = "RUNNING"
    BY <1>a, <1>c DEF SlotInv
  <2>2. pml4[proc[c]] # None
    BY <1>a, <1>c, <2>1 DEF SlotInv
  <2>3. Unowned(root[c])
    BY <1>a, <1>b, <1>c DEF RootInv
  <2>4. \A d \in CPU : d # c => root[d] # root[c]
    BY <1>a, <1>c DEF RootInv
  <2>5. \A d \in CPU : child[d] # proc[c]
    BY <1>a, <1>c, <2>1 DEF SlotInv
  <2>6. \A d \in CPU : d # c => proc[d] # proc[c]
    BY <1>a, <1>c DEF SlotInv
  <2> QED
    BY <1>a, <1>c, <2>1, <2>2, <2>3, <2>4, <2>5, <2>6 DEF TabTypes, CpuTypes
<1>1. TypeOK'
  <2>1. MemTypes'
    <3>1. pml4[proc[c]] \in Page /\ pml4[proc[c]] \in Roots
      BY <1>a, <1>c, <1>d, RootsAre DEF RootFacts
    <3>2. Space(pml4[proc[c]]) \subseteq Page
      BY <1>a, <3>1, SpaceIs
    <3>3. EmptyTree \in [tab : [Tbl -> Page \cup {None}], leaf : [VA -> Page \cup {None}]]
      BY DEF EmptyTree
    <3>4. tree' \in [Page -> [tab : [Tbl -> Page \cup {None}], leaf : [VA -> Page \cup {None}]]]
      BY <1>a, <1>b, <3>1, <3>3 DEF MemTypes
    <3> QED
      BY <1>a, <1>b, <1>c, <1>d, <3>2, <3>4 DEF MemTypes
  <2>2. TabTypes'
    BY <1>a, <1>b, <1>c, <1>d DEF TabTypes
  <2>3. CpuTypes'
    BY <1>a, <1>b, <1>c, <1>d DEF CpuTypes
  <2>4. ArgTypes'
    BY <1>a, <1>b, <1>c, <1>d DEF ArgTypes
  <2> QED
    BY <2>1, <2>2, <2>3, <2>4, TypePartsNext
<1>2. LocalInv'
  BY <1>a, <1>b, <1>c, <1>d DEF CpuTypes, LocalInv
<1>3. SlotInv'
  BY <1>a, <1>b, <1>c, <1>d DEF TabTypes, CpuTypes, SlotInv
<1>4. RootInv'
  BY <1>a, <1>b, <1>c, <1>d DEF TabTypes, CpuTypes, LocalInv, RootInv, Unowned
<1>5. OwnSpace'
  BY <1>a, <1>b, <1>c, <1>d DEF TabTypes, CpuTypes, OwnSpace
<1>6. Roots' = Roots \ {pml4[proc[c]]} /\ pml4[proc[c]] \in Roots
  <2>1. pml4[proc[c]] \in Roots /\ pml4[proc[c]] \in Page /\ pml4[proc[c]] # None
    BY <1>a, <1>c, <1>d, RootsAre DEF RootFacts
  <2>2. /\ \A d \in CPU : root[d] # pml4[proc[c]]
        /\ \A s \in Slots : s # proc[c] => pml4[s] # pml4[proc[c]]
    <3>1. \A s \in Slots : s # proc[c] => pml4[s] # pml4[proc[c]]
      BY <1>a, <1>c, <1>d DEF RootInv
    <3>2. ASSUME NEW d \in CPU, root[d] = pml4[proc[c]] PROVE FALSE
      <4>1. op[d] \in {"brk", "exec"} /\ proc[d] = proc[c] /\ state[proc[c]] = "RUNNING"
        BY <1>a, <1>c, <1>d, <3>2, RootOwner
      <4> QED
        BY <1>a, <1>c, <1>d, <3>2, <4>1 DEF Unowned
    <3> QED
      BY <3>1, <3>2
  <2>3. \A r : r \in Roots' <=> r \in Roots /\ r # pml4[proc[c]]
    BY <1>a, <1>b, <1>c, <1>d, <2>1, <2>2, <1>1, RootsAre, RootsAreNext DEF RootFacts, Unowned, CpuTypes, TabTypes
  <2> QED
    BY <2>1, <2>3
<1>e. /\ \A r \in Roots' : tree'[r] = tree[r]
      /\ tree'[pml4[proc[c]]] = EmptyTree
      /\ \A r \in Page : r # pml4[proc[c]] => tree'[r] = tree[r]
  BY <1>a, <1>b, <1>6, RootsAre DEF RootFacts, MemTypes
<1>f. /\ Space(pml4[proc[c]]) \subseteq Page
      /\ \A p \in Space(pml4[proc[c]]) : p # None /\ Released(p)
  <2>1. pml4[proc[c]] \notin Roots' /\ pml4[proc[c]] \in Roots
    BY <1>6
  <2>2. \A p \in Space(pml4[proc[c]]) : p # None /\ Released(p)
    BY <1>a, <2>1, SpaceReleased
  <2>3. Space(pml4[proc[c]]) \subseteq Page
    BY <1>a, <2>1, SpaceIs
  <2> QED
    BY <2>2, <2>3
<1>7. Exclusive' /\ NoLeak' /\ Tidy'
  <2> DEFINE F == {elf[c]} \cup Space(pml4[proc[c]])
             L == {}
  <2>1. Kept(Nobody)
    BY <1>a, <1>b, <1>c, <1>d, <1>6, <1>e, <1>f DEF Kept, TabTypes, CpuTypes
  <2>2. Shrunk(F \cup L)
    <3>1. Space(pml4[proc[c]]) \subseteq F \cup L
      OBVIOUS
    <3>2. \A s \in Slots : kstack[s] # None => kstack'[s] = kstack[s] \/ kstack[s] \in F \cup L
      BY <1>a, <1>b, <1>c, <1>d DEF TabTypes
    <3>3. \A d \in CPU : elf[d] # None => elf'[d] = elf[d] \/ elf[d] \in F \cup L
      BY <1>a, <1>b DEF CpuTypes
    <3>4. page' = page
      BY <1>a, <1>b, <1>c DEF CpuTypes
    <3> HIDE DEF F, L
    <3> QED
      BY <1>a, <1>6, <1>e, <3>1, <3>2, <3>3, <3>4, SpaceGone
  <2>3. \A p \in F \cup L : p # None /\ Released(p)
    BY <1>a, <1>b, <1>c, <1>d, <1>f, ReleasedIs DEF CpuTypes, TabTypes
  <2>4. F \cap L = {}
    OBVIOUS
  <2>5. None \notin free \cup lost
    BY <1>a DEF MemTypes
  <2>6. Tidy'
    BY <1>a, <1>6, <1>e DEF Tidy, EmptyTree
  <2>7. free' = free \cup F /\ lost' = lost \cup L
    BY <1>b
  <2> HIDE DEF F, L
  <2> QED
    BY <1>a, <1>1, <2>1, <2>2, <2>3, <2>4, <2>5, <2>6, <2>7, FreeKeeps
<1> QED
  BY <1>1, <1>2, <1>3, <1>4, <1>5, <1>7 DEF IInv

(* A zombie is reaped: its space and its stack are freed. *)
LEMMA WaitInv ==
  ASSUME IInv, NEW c \in CPU, NEW z \in Slots, calls' \in 0..MaxCalls,
         sys_wait(c, z)
  PROVE  IInv'
<1> USE Disjoint
<1>a. /\ LocalInv /\ SlotInv /\ RootInv /\ Tidy /\ OwnSpace /\ Exclusive /\ NoLeak
      /\ TypeOK /\ MemTypes /\ TabTypes /\ CpuTypes /\ ArgTypes
  BY TypeParts DEF IInv
<1>b. /\ pc[c] = "user" /\ state[z] = "ZOMBIE"
      /\ free' = free \cup Space(pml4[z]) \cup {kstack[z]}
      /\ tree' = [tree EXCEPT ![pml4[z]] = EmptyTree]
      /\ pml4' = [pml4 EXCEPT ![z] = None]
      /\ kstack' = [kstack EXCEPT ![z] = None]
      /\ state' = [state EXCEPT ![z] = "UNUSED"]
      /\ parent' = [s \in Slots |-> IF s = z \/ parent[s] = z THEN None ELSE parent[s]]
      /\ UNCHANGED <<lost, brk, cr3, proc, pc, op, child, root, elf, todo, page, arg>>
  BY DEF sys_wait, memVars, tabVars, callVars
<1>c. /\ proc[c] \in Slots
  BY <1>a, <1>b DEF CpuTypes, LocalInv
<1>d. /\ pml4[z] \in Page /\ pml4[z] # None /\ kstack[z] \in Page /\ kstack[z] # None
      /\ \A d \in CPU : proc[d] # z /\ child[d] # z
  <2>1. pml4[z] # None /\ kstack[z] # None
    BY <1>a, <1>b DEF SlotInv
  <2>2. \A d \in CPU : proc[d] # z /\ child[d] # z
    BY <1>a, <1>b DEF SlotInv
  <2>3. pml4[z] \in Page \cup {None} /\ kstack[z] \in Page \cup {None}
    BY <1>a DEF TabTypes
  <2> QED
    BY <2>1, <2>2, <2>3
<1>1. TypeOK'
  <2>1. MemTypes'
    <3>1. pml4[z] \in Page /\ pml4[z] \in Roots
      BY <1>a, <1>c, <1>d, RootsAre DEF RootFacts
    <3>2. Space(pml4[z]) \subseteq Page
      BY <1>a, <3>1, SpaceIs
    <3>3. EmptyTree \in [tab : [Tbl -> Page \cup {None}], leaf : [VA -> Page \cup {None}]]
      BY DEF EmptyTree
    <3>4. tree' \in [Page -> [tab : [Tbl -> Page \cup {None}], leaf : [VA -> Page \cup {None}]]]
      BY <1>a, <1>b, <3>1, <3>3 DEF MemTypes
    <3> QED
      BY <1>a, <1>b, <1>c, <1>d, <3>2, <3>4 DEF MemTypes
  <2>2. TabTypes'
    BY <1>a, <1>b, <1>c, <1>d DEF TabTypes
  <2>3. CpuTypes'
    BY <1>a, <1>b, <1>c, <1>d DEF CpuTypes
  <2>4. ArgTypes'
    BY <1>a, <1>b, <1>c, <1>d DEF ArgTypes
  <2> QED
    BY <2>1, <2>2, <2>3, <2>4, TypePartsNext
<1>2. LocalInv'
  BY <1>a, <1>b, <1>c, <1>d DEF CpuTypes, LocalInv
<1>3. SlotInv'
  BY <1>a, <1>b, <1>c, <1>d DEF TabTypes, CpuTypes, SlotInv
<1>4. RootInv'
  BY <1>a, <1>b, <1>c, <1>d DEF TabTypes, CpuTypes, LocalInv, RootInv, Unowned
<1>5. OwnSpace'
  BY <1>a, <1>b, <1>c, <1>d DEF TabTypes, CpuTypes, OwnSpace
<1>6. Roots' = Roots \ {pml4[z]} /\ pml4[z] \in Roots
  <2>1. pml4[z] \in Roots /\ pml4[z] \in Page /\ pml4[z] # None
    BY <1>a, <1>c, <1>d, RootsAre DEF RootFacts
  <2>2. /\ \A d \in CPU : root[d] # pml4[z]
        /\ \A s \in Slots : s # z => pml4[s] # pml4[z]
    <3>1. \A s \in Slots : s # z => pml4[s] # pml4[z]
      BY <1>a, <1>c, <1>d DEF RootInv
    <3>2. ASSUME NEW d \in CPU, root[d] = pml4[z] PROVE FALSE
      <4>1. op[d] \in {"brk", "exec"} /\ proc[d] = z /\ state[z] = "RUNNING"
        BY <1>a, <1>c, <1>d, <3>2, RootOwner
      <4> QED
        BY <1>b, <4>1
    <3> QED
      BY <3>1, <3>2
  <2>3. \A r : r \in Roots' <=> r \in Roots /\ r # pml4[z]
    BY <1>a, <1>b, <1>c, <1>d, <2>1, <2>2, <1>1, RootsAre, RootsAreNext DEF RootFacts, CpuTypes, TabTypes
  <2> QED
    BY <2>1, <2>3
<1>e. /\ \A r \in Roots' : tree'[r] = tree[r]
      /\ tree'[pml4[z]] = EmptyTree
      /\ \A r \in Page : r # pml4[z] => tree'[r] = tree[r]
  BY <1>a, <1>b, <1>6, RootsAre DEF RootFacts, MemTypes
<1>f. /\ Space(pml4[z]) \subseteq Page
      /\ \A p \in Space(pml4[z]) : p # None /\ Released(p)
  <2>1. pml4[z] \notin Roots' /\ pml4[z] \in Roots
    BY <1>6
  <2>2. \A p \in Space(pml4[z]) : p # None /\ Released(p)
    BY <1>a, <2>1, SpaceReleased
  <2>3. Space(pml4[z]) \subseteq Page
    BY <1>a, <2>1, SpaceIs
  <2> QED
    BY <2>2, <2>3
<1>7. Exclusive' /\ NoLeak' /\ Tidy'
  <2> DEFINE F == Space(pml4[z]) \cup {kstack[z]}
             L == {}
  <2>1. Kept(Nobody)
    BY <1>a, <1>b, <1>c, <1>d, <1>6, <1>e, <1>f DEF Kept, TabTypes, CpuTypes
  <2>2. Shrunk(F \cup L)
    <3>1. Space(pml4[z]) \subseteq F \cup L
      OBVIOUS
    <3>2. \A s \in Slots : kstack[s] # None => kstack'[s] = kstack[s] \/ kstack[s] \in F \cup L
      BY <1>a, <1>b, <1>c, <1>d DEF TabTypes
    <3>3. \A d \in CPU : elf[d] # None => elf'[d] = elf[d] \/ elf[d] \in F \cup L
      BY <1>a, <1>b DEF CpuTypes
    <3>4. page' = page
      BY <1>a, <1>b, <1>c DEF CpuTypes
    <3> HIDE DEF F, L
    <3> QED
      BY <1>a, <1>6, <1>e, <3>1, <3>2, <3>3, <3>4, SpaceGone
  <2>3. \A p \in F \cup L : p # None /\ Released(p)
    BY <1>a, <1>b, <1>c, <1>d, <1>f, ReleasedIs DEF CpuTypes, TabTypes
  <2>4. F \cap L = {}
    OBVIOUS
  <2>5. None \notin free \cup lost
    BY <1>a DEF MemTypes
  <2>6. Tidy'
    BY <1>a, <1>6, <1>e DEF Tidy, EmptyTree
  <2>7. free' = free \cup F /\ lost' = lost \cup L
    BY <1>b
  <2> HIDE DEF F, L
  <2> QED
    BY <1>a, <1>1, <2>1, <2>2, <2>3, <2>4, <2>5, <2>6, <2>7, FreeKeeps
<1> QED
  BY <1>1, <1>2, <1>3, <1>4, <1>5, <1>7 DEF IInv

(* exec loads the new tables and returns. *)
LEMMA Lcr3Inv ==
  ASSUME IInv, NEW c \in CPU, calls' \in 0..MaxCalls,
         ExecLcr3(c), tree[Own(c)].leaf[arg[c]] # None
  PROVE  IInv'
<1> USE Disjoint
<1>a. /\ LocalInv /\ SlotInv /\ RootInv /\ Tidy /\ OwnSpace /\ Exclusive /\ NoLeak
      /\ TypeOK /\ MemTypes /\ TabTypes /\ CpuTypes /\ ArgTypes
  BY TypeParts DEF IInv
<1>g. op[c] = "exec"
  BY <1>a DEF ExecLcr3, LocalInv
<1>b. /\ pc[c] = "lcr3"
      /\ cr3' = [cr3 EXCEPT ![c] = pml4[proc[c]]]
      /\ pc' = [pc EXCEPT ![c] = "user"]
      /\ op' = [op EXCEPT ![c] = "none"]
      /\ child' = [child EXCEPT ![c] = None]
      /\ root' = [root EXCEPT ![c] = None]
      /\ elf' = [elf EXCEPT ![c] = None]
      /\ todo' = [todo EXCEPT ![c] = <<>>]
      /\ page' = [page EXCEPT ![c] = None]
      /\ arg' = [arg EXCEPT ![c] = None]
      /\ UNCHANGED <<free, lost, tree, state, parent, pml4, kstack, brk, proc>>
  BY <1>g DEF ExecLcr3, Own, Return, Goto, memVars, tabVars, callVars
<1>c. /\ op[c] = "exec" /\ proc[c] \in Slots /\ child[c] = None /\ elf[c] = None /\ page[c] = None /\ root[c] # None
  BY <1>a, <1>b DEF CpuTypes, LocalInv
<1>d. /\ root[c] = pml4[proc[c]] /\ pml4[proc[c]] \in Page
  BY <1>a, <1>b, <1>c DEF TabTypes, CpuTypes, SlotInv, RootInv
<1>1. TypeOK'
  <2>1. MemTypes'
    BY <1>a, <1>b, <1>c, <1>d DEF MemTypes
  <2>2. TabTypes'
    BY <1>a, <1>b, <1>c, <1>d DEF TabTypes
  <2>3. CpuTypes'
    BY <1>a, <1>b, <1>c, <1>d DEF CpuTypes
  <2>4. ArgTypes'
    BY <1>a, <1>b, <1>c, <1>d DEF ArgTypes
  <2> QED
    BY <2>1, <2>2, <2>3, <2>4, TypePartsNext
<1>2. LocalInv'
  <2>1. \A d \in CPU : d # c => arg'[d] = arg[d] /\ todo'[d] = todo[d]
    BY <1>a, <1>b DEF ArgTypes
  <2> QED
    BY <1>a, <1>b, <1>c, <1>d, <2>1 DEF CpuTypes, LocalInv
<1>3. SlotInv'
  BY <1>a, <1>b, <1>c, <1>d DEF TabTypes, CpuTypes, SlotInv
<1>4. RootInv'
  BY <1>a, <1>b, <1>c, <1>d DEF TabTypes, CpuTypes, LocalInv, RootInv, Unowned
<1>5. OwnSpace'
  BY <1>a, <1>b, <1>c, <1>d DEF TabTypes, CpuTypes, OwnSpace
<1>6. Roots' = Roots
  <2>1. \A d \in CPU : d # c => root'[d] = root[d]
    BY <1>a, <1>b DEF CpuTypes
  <2>2. root'[c] = None /\ (root[c] # None => \E s \in Slots : pml4[s] = root[c])
    BY <1>a, <1>b, <1>c, <1>d DEF CpuTypes
  <2> QED
    BY <1>a, <1>b, <1>d, <1>1, <2>1, <2>2, SameRoots
<1>7. Exclusive' /\ NoLeak' /\ Tidy'
  <2>1. elf' = elf /\ page' = page
    BY <1>a, <1>b, <1>c DEF CpuTypes
  <2> QED
    BY <1>a, <1>b, <2>1, <1>6, SameHolders
<1> QED
  BY <1>1, <1>2, <1>3, <1>4, <1>5, <1>7 DEF IInv

(* exec loads the new tables, in which its path is not mapped. *)
LEMMA Lcr3FaultInv ==
  ASSUME IInv, NEW c \in CPU, calls' \in 0..MaxCalls,
         ExecLcr3(c), tree[Own(c)].leaf[arg[c]] = None
  PROVE  IInv'
<1> USE Disjoint
<1>a. /\ LocalInv /\ SlotInv /\ RootInv /\ Tidy /\ OwnSpace /\ Exclusive /\ NoLeak
      /\ TypeOK /\ MemTypes /\ TabTypes /\ CpuTypes /\ ArgTypes
  BY TypeParts DEF IInv
<1>b. /\ pc[c] = "lcr3"
      /\ cr3' = [cr3 EXCEPT ![c] = pml4[proc[c]]]
      /\ pc' = [pc EXCEPT ![c] = "panic"]
      /\ UNCHANGED <<free, lost, tree, state, parent, pml4, kstack, brk, proc, op, child, root, elf, todo, page, arg>>
  BY DEF ExecLcr3, Own, Goto, memVars, tabVars, callVars
<1>c. /\ op[c] = "exec" /\ proc[c] \in Slots /\ root[c] # None
  BY <1>a, <1>b DEF CpuTypes, LocalInv
<1>d. /\ root[c] = pml4[proc[c]] /\ pml4[proc[c]] \in Page
  BY <1>a, <1>b, <1>c DEF TabTypes, CpuTypes, SlotInv, RootInv
<1>1. TypeOK'
  <2>1. MemTypes'
    BY <1>a, <1>b, <1>c, <1>d DEF MemTypes
  <2>2. TabTypes'
    BY <1>a, <1>b, <1>c, <1>d DEF TabTypes
  <2>3. CpuTypes'
    BY <1>a, <1>b, <1>c, <1>d DEF CpuTypes
  <2>4. ArgTypes'
    BY <1>a, <1>b, <1>c, <1>d DEF ArgTypes
  <2> QED
    BY <2>1, <2>2, <2>3, <2>4, TypePartsNext
<1>2. LocalInv'
  BY <1>a, <1>b, <1>c, <1>d DEF CpuTypes, LocalInv
<1>3. SlotInv'
  BY <1>a, <1>b, <1>c, <1>d DEF TabTypes, CpuTypes, SlotInv
<1>4. RootInv'
  BY <1>a, <1>b, <1>c, <1>d DEF TabTypes, CpuTypes, LocalInv, RootInv, Unowned
<1>5. OwnSpace'
  BY <1>a, <1>b, <1>c, <1>d DEF TabTypes, CpuTypes, OwnSpace
<1>6. Roots' = Roots
  BY <1>b DEF Roots
<1>7. Exclusive' /\ NoLeak' /\ Tidy'
  BY <1>a, <1>b, <1>6, SameHolders
<1> QED
  BY <1>1, <1>2, <1>3, <1>4, <1>5, <1>7 DEF IInv

-----------------------------------------------------------------------------
(* Theorems *)

(* The invariant is inductive. *)
LEMMA NextInv == IInv /\ [Next]_vars => IInv'
<1> SUFFICES ASSUME IInv, [Next]_vars PROVE IInv'
  OBVIOUS
<1>1. CASE UNCHANGED vars
  <2>1. UNCHANGED <<free, lost, tree, state, parent, pml4, kstack, brk, cr3, proc, pc, op, child,
                    root, elf, todo, page, arg, calls>>
    BY <1>1 DEF vars, memVars, tabVars, callVars
  <2>2. Roots' = Roots
    BY <2>1 DEF Roots
  <2>3. Exclusive' /\ NoLeak' /\ Tidy'
    BY <2>1, <2>2, SameHolders DEF IInv
  <2>4. TypeOK' /\ LocalInv' /\ SlotInv' /\ RootInv' /\ OwnSpace'
    BY <2>1 DEF IInv, TypeOK, LocalInv, SlotInv, RootInv, Unowned, OwnSpace
  <2> QED
    BY <2>3, <2>4 DEF IInv
<1>2. CASE Next
  <2>1. PICK c \in CPU : Syscall(c) \/ ((Call(c) \/ Loop(c) \/ Run(c)) /\ UNCHANGED calls)
    BY <1>2 DEF Next
  <2>2. calls' \in 0..MaxCalls
    BY <2>1, Disjoint DEF IInv, TypeOK, Syscall
  <2>3. CASE Syscall(c)
    BY <2>2, <2>3, ForkInv, ExecInv, BrkGrowInv, BrkShrinkInv DEF Syscall
  <2>4. CASE Call(c)
    <3>1. CASE proc_create(c) \/ NoInit(c) \/ proc_alloc(c) \/ AllocFail(c)
      BY <2>2, <3>1, CreateInv, NoInitInv, AllocInv, AllocFailInv
    <3>2. CASE create_user_pml4(c) \/ Pml4Fail(c)
      BY <2>2, <3>2, Pml4ChildInv, Pml4ExecInv, Pml4FailChildInv, Pml4FailExecInv
    <3>3. CASE BrkDone(c) \/ CreateDone(c) \/ ForkDone(c)
      BY <2>2, <3>3, BrkDoneInv, CreateDoneInv, ForkDoneInv
    <3>4. CASE ExecFree(c) \/ ExecLcr3(c)
      BY <2>2, <3>4, ExecFreeInv, Lcr3Inv, Lcr3FaultInv
    <3> QED
      BY <2>4, <3>1, <3>2, <3>3, <3>4 DEF Call
  <2>5. CASE Loop(c)
    <3>1. CASE LoadFail(c)
      <4>1. op[c] \in {"create", "exec"}
        BY <3>1 DEF LoadFail
      <4> QED
        BY <2>2, <3>1, <4>1, LoadFailCreateInv, LoadFailExecInv
    <3>2. CASE MapPage(c) \/ CopySkip(c) \/ BrkFail(c)
      BY <2>2, <3>2, MapPageInv, CopySkipInv, BrkFailInv
    <3>3. CASE MapTable(c) \/ TableFault(c) \/ MapEntry(c)
      BY <2>2, <3>3, MapTableInv, TableFaultInv, MapEntryInv
    <3> QED
      BY <2>5, <3>1, <3>2, <3>3 DEF Loop
  <2>6. CASE Run(c)
    BY <2>2, <2>6, LeaveInv, ScheduleInv, WaitInv DEF Run, yield, sys_exit
  <2> QED
    BY <2>1, <2>3, <2>4, <2>5, <2>6
<1> QED
  BY <1>1, <1>2

(* IInv holds in every reachable state. *)
LEMMA Inductive == Spec => []IInv
BY InitInv, NextInv, PTL DEF Spec

(* The variables of the page model keep their types. *)
THEOREM TypeSafe == Spec => []TypeOK
<1>1. IInv => TypeOK
  BY DEF IInv
<1> QED
  BY <1>1, Inductive, PTL

(* Through every interleaving of fork, exec, brk, exit and wait, and       *)
(* whatever allocation fails on the way, no page has two uses: the memory  *)
(* of a process is nobody else's, and nothing is freed twice.              *)
THEOREM PagesApart == Spec => []NoAlias
<1>1. IInv => NoAlias
  BY ExclusiveNoAlias DEF IInv
<1> QED
  BY <1>1, Inductive, PTL

(* The kernel forgets no page but those counted in lost: the kernel stack  *)
(* of a slot given back, and a page another one is mapped over.            *)
THEOREM PagesAccounted == Spec => []NoLeak
<1>1. IInv => NoLeak
  BY DEF IInv
<1> QED
  BY <1>1, Inductive, PTL

(* A CPU that has a process runs in that process's page tables, but        *)
(* between exec's free and its lcr3.                                       *)
THEOREM RunsInOwnSpace == Spec => []OwnSpace
<1>1. IInv => OwnSpace
  BY DEF IInv
<1> QED
  BY <1>1, Inductive, PTL
=============================================================================
