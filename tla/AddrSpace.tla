----------------------------- MODULE AddrSpace -----------------------------
(***************************************************************************)
(* The pages of processes: kernel stacks, page tables and user memory, as  *)
(* fork, exec, brk, exit and wait take them from kalloc and give them back *)
(* (proc.c, mem.c, syscall.c), and the CR3 each CPU has loaded.            *)
(*                                                                         *)
(* Every kalloc is a step of its own; a loop that frees pages is one step. *)
(* A block of several pages (a kernel stack, the buffer of read_elf) is    *)
(* one page here.  A system call has interrupts off and is not preempted;  *)
(* sys_wait yields while it has no zombie to reap.                         *)
(***************************************************************************)
EXTENDS Naturals, Sequences, FiniteSets, SequencesExt, FiniteSetsExt, SetOrder

CONSTANTS
    CPU,        \* the processors
    BSP,        \* the one that creates init
    NSlots,     \* MAX_PROCS
    NPages,     \* pages of memory
    Image,      \* the pages an ELF file loads, then its stack, in order
    Heap,       \* the pages from USER_HEAP_BASE up
    Walk,       \* per page of a space: the tables above it, top down
    MaxCalls,   \* bound: calls of fork, exec and brk in all
    None        \* a null pointer

Page  == 1..NPages
Slots == 1..NSlots
VA    == ToSet(Image) \cup ToSet(Heap)
Tbl   == UNION {ToSet(Walk[va]) : va \in VA}

ASSUME AddrAssumption ==
    /\ BSP \in CPU /\ IsFiniteSet(CPU)
    /\ NSlots \in Nat \ {0} /\ NPages \in Nat \ {0} /\ MaxCalls \in Nat
    /\ Image \in Seq(Nat) /\ Heap \in Seq(Nat)
    /\ ToSet(Image) \cap ToSet(Heap) = {}
    /\ DOMAIN Walk = VA /\ \A va \in VA : Walk[va] \in Seq(Tbl)
    /\ None \notin Nat \cup Tbl

VARIABLES
    free, lost,         \* the allocator's pages; those nobody can free again
    tree,               \* per pml4 page: the tables and pages below it
    state, parent,      \* proc_table: state, and the parent's slot
    pml4, kstack, brk,  \* and p->pml4, p->kstack, p->brk in pages
    cr3, proc, pc,      \* per CPU
    op, child, root,    \* the call in progress: what it is, the slot it fills,
    elf, todo, page,    \* the pml4 it maps into, its buffer, the pages it has
                        \* still to map, the page kalloc has just returned,
    arg,                \* the new break, or the page the path of exec is in
    calls               \* fork, exec and brk so far

memVars  == <<free, lost, tree>>
tabVars  == <<state, parent, pml4, kstack, brk>>
callVars == <<op, child, root, elf, todo, page, arg>>
vars     == <<memVars, tabVars, cr3, proc, pc, callVars, calls>>

EmptyTree == [tab |-> [t \in Tbl |-> None], leaf |-> [va \in VA |-> None]]

Init ==
    /\ free = Page /\ lost = {}
    /\ tree = [r \in Page |-> EmptyTree]
    /\ state = [s \in Slots |-> "UNUSED"]
    /\ parent = [s \in Slots |-> None]
    /\ pml4 = [s \in Slots |-> None]
    /\ kstack = [s \in Slots |-> None]
    /\ brk = [s \in Slots |-> 0]
    /\ cr3 = [c \in CPU |-> None]       \* the boot loader's tables
    /\ proc = [c \in CPU |-> None]
    /\ pc = [c \in CPU |-> IF c = BSP THEN "boot" ELSE "sched"]
    /\ op = [c \in CPU |-> "none"]
    /\ child = [c \in CPU |-> None]
    /\ root = [c \in CPU |-> None]
    /\ elf = [c \in CPU |-> None]
    /\ todo = [c \in CPU |-> <<>>]
    /\ page = [c \in CPU |-> None]
    /\ arg = [c \in CPU |-> None]
    /\ calls = 0

-----------------------------------------------------------------------------
(* Helpers *)

Goto(c, l) == pc' = [pc EXCEPT ![c] = l]

(* kalloc(1) returns p.  Pages are all alike, so the lowest stands for any *)
(* of them, but for those that are still in some CR3.                      *)
Stale == {cr3[c] : c \in CPU} \cap free
kalloc(p) ==
    /\ p \in free
    /\ p \in Stale \/ \A q \in free \ Stale : p <= q
    /\ free' = free \ {p}

Present(f) == {f[k] : k \in {k \in DOMAIN f : f[k] # None}}

(* Mutants: the tables are kept; entries that are not present are freed.   *)
SpaceLeaves(r) == {r} \cup Present(tree[r].leaf)
SpaceNull(r) == {r} \cup Range(tree[r].tab) \cup Range(tree[r].leaf)

(* What free_user_pml4(r) and kfree(r, 1) give back. *)
Space(r) == {r} \cup Present(tree[r].tab) \cup Present(tree[r].leaf)

(* The end of a call: back to user mode, or at boot into scheduler(). *)
Return(c) ==
    /\ Goto(c, IF op[c] = "create" THEN "sched" ELSE "user")
    /\ op' = [op EXCEPT ![c] = "none"]
    /\ child' = [child EXCEPT ![c] = None]
    /\ root' = [root EXCEPT ![c] = None]
    /\ elf' = [elf EXCEPT ![c] = None]
    /\ todo' = [todo EXCEPT ![c] = <<>>]
    /\ page' = [page EXCEPT ![c] = None]
    /\ arg' = [arg EXCEPT ![c] = None]

Own(c) == pml4[proc[c]]

(* The pages mapped under r, in address order. *)
Mapped(r) == Ascending({va \in VA : tree[r].leaf[va] # None})

-----------------------------------------------------------------------------
(* Scheduling *)

(* A CPU in the scheduler takes a process and loads its tables. *)
Schedule(c, s) ==
    /\ pc[c] = "sched" /\ state[s] = "RUNNABLE"
    /\ state' = [state EXCEPT ![s] = "RUNNING"]
    /\ proc' = [proc EXCEPT ![c] = s]
    /\ cr3' = [cr3 EXCEPT ![c] = pml4[s]]
    /\ Goto(c, "user")
    /\ UNCHANGED <<memVars, parent, pml4, kstack, brk, callVars>>

(* Back in the scheduler the CPU keeps the tables it has. *)
Leave(c, st) ==
    /\ pc[c] = "user"
    /\ state' = [state EXCEPT ![proc[c]] = st]
    /\ proc' = [proc EXCEPT ![c] = None]
    /\ Goto(c, "sched")
    /\ UNCHANGED <<memVars, parent, pml4, kstack, brk, cr3, callVars>>

yield(c) == Leave(c, "RUNNABLE")
sys_exit(c) == Leave(c, "ZOMBIE")

(* A zombie child is reaped: its space and its stack are freed.  Its own   *)
(* children's ppid is no longer anybody's pid.                             *)
sys_wait(c, z) ==
    /\ pc[c] = "user" /\ state[z] = "ZOMBIE" /\ parent[z] = proc[c]
    /\ free' = free \cup Space(pml4[z]) \cup {kstack[z]}
    /\ tree' = [tree EXCEPT ![pml4[z]] = EmptyTree]
    /\ pml4' = [pml4 EXCEPT ![z] = None]
    /\ kstack' = [kstack EXCEPT ![z] = None]
    /\ state' = [state EXCEPT ![z] = "UNUSED"]
    /\ parent' = [s \in Slots |-> IF s = z \/ parent[s] = z THEN None ELSE parent[s]]
    /\ UNCHANGED <<lost, brk, cr3, proc, pc, callVars>>

-----------------------------------------------------------------------------
(* System calls, and proc_create at boot *)

(* read_elf: without a file or a buffer the call returns. *)
read_elf(c) ==
    /\ \E p \in Page : kalloc(p) /\ elf' = [elf EXCEPT ![c] = p]
    /\ UNCHANGED <<lost, tree, tabVars, cr3, proc, child, root, todo, page>>

proc_create(c) ==
    /\ pc[c] = "boot"
    /\ op' = [op EXCEPT ![c] = "create"]
    /\ read_elf(c)
    /\ Goto(c, "alloc")
    /\ UNCHANGED arg

(* The path is in some page of the caller's. *)
proc_exec(c) ==
    /\ pc[c] = "user"
    /\ op' = [op EXCEPT ![c] = "exec"]
    /\ \E va \in ToSet(Mapped(Own(c))) : arg' = [arg EXCEPT ![c] = va]
    /\ read_elf(c)
    /\ Goto(c, "pml4")

NoInit(c) ==
    /\ pc[c] = "boot"
    /\ Goto(c, "sched")
    /\ UNCHANGED <<memVars, tabVars, cr3, proc, callVars>>

proc_fork(c) ==
    /\ pc[c] = "user"
    /\ op' = [op EXCEPT ![c] = "fork"]
    /\ Goto(c, "alloc")
    /\ UNCHANGED <<memVars, tabVars, cr3, proc, child, root, elf, todo, page, arg>>

Unused == {s \in Slots : state[s] = "UNUSED"}

(* A slot and its kernel stack. *)
proc_alloc(c) ==
    /\ pc[c] = "alloc" /\ Unused # {}
    /\ LET s == Min(Unused) IN
       \E p \in Page :
         /\ kalloc(p)
         /\ state' = [state EXCEPT ![s] = "EMBRYO"]
         /\ kstack' = [kstack EXCEPT ![s] = p]
         /\ child' = [child EXCEPT ![c] = s]
    /\ Goto(c, "pml4")
    /\ UNCHANGED <<lost, tree, parent, pml4, brk, cr3, proc, op, root, elf, todo, page, arg>>

(* No slot or no stack: proc_create frees its buffer. *)
AllocFail(c) ==
    /\ pc[c] = "alloc" /\ (Unused = {} \/ free = {})
    /\ free' = free \cup ({elf[c]} \ {None})
    /\ Return(c)
    /\ UNCHANGED <<lost, tree, tabVars, cr3, proc>>

create_user_pml4(c) ==
    /\ pc[c] = "pml4"
    /\ \E p \in Page :
         /\ kalloc(p)
         /\ root' = [root EXCEPT ![c] = p]
         /\ pml4' = IF op[c] = "exec" THEN pml4 ELSE [pml4 EXCEPT ![child[c]] = p]
    /\ todo' = [todo EXCEPT ![c] = IF op[c] = "fork" THEN Mapped(Own(c)) ELSE Image]
    /\ Goto(c, "map")
    /\ UNCHANGED <<lost, tree, state, parent, kstack, brk, cr3, proc, op, child, elf, page, arg>>

(* The slot is given back.  Its stack is not freed, and like p->pml4 the   *)
(* pointer is not used again: the next proc_alloc overwrites it.           *)
DropSlot(c) ==
    IF child[c] = None THEN UNCHANGED <<state, pml4, kstack, lost>>
    ELSE /\ state' = [state EXCEPT ![child[c]] = "UNUSED"]
         /\ pml4' = [pml4 EXCEPT ![child[c]] = None]
         /\ kstack' = [kstack EXCEPT ![child[c]] = None]
         /\ lost' = lost \cup {kstack[child[c]]}

Pml4Fail(c) ==
    /\ pc[c] = "pml4" /\ free = {}
    /\ free' = free \cup ({elf[c]} \ {None})
    /\ DropSlot(c)
    /\ Return(c)
    /\ UNCHANGED <<tree, parent, brk, cr3, proc>>

(* Growing maps the pages between; shrinking maps nothing. *)
sys_brk(c, b) ==
    /\ pc[c] = "user"
    /\ IF b > brk[proc[c]]
       THEN /\ op' = [op EXCEPT ![c] = "brk"]
            /\ root' = [root EXCEPT ![c] = Own(c)]
            /\ todo' = [todo EXCEPT ![c] = SubSeq(Heap, brk[proc[c]] + 1, b)]
            /\ arg' = [arg EXCEPT ![c] = b]
            /\ Goto(c, "map")
            /\ UNCHANGED brk
       ELSE /\ brk' = [brk EXCEPT ![proc[c]] = b]
            /\ UNCHANGED <<op, root, todo, arg, pc>>
    /\ UNCHANGED <<memVars, state, parent, pml4, kstack, cr3, proc, child, elf, page>>

-----------------------------------------------------------------------------
(* The loops that map pages: elf_load_segments, copy_user_pml4, sys_brk *)

MapPage(c) ==
    /\ pc[c] = "map" /\ todo[c] # <<>>
    /\ \E p \in Page : kalloc(p) /\ page' = [page EXCEPT ![c] = p]
    /\ Goto(c, "table")
    /\ UNCHANGED <<lost, tree, tabVars, cr3, proc, op, child, root, elf, todo, arg>>

(* copy_user_pml4 goes on with the next page. *)
CopySkip(c) ==
    /\ pc[c] = "map" /\ todo[c] # <<>> /\ free = {} /\ op[c] = "fork"
    /\ todo' = [todo EXCEPT ![c] = Tail(@)]
    /\ UNCHANGED <<memVars, tabVars, cr3, proc, pc, op, child, root, elf, page, arg>>

(* sys_brk returns the old break; what it has mapped stays mapped. *)
BrkFail(c) ==
    /\ pc[c] = "map" /\ todo[c] # <<>> /\ free = {} /\ op[c] = "brk"
    /\ Return(c)
    /\ UNCHANGED <<memVars, tabVars, cr3, proc>>

(* elf_load_segments fails, on a bad file or without memory: everything    *)
(* but the kernel stack is freed.                                          *)
LoadFail(c) ==
    /\ pc[c] = "map" /\ todo[c] # <<>> /\ op[c] \in {"create", "exec"}
    /\ todo[c] = Image \/ free = {}
    /\ free' = free \cup Space(root[c]) \cup {elf[c]}
    /\ tree' = [tree EXCEPT ![root[c]] = EmptyTree]
    /\ DropSlot(c)
    /\ Return(c)
    /\ UNCHANGED <<parent, brk, cr3, proc>>

(* map_page_pml4: the tables on the way that are not there yet, by level. *)
Missing(c) ==
    LET way == Walk[Head(todo[c])]
    IN  {i \in DOMAIN way : tree[root[c]].tab[way[i]] = None}

MapTable(c) ==
    /\ pc[c] = "table" /\ Missing(c) # {}
    /\ LET t == Walk[Head(todo[c])][Min(Missing(c))] IN
       \E p \in Page : kalloc(p) /\ tree' = [tree EXCEPT ![root[c]].tab[t] = p]
    /\ UNCHANGED <<lost, tabVars, cr3, proc, pc, callVars>>

(* kalloc's 0 is not looked at: the memset of the table is a page fault.   *)
TableFault(c) ==
    /\ pc[c] = "table" /\ Missing(c) # {} /\ free = {}
    /\ Goto(c, "panic")
    /\ UNCHANGED <<memVars, tabVars, cr3, proc, callVars>>

(* Mutant: fork maps the parent's page into the child. *)
MapShare(c) ==
    /\ pc[c] = "table" /\ Missing(c) = {}
    /\ LET va == Head(todo[c]) IN
       /\ tree' = [tree EXCEPT ![root[c]].leaf[va] =
                     IF op[c] = "fork" THEN tree[Own(c)].leaf[va] ELSE page[c]]
       /\ lost' = IF op[c] = "fork" THEN lost \cup {page[c]}
                  ELSE lost \cup ({tree[root[c]].leaf[va]} \ {None})
    /\ todo' = [todo EXCEPT ![c] = Tail(@)]
    /\ page' = [page EXCEPT ![c] = None]
    /\ Goto(c, "map")
    /\ UNCHANGED <<free, tabVars, cr3, proc, op, child, root, elf, arg>>

(* The entry is written over whatever page was mapped there. *)
MapEntry(c) ==
    /\ pc[c] = "table" /\ Missing(c) = {}
    /\ LET va == Head(todo[c]) IN
       /\ tree' = [tree EXCEPT ![root[c]].leaf[va] = page[c]]
       /\ lost' = lost \cup ({tree[root[c]].leaf[va]} \ {None})
    /\ todo' = [todo EXCEPT ![c] = Tail(@)]
    /\ page' = [page EXCEPT ![c] = None]
    /\ Goto(c, "map")
    /\ UNCHANGED <<free, tabVars, cr3, proc, op, child, root, elf, arg>>

-----------------------------------------------------------------------------
(* What follows the last page *)

MapDone(c, o) == pc[c] = "map" /\ todo[c] = <<>> /\ op[c] = o

BrkDone(c) ==
    /\ MapDone(c, "brk")
    /\ brk' = [brk EXCEPT ![proc[c]] = arg[c]]
    /\ Return(c)
    /\ UNCHANGED <<memVars, state, parent, pml4, kstack, cr3, proc>>

(* proc_create frees its buffer; init has no parent and an empty heap. *)
CreateDone(c) ==
    /\ MapDone(c, "create")
    /\ free' = free \cup {elf[c]}
    /\ state' = [state EXCEPT ![child[c]] = "RUNNABLE"]
    /\ parent' = [parent EXCEPT ![child[c]] = None]
    /\ brk' = [brk EXCEPT ![child[c]] = 0]
    /\ Return(c)
    /\ UNCHANGED <<lost, tree, pml4, kstack, cr3, proc>>

ForkDone(c) ==
    /\ MapDone(c, "fork")
    /\ state' = [state EXCEPT ![child[c]] = "RUNNABLE"]
    /\ parent' = [parent EXCEPT ![child[c]] = proc[c]]
    /\ brk' = [brk EXCEPT ![child[c]] = brk[proc[c]]]
    /\ Return(c)
    /\ UNCHANGED <<memVars, pml4, kstack, cr3, proc>>

(* proc_exec frees its buffer, resets the break, and replaces and frees    *)
(* the space the CPU is still running in.                                  *)
ExecFree(c) ==
    /\ MapDone(c, "exec")
    /\ free' = free \cup {elf[c]} \cup Space(Own(c))
    /\ tree' = [tree EXCEPT ![Own(c)] = EmptyTree]
    /\ brk' = [brk EXCEPT ![proc[c]] = 0]
    /\ pml4' = [pml4 EXCEPT ![proc[c]] = root[c]]
    /\ elf' = [elf EXCEPT ![c] = None]
    /\ Goto(c, "lcr3")
    /\ UNCHANGED <<lost, state, parent, kstack, cr3, proc, op, child, root, todo, page, arg>>

(* Mutant: the new tables are not loaded. *)
ExecNoLcr3(c) ==
    /\ pc[c] = "lcr3"
    /\ Return(c)
    /\ UNCHANGED <<memVars, tabVars, cr3, proc>>

(* The new tables are loaded; then the name is copied from the path, which *)
(* is a page fault when the new image has nothing at its address.          *)
ExecLcr3(c) ==
    /\ pc[c] = "lcr3"
    /\ cr3' = [cr3 EXCEPT ![c] = Own(c)]
    /\ IF tree[Own(c)].leaf[arg[c]] # None THEN Return(c)
       ELSE Goto(c, "panic") /\ UNCHANGED callVars
    /\ UNCHANGED <<memVars, tabVars, proc>>

-----------------------------------------------------------------------------
Loop(c) == \/ MapPage(c) \/ CopySkip(c) \/ BrkFail(c) \/ LoadFail(c)
           \/ MapTable(c) \/ TableFault(c) \/ MapEntry(c)

Syscall(c) == /\ calls < MaxCalls /\ calls' = calls + 1
              /\ \/ proc_fork(c) \/ proc_exec(c)
                 \/ \E b \in 0..Len(Heap) : sys_brk(c, b)

Call(c) == \/ proc_create(c) \/ NoInit(c) \/ proc_alloc(c) \/ AllocFail(c)
           \/ create_user_pml4(c) \/ Pml4Fail(c)
           \/ BrkDone(c) \/ CreateDone(c) \/ ForkDone(c)
           \/ ExecFree(c) \/ ExecLcr3(c)

Run(c) == \/ yield(c) \/ sys_exit(c)
          \/ \E s \in Slots : Schedule(c, s) \/ sys_wait(c, s)

Next == \E c \in CPU : Syscall(c) \/ ((Call(c) \/ Loop(c) \/ Run(c)) /\ UNCHANGED calls)

Spec == Init /\ [][Next]_vars

-----------------------------------------------------------------------------
(* Properties *)

(* Every variable has its type. *)
TypeOK ==
    /\ free \subseteq Page /\ lost \subseteq Page
    /\ tree \in [Page -> [tab : [Tbl -> Page \cup {None}], leaf : [VA -> Page \cup {None}]]]
    /\ state \in [Slots -> {"UNUSED", "EMBRYO", "RUNNABLE", "RUNNING", "ZOMBIE"}]
    /\ parent \in [Slots -> Slots \cup {None}]
    /\ {pml4, kstack} \subseteq [Slots -> Page \cup {None}]
    /\ brk \in [Slots -> 0..Len(Heap)]
    /\ {cr3, root, elf, page} \subseteq [CPU -> Page \cup {None}]
    /\ {proc, child} \subseteq [CPU -> Slots \cup {None}]
    /\ pc \in [CPU -> {"boot", "sched", "user", "alloc", "pml4", "map", "table", "lcr3", "panic"}]
    /\ op \in [CPU -> {"none", "create", "fork", "exec", "brk"}]
    /\ todo \in [CPU -> Seq(VA)]
    /\ arg \in [CPU -> Nat \cup {None}]
    /\ calls \in 0..MaxCalls

(* The page tables there are, and the pages that are in use, by holder: a  *)
(* kernel stack, a call in progress, and the places of every space.        *)
Roots == Present(pml4) \cup Present(root)
Holders == {<<"kstack", s>> : s \in Slots} \cup {<<"pml4", r>> : r \in Roots}
           \cup ({"elf", "page"} \X CPU)
           \cup {<<"tab", r, t>> : r \in Roots, t \in Tbl}
           \cup {<<"leaf", r, va>> : r \in Roots, va \in VA}
Held(h) == CASE h[1] = "kstack" -> kstack[h[2]]
             [] h[1] = "pml4" -> h[2]
             [] h[1] = "elf" -> elf[h[2]]
             [] h[1] = "page" -> page[h[2]]
             [] h[1] = "tab" -> tree[h[2]].tab[h[3]]
             [] h[1] = "leaf" -> tree[h[2]].leaf[h[3]]
InUse == {Held(h) : h \in Holders} \ {None}

(* No page has two uses: what one process, table or call holds is neither  *)
(* free nor held anywhere else, so no process can reach the memory of      *)
(* another and nothing is freed twice, whatever fails on the way.          *)
NoAlias ==
    /\ \A h, g \in Holders : Held(h) # None /\ Held(h) = Held(g) => h = g
    /\ \A s, t \in Slots : pml4[s] # None /\ pml4[s] = pml4[t] => s = t
    /\ free \cap InUse = {} /\ lost \cap (free \cup InUse) = {}

(* Nothing is lost but what the code is known to lose, on every path on    *)
(* which a kalloc fails: the kernel stack of a slot given back by a failed *)
(* create or fork, and a page that another one is mapped over, as brk does *)
(* when it grows again.                                                    *)
NoLeak == Page = free \cup InUse \cup lost

(* A CPU never runs on page tables that have been freed and handed out     *)
(* again as something else: it would lose the kernel's half of them.       *)
Cr3Intact ==
    \A c \in CPU : cr3[c] \notin (InUse \ Roots) \cup lost

(* In user mode, and in every system call but for the moment between       *)
(* exec's free and its lcr3, CR3 is the space of the current process.      *)
OwnSpace ==
    \A c \in CPU : proc[c] # None /\ pc[c] # "lcr3" => cr3[c] = pml4[proc[c]]
=============================================================================
