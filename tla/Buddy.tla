------------------------------- MODULE Buddy -------------------------------
(***************************************************************************)
(* The page allocator of mem.c: freerange at boot, then kalloc and kfree   *)
(* on every CPU.  The loops that merge and split blocks are modelled one   *)
(* iteration at a time, under buddy.lock.                                  *)
(*                                                                         *)
(* An address is a page number: hhdm_offset is a multiple of the largest   *)
(* block, so the bits that the xor of mem.c looks at are those of the page *)
(* number.  A free list is a set: its order only decides which of several  *)
(* blocks of one size is handed out.                                       *)
(***************************************************************************)
EXTENDS Naturals, Sequences, FiniteSets

CONSTANTS
    CPU,         \* the processors
    BSP,         \* the one that runs freerange
    MAX_ORDER,   \* orders are 0..MAX_ORDER-1
    Size,        \* Size[o] = 1 << o, the pages of a block of order o
    PAGE_SIZE,   \* bytes of a page
    Regions,     \* the usable entries of the memory map, in bytes
    Requests,    \* the values of npages callers use
    None         \* no CPU

Order == 0..(MAX_ORDER - 1)

ASSUME BuddyAssumption ==
    /\ BSP \in CPU /\ None \notin CPU
    /\ MAX_ORDER \in Nat \ {0}
    /\ PAGE_SIZE \in Nat \ {0}
    /\ Requests \subseteq Nat
    /\ Size \in [0..MAX_ORDER -> Nat \ {0}]
    /\ Size[0] = 1
    /\ \A o \in Order : Size[o + 1] = 2 * Size[o]

(* The memory map is sorted and its usable entries do not overlap. *)
ASSUME RegionsAssumption ==
    /\ Regions \in Seq([base : Nat, end : Nat])
    /\ \A i \in 1..Len(Regions) : Regions[i].base <= Regions[i].end
    /\ \A i, j \in 1..Len(Regions) : i < j => Regions[i].end <= Regions[j].base

VARIABLES
    free_lists,     \* the first page of every free block, by order
    use_lock, lock, \* buddy.use_lock and the CPU that holds buddy.lock
    region, p,      \* freerange: the memory map entry and the next page of it
    owned,          \* the blocks callers have, as (address, npages)
    pc, npages,     \* per CPU: where it is and the argument of its call
    addr, order     \* per CPU: the block in hand

bootVars == <<use_lock, region, p>>
vars == <<free_lists, lock, bootVars, owned, pc, npages, addr, order>>

(* order_for: the smallest order that holds n pages; beyond the largest,   *)
(* all sizes are the same to the callers.                                  *)
order_for(n) == CHOOSE o \in 0..MAX_ORDER :
                  /\ o = MAX_ORDER \/ Size[o] >= n
                  /\ \A q \in 0..(o - 1) : Size[q] < n

(* Rounding to whole pages. *)
FirstPage(i) == (Regions[i].base + PAGE_SIZE - 1) \div PAGE_SIZE
EndPage(i) == Regions[i].end \div PAGE_SIZE

Init ==
    /\ free_lists = [o \in Order |-> {}]
    /\ use_lock = FALSE /\ lock = None
    /\ region = 0 /\ p = 0
    /\ owned = {}
    /\ pc = [c \in CPU |-> IF c = BSP THEN "boot" ELSE "idle"]
    /\ npages = [c \in CPU |-> 0]
    /\ addr = [c \in CPU |-> 0]
    /\ order = [c \in CPU |-> 0]

(* The call returns and its locals are gone. *)
Return(c, l) ==
    /\ pc' = [pc EXCEPT ![c] = l]
    /\ npages' = [npages EXCEPT ![c] = 0]
    /\ addr' = [addr EXCEPT ![c] = 0]
    /\ order' = [order EXCEPT ![c] = 0]

-----------------------------------------------------------------------------
(* The loop that kfree and freerange share. *)

(* Mutant: the buddy is always the block above. *)
BuddyAbove(a, o) == a + Size[o]

(* a ^ (1 << o) *)
BuddyOf(a, o) == IF (a \div Size[o]) % 2 = 0 THEN a + Size[o] ELSE a - Size[o]

HasFreeBuddy(c) == /\ order[c] < MAX_ORDER - 1
                   /\ BuddyOf(addr[c], order[c]) \in free_lists[order[c]]

(* Mutant: the merged block keeps the address that was freed. *)
MergeKeepAddr(c) ==
    /\ pc[c] = "merge" /\ HasFreeBuddy(c)
    /\ free_lists' = [free_lists EXCEPT ![order[c]] = @ \ {BuddyOf(addr[c], order[c])}]
    /\ order' = [order EXCEPT ![c] = @ + 1]
    /\ UNCHANGED <<lock, bootVars, owned, pc, npages, addr>>

(* Mutant: the buddy is merged and stays on its list. *)
MergeKeepBuddy(c) ==
    /\ pc[c] = "merge" /\ HasFreeBuddy(c)
    /\ LET b == BuddyOf(addr[c], order[c]) IN
       addr' = [addr EXCEPT ![c] = IF b < @ THEN b ELSE @]
    /\ order' = [order EXCEPT ![c] = @ + 1]
    /\ UNCHANGED <<free_lists, lock, bootVars, owned, pc, npages>>

Merge(c) ==
    /\ pc[c] = "merge" /\ HasFreeBuddy(c)
    /\ LET b == BuddyOf(addr[c], order[c]) IN
       /\ free_lists' = [free_lists EXCEPT ![order[c]] = @ \ {b}]
       /\ addr' = [addr EXCEPT ![c] = IF b < @ THEN b ELSE @]
    /\ order' = [order EXCEPT ![c] = @ + 1]
    /\ UNCHANGED <<lock, bootVars, owned, pc, npages>>

(* The block goes on its list; kfree then releases the lock. *)
Insert(c) ==
    /\ pc[c] = "merge" /\ ~HasFreeBuddy(c)
    /\ free_lists' = [free_lists EXCEPT ![order[c]] = @ \cup {addr[c]}]
    /\ lock' = IF use_lock THEN None ELSE lock
    /\ Return(c, IF use_lock THEN "idle" ELSE "boot")
    /\ UNCHANGED <<bootVars, owned>>

-----------------------------------------------------------------------------
(* Boot: freerange of each usable region, then buddy_enable_lock. *)

FreeRangeStart(c) ==
    /\ pc[c] = "boot"
    /\ region < Len(Regions)
    /\ region > 0 => p + 1 > EndPage(region)
    /\ region' = region + 1
    /\ p' = FirstPage(region + 1)
    /\ UNCHANGED <<free_lists, use_lock, lock, owned, pc, npages, addr, order>>

(* The orders a block at page q may have: aligned, and it fits. *)
Fitting(q, end) == {o \in Order : q % Size[o] = 0 /\ q + Size[o] <= end}

FreeRangeBlock(c) ==
    /\ pc[c] = "boot"
    /\ region > 0 /\ p + 1 <= EndPage(region)
    /\ \E o \in Fitting(p, EndPage(region)) :
         /\ \A q \in Fitting(p, EndPage(region)) : q <= o
         /\ order' = [order EXCEPT ![c] = o]
         /\ p' = p + Size[o]
    /\ addr' = [addr EXCEPT ![c] = p]
    /\ pc' = [pc EXCEPT ![c] = "merge"]
    /\ UNCHANGED <<free_lists, use_lock, lock, region, owned, npages>>

buddy_enable_lock(c) ==
    /\ pc[c] = "boot"
    /\ region = Len(Regions)
    /\ region > 0 => p + 1 > EndPage(region)
    /\ use_lock' = TRUE
    /\ pc' = [pc EXCEPT ![c] = "idle"]
    /\ UNCHANGED <<free_lists, lock, region, p, owned, npages, addr, order>>

-----------------------------------------------------------------------------
(* kalloc *)

(* A call with npages = 0, or for more than the largest block, returns 0. *)
kalloc(c, n) ==
    /\ pc[c] = "idle" /\ use_lock
    /\ n > 0 /\ order_for(n) \in Order
    /\ npages' = [npages EXCEPT ![c] = n]
    /\ pc' = [pc EXCEPT ![c] = "allocSpin"]
    /\ UNCHANGED <<free_lists, lock, bootVars, owned, addr, order>>

(* Mutant: the search looks only at the order asked for. *)
AvailableExact(c) == {o \in Order : o = order_for(npages[c]) /\ free_lists[o] # {}}

(* The orders from the one asked for up that have a free block. *)
Available(c) == {o \in Order : o >= order_for(npages[c]) /\ free_lists[o] # {}}

KallocPop(c) ==
    /\ pc[c] = "allocSpin" /\ lock = None
    /\ \E o \in Available(c) :
         /\ \A q \in Available(c) : o <= q
         /\ order' = [order EXCEPT ![c] = o]
         /\ \E a \in free_lists[o] :
              /\ free_lists' = [free_lists EXCEPT ![o] = @ \ {a}]
              /\ addr' = [addr EXCEPT ![c] = a]
    /\ lock' = c
    /\ pc' = [pc EXCEPT ![c] = "split"]
    /\ UNCHANGED <<bootVars, owned, npages>>

KallocFull(c) ==
    /\ pc[c] = "allocSpin" /\ lock = None
    /\ Available(c) = {}
    /\ Return(c, "idle")
    /\ UNCHANGED <<free_lists, lock, bootVars, owned>>

(* Mutant: the half given back is the lower one, which is kept as well. *)
SplitLower(c) ==
    /\ pc[c] = "split" /\ order[c] > order_for(npages[c])
    /\ free_lists' = [free_lists EXCEPT ![order[c] - 1] = @ \cup {addr[c]}]
    /\ order' = [order EXCEPT ![c] = @ - 1]
    /\ UNCHANGED <<lock, bootVars, owned, pc, npages, addr>>

KallocSplit(c) ==
    /\ pc[c] = "split" /\ order[c] > order_for(npages[c])
    /\ free_lists' = [free_lists EXCEPT ![order[c] - 1] =
                        @ \cup {addr[c] + Size[order[c] - 1]}]
    /\ order' = [order EXCEPT ![c] = @ - 1]
    /\ UNCHANGED <<lock, bootVars, owned, pc, npages, addr>>

KallocReturn(c) ==
    /\ pc[c] = "split" /\ order[c] = order_for(npages[c])
    /\ owned' = owned \cup {[addr |-> addr[c], npages |-> npages[c]]}
    /\ lock' = None
    /\ Return(c, "idle")
    /\ UNCHANGED <<free_lists, bootVars>>

-----------------------------------------------------------------------------
(* kfree: callers give back what kalloc gave them, with the same npages. *)

kfree(c, b) ==
    /\ pc[c] = "idle" /\ use_lock
    /\ b \in owned
    /\ owned' = owned \ {b}
    /\ addr' = [addr EXCEPT ![c] = b.addr]
    /\ order' = [order EXCEPT ![c] = IF order_for(b.npages) >= MAX_ORDER
                                     THEN MAX_ORDER - 1 ELSE order_for(b.npages)]
    /\ pc' = [pc EXCEPT ![c] = "freeSpin"]
    /\ UNCHANGED <<free_lists, lock, bootVars, npages>>

KfreeAcquire(c) ==
    /\ pc[c] = "freeSpin" /\ lock = None
    /\ lock' = c
    /\ pc' = [pc EXCEPT ![c] = "merge"]
    /\ UNCHANGED <<free_lists, bootVars, owned, npages, addr, order>>

-----------------------------------------------------------------------------
Boot(c) == FreeRangeStart(c) \/ FreeRangeBlock(c) \/ buddy_enable_lock(c)
Inside(c) == \/ KallocPop(c) \/ KallocFull(c) \/ KallocSplit(c) \/ KallocReturn(c)
             \/ KfreeAcquire(c) \/ Merge(c) \/ Insert(c)

Next == \E c \in CPU : \/ Boot(c) \/ Inside(c)
                       \/ \E n \in Requests : kalloc(c, n)
                       \/ \E b \in owned : kfree(c, b)

Spec == Init /\ [][Next]_vars

-----------------------------------------------------------------------------
(* Properties *)

(* Every variable has its type. *)
TypeOK ==
    /\ free_lists \in [Order -> SUBSET Nat]
    /\ use_lock \in BOOLEAN
    /\ lock \in CPU \cup {None}
    /\ region \in 0..Len(Regions)
    /\ p \in Nat
    /\ owned \subseteq [addr : Nat, npages : Requests]
    /\ pc \in [CPU -> {"boot", "idle", "allocSpin", "split", "freeSpin", "merge"}]
    /\ npages \in [CPU -> Nat]
    /\ addr \in [CPU -> Nat]
    /\ order \in [CPU -> Order]

(* The block of order o at page a. *)
Pages(a, o) == a .. (a + Size[o] - 1)
Apart(a, o, b, q) == a + Size[o] <= b \/ b + Size[q] <= a
OrderOf(b) == order_for(b.npages)
InHand(c) == pc[c] \in {"split", "freeSpin", "merge"}

(* Two blocks of each kind, free, owned or in a CPU's hands, share no page. *)
FreeApart ==
    \A o, q \in Order : \A a \in free_lists[o], b \in free_lists[q] :
      (o = q /\ a = b) \/ Apart(a, o, b, q)
OwnedApart ==
    \A b, d \in owned : b = d \/ Apart(b.addr, OrderOf(b), d.addr, OrderOf(d))
HandsApart ==
    \A c, e \in CPU : InHand(c) /\ InHand(e) =>
      c = e \/ Apart(addr[c], order[c], addr[e], order[e])
FreeOwnedApart ==
    \A o \in Order : \A a \in free_lists[o], b \in owned :
      Apart(a, o, b.addr, OrderOf(b))
FreeHandApart ==
    \A o \in Order : \A a \in free_lists[o], c \in CPU :
      InHand(c) => Apart(a, o, addr[c], order[c])
OwnedHandApart ==
    \A b \in owned, c \in CPU :
      InHand(c) => Apart(b.addr, OrderOf(b), addr[c], order[c])
(* No page is handed out twice: blocks that are free, that callers own and *)
(* that a CPU is splitting or merging never share a page, in whatever      *)
(* order CPUs allocate and free.                                           *)
NoOverlap == /\ FreeApart /\ OwnedApart /\ HandsApart
             /\ FreeOwnedApart /\ FreeHandApart /\ OwnedHandApart

(* Where page q is, and the pages of region i that freerange has handled. *)
InFree(q) == \E o \in Order : \E a \in free_lists[o] : q \in Pages(a, o)
InOwned(q) == \E b \in owned : q \in Pages(b.addr, OrderOf(b))
InHands(q) == \E c \in CPU : InHand(c) /\ q \in Pages(addr[c], order[c])
Given(i) == FirstPage(i) .. ((IF i = region THEN p ELSE EndPage(i)) - 1)
(* No page is lost: every whole page that freerange has been given is in   *)
(* some block.                                                             *)
NoLeak == \A i \in 1..region : \A q \in Given(i) : InFree(q) \/ InOwned(q) \/ InHands(q)

(* Blocks are naturally aligned, which is what makes the xor the buddy. *)
Aligned ==
    /\ \A o \in Order : \A a \in free_lists[o] : a % Size[o] = 0
    /\ \A b \in owned : b.addr % Size[OrderOf(b)] = 0
    /\ \A c \in CPU : InHand(c) => addr[c] % Size[order[c]] = 0

(* Buddies are always merged: outside the critical section no list below   *)
(* the largest order holds a block and its buddy, so fragmentation is only *)
(* what the live allocations force.                                        *)
Coalesced ==
    (\A c \in CPU : pc[c] \notin {"split", "merge"}) =>
      \A o \in 0..(MAX_ORDER - 2) : \A a \in free_lists[o] :
        BuddyOf(a, o) \notin free_lists[o]

-----------------------------------------------------------------------------
(* The inductive invariant. *)

(* The lists change only under the lock, and before there is a lock only   *)
(* on the boot CPU.                                                        *)
LockInv ==
    \A c \in CPU :
      /\ use_lock => pc[c] # "boot" /\ (pc[c] \in {"split", "merge"} => lock = c)
      /\ ~use_lock => pc[c] \in (IF c = BSP THEN {"boot", "merge"} ELSE {"idle"})

(* A call that is past its guards asks for an order there is, and a block  *)
(* that is being split is large enough.                                    *)
RequestInv ==
    /\ \A b \in owned : OrderOf(b) \in Order
    /\ \A c \in CPU : pc[c] \in {"allocSpin", "split"} =>
         /\ npages[c] \in Requests
         /\ order_for(npages[c]) \in Order
         /\ pc[c] = "split" => order[c] >= order_for(npages[c])

(* freerange works upwards: everything it has handled is below p. *)
BootInv ==
    /\ IF region = 0 THEN p = 0 ELSE p <= FirstPage(region) \/ p <= EndPage(region)
    /\ ~use_lock =>
         /\ owned = {}
         /\ \A o \in Order : \A a \in free_lists[o] : a + Size[o] <= p
         /\ pc[BSP] = "merge" => addr[BSP] + Size[order[BSP]] <= p

(* The parts together: what every step of mem.c under buddy.lock keeps. *)
IInv == /\ TypeOK /\ LockInv /\ RequestInv /\ BootInv
        /\ NoOverlap /\ NoLeak /\ Aligned

-----------------------------------------------------------------------------
(* What the allocator promises: PageAlloc.  Pages a CPU is splitting or    *)
(* merging under the lock still count as free.                             *)
FreeBlocks == UNION {free_lists[o] \X {o} : o \in Order}
HeldBlocks == {<<addr[c], order[c]>> : c \in {d \in CPU : pc[d] \in {"split", "merge"}}}
AbsFree == UNION {Pages(b[1], b[2]) : b \in FreeBlocks \cup HeldBlocks}
AbsPending == [c \in CPU |->
    CASE pc[c] \in {"allocSpin", "split"} -> [op |-> "kalloc", npages |-> npages[c]]
      [] pc[c] = "freeSpin" -> [op |-> "kfree", pages |-> Pages(addr[c], order[c])]
      [] OTHER -> [op |-> "none"]]

PA == INSTANCE PageAlloc WITH free <- AbsFree, pending <- AbsPending,
                              BlockPages <- LAMBDA n : Size[order_for(n)]

(* kalloc and kfree are atomic operations on a set of free pages: a block  *)
(* is aligned and was free, and kalloc returns 0 only when no aligned run  *)
(* of free pages is long enough.                                           *)
RefinesPageAlloc == PA!Spec
=============================================================================
