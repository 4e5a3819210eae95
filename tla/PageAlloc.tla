----------------------------- MODULE PageAlloc -----------------------------
(***************************************************************************)
(* What callers of kalloc and kfree may rely on, without orders, lists or  *)
(* a lock: a set of free pages from which naturally aligned runs are taken *)
(* and to which they are given back.  Each call has an atomic effect       *)
(* somewhere between its start and its return.                             *)
(***************************************************************************)
EXTENDS Naturals

CONSTANTS
    CPU,            \* the callers
    Requests,       \* the values of npages
    BlockPages(_)   \* the pages of the block kalloc(n) takes

VARIABLES
    free,           \* the free pages
    owned,          \* the blocks callers have, as (address, npages)
    pending         \* the call each CPU has in progress

vars == <<free, owned, pending>>

Run(a, n) == a .. (a + BlockPages(n) - 1)
Idle == [op |-> "none"]

Init ==
    /\ free = {}
    /\ owned = {}
    /\ pending = [c \in CPU |-> Idle]

(* Boot gives the allocator pages, before anybody asks for one. *)
Give ==
    /\ owned = {} /\ pending = [c \in CPU |-> Idle]
    /\ free \subseteq free'
    /\ UNCHANGED <<owned, pending>>

CallAlloc(c) == \E n \in Requests :
    /\ pending[c] = Idle
    /\ pending' = [pending EXCEPT ![c] = [op |-> "kalloc", npages |-> n]]
    /\ UNCHANGED <<free, owned>>

Grant(c) ==
    /\ pending[c].op = "kalloc"
    /\ LET n == pending[c].npages IN
       \E a \in free :
         /\ a % BlockPages(n) = 0
         /\ Run(a, n) \subseteq free
         /\ free' = free \ Run(a, n)
         /\ owned' = owned \cup {[addr |-> a, npages |-> n]}
    /\ pending' = [pending EXCEPT ![c] = Idle]

Refuse(c) ==
    /\ pending[c].op = "kalloc"
    /\ LET n == pending[c].npages IN
       ~ \E a \in free : a % BlockPages(n) = 0 /\ Run(a, n) \subseteq free
    /\ pending' = [pending EXCEPT ![c] = Idle]
    /\ UNCHANGED <<free, owned>>

CallFree(c) == \E b \in owned :
    /\ pending[c] = Idle
    /\ owned' = owned \ {b}
    /\ pending' = [pending EXCEPT ![c] = [op |-> "kfree", pages |-> Run(b.addr, b.npages)]]
    /\ UNCHANGED free

Accept(c) ==
    /\ pending[c].op = "kfree"
    /\ pending[c].pages \cap free = {}
    /\ free' = free \cup pending[c].pages
    /\ pending' = [pending EXCEPT ![c] = Idle]
    /\ UNCHANGED owned

Next == Give \/ \E c \in CPU : \/ CallAlloc(c) \/ Grant(c) \/ Refuse(c)
                               \/ CallFree(c) \/ Accept(c)

Spec == Init /\ [][Next]_vars
=============================================================================
