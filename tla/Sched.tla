------------------------------- MODULE Sched -------------------------------
(***************************************************************************)
(* The process core of the kernel: proc_lock and the per-CPU interrupt     *)
(* state it drives (spinlock.h), the scheduler loop, yield and swtch, the  *)
(* timer interrupt, process allocation at boot and in fork, exit and wait  *)
(* (proc.c, syscall.c, swtch.asm, idt.c, main.c).                          *)
(*                                                                         *)
(* A thread is a kernel stack with the code that runs on it: one per CPU   *)
(* (the boot code and then scheduler()) and one per slot of proc_table.    *)
(* pc is the point the thread has reached; yc, yp and ra are the locals    *)
(* of yield and sys_exit (c, p and the return address of yield), sysp the  *)
(* local of the system call in progress (child in proc_fork, parent in     *)
(* sys_wait).  An interrupt pushes the point it interrupted on stack.      *)
(*                                                                         *)
(* Steps that run with interrupts off and touch only the executing CPU, or *)
(* that run under proc_lock, are one action.                               *)
(***************************************************************************)
EXTENDS Naturals, Sequences, FiniteSets

CONSTANTS
    CPU,        \* the processors, cpus[]
    BSP,        \* the one that boots the kernel and creates init
    NSlots,     \* MAX_PROCS
    MaxPid,     \* bound: the largest pid fork may hand out
    MaxNest,    \* bound: interrupts nested on one kernel stack
    Syscalls,   \* the system calls user programs make
    None        \* a null pointer

ASSUME SchedAssumption ==
    /\ BSP \in CPU
    /\ NSlots \in Nat \ {0}
    /\ MaxPid \in Nat
    /\ MaxNest \in Nat \ {0}
    /\ Syscalls \subseteq {"fork", "exit", "wait"}
    /\ CPU \cap (1..NSlots) = {}
    /\ None \notin CPU \cup (1..NSlots)

Slots  == 1..NSlots
Thread == CPU \cup Slots

(* Program points of a CPU's own thread: proc_create at boot, then the loop. *)
SchedPc == {"boot", "allocSpin", "embryo", "pubSpin",
            "sti", "acq", "spin", "scan", "swtched", "halt"}
(* Program points of a process. *)
ProcPc  == {"user", "sysret", "iret", "forkret",
            "allocSpin", "embryo", "pubSpin", "exitSpin", "dead",
            "wait", "waitSpin", "yield", "yacq", "yspin", "yresume", "halt"}
States  == {"UNUSED", "EMBRYO", "RUNNABLE", "RUNNING", "ZOMBIE"}
Frame   == [pc : ProcPc, c : CPU \cup {None}, p : Slots \cup {None},
            ra : {"iret", "wait"}]

VARIABLES
    \* per CPU: the thread it executes, RFLAGS.IF, and struct cpu
    cur, ei, ncli, intena, proc, scheduler_ctx,
    \* proc_lock.cpu, None when the lock is free
    lock,
    \* proc_table and next_pid
    state, pid, ppid, context, next_pid,
    \* per thread
    pc, yc, yp, ra, sysp, stack

cpuVars  == <<cur, ei, ncli, intena, proc, scheduler_ctx>>
tabVars  == <<state, pid, ppid, context, next_pid>>
thrVars  == <<pc, yc, yp, ra, sysp, stack>>
vars     == <<cpuVars, lock, tabVars, thrVars>>

UserFrame == [pc |-> "user", c |-> None, p |-> None, ra |-> "iret"]

(* Every AP is in scheduler() and the BSP is about to call proc_create,    *)
(* with interrupts on.                                                     *)
Init ==
    /\ cur = [m \in CPU |-> m]
    /\ ei = [m \in CPU |-> TRUE]
    /\ ncli = [m \in CPU |-> 0]
    /\ intena = [m \in CPU |-> FALSE]
    /\ proc = [m \in CPU |-> None]
    /\ scheduler_ctx = [m \in CPU |-> None]
    /\ lock = None
    /\ state = [s \in Slots |-> "UNUSED"]
    /\ pid = [s \in Slots |-> 0]
    /\ ppid = [s \in Slots |-> 0]
    /\ context = [s \in Slots |-> None]
    /\ next_pid = 1
    /\ pc = [t \in Thread |-> IF t = BSP THEN "boot"
                              ELSE IF t \in CPU THEN "sti" ELSE "dead"]
    /\ yc = [t \in Thread |-> None]
    /\ yp = [t \in Thread |-> None]
    /\ ra = [t \in Thread |-> "iret"]
    /\ sysp = [t \in Thread |-> None]
    /\ stack = [t \in Thread |-> <<>>]

-----------------------------------------------------------------------------
(* spinlock.h *)

At(m, l) == pc[cur[m]] = l
Goto(m, l) == pc' = [pc EXCEPT ![cur[m]] = l]

(* acquire up to its spin loop, entered with RFLAGS.IF = f: pushcli, and a *)
(* CPU that already holds the lock stops for good.                         *)
AcquireCall(m, f, spin) ==
    /\ ei' = [ei EXCEPT ![m] = FALSE]
    /\ intena' = IF ncli[m] = 0 THEN [intena EXCEPT ![m] = f] ELSE intena
    /\ ncli' = [ncli EXCEPT ![m] = @ + 1]
    /\ Goto(m, IF lock = m THEN "halt" ELSE spin)

(* Mutant: sti whether or not interrupts were on at pushcli. *)
popcliSti(m) ==
    /\ ncli' = [ncli EXCEPT ![m] = @ - 1]
    /\ ei' = [ei EXCEPT ![m] = TRUE]

(* The last popcli of a critical section: interrupts come back on when the *)
(* CPU's intena says so, whichever thread set it.                          *)
popcli(m) ==
    /\ ncli' = [ncli EXCEPT ![m] = @ - 1]
    /\ ei' = [ei EXCEPT ![m] = @ \/ (ncli[m] = 1 /\ intena[m])]

(* release by a thread that got the lock in an earlier step; a CPU that    *)
(* does not hold it stops for good.                                        *)
Release(m, next) ==
    IF lock = m /\ ncli[m] > 0
    THEN lock' = None /\ popcli(m) /\ Goto(m, next)
    ELSE UNCHANGED <<lock, ncli, ei>> /\ Goto(m, "halt")

(* Mutant: the early return of a critical section forgets release. *)
CriticalNoRelease(m, next) ==
    /\ lock = None
    /\ lock' = m
    /\ popcli(m)
    /\ Goto(m, next)

(* A critical section that is one step: xchg succeeds, release, popcli. *)
Critical(m, next) ==
    /\ lock = None
    /\ UNCHANGED lock
    /\ popcli(m)
    /\ Goto(m, next)

-----------------------------------------------------------------------------
(* Mutant: swtch saves the stack pointer after it has loaded the new one. *)
SwtchLoadFirst(m, s, c) ==
    /\ context' = [context EXCEPT ![s] = scheduler_ctx[c]]
    /\ cur' = [cur EXCEPT ![m] = scheduler_ctx[c]]

(* swtch: the running stack is saved through one pointer, the other is     *)
(* loaded.  The lock stays with the CPU.                                   *)
SwtchToSched(m, s, c) ==
    /\ context' = [context EXCEPT ![s] = cur[m]]
    /\ cur' = [cur EXCEPT ![m] = scheduler_ctx[c]]

(* scheduler(), thread t = the CPU whose stack it is; normally t = m. *)
SchedSti(m) ==
    /\ At(m, "sti")
    /\ ei' = [ei EXCEPT ![m] = TRUE]
    /\ Goto(m, "acq")
    /\ UNCHANGED <<cur, ncli, intena, proc, scheduler_ctx, lock, tabVars,
                   yc, yp, ra, sysp, stack>>

SchedAcquire(m) ==
    /\ At(m, "acq")
    /\ AcquireCall(m, ei[m], "spin")
    /\ UNCHANGED <<cur, proc, scheduler_ctx, lock, tabVars,
                   yc, yp, ra, sysp, stack>>

(* yp holds the loop index: the slot the scan has reached. *)
SchedSpin(m) ==
    /\ At(m, "spin")
    /\ lock = None
    /\ lock' = m
    /\ Goto(m, "scan")
    /\ yp' = [yp EXCEPT ![cur[m]] = None]
    /\ UNCHANGED <<cpuVars, tabVars, yc, ra, sysp, stack>>

(* Mutant: the scan starts again from slot 0 after every switch. *)
AheadRestart(t) == Slots

(* The slots the for loop has still to look at. *)
Ahead(t) == {s \in Slots : yp[t] # None => s > yp[t]}

(* Mutants: any live slot is run; a process another CPU runs is run too. *)
RunnableLive(t) == {s \in Ahead(t) : state[s] \in {"EMBRYO", "RUNNABLE"}}
RunnableTwice(t) == {s \in Ahead(t) : state[s] \in {"RUNNABLE", "RUNNING"}}

Runnable(t) == {s \in Ahead(t) : state[s] = "RUNNABLE"}

SchedSwitch(m) ==
    /\ At(m, "scan")
    /\ \E s \in Runnable(cur[m]) :
         /\ \A r \in Runnable(cur[m]) : s <= r
         /\ state' = [state EXCEPT ![s] = "RUNNING"]
         /\ proc' = [proc EXCEPT ![cur[m]] = s]
         /\ scheduler_ctx' = [scheduler_ctx EXCEPT ![cur[m]] = cur[m]]
         /\ cur' = [cur EXCEPT ![m] = context[s]]
         /\ yp' = [yp EXCEPT ![cur[m]] = s]
    /\ Goto(m, "swtched")
    /\ UNCHANGED <<ei, ncli, intena, lock, pid, ppid, context, next_pid,
                   yc, ra, sysp, stack>>

SchedReturned(m) ==
    /\ At(m, "swtched")
    /\ proc' = [proc EXCEPT ![cur[m]] = None]
    /\ Goto(m, "scan")
    /\ UNCHANGED <<cur, ei, ncli, intena, scheduler_ctx, lock, tabVars,
                   yc, yp, ra, sysp, stack>>

SchedRelease(m) ==
    /\ At(m, "scan")
    /\ Runnable(cur[m]) = {}
    /\ Release(m, "sti")
    /\ UNCHANGED <<cur, intena, proc, scheduler_ctx, tabVars,
                   yc, yp, ra, sysp, stack>>

-----------------------------------------------------------------------------
(* isr_common and timer_handler: the interrupted point is saved and yield  *)
(* is called with interrupts off.  With no current process yield returns   *)
(* at once and the interrupt changes nothing.                              *)
Timer(m) ==
    /\ ei[m]
    /\ proc[m] # None
    /\ Len(stack[cur[m]]) < MaxNest
    /\ stack' = [stack EXCEPT ![cur[m]] =
                   Append(@, [pc |-> pc[cur[m]], c |-> yc[cur[m]],
                              p |-> yp[cur[m]], ra |-> ra[cur[m]]])]
    /\ ei' = [ei EXCEPT ![m] = FALSE]
    /\ Goto(m, "yield")
    /\ ra' = [ra EXCEPT ![cur[m]] = "iret"]
    /\ UNCHANGED <<cur, ncli, intena, proc, scheduler_ctx, lock, tabVars,
                   yc, yp, sysp>>

(* trapret and iretq: back to the interrupted point, where interrupts were on. *)
Iretq(m) ==
    /\ At(m, "iret")
    /\ LET t == cur[m]
           f == stack[t][Len(stack[t])]
       IN  /\ pc' = [pc EXCEPT ![t] = f.pc]
           /\ yc' = [yc EXCEPT ![t] = f.c]
           /\ yp' = [yp EXCEPT ![t] = f.p]
           /\ ra' = [ra EXCEPT ![t] = f.ra]
           /\ stack' = [stack EXCEPT ![t] = SubSeq(@, 1, Len(@) - 1)]
    /\ ei' = [ei EXCEPT ![m] = TRUE]
    /\ UNCHANGED <<cur, ncli, intena, proc, scheduler_ctx, lock, tabVars, sysp>>

(* The end of syscall_entry: back to user mode with the user's RFLAGS; the *)
(* locals of the call are gone.                                            *)
Sysret(m) ==
    /\ At(m, "sysret")
    /\ ei' = [ei EXCEPT ![m] = TRUE]
    /\ Goto(m, "user")
    /\ yc' = [yc EXCEPT ![cur[m]] = None]
    /\ yp' = [yp EXCEPT ![cur[m]] = None]
    /\ ra' = [ra EXCEPT ![cur[m]] = "iret"]
    /\ sysp' = [sysp EXCEPT ![cur[m]] = None]
    /\ UNCHANGED <<cur, ncli, intena, proc, scheduler_ctx, lock, tabVars, stack>>

-----------------------------------------------------------------------------
(* yield() *)

YieldRead(m) ==
    /\ At(m, "yield")
    /\ yc' = [yc EXCEPT ![cur[m]] = m]
    /\ yp' = [yp EXCEPT ![cur[m]] = proc[m]]
    /\ Goto(m, IF proc[m] = None THEN ra[cur[m]] ELSE "yacq")
    /\ UNCHANGED <<cpuVars, lock, tabVars, ra, sysp, stack>>

YieldAcquire(m) ==
    /\ At(m, "yacq")
    /\ AcquireCall(m, ei[m], "yspin")
    /\ UNCHANGED <<cur, proc, scheduler_ctx, lock, tabVars,
                   yc, yp, ra, sysp, stack>>

YieldSwitch(m) ==
    LET t == cur[m] IN
    /\ At(m, "yspin")
    /\ lock = None
    /\ lock' = m
    /\ state' = [state EXCEPT ![yp[t]] = "RUNNABLE"]
    /\ proc' = [proc EXCEPT ![yc[t]] = None]
    /\ SwtchToSched(m, yp[t], yc[t])
    /\ Goto(m, "yresume")
    /\ UNCHANGED <<ei, ncli, intena, scheduler_ctx, pid, ppid, next_pid,
                   yc, yp, ra, sysp, stack>>

(* Back from swtch, on whichever CPU scheduled the process. *)
YieldResume(m) ==
    /\ At(m, "yresume")
    /\ Release(m, ra[cur[m]])
    /\ UNCHANGED <<cur, intena, proc, scheduler_ctx, tabVars,
                   yc, yp, ra, sysp, stack>>

(* Mutant: a new process starts without releasing proc_lock. *)
forkretHolding(m) ==
    /\ At(m, "forkret")
    /\ Goto(m, "iret")
    /\ UNCHANGED <<cpuVars, lock, tabVars, yc, yp, ra, sysp, stack>>

(* The first run of a process. *)
forkret(m) ==
    /\ At(m, "forkret")
    /\ Release(m, "iret")
    /\ UNCHANGED <<cur, intena, proc, scheduler_ctx, tabVars,
                   yc, yp, ra, sysp, stack>>

-----------------------------------------------------------------------------
(* proc_alloc, and its callers proc_create (boot) and proc_fork.           *)

(* Where the creator goes when it is done: the BSP enters scheduler(), a   *)
(* process returns from its system call.                                   *)
CreatorDone(m) == IF cur[m] \in CPU THEN "sti" ELSE "sysret"

(* Pids already promised to callers of proc_alloc. *)
Allocating == {t \in Thread : pc[t] = "allocSpin"}

(* proc_create: read_elf succeeds and proc_alloc is called. *)
BootCreate(m) ==
    /\ At(m, "boot")
    /\ AcquireCall(m, ei[m], "allocSpin")
    /\ UNCHANGED <<cur, proc, scheduler_ctx, lock, tabVars,
                   yc, yp, ra, sysp, stack>>

(* read_elf fails and the kernel runs without init. *)
BootNoInit(m) ==
    /\ At(m, "boot")
    /\ Goto(m, "sti")
    /\ UNCHANGED <<cpuVars, lock, tabVars, yc, yp, ra, sysp, stack>>

SysFork(m) ==
    /\ At(m, "user") /\ "fork" \in Syscalls
    /\ proc[m] # None
    /\ next_pid + Cardinality(Allocating) <= MaxPid
    /\ AcquireCall(m, FALSE, "allocSpin")
    /\ UNCHANGED <<cur, proc, scheduler_ctx, lock, tabVars,
                   yc, yp, ra, sysp, stack>>

Unused == {s \in Slots : state[s] = "UNUSED"}

AllocSlot(m) ==
    /\ At(m, "allocSpin")
    /\ \E s \in Unused :
         /\ \A r \in Unused : s <= r
         /\ pid' = [pid EXCEPT ![s] = next_pid]
         /\ state' = [state EXCEPT ![s] = "EMBRYO"]
         /\ sysp' = [sysp EXCEPT ![cur[m]] = s]
    /\ next_pid' = next_pid + 1
    /\ Critical(m, "embryo")
    /\ UNCHANGED <<cur, intena, proc, scheduler_ctx, ppid, context,
                   yc, yp, ra, stack>>

AllocFull(m) ==
    /\ At(m, "allocSpin")
    /\ Unused = {}
    /\ Critical(m, CreatorDone(m))
    /\ UNCHANGED <<cur, intena, proc, scheduler_ctx, tabVars,
                   yc, yp, ra, sysp, stack>>

(* No kernel stack, no page table, or a bad ELF file: the slot is given    *)
(* back without the lock.                                                  *)
CreateFail(m) ==
    /\ At(m, "embryo")
    /\ state' = [state EXCEPT ![sysp[cur[m]]] = "UNUSED"]
    /\ Goto(m, CreatorDone(m))
    /\ UNCHANGED <<cpuVars, lock, pid, ppid, context, next_pid,
                   yc, yp, ra, sysp, stack>>

(* kstack_setup builds the first context (forkret, then trapret over a     *)
(* user trap frame), ppid is set, and acquire is called.                   *)
CreateSetup(m) ==
    /\ At(m, "embryo")
    /\ LET s == sysp[cur[m]] IN
       /\ ppid' = [ppid EXCEPT ![s] = IF proc[m] = None THEN 0 ELSE pid[proc[m]]]
       /\ context' = [context EXCEPT ![s] = s]
       /\ stack' = [stack EXCEPT ![s] = <<UserFrame>>]
       /\ ei' = [ei EXCEPT ![m] = FALSE]
       /\ intena' = IF ncli[m] = 0 THEN [intena EXCEPT ![m] = ei[m]] ELSE intena
       /\ ncli' = [ncli EXCEPT ![m] = @ + 1]
       /\ pc' = [pc EXCEPT ![s] = "forkret",
                           ![cur[m]] = IF lock = m THEN "halt" ELSE "pubSpin"]
    /\ UNCHANGED <<cur, proc, scheduler_ctx, lock, state, pid, next_pid,
                   yc, yp, ra, sysp>>

Publish(m) ==
    /\ At(m, "pubSpin")
    /\ state' = [state EXCEPT ![sysp[cur[m]]] = "RUNNABLE"]
    /\ Critical(m, CreatorDone(m))
    /\ UNCHANGED <<cur, intena, proc, scheduler_ctx, pid, ppid, context,
                   next_pid, yc, yp, ra, sysp, stack>>

-----------------------------------------------------------------------------
(* sys_exit *)

SysExit(m) ==
    /\ At(m, "user") /\ "exit" \in Syscalls
    /\ proc[m] # None
    /\ yc' = [yc EXCEPT ![cur[m]] = m]
    /\ yp' = [yp EXCEPT ![cur[m]] = proc[m]]
    /\ AcquireCall(m, FALSE, "exitSpin")
    /\ UNCHANGED <<cur, proc, scheduler_ctx, lock, tabVars, ra, sysp, stack>>

ExitSwitch(m) ==
    LET t == cur[m] IN
    /\ At(m, "exitSpin")
    /\ lock = None
    /\ lock' = m
    /\ state' = [state EXCEPT ![yp[t]] = "ZOMBIE"]
    /\ proc' = [proc EXCEPT ![yc[t]] = None]
    /\ SwtchToSched(m, yp[t], yc[t])
    /\ Goto(m, "dead")
    /\ UNCHANGED <<ei, ncli, intena, scheduler_ctx, pid, ppid, next_pid,
                   yc, yp, ra, sysp, stack>>

-----------------------------------------------------------------------------
(* sys_wait *)

SysWait(m) ==
    /\ At(m, "user") /\ "wait" \in Syscalls
    /\ proc[m] # None
    /\ sysp' = [sysp EXCEPT ![cur[m]] = proc[m]]
    /\ AcquireCall(m, FALSE, "waitSpin")
    /\ UNCHANGED <<cur, proc, scheduler_ctx, lock, tabVars, yc, yp, ra, stack>>

(* Mutant: the loop yields again without looking at the table. *)
WaitNoRescan(m) ==
    /\ At(m, "wait")
    /\ Goto(m, "yield")
    /\ UNCHANGED <<cpuVars, lock, tabVars, yc, yp, ra, sysp, stack>>

(* The loop comes round, perhaps with interrupts on. *)
WaitAgain(m) ==
    /\ At(m, "wait")
    /\ AcquireCall(m, ei[m], "waitSpin")
    /\ UNCHANGED <<cur, proc, scheduler_ctx, lock, tabVars,
                   yc, yp, ra, sysp, stack>>

(* Mutant: any zombie is reaped, whoever its parent is. *)
ZombieAny(s) == {z \in Slots : state[z] = "ZOMBIE"}

ZombieChildren(s) == {z \in Slots : state[z] = "ZOMBIE" /\ ppid[z] = pid[s]}

WaitReap(m) ==
    /\ At(m, "waitSpin")
    /\ \E z \in ZombieChildren(sysp[cur[m]]) :
         /\ \A r \in ZombieChildren(sysp[cur[m]]) : z <= r
         /\ state' = [state EXCEPT ![z] = "UNUSED"]
    /\ Critical(m, "sysret")
    /\ UNCHANGED <<cur, intena, proc, scheduler_ctx, pid, ppid, context,
                   next_pid, yc, yp, ra, sysp, stack>>

WaitNone(m) ==
    /\ At(m, "waitSpin")
    /\ ZombieChildren(sysp[cur[m]]) = {}
    /\ Critical(m, "yield")
    /\ ra' = [ra EXCEPT ![cur[m]] = "wait"]
    /\ UNCHANGED <<cur, intena, proc, scheduler_ctx, tabVars,
                   yc, yp, sysp, stack>>

-----------------------------------------------------------------------------
Loop(m) == SchedSti(m) \/ SchedAcquire(m) \/ SchedSpin(m) \/ SchedSwitch(m)
           \/ SchedReturned(m) \/ SchedRelease(m)

Yield(m) == YieldRead(m) \/ YieldAcquire(m) \/ YieldSwitch(m) \/ YieldResume(m)
            \/ forkret(m) \/ Iretq(m) \/ Sysret(m)

Create(m) == AllocSlot(m) \/ AllocFull(m) \/ CreateFail(m)
             \/ CreateSetup(m) \/ Publish(m)

WaitLoop(m) == WaitAgain(m) \/ WaitReap(m) \/ WaitNone(m)

(* What the CPU does by itself, whatever programs and devices do. *)
Step(m) == BootCreate(m) \/ BootNoInit(m) \/ Loop(m) \/ Yield(m) \/ Create(m)
           \/ ExitSwitch(m) \/ WaitLoop(m)

Next == \E m \in CPU : Step(m) \/ Timer(m) \/ SysFork(m) \/ SysExit(m) \/ SysWait(m)

Spec == Init /\ [][Next]_vars

-----------------------------------------------------------------------------
(* Properties *)

(* Every variable has its type. *)
TypeOK ==
    /\ cur \in [CPU -> Thread]
    /\ ei \in [CPU -> BOOLEAN]
    /\ ncli \in [CPU -> Nat]
    /\ intena \in [CPU -> BOOLEAN]
    /\ proc \in [CPU -> Slots \cup {None}]
    /\ scheduler_ctx \in [CPU -> CPU \cup {None}]
    /\ lock \in CPU \cup {None}
    /\ state \in [Slots -> States]
    /\ pid \in [Slots -> Nat]
    /\ ppid \in [Slots -> Nat]
    /\ context \in [Slots -> Slots \cup {None}]
    /\ next_pid \in Nat \ {0}
    /\ pc \in [Thread -> SchedPc \cup ProcPc]
    /\ yc \in [Thread -> CPU \cup {None}]
    /\ yp \in [Thread -> Slots \cup {None}]
    /\ ra \in [Thread -> {"iret", "wait"}]
    /\ sysp \in [Thread -> Slots \cup {None}]
    /\ stack \in [Thread -> Seq(Frame)]

(* mycpu()->proc is the process the CPU executes: a CPU on the kernel      *)
(* stack of a slot has that slot as its current process and the slot is    *)
(* RUNNING (so its stack has not been freed by sys_wait); a CPU in the     *)
(* scheduler has none.                                                     *)
CurrentProc ==
    \A m \in CPU : IF cur[m] \in Slots
                   THEN proc[m] = cur[m] /\ state[cur[m]] = "RUNNING"
                   ELSE cur[m] = m /\ proc[m] = None

(* No two CPUs run on the same kernel stack, and a process marked RUNNING  *)
(* is on a CPU: the lock held across swtch hands each process to exactly   *)
(* one scheduler.                                                          *)
OneCpuPerProcess ==
    /\ \A m, n \in CPU : cur[m] = cur[n] => m = n
    /\ \A s \in Slots : state[s] = "RUNNING" => \E m \in CPU : cur[m] = s

(* The points at which a thread has proc_lock, and at which it spins for it. *)
Holding  == {"scan", "swtched", "yresume", "forkret"}
Spinning == {"spin", "allocSpin", "pubSpin", "exitSpin", "waitSpin", "yspin"}

(* The lock is balanced across context switches: it is held exactly by the *)
(* CPU whose thread is between taking it and giving it back, although the  *)
(* thread that gives it back is not the one that took it; and a CPU that   *)
(* holds it or spins for it has interrupts off and ncli = 1, any other     *)
(* has ncli = 0.                                                           *)
LockBalanced ==
    \A m \in CPU :
      /\ lock = m <=> pc[cur[m]] \in Holding
      /\ ncli[m] = IF pc[cur[m]] \in Holding \cup Spinning THEN 1 ELSE 0
      /\ ncli[m] > 0 => ~ei[m]

(* None of the panics of spinlock.h is reached, and sys_exit never returns *)
(* from swtch ("SYS_EXIT: RETURNED").                                      *)
NoPanic ==
    \A m \in CPU : pc[cur[m]] \notin {"halt", "dead"}

(* User code runs preemptible: interrupts on, no pushcli pending. *)
UserPreemptible ==
    \A m \in CPU : pc[cur[m]] = "user" => ei[m] /\ ncli[m] = 0

(* Two slots in use never have the same pid, although proc_alloc hands     *)
(* pids out under the lock and fills the slot in after it: sys_wait could  *)
(* otherwise reap the child of another process.                            *)
PidsUnique ==
    \A r, s \in Slots :
      r # s /\ state[r] # "UNUSED" /\ state[s] # "UNUSED" => pid[r] # pid[s]

ReapStep ==
    \A z \in Slots :
      state[z] = "ZOMBIE" /\ state'[z] # "ZOMBIE" =>
        /\ state'[z] = "UNUSED"
        /\ \E m \in CPU : /\ proc[m] # None
                           /\ pid[proc[m]] = ppid[z]
                           /\ pc[cur[m]] = "waitSpin"

(* A zombie leaves the table only when the process whose child it is is    *)
(* in sys_wait, and no step takes a process from ZOMBIE back to life.      *)
ReapedByParent == [][ReapStep]_vars

-----------------------------------------------------------------------------
(* Fairness: a CPU never stops between instructions; the local APIC keeps  *)
(* a timer interrupt pending until IF is set, so it is not missed although *)
(* IF comes and goes; and the timer period is longer than an instruction,  *)
(* so code at every depth of nesting gets ahead between interrupts.        *)
Progress(m, s, d) == cur[m] = s /\ Len(stack[s]) = d /\ Step(m)

Fairness ==
    \A m \in CPU : /\ WF_vars(Step(m))
                   /\ SF_vars(Timer(m))
                   /\ \A s \in Slots, d \in 0..MaxNest : SF_vars(Progress(m, s, d))

FairSpec == Spec /\ Fairness

(* No process starves: a RUNNABLE process is picked by a later scan. *)
RunnableRuns ==
    \A s \in Slots : state[s] = "RUNNABLE" ~> state[s] = "RUNNING"

(* The points of the loop of sys_wait. *)
Waiting(s) == \/ pc[s] \in {"wait", "waitSpin"}
              \/ pc[s] = "yield" /\ ra[s] = "wait"

(* A process in sys_wait that has a zombie child gets out of the loop. *)
WaitReturns ==
    \A s \in Slots :
      Waiting(s) /\ state[s] = "RUNNING" /\ ZombieChildren(s) # {} ~> pc[s] = "user"
=============================================================================
