------------------------------ MODULE SchedInv ------------------------------
(***************************************************************************)
(* The inductive invariant behind the safety properties of Sched.  It is   *)
(* an invariant of machines where a process cannot be moved to another CPU *)
(* between yield's read of mycpu() and its use: one CPU, or no system call *)
(* that yields.                                                            *)
(***************************************************************************)
EXTENDS Sched

Pinned == (\A m, n \in CPU : m = n) \/ "wait" \notin Syscalls

(* The points of yield before it is back from swtch. *)
InYield == {"yield", "yacq", "yspin", "yresume"}

(* What each CPU executes agrees with struct cpu and with proc_table. *)
CpuInv ==
    \A m \in CPU :
      \/ /\ cur[m] \in Slots
         /\ proc[m] = cur[m]
         /\ state[cur[m]] = "RUNNING"
         /\ pc[cur[m]] \in ProcPc \ {"dead", "halt"}
         /\ pc[m] = "swtched"
         /\ scheduler_ctx[m] = m
      \/ /\ cur[m] = m
         /\ proc[m] = None
         /\ pc[m] \in SchedPc \ {"halt"}

(* A process that waits for a CPU has a context to resume; the thread of a *)
(* slot that is not in use, not yet or no longer, is nowhere.              *)
IdleInv ==
    \A s \in Slots :
      /\ state[s] = "RUNNABLE" => context[s] = s /\ pc[s] \in {"yresume", "forkret"}
      /\ state[s] \in {"UNUSED", "EMBRYO", "ZOMBIE"} => pc[s] \in {"dead", "forkret"}

(* A creator owns the EMBRYO it is filling in. *)
Creating == {"embryo", "pubSpin"}
CreatorInv ==
    /\ \A t \in Thread : pc[t] \in Creating =>
         sysp[t] \in Slots /\ state[sysp[t]] = "EMBRYO"
    /\ \A t, u \in Thread :
         pc[t] \in Creating /\ pc[u] \in Creating /\ sysp[t] = sysp[u] => t = u
    /\ \A t \in Thread : pc[t] = "pubSpin" =>
         context[sysp[t]] = sysp[t] /\ pc[sysp[t]] = "forkret"

(* The locals of yield and sys_exit name the CPU and the process they run on. *)
LocalInv ==
    \A m \in CPU :
      cur[m] \in Slots /\ pc[cur[m]] \in {"yacq", "yspin", "exitSpin"} =>
        yc[cur[m]] = m /\ yp[cur[m]] = cur[m]

(* Interrupts are off in a system call until it has yielded, and in the    *)
(* timer's own call of yield.                                              *)
MaskInv ==
    \A m \in CPU : cur[m] \in Slots =>
      /\ pc[cur[m]] = "allocSpin" => ~intena[m]
      /\ pc[cur[m]] = "embryo" => ~ei[m]
      /\ pc[cur[m]] \in {"yield", "yacq"} /\ ra[cur[m]] = "iret" => ~ei[m]

(* The points a thread reaches only above a frame some interrupt pushed. *)
Nested(s) == \/ pc[s] \in {"iret", "forkret"}
             \/ pc[s] \in InYield /\ ra[s] = "iret"

(* The points of sys_wait, the yield it calls included, and their locals. *)
InWait(s) == \/ pc[s] \in {"wait", "waitSpin"}
             \/ pc[s] \in InYield /\ ra[s] = "wait"
WaitLocals(s) == "wait" \in Syscalls /\ sysp[s] = s

(* A saved frame: the bottom one is user code or a system call, those      *)
(* above it are interrupts on their way out.                               *)
SavedOK(s, i, f) ==
    /\ f.pc \in {"user", "sysret", "iret", "wait", "yield", "yacq"}
    /\ f.pc = "iret" <=> i > 1
    /\ f.pc \in {"wait", "yield", "yacq"} => WaitLocals(s)
    /\ f.pc \in {"yield", "yacq"} => f.ra = "wait"
    /\ f.pc = "yacq" => f.c \in CPU /\ f.p = s

(* An interrupt returns to a point it may interrupt, through a frame that  *)
(* is there; every other point is at the bottom of the kernel stack.       *)
FrameInv ==
    \A s \in Slots :
      /\ Nested(s) => Len(stack[s]) > 0
      /\ ~Nested(s) => Len(stack[s]) = 0
      /\ InWait(s) => WaitLocals(s)
      /\ \A i \in 1..Len(stack[s]) : SavedOK(s, i, stack[s][i])

(* Pids come from a counter that only grows. *)
PidInv == (\A s \in Slots : pid[s] < next_pid) /\ PidsUnique

(* The inductive invariant: every part above, with the lock discipline of  *)
(* spinlock.h and the exclusive use of kernel stacks they support.         *)
IInv ==
    /\ TypeOK
    /\ CpuInv
    /\ OneCpuPerProcess
    /\ LockBalanced
    /\ IdleInv
    /\ CreatorInv
    /\ LocalInv
    /\ MaskInv
    /\ FrameInv
    /\ UserPreemptible
    /\ PidInv
=============================================================================
