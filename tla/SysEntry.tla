------------------------------ MODULE SysEntry ------------------------------
(***************************************************************************)
(* Entering and leaving the kernel: the system call path                   *)
(* (syscall_entry.asm), the interrupt path (isr_common and trapret in      *)
(* idt.c), and what fork, exec and the scheduler do to the saved           *)
(* registers (proc.c).                                                     *)
(*                                                                         *)
(* A program gives every register a new value whenever it runs: <<r, v>>   *)
(* is the v-th value of register r.  In the kernel the registers are lost; *)
(* what a program finds afterwards comes from the frame on a kernel stack. *)
(* `want' is what it should find.                                          *)
(***************************************************************************)
EXTENDS Naturals, Sequences, SequencesExt, FiniteSets

CONSTANTS
    Tasks,      \* the processes
    FirstTask,  \* /bin/init
    Cores,      \* the processors
    NoTask,     \* a null pointer
    MaxValue    \* bound: how often programs change the registers

ASSUME SysEntryAssumption == FirstTask \in Tasks /\ NoTask \notin Tasks /\ MaxValue \in Nat

(* syscall_entry: what is pushed, from the top of the kernel stack down.   *)
(* The syscall instruction has put rip into rcx and rflags into r11.       *)
PushOrder == <<"rsp", "rip", "rflags", "rbx", "rbp", "r12", "r13", "r14", "r15",
               "rdi", "rsi", "rdx", "r10", "r8", "r9", "rax">>

(* isr_common, above which are rsp, rflags and rip as the CPU pushes them. *)
IsrOrder == <<"rsp", "rflags", "rip", "rax", "rbx", "rcx", "rdx", "rsi", "rdi", "rbp",
              "r8", "r9", "r10", "r11", "r12", "r13", "r14", "r15">>
TrapretOrder == <<"r15", "r14", "r13", "r12", "r11", "r10", "r9", "r8", "rbp", "rdi", "rsi",
                  "rdx", "rcx", "rbx", "rax", "rip", "rflags", "rsp">>

Reg == Range(IsrOrder)
Unset == <<"any", 0>>         \* lost, or not constrained
Zero == <<"zero", 0>>
NoRegs == [r \in Reg |-> Unset]
Results == {<<"result", 0>>, <<"pid", 0>>}      \* what a handler returns

VARIABLES
    mode,       \* "unused", "user", "kernel", or "ready": switched away from
    regs,       \* what the process finds in the registers, in user mode
    stack,      \* per process: the frame at the top of its kernel stack
    on,         \* per process: whose kernel stack its frame is on
    tf,         \* p->tf
    curr, krsp, \* per CPU: cpu->proc; whose stack cpu->kernel_rsp is the top of
    want,       \* ghost: what the process should find when it is back
    value       \* how many values programs have put in the registers

SysEntryVars == <<mode, regs, stack, on, tf, curr, krsp, want, value>>

NoFrame == [kind |-> "none", slot |-> <<>>]
Frame(k, order, f) == [kind |-> k, slot |-> [i \in DOMAIN order |-> f[order[i]]]]

(* kstack_setup: the frame that trapret will pop.  With an empty p->tf, of *)
(* a new program, everything but rip, rsp and rflags is 0.                 *)
kstack_setup(f) == Frame("trap", Reverse(TrapretOrder), f)
NewProgram == [r \in Reg |-> IF r \in {"rip", "rsp", "rflags"} THEN <<r, 0>> ELSE Zero]

SysEntryInit ==
    /\ mode = [p \in Tasks |-> IF p = FirstTask THEN "ready" ELSE "unused"]
    /\ regs = [p \in Tasks |-> NoRegs]
    /\ stack = [p \in Tasks |-> IF p = FirstTask THEN kstack_setup(NewProgram) ELSE NoFrame]
    /\ on = [p \in Tasks |-> p]
    /\ tf = [p \in Tasks |-> NoRegs]
    /\ curr = [c \in Cores |-> NoTask] /\ krsp = [c \in Cores |-> NoTask]
    /\ want = [p \in Tasks |-> NewProgram]
    /\ value = 0

-----------------------------------------------------------------------------
(* In user mode *)

Compute(p) ==
    /\ mode[p] = "user" /\ value < MaxValue
    /\ value' = value + 1
    /\ regs' = [regs EXCEPT ![p] = [r \in Reg |-> <<r, value + 1>>]]
    /\ want' = [want EXCEPT ![p] = regs'[p]]
    /\ UNCHANGED <<mode, stack, on, tf, curr, krsp>>

(* Where syscall_entry takes each field of p->tf from: the distance to rsp *)
(* after the pushes.                                                       *)
TfOffset == [r15 |-> 56, r14 |-> 64, r13 |-> 72, r12 |-> 80, r11 |-> 104, r10 |-> 24,
             r9 |-> 8, r8 |-> 16, rbp |-> 88, rdi |-> 48, rsi |-> 40, rdx |-> 32,
             rcx |-> 112, rbx |-> 96, rax |-> 0, rip |-> 112, rflags |-> 104, rsp |-> 120]
AtOffset(f, d) == f.slot[Len(PushOrder) - d \div 8]
SaveTf(f) == [r \in Reg |-> AtOffset(f, TfOffset[r])]

(* The frame goes to the top of the stack of cpu->kernel_rsp. *)
syscall_entry(c, p) ==
    /\ curr[c] = p /\ mode[p] = "user"
    /\ LET f == Frame("sys", PushOrder, regs[p])
       IN  /\ stack' = [stack EXCEPT ![krsp[c]] = f]
           /\ tf' = [tf EXCEPT ![p] = SaveTf(f)]
    /\ on' = [on EXCEPT ![p] = krsp[c]]
    /\ regs' = [regs EXCEPT ![p] = NoRegs]
    /\ mode' = [mode EXCEPT ![p] = "kernel"]
    /\ UNCHANGED <<curr, krsp, want, value>>

(* Mutant: rax is used before it is pushed. *)
IsrLosesRax(c, p) ==
    /\ curr[c] = p /\ mode[p] = "user"
    /\ stack' = [stack EXCEPT ![krsp[c]] = Frame("trap", IsrOrder, [regs[p] EXCEPT !["rax"] = Zero])]
    /\ on' = [on EXCEPT ![p] = krsp[c]]
    /\ regs' = [regs EXCEPT ![p] = NoRegs]
    /\ mode' = [mode EXCEPT ![p] = "ready"]
    /\ curr' = [curr EXCEPT ![c] = NoTask]
    /\ want' = [want EXCEPT ![p] = regs[p]]
    /\ UNCHANGED <<tf, krsp, value>>

(* A timer interrupt: the frame goes to tss.rsp0, which the scheduler sets *)
(* with kernel_rsp, and the process is switched away from.  It should find *)
(* every register as it is now, rax, rcx and r11 too.                      *)
isr_common(c, p) ==
    /\ curr[c] = p /\ mode[p] = "user"
    /\ stack' = [stack EXCEPT ![krsp[c]] = Frame("trap", IsrOrder, regs[p])]
    /\ on' = [on EXCEPT ![p] = krsp[c]]
    /\ regs' = [regs EXCEPT ![p] = NoRegs]
    /\ mode' = [mode EXCEPT ![p] = "ready"]
    /\ curr' = [curr EXCEPT ![c] = NoTask]
    /\ want' = [want EXCEPT ![p] = regs[p]]
    /\ UNCHANGED <<tf, krsp, value>>

-----------------------------------------------------------------------------
(* In the kernel.  syscall_exit pops the frame; `pop rax' takes the system *)
(* call number, not what the handler returned.                             *)

PopOrder == <<"rax", "r9", "r8", "r10", "rdx", "rsi", "rdi",
              "r15", "r14", "r13", "r12", "rbp", "rbx", "rflags", "rip", "rsp">>
Pop(f, order) ==
    [r \in Reg |-> IF r \in Range(order)
                   THEN f.slot[Len(order) + 1 - (CHOOSE i \in DOMAIN order : order[i] = r)]
                   ELSE Unset]

(* sysret leaves rip in rcx and rflags in r11. *)
Sysret(f) == LET g == Pop(f, PopOrder) IN [g EXCEPT !["rcx"] = g["rip"], !["r11"] = g["rflags"]]

syscall_exit(p, ret) ==
    /\ regs' = [regs EXCEPT ![p] = Sysret(stack[on[p]])]
    /\ mode' = [mode EXCEPT ![p] = "user"]
    /\ want' = [want EXCEPT ![p] = [@ EXCEPT !["rcx"] = Unset, !["r11"] = Unset, !["rax"] = ret]]

Handling(c, p) == curr[c] = p /\ mode[p] = "kernel"

(* A system call that changes none of this, or fails. *)
syscall_handler(c, p) ==
    /\ Handling(c, p)
    /\ syscall_exit(p, <<"result", 0>>)
    /\ UNCHANGED <<stack, on, tf, curr, krsp, value>>

(* build_fork_tf: the parent's registers, and 0 as the result. *)
build_fork_tf(src) ==
    [r \in Reg |-> CASE r = "rcx" -> src["rip"]
                     [] r = "r11" -> src["rflags"]
                     [] r = "rax" -> Zero
                     [] OTHER -> src[r]]

proc_fork(c, p, q) ==
    /\ Handling(c, p) /\ mode[q] = "unused"
    /\ tf' = [tf EXCEPT ![q] = build_fork_tf(tf[p])]
    /\ stack' = [stack EXCEPT ![q] = kstack_setup(tf'[q])]
    /\ on' = [on EXCEPT ![q] = q]
    /\ regs' = [regs EXCEPT ![p] = Sysret(stack[on[p]])]
    /\ mode' = [mode EXCEPT ![p] = "user", ![q] = "ready"]
    /\ want' = [want EXCEPT
                 ![p] = [@ EXCEPT !["rcx"] = Unset, !["r11"] = Unset, !["rax"] = <<"pid", 0>>],
                 ![q] = [want[p] EXCEPT !["rcx"] = Unset, !["r11"] = Unset, !["rax"] = Zero]]
    /\ UNCHANGED <<curr, krsp, value>>

(* The saved rsp, rip and rflags are replaced on the process's own stack:  *)
(* they are the first three slots.                                         *)
proc_exec(c, p) ==
    /\ Handling(c, p) /\ value < MaxValue
    /\ value' = value + 1
    /\ LET new == [r \in {"rsp", "rip", "rflags"} |-> <<r, value + 1>>]
           f == [stack[p] EXCEPT !.slot[1] = new["rsp"], !.slot[2] = new["rip"],
                                 !.slot[3] = new["rflags"]]
       IN  /\ stack' = [stack EXCEPT ![p] = f]
           /\ tf' = [tf EXCEPT ![p] = [r \in Reg |-> IF r \in DOMAIN new THEN new[r] ELSE @[r]]]
           /\ want' = [want EXCEPT ![p] = [r \in Reg |-> IF r \in DOMAIN new THEN new[r] ELSE Unset]]
           /\ regs' = [regs EXCEPT ![p] = Sysret(IF on[p] = p THEN f ELSE stack[on[p]])]
    /\ mode' = [mode EXCEPT ![p] = "user"]
    /\ UNCHANGED <<on, curr, krsp>>

(* sys_wait yields inside the call; sys_exit ends it. *)
sys_wait(c, p) ==
    /\ Handling(c, p)
    /\ mode' = [mode EXCEPT ![p] = "ready"]
    /\ curr' = [curr EXCEPT ![c] = NoTask]
    /\ UNCHANGED <<regs, stack, on, tf, krsp, want, value>>
sys_exit_task(c, p) ==
    /\ Handling(c, p) /\ p # FirstTask
    /\ mode' = [mode EXCEPT ![p] = "unused"]
    /\ curr' = [curr EXCEPT ![c] = NoTask]
    /\ UNCHANGED <<regs, stack, on, tf, krsp, want, value>>

(* scheduler: the process goes on where it was switched away from: through *)
(* trapret to user mode, or in the middle of its system call.              *)
Run(c, p) ==
    /\ curr[c] = NoTask /\ mode[p] = "ready"
    /\ curr' = [curr EXCEPT ![c] = p]
    /\ krsp' = [krsp EXCEPT ![c] = p]
    /\ IF stack[on[p]].kind = "trap"
       THEN /\ regs' = [regs EXCEPT ![p] = Pop(stack[on[p]], TrapretOrder)]
            /\ mode' = [mode EXCEPT ![p] = "user"]
       ELSE mode' = [mode EXCEPT ![p] = "kernel"] /\ UNCHANGED regs
    /\ UNCHANGED <<stack, on, tf, want, value>>

SysEntryNext ==
    \E p \in Tasks :
      \/ Compute(p)
      \/ \E c \in Cores : \/ syscall_entry(c, p) \/ isr_common(c, p) \/ Run(c, p)
                          \/ syscall_handler(c, p) \/ proc_exec(c, p)
                          \/ sys_wait(c, p) \/ sys_exit_task(c, p)
                          \/ \E q \in Tasks : proc_fork(c, p, q)

SysEntrySpec == SysEntryInit /\ [][SysEntryNext]_SysEntryVars

-----------------------------------------------------------------------------
(* Properties *)

Value == {Unset, Zero} \cup Results \cup (Reg \X (0..MaxValue))

(* Every variable has its type. *)
SysEntryTypeOK ==
    /\ mode \in [Tasks -> {"unused", "user", "kernel", "ready"}]
    /\ {regs, tf, want} \subseteq [Tasks -> [Reg -> Value]]
    /\ \A p \in Tasks : stack[p].kind \in {"none", "sys", "trap"} /\ stack[p].slot \in Seq(Value)
    /\ on \in [Tasks -> Tasks]
    /\ curr \in [Cores -> Tasks \cup {NoTask}] /\ krsp \in [Cores -> Tasks \cup {NoTask}]
    /\ value \in 0..MaxValue

Agrees(p, r) == mode[p] = "user" /\ want[p][r] # Unset => regs[p][r] = want[p][r]

(* A program finds its registers as it left them, whatever ran in between  *)
(* and on whichever CPU it goes on: after an interrupt all of them, rax,   *)
(* rcx and r11 too; after a system call all but these three.  The child of *)
(* a fork finds its parent's and 0 in rax; a program that was just loaded  *)
(* starts at its entry point with the stack made for it.  The only         *)
(* register left out is rax between the return of a call and what comes    *)
(* next, a computation or an interrupt: ResultReturned is about that.      *)
RegsIntact ==
    \A p \in Tasks, r \in Reg : Agrees(p, r) \/ (r = "rax" /\ want[p][r] \in Results)

(* After a system call rax holds what the handler returned (0 in the child *)
(* of a fork), as the comment in syscall_entry.asm wants it.               *)
ResultReturned == \A p \in Tasks : Agrees(p, "rax")
=============================================================================
