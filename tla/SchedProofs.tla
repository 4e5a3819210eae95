---------------------------- MODULE SchedProofs ----------------------------
(***************************************************************************)
(* Proofs that Sched keeps its safety properties for any number of slots,  *)
(* on one CPU whatever programs do, and on any number of CPUs as long as   *)
(* no program makes a system call that yields (Pinned).  One lemma per     *)
(* action shows that IInv is inductive.                                    *)
(***************************************************************************)
EXTENDS SchedInv, TLAPS

(* CPUs, slots and the null pointer are different things. *)
LEMMA Disjoint ==
  /\ \A m \in CPU : m \notin Slots /\ m # None
  /\ None \notin Slots
  /\ BSP \in CPU
BY SchedAssumption DEF Slots

(* The state after boot satisfies the invariant. *)
LEMMA InitInv == Init => IInv
<1> SUFFICES ASSUME Init PROVE IInv
  OBVIOUS
<1> USE SchedAssumption DEF Slots, Thread
<1>1. TypeOK
  BY DEF Init, TypeOK, SchedPc, ProcPc, States
<1>2. CpuInv
  BY DEF Init, CpuInv, SchedPc
<1>3. OneCpuPerProcess /\ LockBalanced
  BY DEF Init, OneCpuPerProcess, LockBalanced, Holding, Spinning
<1>4. IdleInv /\ CreatorInv /\ LocalInv /\ MaskInv
  BY DEF Init, IdleInv, CreatorInv, LocalInv, MaskInv, Creating
<1>5. FrameInv
  BY DEF Init, FrameInv, Nested, InWait, WaitLocals, SavedOK, InYield
<1>6. UserPreemptible /\ PidInv
  BY DEF Init, UserPreemptible, PidInv, PidsUnique
<1> QED
  BY <1>1, <1>2, <1>3, <1>4, <1>5, <1>6 DEF IInv

(* The invariant survives scheduler() turning interrupts on before it asks for the lock. *)
LEMMA SchedStiInv ==
  ASSUME IInv, NEW m \in CPU, SchedSti(m)
  PROVE  IInv'
<1> USE Disjoint DEF Thread, SchedSti, At, Goto, tabVars
<1>1. /\ cur[m] = m /\ pc[m] = "sti" /\ proc[m] = None
  BY DEF IInv, CpuInv, SchedPc, ProcPc
<1>2. TypeOK'
  BY <1>1 DEF IInv, TypeOK, SchedPc, ProcPc, States
<1>3. CpuInv'
  BY <1>1 DEF IInv, TypeOK, CpuInv, OneCpuPerProcess, SchedPc, ProcPc
<1>4. OneCpuPerProcess'
  BY <1>1 DEF IInv, TypeOK, CpuInv, OneCpuPerProcess
<1>5. LockBalanced'
  BY <1>1 DEF IInv, TypeOK, CpuInv, OneCpuPerProcess, LockBalanced, Holding, Spinning
<1>6. IdleInv'
  BY <1>1 DEF IInv, TypeOK, CpuInv, IdleInv
<1>7. CreatorInv'
  BY <1>1 DEF IInv, TypeOK, CpuInv, CreatorInv, Creating
<1>8. LocalInv'
  BY <1>1 DEF IInv, TypeOK, CpuInv, LocalInv, OneCpuPerProcess
<1>9. MaskInv'
  BY <1>1 DEF IInv, TypeOK, CpuInv, MaskInv, OneCpuPerProcess
<1>10. FrameInv'
  BY <1>1 DEF IInv, TypeOK, FrameInv, Nested, InWait, WaitLocals, SavedOK, InYield
<1>11. UserPreemptible'
  BY <1>1 DEF IInv, TypeOK, CpuInv, UserPreemptible, OneCpuPerProcess
<1>12. PidInv'
  BY <1>1 DEF IInv, TypeOK, PidInv, PidsUnique
<1> QED
  BY <1>2, <1>3, <1>4, <1>5, <1>6, <1>7, <1>8, <1>9, <1>10, <1>11, <1>12 DEF IInv

(* The invariant survives the scheduler calling acquire: its CPU cannot hold the lock already. *)
LEMMA SchedAcquireInv ==
  ASSUME IInv, NEW m \in CPU, SchedAcquire(m)
  PROVE  IInv'
<1> USE Disjoint DEF Thread, SchedAcquire, At, Goto, tabVars, AcquireCall
<1>1. /\ cur[m] = m /\ pc[m] = "acq" /\ proc[m] = None
      /\ ncli[m] = 0 /\ lock # m
  BY DEF IInv, TypeOK, CpuInv, SchedPc, ProcPc, LockBalanced, Holding, Spinning
<1>2. TypeOK'
  BY <1>1 DEF IInv, TypeOK, SchedPc, ProcPc, States
<1>3. CpuInv'
  BY <1>1 DEF IInv, TypeOK, CpuInv, OneCpuPerProcess, SchedPc, ProcPc
<1>4. OneCpuPerProcess'
  BY <1>1 DEF IInv, TypeOK, CpuInv, OneCpuPerProcess
<1>5. LockBalanced'
  BY <1>1 DEF IInv, TypeOK, CpuInv, OneCpuPerProcess, LockBalanced, Holding, Spinning
<1>6. IdleInv'
  BY <1>1 DEF IInv, TypeOK, CpuInv, IdleInv
<1>7. CreatorInv'
  BY <1>1 DEF IInv, TypeOK, CpuInv, CreatorInv, Creating
<1>8. LocalInv'
  BY <1>1 DEF IInv, TypeOK, CpuInv, LocalInv, OneCpuPerProcess
<1>9. MaskInv'
  BY <1>1 DEF IInv, TypeOK, CpuInv, MaskInv, OneCpuPerProcess
<1>10. FrameInv'
  BY <1>1 DEF IInv, TypeOK, FrameInv, Nested, InWait, WaitLocals, SavedOK, InYield
<1>11. UserPreemptible'
  BY <1>1 DEF IInv, TypeOK, CpuInv, UserPreemptible, OneCpuPerProcess
<1>12. PidInv'
  BY <1>1 DEF IInv, TypeOK, PidInv, PidsUnique
<1> QED
  BY <1>2, <1>3, <1>4, <1>5, <1>6, <1>7, <1>8, <1>9, <1>10, <1>11, <1>12 DEF IInv

(* The invariant survives the scheduler getting proc_lock. *)
LEMMA SchedSpinInv ==
  ASSUME IInv, NEW m \in CPU, SchedSpin(m)
  PROVE  IInv'
<1> USE Disjoint DEF Thread, SchedSpin, At, Goto, cpuVars, tabVars
<1>1. /\ cur[m] = m /\ pc[m] = "spin" /\ proc[m] = None
  BY DEF IInv, CpuInv, SchedPc, ProcPc
<1>2. TypeOK'
  BY <1>1 DEF IInv, TypeOK, SchedPc, ProcPc, States
<1>3. CpuInv'
  BY <1>1 DEF IInv, TypeOK, CpuInv, OneCpuPerProcess, SchedPc, ProcPc
<1>4. OneCpuPerProcess'
  BY <1>1 DEF IInv, TypeOK, CpuInv, OneCpuPerProcess
<1>5. LockBalanced'
  BY <1>1 DEF IInv, TypeOK, CpuInv, OneCpuPerProcess, LockBalanced, Holding, Spinning
<1>6. IdleInv'
  BY <1>1 DEF IInv, TypeOK, CpuInv, IdleInv
<1>7. CreatorInv'
  BY <1>1 DEF IInv, TypeOK, CpuInv, CreatorInv, Creating
<1>8. LocalInv'
  BY <1>1 DEF IInv, TypeOK, CpuInv, LocalInv, OneCpuPerProcess
<1>9. MaskInv'
  BY <1>1 DEF IInv, TypeOK, CpuInv, MaskInv, OneCpuPerProcess
<1>10. FrameInv'
  BY <1>1 DEF IInv, TypeOK, FrameInv, Nested, InWait, WaitLocals, SavedOK, InYield
<1>11. UserPreemptible'
  BY <1>1 DEF IInv, TypeOK, CpuInv, UserPreemptible, OneCpuPerProcess
<1>12. PidInv'
  BY <1>1 DEF IInv, TypeOK, PidInv, PidsUnique
<1> QED
  BY <1>2, <1>3, <1>4, <1>5, <1>6, <1>7, <1>8, <1>9, <1>10, <1>11, <1>12 DEF IInv

(* The invariant survives the scheduler back from swtch, still holding the lock. *)
LEMMA SchedReturnedInv ==
  ASSUME IInv, NEW m \in CPU, SchedReturned(m)
  PROVE  IInv'
<1> USE Disjoint DEF Thread, SchedReturned, At, Goto, tabVars
<1>1. /\ cur[m] = m /\ pc[m] = "swtched" /\ proc[m] = None
  BY DEF IInv, CpuInv, SchedPc, ProcPc
<1>2. TypeOK'
  BY <1>1 DEF IInv, TypeOK, SchedPc, ProcPc, States
<1>3. CpuInv'
  BY <1>1 DEF IInv, TypeOK, CpuInv, OneCpuPerProcess, SchedPc, ProcPc
<1>4. OneCpuPerProcess'
  BY <1>1 DEF IInv, TypeOK, CpuInv, OneCpuPerProcess
<1>5. LockBalanced'
  BY <1>1 DEF IInv, TypeOK, CpuInv, OneCpuPerProcess, LockBalanced, Holding, Spinning
<1>6. IdleInv'
  BY <1>1 DEF IInv, TypeOK, CpuInv, IdleInv
<1>7. CreatorInv'
  BY <1>1 DEF IInv, TypeOK, CpuInv, CreatorInv, Creating
<1>8. LocalInv'
  BY <1>1 DEF IInv, TypeOK, CpuInv, LocalInv, OneCpuPerProcess
<1>9. MaskInv'
  BY <1>1 DEF IInv, TypeOK, CpuInv, MaskInv, OneCpuPerProcess
<1>10. FrameInv'
  BY <1>1 DEF IInv, TypeOK, FrameInv, Nested, InWait, WaitLocals, SavedOK, InYield
<1>11. UserPreemptible'
  BY <1>1 DEF IInv, TypeOK, CpuInv, UserPreemptible, OneCpuPerProcess
<1>12. PidInv'
  BY <1>1 DEF IInv, TypeOK, PidInv, PidsUnique
<1> QED
  BY <1>2, <1>3, <1>4, <1>5, <1>6, <1>7, <1>8, <1>9, <1>10, <1>11, <1>12 DEF IInv

(* The invariant survives the scheduler releasing the lock after a scan: its own CPU holds it. *)
LEMMA SchedReleaseInv ==
  ASSUME IInv, NEW m \in CPU, SchedRelease(m)
  PROVE  IInv'
<1> USE Disjoint DEF Thread, SchedRelease, At, tabVars
<1>1. /\ cur[m] = m /\ pc[m] = "scan" /\ proc[m] = None
      /\ ncli[m] = 1 /\ lock = m
  BY DEF IInv, TypeOK, CpuInv, SchedPc, ProcPc, LockBalanced, Holding, Spinning
<1>2. /\ lock' = None
      /\ ncli' = [ncli EXCEPT ![m] = 0]
      /\ ei' = [ei EXCEPT ![m] = ei[m] \/ intena[m]]
      /\ pc' = [pc EXCEPT ![cur[m]] = "sti"]
  BY <1>1 DEF IInv, TypeOK, Release, popcli, Goto
<1>3. TypeOK'
  BY <1>1, <1>2 DEF IInv, TypeOK, SchedPc, ProcPc, States
<1>4. CpuInv'
  BY <1>1, <1>2 DEF IInv, TypeOK, CpuInv, OneCpuPerProcess, SchedPc, ProcPc
<1>5. OneCpuPerProcess'
  BY <1>1, <1>2 DEF IInv, TypeOK, CpuInv, OneCpuPerProcess
<1>6. LockBalanced'
  BY <1>1, <1>2 DEF IInv, TypeOK, CpuInv, OneCpuPerProcess, LockBalanced, Holding, Spinning
<1>7. IdleInv'
  BY <1>1, <1>2 DEF IInv, TypeOK, CpuInv, IdleInv
<1>8. CreatorInv'
  BY <1>1, <1>2 DEF IInv, TypeOK, CpuInv, CreatorInv, Creating
<1>9. LocalInv'
  BY <1>1, <1>2 DEF IInv, TypeOK, CpuInv, LocalInv, OneCpuPerProcess
<1>10. MaskInv'
  BY <1>1, <1>2 DEF IInv, TypeOK, CpuInv, MaskInv, OneCpuPerProcess
<1>11. FrameInv'
  BY <1>1, <1>2 DEF IInv, TypeOK, FrameInv, Nested, InWait, WaitLocals, SavedOK, InYield
<1>12. UserPreemptible'
  BY <1>1, <1>2 DEF IInv, TypeOK, CpuInv, UserPreemptible, OneCpuPerProcess
<1>13. PidInv'
  BY <1>1, <1>2 DEF IInv, TypeOK, PidInv, PidsUnique
<1> QED
  BY <1>3, <1>4, <1>5, <1>6, <1>7, <1>8, <1>9, <1>10, <1>11, <1>12, <1>13 DEF IInv

(* The invariant survives the return from a system call to user mode. *)
LEMMA SysretInv ==
  ASSUME IInv, NEW m \in CPU, Sysret(m)
  PROVE  IInv'
<1> USE Disjoint DEF Thread, Sysret, At, Goto, tabVars
<1>1. /\ cur[m] \in Slots /\ pc[cur[m]] = "sysret" /\ proc[m] = cur[m]
  BY DEF IInv, CpuInv, SchedPc, ProcPc
<1>2. ncli[m] = 0
  BY <1>1 DEF IInv, LockBalanced, Holding, Spinning
<1>3. TypeOK'
  BY <1>1, <1>2 DEF IInv, TypeOK, SchedPc, ProcPc, States
<1>4. CpuInv'
  BY <1>1, <1>2 DEF IInv, TypeOK, CpuInv, OneCpuPerProcess, SchedPc, ProcPc
<1>5. OneCpuPerProcess'
  BY <1>1, <1>2 DEF IInv, TypeOK, CpuInv, OneCpuPerProcess
<1>6. LockBalanced'
  BY <1>1, <1>2 DEF IInv, TypeOK, CpuInv, OneCpuPerProcess, LockBalanced, Holding, Spinning
<1>7. IdleInv'
  BY <1>1, <1>2 DEF IInv, TypeOK, CpuInv, IdleInv
<1>8. CreatorInv'
  BY <1>1, <1>2 DEF IInv, TypeOK, CpuInv, CreatorInv, Creating
<1>9. LocalInv'
  BY <1>1, <1>2 DEF IInv, TypeOK, CpuInv, LocalInv, OneCpuPerProcess
<1>10. MaskInv'
  BY <1>1, <1>2 DEF IInv, TypeOK, CpuInv, MaskInv, OneCpuPerProcess
<1>11. FrameInv'
  BY <1>1, <1>2 DEF IInv, TypeOK, FrameInv, Nested, InWait, WaitLocals, SavedOK, InYield
<1>12. UserPreemptible'
  BY <1>1, <1>2 DEF IInv, TypeOK, CpuInv, UserPreemptible, OneCpuPerProcess
<1>13. PidInv'
  BY <1>1, <1>2 DEF IInv, TypeOK, PidInv, PidsUnique
<1> QED
  BY <1>3, <1>4, <1>5, <1>6, <1>7, <1>8, <1>9, <1>10, <1>11, <1>12, <1>13 DEF IInv

(* The invariant survives yield reading mycpu() and its current process. *)
LEMMA YieldReadInv ==
  ASSUME IInv, NEW m \in CPU, YieldRead(m)
  PROVE  IInv'
<1> USE Disjoint DEF Thread, YieldRead, At, Goto, cpuVars, tabVars
<1>1. /\ cur[m] \in Slots /\ pc[cur[m]] = "yield" /\ proc[m] = cur[m]
  BY DEF IInv, CpuInv, SchedPc, ProcPc
<1>2. TypeOK'
  BY <1>1 DEF IInv, TypeOK, SchedPc, ProcPc, States
<1>3. CpuInv'
  BY <1>1 DEF IInv, TypeOK, CpuInv, OneCpuPerProcess, SchedPc, ProcPc
<1>4. OneCpuPerProcess'
  BY <1>1 DEF IInv, TypeOK, CpuInv, OneCpuPerProcess
<1>5. LockBalanced'
  BY <1>1 DEF IInv, TypeOK, CpuInv, OneCpuPerProcess, LockBalanced, Holding, Spinning
<1>6. IdleInv'
  BY <1>1 DEF IInv, TypeOK, CpuInv, IdleInv
<1>7. CreatorInv'
  BY <1>1 DEF IInv, TypeOK, CpuInv, CreatorInv, Creating
<1>8. LocalInv'
  BY <1>1 DEF IInv, TypeOK, CpuInv, LocalInv, OneCpuPerProcess
<1>9. MaskInv'
  BY <1>1 DEF IInv, TypeOK, CpuInv, MaskInv, OneCpuPerProcess
<1>10. FrameInv'
  BY <1>1 DEF IInv, TypeOK, FrameInv, Nested, InWait, WaitLocals, SavedOK, InYield
<1>11. UserPreemptible'
  BY <1>1 DEF IInv, TypeOK, CpuInv, UserPreemptible, OneCpuPerProcess
<1>12. PidInv'
  BY <1>1 DEF IInv, TypeOK, PidInv, PidsUnique
<1> QED
  BY <1>2, <1>3, <1>4, <1>5, <1>6, <1>7, <1>8, <1>9, <1>10, <1>11, <1>12 DEF IInv

(* The invariant survives yield calling acquire. *)
LEMMA YieldAcquireInv ==
  ASSUME IInv, NEW m \in CPU, YieldAcquire(m)
  PROVE  IInv'
<1> USE Disjoint DEF Thread, YieldAcquire, At, Goto, tabVars, AcquireCall
<1>1. /\ cur[m] \in Slots /\ pc[cur[m]] = "yacq" /\ proc[m] = cur[m]
      /\ ncli[m] = 0 /\ lock # m
  BY DEF IInv, TypeOK, CpuInv, SchedPc, ProcPc, LockBalanced, Holding, Spinning
<1>2. TypeOK'
  BY <1>1 DEF IInv, TypeOK, SchedPc, ProcPc, States
<1>3. CpuInv'
  BY <1>1 DEF IInv, TypeOK, CpuInv, OneCpuPerProcess, SchedPc, ProcPc
<1>4. OneCpuPerProcess'
  BY <1>1 DEF IInv, TypeOK, CpuInv, OneCpuPerProcess
<1>5. LockBalanced'
  BY <1>1 DEF IInv, TypeOK, CpuInv, OneCpuPerProcess, LockBalanced, Holding, Spinning
<1>6. IdleInv'
  BY <1>1 DEF IInv, TypeOK, CpuInv, IdleInv
<1>7. CreatorInv'
  BY <1>1 DEF IInv, TypeOK, CpuInv, CreatorInv, Creating
<1>8. LocalInv'
  BY <1>1 DEF IInv, TypeOK, CpuInv, LocalInv, OneCpuPerProcess
<1>9. MaskInv'
  BY <1>1 DEF IInv, TypeOK, CpuInv, MaskInv, OneCpuPerProcess
<1>10. FrameInv'
  BY <1>1 DEF IInv, TypeOK, FrameInv, Nested, InWait, WaitLocals, SavedOK, InYield
<1>11. UserPreemptible'
  BY <1>1 DEF IInv, TypeOK, CpuInv, UserPreemptible, OneCpuPerProcess
<1>12. PidInv'
  BY <1>1 DEF IInv, TypeOK, PidInv, PidsUnique
<1> QED
  BY <1>2, <1>3, <1>4, <1>5, <1>6, <1>7, <1>8, <1>9, <1>10, <1>11, <1>12 DEF IInv

(* The invariant survives yield giving the CPU, and the lock, to the scheduler of that CPU. *)
LEMMA YieldSwitchInv ==
  ASSUME IInv, NEW m \in CPU, YieldSwitch(m)
  PROVE  IInv'
<1> USE Disjoint DEF Thread, YieldSwitch, At, Goto, SwtchToSched
<1>1. /\ cur[m] \in Slots /\ pc[cur[m]] = "yspin" /\ proc[m] = cur[m]
      /\ scheduler_ctx[m] = m /\ pc[m] = "swtched" /\ state[cur[m]] = "RUNNING"
      /\ yc[cur[m]] = m /\ yp[cur[m]] = cur[m]
  BY DEF IInv, CpuInv, LocalInv, SchedPc, ProcPc
<1>2. TypeOK'
  BY <1>1 DEF IInv, TypeOK, SchedPc, ProcPc, States
<1>3. CpuInv'
  BY <1>1 DEF IInv, TypeOK, CpuInv, OneCpuPerProcess, SchedPc, ProcPc
<1>4. OneCpuPerProcess'
  BY <1>1 DEF IInv, TypeOK, CpuInv, OneCpuPerProcess
<1>5. LockBalanced'
  BY <1>1 DEF IInv, TypeOK, CpuInv, OneCpuPerProcess, LockBalanced, Holding, Spinning
<1>6. IdleInv'
  BY <1>1 DEF IInv, TypeOK, CpuInv, IdleInv
<1>7. CreatorInv'
  BY <1>1 DEF IInv, TypeOK, CpuInv, CreatorInv, Creating
<1>8. LocalInv'
  BY <1>1 DEF IInv, TypeOK, CpuInv, LocalInv, OneCpuPerProcess
<1>9. MaskInv'
  BY <1>1 DEF IInv, TypeOK, CpuInv, MaskInv, OneCpuPerProcess
<1>10. FrameInv'
  BY <1>1 DEF IInv, TypeOK, FrameInv, Nested, InWait, WaitLocals, SavedOK, InYield
<1>11. UserPreemptible'
  BY <1>1 DEF IInv, TypeOK, CpuInv, UserPreemptible, OneCpuPerProcess
<1>12. PidInv'
  BY <1>1 DEF IInv, TypeOK, PidInv, PidsUnique
<1> QED
  BY <1>2, <1>3, <1>4, <1>5, <1>6, <1>7, <1>8, <1>9, <1>10, <1>11, <1>12 DEF IInv

(* The invariant survives a process back from yield releasing the lock its scheduler took. *)
LEMMA YieldResumeInv ==
  ASSUME IInv, NEW m \in CPU, YieldResume(m)
  PROVE  IInv'
<1> USE Disjoint DEF Thread, YieldResume, At, tabVars
<1>1. /\ cur[m] \in Slots /\ pc[cur[m]] = "yresume" /\ proc[m] = cur[m]
      /\ ncli[m] = 1 /\ lock = m
  BY DEF IInv, TypeOK, CpuInv, SchedPc, ProcPc, LockBalanced, Holding, Spinning
<1>2. /\ lock' = None
      /\ ncli' = [ncli EXCEPT ![m] = 0]
      /\ ei' = [ei EXCEPT ![m] = ei[m] \/ intena[m]]
      /\ pc' = [pc EXCEPT ![cur[m]] = ra[cur[m]]]
  BY <1>1 DEF IInv, TypeOK, Release, popcli, Goto
<1>3. ra[cur[m]] \in {"iret", "wait"} /\ state[cur[m]] = "RUNNING"
  BY <1>1 DEF IInv, TypeOK, CpuInv
<1>4. TypeOK'
  BY <1>1, <1>2, <1>3 DEF IInv, TypeOK, SchedPc, ProcPc, States
<1>5. CpuInv'
  BY <1>1, <1>2, <1>3 DEF IInv, TypeOK, CpuInv, OneCpuPerProcess, SchedPc, ProcPc
<1>6. OneCpuPerProcess'
  BY <1>1, <1>2, <1>3 DEF IInv, TypeOK, CpuInv, OneCpuPerProcess
<1>7. LockBalanced'
  BY <1>1, <1>2, <1>3 DEF IInv, TypeOK, CpuInv, OneCpuPerProcess, LockBalanced, Holding, Spinning
<1>8. IdleInv'
  BY <1>1, <1>2, <1>3 DEF IInv, TypeOK, CpuInv, IdleInv
<1>9. CreatorInv'
  BY <1>1, <1>2, <1>3 DEF IInv, TypeOK, CpuInv, CreatorInv, Creating
<1>10. LocalInv'
  BY <1>1, <1>2, <1>3 DEF IInv, TypeOK, CpuInv, LocalInv, OneCpuPerProcess
<1>11. MaskInv'
  BY <1>1, <1>2, <1>3 DEF IInv, TypeOK, CpuInv, MaskInv, OneCpuPerProcess
<1>12. FrameInv'
  BY <1>1, <1>2, <1>3 DEF IInv, TypeOK, FrameInv, Nested, InWait, WaitLocals, SavedOK, InYield
<1>13. UserPreemptible'
  BY <1>1, <1>2, <1>3 DEF IInv, TypeOK, CpuInv, UserPreemptible, OneCpuPerProcess
<1>14. PidInv'
  BY <1>1, <1>2, <1>3 DEF IInv, TypeOK, PidInv, PidsUnique
<1> QED
  BY <1>4, <1>5, <1>6, <1>7, <1>8, <1>9, <1>10, <1>11, <1>12, <1>13, <1>14 DEF IInv

(* The invariant survives a new process releasing the lock its scheduler took. *)
LEMMA forkretInv ==
  ASSUME IInv, NEW m \in CPU, forkret(m)
  PROVE  IInv'
<1> USE Disjoint DEF Thread, forkret, At, tabVars
<1>1. /\ cur[m] \in Slots /\ pc[cur[m]] = "forkret" /\ proc[m] = cur[m]
      /\ ncli[m] = 1 /\ lock = m
  BY DEF IInv, TypeOK, CpuInv, SchedPc, ProcPc, LockBalanced, Holding, Spinning
<1>2. /\ lock' = None
      /\ ncli' = [ncli EXCEPT ![m] = 0]
      /\ ei' = [ei EXCEPT ![m] = ei[m] \/ intena[m]]
      /\ pc' = [pc EXCEPT ![cur[m]] = "iret"]
  BY <1>1 DEF IInv, TypeOK, Release, popcli, Goto
<1>3. state[cur[m]] = "RUNNING"
  BY <1>1 DEF IInv, CpuInv
<1>4. TypeOK'
  BY <1>1, <1>2, <1>3 DEF IInv, TypeOK, SchedPc, ProcPc, States
<1>5. CpuInv'
  BY <1>1, <1>2, <1>3 DEF IInv, TypeOK, CpuInv, OneCpuPerProcess, SchedPc, ProcPc
<1>6. OneCpuPerProcess'
  BY <1>1, <1>2, <1>3 DEF IInv, TypeOK, CpuInv, OneCpuPerProcess
<1>7. LockBalanced'
  BY <1>1, <1>2, <1>3 DEF IInv, TypeOK, CpuInv, OneCpuPerProcess, LockBalanced, Holding, Spinning
<1>8. IdleInv'
  BY <1>1, <1>2, <1>3 DEF IInv, TypeOK, CpuInv, IdleInv
<1>9. CreatorInv'
  BY <1>1, <1>2, <1>3 DEF IInv, TypeOK, CpuInv, CreatorInv, Creating
<1>10. LocalInv'
  BY <1>1, <1>2, <1>3 DEF IInv, TypeOK, CpuInv, LocalInv, OneCpuPerProcess
<1>11. MaskInv'
  BY <1>1, <1>2, <1>3 DEF IInv, TypeOK, CpuInv, MaskInv, OneCpuPerProcess
<1>12. FrameInv'
  BY <1>1, <1>2, <1>3 DEF IInv, TypeOK, FrameInv, Nested, InWait, WaitLocals, SavedOK, InYield
<1>13. UserPreemptible'
  BY <1>1, <1>2, <1>3 DEF IInv, TypeOK, CpuInv, UserPreemptible, OneCpuPerProcess
<1>14. PidInv'
  BY <1>1, <1>2, <1>3 DEF IInv, TypeOK, PidInv, PidsUnique
<1> QED
  BY <1>4, <1>5, <1>6, <1>7, <1>8, <1>9, <1>10, <1>11, <1>12, <1>13, <1>14 DEF IInv

(* The invariant survives fork calling proc_alloc. *)
LEMMA SysForkInv ==
  ASSUME IInv, NEW m \in CPU, SysFork(m)
  PROVE  IInv'
<1> USE Disjoint DEF Thread, SysFork, At, Goto, tabVars, AcquireCall
<1>1. /\ cur[m] \in Slots /\ pc[cur[m]] = "user" /\ proc[m] = cur[m]
      /\ ncli[m] = 0 /\ lock # m
  BY DEF IInv, TypeOK, CpuInv, SchedPc, ProcPc, LockBalanced, Holding, Spinning
<1>2. TypeOK'
  BY <1>1 DEF IInv, TypeOK, SchedPc, ProcPc, States
<1>3. CpuInv'
  BY <1>1 DEF IInv, TypeOK, CpuInv, OneCpuPerProcess, SchedPc, ProcPc
<1>4. OneCpuPerProcess'
  BY <1>1 DEF IInv, TypeOK, CpuInv, OneCpuPerProcess
<1>5. LockBalanced'
  BY <1>1 DEF IInv, TypeOK, CpuInv, OneCpuPerProcess, LockBalanced, Holding, Spinning
<1>6. IdleInv'
  BY <1>1 DEF IInv, TypeOK, CpuInv, IdleInv
<1>7. CreatorInv'
  BY <1>1 DEF IInv, TypeOK, CpuInv, CreatorInv, Creating
<1>8. LocalInv'
  BY <1>1 DEF IInv, TypeOK, CpuInv, LocalInv, OneCpuPerProcess
<1>9. MaskInv'
  BY <1>1 DEF IInv, TypeOK, CpuInv, MaskInv, OneCpuPerProcess
<1>10. FrameInv'
  BY <1>1 DEF IInv, TypeOK, FrameInv, Nested, InWait, WaitLocals, SavedOK, InYield
<1>11. UserPreemptible'
  BY <1>1 DEF IInv, TypeOK, CpuInv, UserPreemptible, OneCpuPerProcess
<1>12. PidInv'
  BY <1>1 DEF IInv, TypeOK, PidInv, PidsUnique
<1> QED
  BY <1>2, <1>3, <1>4, <1>5, <1>6, <1>7, <1>8, <1>9, <1>10, <1>11, <1>12 DEF IInv

(* The invariant survives exit asking for the lock. *)
LEMMA SysExitInv ==
  ASSUME IInv, NEW m \in CPU, SysExit(m)
  PROVE  IInv'
<1> USE Disjoint DEF Thread, SysExit, At, Goto, tabVars, AcquireCall
<1>1. /\ cur[m] \in Slots /\ pc[cur[m]] = "user" /\ proc[m] = cur[m]
      /\ ncli[m] = 0 /\ lock # m
  BY DEF IInv, TypeOK, CpuInv, SchedPc, ProcPc, LockBalanced, Holding, Spinning
<1>2. TypeOK'
  BY <1>1 DEF IInv, TypeOK, SchedPc, ProcPc, States
<1>3. CpuInv'
  BY <1>1 DEF IInv, TypeOK, CpuInv, OneCpuPerProcess, SchedPc, ProcPc
<1>4. OneCpuPerProcess'
  BY <1>1 DEF IInv, TypeOK, CpuInv, OneCpuPerProcess
<1>5. LockBalanced'
  BY <1>1 DEF IInv, TypeOK, CpuInv, OneCpuPerProcess, LockBalanced, Holding, Spinning
<1>6. IdleInv'
  BY <1>1 DEF IInv, TypeOK, CpuInv, IdleInv
<1>7. CreatorInv'
  BY <1>1 DEF IInv, TypeOK, CpuInv, CreatorInv, Creating
<1>8. LocalInv'
  BY <1>1 DEF IInv, TypeOK, CpuInv, LocalInv, OneCpuPerProcess
<1>9. MaskInv'
  BY <1>1 DEF IInv, TypeOK, CpuInv, MaskInv, OneCpuPerProcess
<1>10. FrameInv'
  BY <1>1 DEF IInv, TypeOK, FrameInv, Nested, InWait, WaitLocals, SavedOK, InYield
<1>11. UserPreemptible'
  BY <1>1 DEF IInv, TypeOK, CpuInv, UserPreemptible, OneCpuPerProcess
<1>12. PidInv'
  BY <1>1 DEF IInv, TypeOK, PidInv, PidsUnique
<1> QED
  BY <1>2, <1>3, <1>4, <1>5, <1>6, <1>7, <1>8, <1>9, <1>10, <1>11, <1>12 DEF IInv

(* The invariant survives wait asking for the lock. *)
LEMMA SysWaitInv ==
  ASSUME IInv, NEW m \in CPU, SysWait(m)
  PROVE  IInv'
<1> USE Disjoint DEF Thread, SysWait, At, Goto, tabVars, AcquireCall
<1>1. /\ cur[m] \in Slots /\ pc[cur[m]] = "user" /\ proc[m] = cur[m]
      /\ ncli[m] = 0 /\ lock # m
  BY DEF IInv, TypeOK, CpuInv, SchedPc, ProcPc, LockBalanced, Holding, Spinning
<1>2. TypeOK'
  BY <1>1 DEF IInv, TypeOK, SchedPc, ProcPc, States
<1>3. CpuInv'
  BY <1>1 DEF IInv, TypeOK, CpuInv, OneCpuPerProcess, SchedPc, ProcPc
<1>4. OneCpuPerProcess'
  BY <1>1 DEF IInv, TypeOK, CpuInv, OneCpuPerProcess
<1>5. LockBalanced'
  BY <1>1 DEF IInv, TypeOK, CpuInv, OneCpuPerProcess, LockBalanced, Holding, Spinning
<1>6. IdleInv'
  BY <1>1 DEF IInv, TypeOK, CpuInv, IdleInv
<1>7. CreatorInv'
  BY <1>1 DEF IInv, TypeOK, CpuInv, CreatorInv, Creating
<1>8. LocalInv'
  BY <1>1 DEF IInv, TypeOK, CpuInv, LocalInv, OneCpuPerProcess
<1>9. MaskInv'
  BY <1>1 DEF IInv, TypeOK, CpuInv, MaskInv, OneCpuPerProcess
<1>10. FrameInv'
  BY <1>1 DEF IInv, TypeOK, FrameInv, Nested, InWait, WaitLocals, SavedOK, InYield
<1>11. UserPreemptible'
  BY <1>1 DEF IInv, TypeOK, CpuInv, UserPreemptible, OneCpuPerProcess
<1>12. PidInv'
  BY <1>1 DEF IInv, TypeOK, PidInv, PidsUnique
<1> QED
  BY <1>2, <1>3, <1>4, <1>5, <1>6, <1>7, <1>8, <1>9, <1>10, <1>11, <1>12 DEF IInv

(* The invariant survives wait coming round its loop. *)
LEMMA WaitAgainInv ==
  ASSUME IInv, NEW m \in CPU, WaitAgain(m)
  PROVE  IInv'
<1> USE Disjoint DEF Thread, WaitAgain, At, Goto, tabVars, AcquireCall
<1>1. /\ cur[m] \in Slots /\ pc[cur[m]] = "wait" /\ proc[m] = cur[m]
      /\ ncli[m] = 0 /\ lock # m
  BY DEF IInv, TypeOK, CpuInv, SchedPc, ProcPc, LockBalanced, Holding, Spinning
<1>2. TypeOK'
  BY <1>1 DEF IInv, TypeOK, SchedPc, ProcPc, States
<1>3. CpuInv'
  BY <1>1 DEF IInv, TypeOK, CpuInv, OneCpuPerProcess, SchedPc, ProcPc
<1>4. OneCpuPerProcess'
  BY <1>1 DEF IInv, TypeOK, CpuInv, OneCpuPerProcess
<1>5. LockBalanced'
  BY <1>1 DEF IInv, TypeOK, CpuInv, OneCpuPerProcess, LockBalanced, Holding, Spinning
<1>6. IdleInv'
  BY <1>1 DEF IInv, TypeOK, CpuInv, IdleInv
<1>7. CreatorInv'
  BY <1>1 DEF IInv, TypeOK, CpuInv, CreatorInv, Creating
<1>8. LocalInv'
  BY <1>1 DEF IInv, TypeOK, CpuInv, LocalInv, OneCpuPerProcess
<1>9. MaskInv'
  BY <1>1 DEF IInv, TypeOK, CpuInv, MaskInv, OneCpuPerProcess
<1>10. FrameInv'
  BY <1>1 DEF IInv, TypeOK, FrameInv, Nested, InWait, WaitLocals, SavedOK, InYield
<1>11. UserPreemptible'
  BY <1>1 DEF IInv, TypeOK, CpuInv, UserPreemptible, OneCpuPerProcess
<1>12. PidInv'
  BY <1>1 DEF IInv, TypeOK, PidInv, PidsUnique
<1> QED
  BY <1>2, <1>3, <1>4, <1>5, <1>6, <1>7, <1>8, <1>9, <1>10, <1>11, <1>12 DEF IInv

(* The invariant survives exit leaving its kernel stack for good, with the lock held. *)
LEMMA ExitSwitchInv ==
  ASSUME IInv, NEW m \in CPU, ExitSwitch(m)
  PROVE  IInv'
<1> USE Disjoint DEF Thread, ExitSwitch, At, Goto, SwtchToSched
<1>1. /\ cur[m] \in Slots /\ pc[cur[m]] = "exitSpin" /\ proc[m] = cur[m]
      /\ scheduler_ctx[m] = m /\ pc[m] = "swtched" /\ state[cur[m]] = "RUNNING"
      /\ yc[cur[m]] = m /\ yp[cur[m]] = cur[m]
  BY DEF IInv, CpuInv, LocalInv, SchedPc, ProcPc
<1>2. TypeOK'
  BY <1>1 DEF IInv, TypeOK, SchedPc, ProcPc, States
<1>3. CpuInv'
  BY <1>1 DEF IInv, TypeOK, CpuInv, OneCpuPerProcess, SchedPc, ProcPc
<1>4. OneCpuPerProcess'
  BY <1>1 DEF IInv, TypeOK, CpuInv, OneCpuPerProcess
<1>5. LockBalanced'
  BY <1>1 DEF IInv, TypeOK, CpuInv, OneCpuPerProcess, LockBalanced, Holding, Spinning
<1>6. IdleInv'
  BY <1>1 DEF IInv, TypeOK, CpuInv, IdleInv
<1>7. CreatorInv'
  BY <1>1 DEF IInv, TypeOK, CpuInv, CreatorInv, Creating
<1>8. LocalInv'
  BY <1>1 DEF IInv, TypeOK, CpuInv, LocalInv, OneCpuPerProcess
<1>9. MaskInv'
  BY <1>1 DEF IInv, TypeOK, CpuInv, MaskInv, OneCpuPerProcess
<1>10. FrameInv'
  BY <1>1 DEF IInv, TypeOK, FrameInv, Nested, InWait, WaitLocals, SavedOK, InYield
<1>11. UserPreemptible'
  BY <1>1 DEF IInv, TypeOK, CpuInv, UserPreemptible, OneCpuPerProcess
<1>12. PidInv'
  BY <1>1 DEF IInv, TypeOK, PidInv, PidsUnique
<1> QED
  BY <1>2, <1>3, <1>4, <1>5, <1>6, <1>7, <1>8, <1>9, <1>10, <1>11, <1>12 DEF IInv

(* The invariant survives wait finding no zombie child. *)
LEMMA WaitNoneInv ==
  ASSUME IInv, NEW m \in CPU, WaitNone(m)
  PROVE  IInv'
<1> USE Disjoint DEF Thread, WaitNone, At, Goto, tabVars, Critical, popcli
<1>1. /\ cur[m] \in Slots /\ pc[cur[m]] = "waitSpin" /\ proc[m] = cur[m]
  BY DEF IInv, TypeOK, CpuInv, SchedPc, ProcPc
<1>2. ncli[m] = 1 /\ ~ei[m]
  BY <1>1 DEF IInv, LockBalanced, Holding, Spinning
<1>3. TypeOK'
  BY <1>1, <1>2 DEF IInv, TypeOK, SchedPc, ProcPc, States
<1>4. CpuInv'
  BY <1>1, <1>2 DEF IInv, TypeOK, CpuInv, OneCpuPerProcess, SchedPc, ProcPc
<1>5. OneCpuPerProcess'
  BY <1>1, <1>2 DEF IInv, TypeOK, CpuInv, OneCpuPerProcess
<1>6. LockBalanced'
  BY <1>1, <1>2 DEF IInv, TypeOK, CpuInv, OneCpuPerProcess, LockBalanced, Holding, Spinning
<1>7. IdleInv'
  BY <1>1, <1>2 DEF IInv, TypeOK, CpuInv, IdleInv
<1>8. CreatorInv'
  BY <1>1, <1>2 DEF IInv, TypeOK, CpuInv, CreatorInv, Creating
<1>9. LocalInv'
  BY <1>1, <1>2 DEF IInv, TypeOK, CpuInv, LocalInv, OneCpuPerProcess
<1>10. MaskInv'
  BY <1>1, <1>2 DEF IInv, TypeOK, CpuInv, MaskInv, OneCpuPerProcess
<1>11. FrameInv'
  BY <1>1, <1>2 DEF IInv, TypeOK, FrameInv, Nested, InWait, WaitLocals, SavedOK, InYield
<1>12. UserPreemptible'
  BY <1>1, <1>2 DEF IInv, TypeOK, CpuInv, UserPreemptible, OneCpuPerProcess
<1>13. PidInv'
  BY <1>1, <1>2 DEF IInv, TypeOK, PidInv, PidsUnique
<1> QED
  BY <1>3, <1>4, <1>5, <1>6, <1>7, <1>8, <1>9, <1>10, <1>11, <1>12, <1>13 DEF IInv

(* The invariant survives proc_create calling proc_alloc on the boot CPU. *)
LEMMA BootCreateInv ==
  ASSUME IInv, NEW m \in CPU, BootCreate(m)
  PROVE  IInv'
<1> USE Disjoint DEF Thread, BootCreate, At, Goto, tabVars, AcquireCall
<1>1. /\ cur[m] = m /\ pc[m] = "boot" /\ proc[m] = None
      /\ ncli[m] = 0 /\ lock # m
  BY DEF IInv, TypeOK, CpuInv, SchedPc, ProcPc, LockBalanced, Holding, Spinning
<1>2. TypeOK'
  BY <1>1 DEF IInv, TypeOK, SchedPc, ProcPc, States
<1>3. CpuInv'
  BY <1>1 DEF IInv, TypeOK, CpuInv, OneCpuPerProcess, SchedPc, ProcPc
<1>4. OneCpuPerProcess'
  BY <1>1 DEF IInv, TypeOK, CpuInv, OneCpuPerProcess
<1>5. LockBalanced'
  BY <1>1 DEF IInv, TypeOK, CpuInv, OneCpuPerProcess, LockBalanced, Holding, Spinning
<1>6. IdleInv'
  BY <1>1 DEF IInv, TypeOK, CpuInv, IdleInv
<1>7. CreatorInv'
  BY <1>1 DEF IInv, TypeOK, CpuInv, CreatorInv, Creating
<1>8. LocalInv'
  BY <1>1 DEF IInv, TypeOK, CpuInv, LocalInv, OneCpuPerProcess
<1>9. MaskInv'
  BY <1>1 DEF IInv, TypeOK, CpuInv, MaskInv, OneCpuPerProcess
<1>10. FrameInv'
  BY <1>1 DEF IInv, TypeOK, FrameInv, Nested, InWait, WaitLocals, SavedOK, InYield
<1>11. UserPreemptible'
  BY <1>1 DEF IInv, TypeOK, CpuInv, UserPreemptible, OneCpuPerProcess
<1>12. PidInv'
  BY <1>1 DEF IInv, TypeOK, PidInv, PidsUnique
<1> QED
  BY <1>2, <1>3, <1>4, <1>5, <1>6, <1>7, <1>8, <1>9, <1>10, <1>11, <1>12 DEF IInv

(* The invariant survives a boot without /bin/init. *)
LEMMA BootNoInitInv ==
  ASSUME IInv, NEW m \in CPU, BootNoInit(m)
  PROVE  IInv'
<1> USE Disjoint DEF Thread, BootNoInit, At, Goto, cpuVars, tabVars
<1>1. /\ cur[m] = m /\ pc[m] = "boot" /\ proc[m] = None
  BY DEF IInv, CpuInv, SchedPc, ProcPc
<1>2. TypeOK'
  BY <1>1 DEF IInv, TypeOK, SchedPc, ProcPc, States
<1>3. CpuInv'
  BY <1>1 DEF IInv, TypeOK, CpuInv, OneCpuPerProcess, SchedPc, ProcPc
<1>4. OneCpuPerProcess'
  BY <1>1 DEF IInv, TypeOK, CpuInv, OneCpuPerProcess
<1>5. LockBalanced'
  BY <1>1 DEF IInv, TypeOK, CpuInv, OneCpuPerProcess, LockBalanced, Holding, Spinning
<1>6. IdleInv'
  BY <1>1 DEF IInv, TypeOK, CpuInv, IdleInv
<1>7. CreatorInv'
  BY <1>1 DEF IInv, TypeOK, CpuInv, CreatorInv, Creating
<1>8. LocalInv'
  BY <1>1 DEF IInv, TypeOK, CpuInv, LocalInv, OneCpuPerProcess
<1>9. MaskInv'
  BY <1>1 DEF IInv, TypeOK, CpuInv, MaskInv, OneCpuPerProcess
<1>10. FrameInv'
  BY <1>1 DEF IInv, TypeOK, FrameInv, Nested, InWait, WaitLocals, SavedOK, InYield
<1>11. UserPreemptible'
  BY <1>1 DEF IInv, TypeOK, CpuInv, UserPreemptible, OneCpuPerProcess
<1>12. PidInv'
  BY <1>1 DEF IInv, TypeOK, PidInv, PidsUnique
<1> QED
  BY <1>2, <1>3, <1>4, <1>5, <1>6, <1>7, <1>8, <1>9, <1>10, <1>11, <1>12 DEF IInv

(* The invariant survives proc_alloc finding no free slot. *)
LEMMA AllocFullInv ==
  ASSUME IInv, NEW m \in CPU, AllocFull(m)
  PROVE  IInv'
<1> USE Disjoint DEF Thread, AllocFull, At, Goto, tabVars, Critical, popcli, CreatorDone
<1>1. /\ pc[cur[m]] = "allocSpin"
      /\ cur[m] \in Slots \/ cur[m] = m
      /\ ncli[m] = 1 /\ ~ei[m]
  BY DEF IInv, TypeOK, CpuInv, SchedPc, ProcPc, LockBalanced, Holding, Spinning
<1>2. TypeOK'
  BY <1>1 DEF IInv, TypeOK, SchedPc, ProcPc, States
<1>3. CpuInv'
  BY <1>1 DEF IInv, TypeOK, CpuInv, OneCpuPerProcess, SchedPc, ProcPc
<1>4. OneCpuPerProcess'
  BY <1>1 DEF IInv, TypeOK, CpuInv, OneCpuPerProcess
<1>5. LockBalanced'
  BY <1>1 DEF IInv, TypeOK, CpuInv, OneCpuPerProcess, LockBalanced, Holding, Spinning
<1>6. IdleInv'
  BY <1>1 DEF IInv, TypeOK, CpuInv, IdleInv
<1>7. CreatorInv'
  BY <1>1 DEF IInv, TypeOK, CpuInv, CreatorInv, Creating
<1>8. LocalInv'
  BY <1>1 DEF IInv, TypeOK, CpuInv, LocalInv, OneCpuPerProcess
<1>9. MaskInv'
  BY <1>1 DEF IInv, TypeOK, CpuInv, MaskInv, OneCpuPerProcess
<1>10. FrameInv'
  BY <1>1 DEF IInv, TypeOK, FrameInv, Nested, InWait, WaitLocals, SavedOK, InYield
<1>11. UserPreemptible'
  BY <1>1 DEF IInv, TypeOK, CpuInv, UserPreemptible, OneCpuPerProcess
<1>12. PidInv'
  BY <1>1 DEF IInv, TypeOK, PidInv, PidsUnique
<1> QED
  BY <1>2, <1>3, <1>4, <1>5, <1>6, <1>7, <1>8, <1>9, <1>10, <1>11, <1>12 DEF IInv

(* The invariant survives a creator giving its slot back without the lock: the slot is its own. *)
LEMMA CreateFailInv ==
  ASSUME IInv, NEW m \in CPU, CreateFail(m)
  PROVE  IInv'
<1> USE Disjoint DEF Thread, CreateFail, At, Goto, cpuVars, CreatorDone
<1>1. /\ pc[cur[m]] = "embryo"
      /\ cur[m] \in Slots \/ cur[m] = m
      /\ sysp[cur[m]] \in Slots /\ state[sysp[cur[m]]] = "EMBRYO"
  BY DEF IInv, TypeOK, CpuInv, CreatorInv, Creating, SchedPc, ProcPc
<1>2. \A n \in CPU : cur[n] # sysp[cur[m]]
  BY <1>1 DEF IInv, CpuInv
<1>3. \A u \in Slots : pc'[u] = pc[u] \/ (pc[u] = "embryo" /\ pc'[u] = "sysret")
  BY <1>1 DEF IInv, TypeOK
<1>4. TypeOK'
  BY <1>1, <1>2, <1>3 DEF IInv, TypeOK, SchedPc, ProcPc, States
<1>5. CpuInv'
  BY SMTT(30), <1>1, <1>2, <1>3 DEF IInv, TypeOK, CpuInv, OneCpuPerProcess, SchedPc, ProcPc
<1>6. OneCpuPerProcess'
  BY <1>1, <1>2, <1>3 DEF IInv, TypeOK, CpuInv, OneCpuPerProcess
<1>7. LockBalanced'
  BY SMTT(30), <1>1, <1>2, <1>3 DEF IInv, TypeOK, CpuInv, OneCpuPerProcess, LockBalanced, Holding, Spinning
<1>8. IdleInv'
  BY SMTT(30), <1>1, <1>2, <1>3 DEF IInv, TypeOK, CpuInv, IdleInv
<1>9. CreatorInv'
  BY SMTT(30), <1>1, <1>2, <1>3 DEF IInv, TypeOK, CpuInv, CreatorInv, Creating
<1>10. LocalInv'
  BY <1>1, <1>2, <1>3 DEF IInv, TypeOK, CpuInv, LocalInv, OneCpuPerProcess
<1>11. MaskInv'
  BY <1>1, <1>2, <1>3 DEF IInv, TypeOK, CpuInv, MaskInv, OneCpuPerProcess
<1>12. FrameInv'
  <2>1. stack' = stack /\ ra' = ra /\ sysp' = sysp
    OBVIOUS
  <2>2. \A u \in Slots : pc[u] = "embryo" => ~Nested(u) /\ ~InWait(u)
    BY DEF Nested, InWait, InYield
  <2>3. \A u \in Slots : pc'[u] # pc[u] => ~Nested(u)' /\ ~InWait(u)'
    BY <1>3 DEF Nested, InWait, InYield
  <2>4. \A u \in Slots : pc'[u] = pc[u] => (Nested(u)' <=> Nested(u)) /\ (InWait(u)' <=> InWait(u))
    BY <2>1 DEF Nested, InWait
  <2> QED
    BY <1>3, <2>1, <2>2, <2>3, <2>4 DEF IInv, FrameInv, WaitLocals, SavedOK
<1>13. UserPreemptible'
  BY <1>1, <1>2, <1>3 DEF IInv, TypeOK, CpuInv, UserPreemptible, OneCpuPerProcess
<1>14. PidInv'
  BY <1>1, <1>2, <1>3 DEF IInv, TypeOK, PidInv, PidsUnique
<1> QED
  BY <1>4, <1>5, <1>6, <1>7, <1>8, <1>9, <1>10, <1>11, <1>12, <1>13, <1>14 DEF IInv

(* The invariant survives a creator making its EMBRYO runnable. *)
LEMMA PublishInv ==
  ASSUME IInv, NEW m \in CPU, Publish(m)
  PROVE  IInv'
<1> USE Disjoint DEF Thread, Publish, At, Goto, CreatorDone, Critical, popcli
<1>1. /\ pc[cur[m]] = "pubSpin"
      /\ cur[m] \in Slots \/ cur[m] = m
      /\ ncli[m] = 1 /\ ~ei[m]
      /\ sysp[cur[m]] \in Slots /\ state[sysp[cur[m]]] = "EMBRYO"
      /\ context[sysp[cur[m]]] = sysp[cur[m]] /\ pc[sysp[cur[m]]] = "forkret"
  BY DEF IInv, TypeOK, CpuInv, CreatorInv, Creating, SchedPc, ProcPc, LockBalanced, Holding, Spinning
<1>2. TypeOK'
  BY <1>1 DEF IInv, TypeOK, SchedPc, ProcPc, States
<1>3. CpuInv'
  BY SMTT(30), <1>1 DEF IInv, TypeOK, CpuInv, OneCpuPerProcess, SchedPc, ProcPc
<1>4. OneCpuPerProcess'
  BY <1>1 DEF IInv, TypeOK, CpuInv, OneCpuPerProcess
<1>5. LockBalanced'
  BY SMTT(30), <1>1 DEF IInv, TypeOK, CpuInv, OneCpuPerProcess, LockBalanced, Holding, Spinning
<1>6. IdleInv'
  BY <1>1 DEF IInv, TypeOK, CpuInv, IdleInv
<1>7. CreatorInv'
  BY <1>1 DEF IInv, TypeOK, CpuInv, CreatorInv, Creating
<1>8. LocalInv'
  BY <1>1 DEF IInv, TypeOK, CpuInv, LocalInv, OneCpuPerProcess
<1>9. MaskInv'
  BY SMTT(30), <1>1 DEF IInv, TypeOK, CpuInv, MaskInv, OneCpuPerProcess
<1>10. FrameInv'
  BY SMTT(30), <1>1 DEF IInv, TypeOK, FrameInv, Nested, InWait, WaitLocals, SavedOK, InYield
<1>11. UserPreemptible'
  BY <1>1 DEF IInv, TypeOK, CpuInv, UserPreemptible, OneCpuPerProcess
<1>12. PidInv'
  BY SMTT(30), <1>1 DEF IInv, TypeOK, PidInv, PidsUnique
<1> QED
  BY <1>2, <1>3, <1>4, <1>5, <1>6, <1>7, <1>8, <1>9, <1>10, <1>11, <1>12 DEF IInv

(* The invariant survives the scheduler switching to a process: the one it *)
(* picks is on no CPU and resumes at a point that holds the lock.          *)
LEMMA SchedSwitchInv ==
  ASSUME IInv, NEW m \in CPU, SchedSwitch(m)
  PROVE  IInv'
<1> USE Disjoint DEF Thread
<1>0. cur[m] = m /\ pc[m] = "scan" /\ proc[m] = None
  BY DEF SchedSwitch, At, IInv, CpuInv, SchedPc, ProcPc
<1>1. /\ cur[m] = m /\ pc[m] = "scan" /\ proc[m] = None
      /\ ncli[m] = 1 /\ ~ei[m] /\ lock = m
  BY <1>0 DEF IInv, LockBalanced, Holding, Spinning
<1>2. PICK s \in Slots :
        /\ state[s] = "RUNNABLE"
        /\ state' = [state EXCEPT ![s] = "RUNNING"]
        /\ proc' = [proc EXCEPT ![m] = s]
        /\ scheduler_ctx' = [scheduler_ctx EXCEPT ![m] = m]
        /\ cur' = [cur EXCEPT ![m] = context[s]]
        /\ yp' = [yp EXCEPT ![m] = s]
  BY <1>1 DEF SchedSwitch, Runnable, Ahead
<1>3. /\ pc' = [pc EXCEPT ![m] = "swtched"]
      /\ UNCHANGED <<ei, ncli, intena, lock, pid, ppid, context, next_pid,
                     yc, ra, sysp, stack>>
  BY <1>1 DEF SchedSwitch, Goto
<1>4. context[s] = s /\ pc[s] \in {"yresume", "forkret"}
  BY <1>2 DEF IInv, IdleInv
<1>5. \A n \in CPU : cur[n] # s
  BY <1>2 DEF IInv, CpuInv
<1> USE <1>1, <1>2, <1>3, <1>4, <1>5
<1>6. TypeOK'
  BY DEF IInv, TypeOK, SchedPc, States
<1>7. CpuInv'
  BY DEF IInv, TypeOK, CpuInv, OneCpuPerProcess, SchedPc, ProcPc
<1>8. OneCpuPerProcess'
  BY DEF IInv, TypeOK, CpuInv, OneCpuPerProcess
<1>9. LockBalanced'
  BY DEF IInv, TypeOK, CpuInv, OneCpuPerProcess, LockBalanced, Holding, Spinning
<1>10. IdleInv' /\ CreatorInv'
  BY DEF IInv, TypeOK, CpuInv, IdleInv, CreatorInv, Creating
<1>11. LocalInv' /\ MaskInv'
  BY DEF IInv, TypeOK, CpuInv, LocalInv, MaskInv, OneCpuPerProcess
<1>12. FrameInv'
  BY SMTT(30) DEF IInv, TypeOK, FrameInv, Nested, InWait, WaitLocals, SavedOK, InYield
<1>13. UserPreemptible'
  BY DEF IInv, TypeOK, CpuInv, UserPreemptible, OneCpuPerProcess
<1>14. PidInv'
  BY DEF IInv, TypeOK, PidInv, PidsUnique
<1> QED
  BY <1>6, <1>7, <1>8, <1>9, <1>10, <1>11, <1>12, <1>13, <1>14 DEF IInv

(* An interrupt finds the CPU in user code or at one of the few kernel     *)
(* points that run with interrupts on.                                     *)
LEMMA TimerInv ==
  ASSUME IInv, NEW m \in CPU, Timer(m)
  PROVE  IInv'
<1> USE Disjoint DEF Thread
<1> DEFINE t == cur[m]
           f == [pc |-> pc[t], c |-> yc[t], p |-> yp[t], ra |-> ra[t]]
<1>1. t \in Slots /\ ei[m] /\ proc[m] = t /\ state[t] = "RUNNING" /\ pc[t] \in ProcPc
  BY DEF Timer, IInv, CpuInv
<1>2. ncli[m] = 0 /\ lock # m
  <2>1. ncli[m] \in Nat /\ ~(ncli[m] > 0)
    BY <1>1 DEF IInv, TypeOK, LockBalanced
  <2>2. pc[t] \notin Holding \cup Spinning
    BY <2>1 DEF IInv, LockBalanced
  <2> QED
    BY <2>1, <2>2 DEF IInv, LockBalanced
<1>3. pc[t] \in {"user", "sysret", "iret", "wait", "yield", "yacq"}
  BY <1>1 DEF IInv, TypeOK, CpuInv, LockBalanced, MaskInv, Holding, Spinning, ProcPc
<1>4. /\ stack' = [stack EXCEPT ![t] = Append(stack[t], f)]
      /\ ei' = [ei EXCEPT ![m] = FALSE]
      /\ pc' = [pc EXCEPT ![t] = "yield"]
      /\ ra' = [ra EXCEPT ![t] = "iret"]
      /\ UNCHANGED <<cur, ncli, intena, proc, scheduler_ctx, lock, state, pid,
                     ppid, context, next_pid, yc, yp, sysp>>
  BY DEF Timer, Goto, tabVars
<1>5. f \in Frame
  BY <1>1 DEF IInv, TypeOK, Frame
<1>6. /\ f.pc \in {"user", "sysret", "iret", "wait", "yield", "yacq"}
      /\ f.pc = "iret" <=> Len(stack[t]) > 0
      /\ f.pc \in {"wait", "yield", "yacq"} => WaitLocals(t)
      /\ f.pc \in {"yield", "yacq"} => f.ra = "wait"
      /\ f.pc = "yacq" => f.c \in CPU /\ f.p = t
  BY <1>1, <1>3 DEF IInv, TypeOK, FrameInv, Nested, InWait, LocalInv, MaskInv, InYield
<1> HIDE DEF f
<1>7. stack[t] \in Seq(Frame)
  BY <1>1 DEF IInv, TypeOK
<1>8. /\ stack'[t] \in Seq(Frame)
      /\ Len(stack'[t]) = Len(stack[t]) + 1
      /\ \A i \in 1..Len(stack[t]) : stack'[t][i] = stack[t][i]
      /\ stack'[t][Len(stack[t]) + 1] = f
  BY <1>1, <1>4, <1>5, <1>7 DEF IInv, TypeOK
<1>9. \A s \in Slots : s # t => stack'[s] = stack[s]
  BY <1>4 DEF IInv, TypeOK
<1>10. TypeOK'
  <2>1. stack' \in [Thread -> Seq(Frame)]
    BY <1>1, <1>4, <1>8 DEF IInv, TypeOK
  <2> QED
    BY <1>1, <1>4, <2>1 DEF IInv, TypeOK, ProcPc
<1>11. FrameInv'
  <2>0. sysp' = sysp
    BY <1>4
  <2> SUFFICES ASSUME NEW s \in Slots
               PROVE  /\ Nested(s)' => Len(stack'[s]) > 0
                      /\ ~Nested(s)' => Len(stack'[s]) = 0
                      /\ InWait(s)' => WaitLocals(s)
                      /\ \A i \in 1..Len(stack'[s]) : SavedOK(s, i, stack'[s][i])
    BY <2>0 DEF FrameInv, WaitLocals, SavedOK
  <2>1. CASE s = t
    <3>1. Len(stack[t]) \in Nat
      BY <1>7
    <3>2. \A i \in 1..Len(stack'[t]) : i \in 1..Len(stack[t]) \/ i = Len(stack[t]) + 1
      BY <1>8, <3>1
    <3>3. SavedOK(t, Len(stack[t]) + 1, f)
      BY <1>6, <3>1 DEF SavedOK
    <3>4. \A i \in 1..Len(stack[t]) : SavedOK(t, i, stack[t][i])
      BY <1>1 DEF IInv, FrameInv
    <3>5. pc'[t] = "yield" /\ ra'[t] = "iret"
      BY <1>1, <1>4 DEF IInv, TypeOK
    <3> HIDE DEF t
    <3> QED
      BY <1>8, <2>1, <3>1, <3>2, <3>3, <3>4, <3>5 DEF Nested, InWait, InYield
  <2>2. CASE s # t
    BY <1>1, <1>4, <1>9, <2>2 DEF IInv, TypeOK, FrameInv, Nested, InWait
  <2> QED
    BY <2>1, <2>2
<1>12. CpuInv' /\ OneCpuPerProcess'
  BY <1>1, <1>4 DEF IInv, TypeOK, CpuInv, OneCpuPerProcess, SchedPc, ProcPc
<1>13. LockBalanced'
  BY <1>1, <1>2, <1>3, <1>4 DEF IInv, TypeOK, CpuInv, OneCpuPerProcess, LockBalanced, Holding, Spinning
<1>14. IdleInv' /\ CreatorInv'
  BY <1>1, <1>3, <1>4 DEF IInv, TypeOK, CpuInv, IdleInv, CreatorInv, Creating
<1>15. LocalInv' /\ MaskInv'
  BY SMTT(30), <1>1, <1>4 DEF IInv, TypeOK, CpuInv, LocalInv, MaskInv, OneCpuPerProcess
<1>16. UserPreemptible'
  BY <1>1, <1>4 DEF IInv, TypeOK, CpuInv, UserPreemptible, OneCpuPerProcess
<1>17. PidInv'
  BY <1>4 DEF IInv, PidInv, PidsUnique
<1> QED
  BY <1>10, <1>11, <1>12, <1>13, <1>14, <1>15, <1>16, <1>17 DEF IInv

(* iretq pops a frame that is there; when the frame is in yield, the CPU   *)
(* it remembers is this one because the process cannot have moved.         *)
LEMMA IretqInv ==
  ASSUME IInv, Pinned, NEW m \in CPU, Iretq(m)
  PROVE  IInv'
<1> USE Disjoint DEF Thread
<1> DEFINE t == cur[m]
           k == Len(stack[t])
           f == stack[t][k]
           rest == SubSeq(stack[t], 1, k - 1)
<1>1. t \in Slots /\ proc[m] = t /\ state[t] = "RUNNING" /\ pc[t] = "iret"
  BY DEF Iretq, At, IInv, CpuInv, SchedPc
<1>2. ncli[m] = 0 /\ lock # m
  BY <1>1 DEF IInv, TypeOK, LockBalanced, Holding, Spinning
<1>3. stack[t] \in Seq(Frame) /\ k \in Nat /\ k > 0
  BY <1>1 DEF IInv, TypeOK, FrameInv, Nested
<1>4. f \in Frame
  BY <1>3
<1>5. /\ f.pc \in {"user", "sysret", "iret", "wait", "yield", "yacq"}
      /\ f.pc = "iret" <=> k > 1
      /\ f.pc \in {"wait", "yield", "yacq"} => WaitLocals(t)
      /\ f.pc \in {"yield", "yacq"} => f.ra = "wait"
      /\ f.pc = "yacq" => f.c \in CPU /\ f.p = t
  BY <1>1, <1>3 DEF IInv, FrameInv, SavedOK
<1>6. f.pc = "yacq" => f.c = m
  BY <1>5 DEF Pinned, WaitLocals
<1>7. f.pc \in ProcPc /\ f.c \in CPU \cup {None} /\ f.p \in Slots \cup {None} /\ f.ra \in {"iret", "wait"}
  BY <1>4 DEF Frame
<1>8. /\ pc' = [pc EXCEPT ![t] = f.pc]
      /\ yc' = [yc EXCEPT ![t] = f.c]
      /\ yp' = [yp EXCEPT ![t] = f.p]
      /\ ra' = [ra EXCEPT ![t] = f.ra]
      /\ stack' = [stack EXCEPT ![t] = rest]
      /\ ei' = [ei EXCEPT ![m] = TRUE]
      /\ UNCHANGED <<cur, ncli, intena, proc, scheduler_ctx, lock, state, pid,
                     ppid, context, next_pid, sysp>>
  BY DEF Iretq, tabVars
<1>9. /\ rest \in Seq(Frame) /\ Len(rest) = k - 1
      /\ \A i \in 1..k - 1 : rest[i] = stack[t][i]
  BY <1>3
<1> HIDE DEF f, rest
<1>10. TypeOK'
  <2>1. stack' \in [Thread -> Seq(Frame)]
    BY <1>1, <1>8, <1>9 DEF IInv, TypeOK
  <2> QED
    BY <1>1, <1>7, <1>8, <2>1 DEF IInv, TypeOK
<1>11. stack'[t] = rest /\ \A s \in Slots : s # t => stack'[s] = stack[s]
  BY <1>1, <1>8 DEF IInv, TypeOK
<1>12. FrameInv'
  <2>0. sysp' = sysp
    BY <1>8
  <2> SUFFICES ASSUME NEW s \in Slots
               PROVE  /\ Nested(s)' => Len(stack'[s]) > 0
                      /\ ~Nested(s)' => Len(stack'[s]) = 0
                      /\ InWait(s)' => WaitLocals(s)
                      /\ \A i \in 1..Len(stack'[s]) : SavedOK(s, i, stack'[s][i])
    BY <2>0 DEF FrameInv, WaitLocals, SavedOK
  <2>1. CASE s = t
    <3>1. pc'[t] = f.pc /\ ra'[t] = f.ra
      BY <1>1, <1>8 DEF IInv, TypeOK
    <3>2. Len(stack'[t]) = k - 1 /\ \A i \in 1..k - 1 : stack'[t][i] = stack[t][i]
      BY <1>9, <1>11
    <3>3. /\ Nested(s)' => Len(stack'[t]) > 0
          /\ ~Nested(s)' => Len(stack'[t]) = 0
      <4>1. IF f.pc = "iret" THEN Len(stack'[t]) > 0 ELSE Len(stack'[t]) = 0
        <5> HIDE DEF k, t
        <5>1. k > 1 => k - 1 > 0
          BY <1>3
        <5>2. ~(k > 1) => k - 1 = 0
          BY <1>3
        <5> QED
          BY <1>5, <3>2, <5>1, <5>2
      <4>2. Nested(s)' <=> f.pc = "iret"
        BY <1>5, <2>1, <3>1 DEF Nested, InYield
      <4> QED
        BY <4>1, <4>2
    <3>4. InWait(s)' => WaitLocals(t)
      BY <1>5, <2>1, <3>1 DEF InWait, InYield
    <3>5. \A i \in 1..k - 1 : i \in 1..Len(stack[t])
      BY <1>3
    <3>6. \A i \in 1..Len(stack[t]) : SavedOK(t, i, stack[t][i])
      BY <1>1 DEF IInv, FrameInv
    <3> HIDE DEF t
    <3> QED
      BY <2>1, <3>2, <3>3, <3>4, <3>5, <3>6
  <2>2. CASE s # t
    BY <1>1, <1>8, <1>11, <2>2 DEF IInv, TypeOK, FrameInv, Nested, InWait
  <2> QED
    BY <2>1, <2>2
<1>13. CpuInv' /\ OneCpuPerProcess'
  BY <1>1, <1>5, <1>8 DEF IInv, TypeOK, CpuInv, OneCpuPerProcess, SchedPc, ProcPc
<1>14. LockBalanced'
  BY SMTT(30), <1>1, <1>2, <1>5, <1>8 DEF IInv, TypeOK, CpuInv, OneCpuPerProcess, LockBalanced, Holding, Spinning
<1>15. IdleInv' /\ CreatorInv'
  BY SMTT(30), <1>1, <1>5, <1>8 DEF IInv, TypeOK, CpuInv, IdleInv, CreatorInv, Creating
<1>16. LocalInv' /\ MaskInv'
  <2>1. \A n \in CPU : n # m => cur[n] # t
    BY DEF IInv, OneCpuPerProcess
  <2>2. pc'[t] = f.pc /\ ra'[t] = f.ra /\ yc'[t] = f.c /\ yp'[t] = f.p
    BY <1>1, <1>8 DEF IInv, TypeOK
  <2>3. \A u \in Slots : u # t => /\ pc'[u] = pc[u] /\ ra'[u] = ra[u]
                                 /\ yc'[u] = yc[u] /\ yp'[u] = yp[u]
    BY <1>1, <1>8 DEF IInv, TypeOK
  <2>4. LocalInv'
    BY <1>1, <1>5, <1>6, <1>8, <2>1, <2>2, <2>3 DEF IInv, LocalInv
  <2>5. MaskInv'
    BY <1>1, <1>5, <1>8, <2>1, <2>2, <2>3 DEF IInv, TypeOK, MaskInv
  <2> QED
    BY <2>4, <2>5
<1>17. UserPreemptible'
  BY <1>1, <1>2, <1>8 DEF IInv, TypeOK, CpuInv, UserPreemptible, OneCpuPerProcess
<1>18. PidInv'
  BY <1>8 DEF IInv, PidInv, PidsUnique
<1> QED
  BY <1>10, <1>12, <1>13, <1>14, <1>15, <1>16, <1>17, <1>18 DEF IInv

(* The invariant survives wait freeing a zombie child: no CPU runs on its stack. *)
LEMMA WaitReapInv ==
  ASSUME IInv, NEW m \in CPU, WaitReap(m)
  PROVE  IInv'
<1> USE Disjoint DEF Thread
<1>0. cur[m] \in Slots /\ pc[cur[m]] = "waitSpin" /\ proc[m] = cur[m] /\ state[cur[m]] = "RUNNING"
  BY DEF WaitReap, At, IInv, CpuInv, SchedPc, ProcPc
<1>1. ncli[m] = 1 /\ ~ei[m] /\ lock = None
  BY <1>0 DEF WaitReap, Critical, IInv, LockBalanced, Holding, Spinning
<1>2. PICK z \in Slots : /\ state[z] = "ZOMBIE"
                         /\ state' = [state EXCEPT ![z] = "UNUSED"]
  BY DEF WaitReap, ZombieChildren
<1>3. /\ pc' = [pc EXCEPT ![cur[m]] = "sysret"]
      /\ ncli' = [ncli EXCEPT ![m] = 0]
      /\ ei' = [ei EXCEPT ![m] = ei[m] \/ intena[m]]
      /\ UNCHANGED <<cur, lock, intena, proc, scheduler_ctx, pid, ppid, context,
                     next_pid, yc, yp, ra, sysp, stack>>
  BY <1>1 DEF WaitReap, Critical, popcli, Goto, IInv, TypeOK
<1> USE <1>0, <1>1, <1>2, <1>3
<1>4. TypeOK'
  BY DEF IInv, TypeOK, ProcPc, States
<1>5. CpuInv' /\ OneCpuPerProcess'
  BY DEF IInv, TypeOK, CpuInv, OneCpuPerProcess, SchedPc, ProcPc
<1>6. LockBalanced'
  BY SMTT(30) DEF IInv, TypeOK, CpuInv, OneCpuPerProcess, LockBalanced, Holding, Spinning
<1>7. IdleInv'
  BY DEF IInv, TypeOK, IdleInv
<1>8. CreatorInv'
  BY DEF IInv, TypeOK, CreatorInv, Creating
<1>9. LocalInv' /\ MaskInv'
  BY SMTT(30) DEF IInv, TypeOK, CpuInv, LocalInv, MaskInv, OneCpuPerProcess
<1>10. FrameInv'
  BY SMTT(30) DEF IInv, TypeOK, FrameInv, Nested, InWait, WaitLocals, SavedOK, InYield
<1>11. UserPreemptible' /\ PidInv'
  BY DEF IInv, TypeOK, CpuInv, UserPreemptible, PidInv, PidsUnique, OneCpuPerProcess
<1> QED
  BY <1>4, <1>5, <1>6, <1>7, <1>8, <1>9, <1>10, <1>11 DEF IInv

(* The invariant survives proc_alloc taking a free slot and a new pid. *)
LEMMA AllocSlotInv ==
  ASSUME IInv, NEW m \in CPU, AllocSlot(m)
  PROVE  IInv'
<1> USE Disjoint DEF Thread
<1>0. pc[cur[m]] = "allocSpin" /\ cur[m] \in Thread /\ (cur[m] \in Slots \/ cur[m] = m)
  BY DEF AllocSlot, At, IInv, TypeOK, CpuInv
<1>1. ncli[m] = 1 /\ ~ei[m] /\ lock = None
  BY <1>0 DEF AllocSlot, Critical, IInv, LockBalanced, Holding, Spinning
<1>2. PICK s \in Slots : /\ state[s] = "UNUSED"
                         /\ state' = [state EXCEPT ![s] = "EMBRYO"]
                         /\ pid' = [pid EXCEPT ![s] = next_pid]
                         /\ sysp' = [sysp EXCEPT ![cur[m]] = s]
  BY DEF AllocSlot, Unused
<1>3. /\ pc' = [pc EXCEPT ![cur[m]] = "embryo"]
      /\ ncli' = [ncli EXCEPT ![m] = 0]
      /\ ei' = [ei EXCEPT ![m] = ei[m] \/ intena[m]]
      /\ next_pid' = next_pid + 1
      /\ UNCHANGED <<cur, lock, intena, proc, scheduler_ctx, ppid, context,
                     yc, yp, ra, stack>>
  BY <1>1 DEF AllocSlot, Critical, popcli, Goto, IInv, TypeOK
<1> USE <1>0, <1>1, <1>2, <1>3
<1>4. TypeOK'
  BY DEF IInv, TypeOK, ProcPc, States
<1>5. CpuInv' /\ OneCpuPerProcess'
  BY DEF IInv, TypeOK, CpuInv, OneCpuPerProcess, SchedPc, ProcPc
<1>6. LockBalanced'
  BY DEF IInv, TypeOK, CpuInv, OneCpuPerProcess, LockBalanced, Holding, Spinning
<1>7. IdleInv'
  BY DEF IInv, TypeOK, CpuInv, IdleInv
<1>8. CreatorInv'
  BY SMTT(30) DEF IInv, TypeOK, CreatorInv, Creating
<1>9. LocalInv' /\ MaskInv'
  BY SMTT(30) DEF IInv, TypeOK, CpuInv, LocalInv, MaskInv, OneCpuPerProcess
<1>10. FrameInv'
  BY SMTT(30) DEF IInv, TypeOK, FrameInv, Nested, InWait, WaitLocals, SavedOK, InYield
<1>11. UserPreemptible'
  BY DEF IInv, TypeOK, CpuInv, UserPreemptible, OneCpuPerProcess
<1>12. PidInv'
  <2>1. next_pid \in Nat /\ \A r \in Slots : pid[r] \in Nat /\ pid[r] < next_pid
    BY DEF IInv, TypeOK, PidInv
  <2>2. \A r \in Slots : r # s => pid'[r] = pid[r] /\ state'[r] = state[r]
    BY DEF IInv, TypeOK
  <2>3. pid'[s] = next_pid
    BY DEF IInv, TypeOK
  <2>4. \A r \in Slots : pid'[r] < next_pid'
    BY <2>1, <2>2, <2>3
  <2>5. \A r \in Slots : r # s => pid'[r] # pid'[s]
    BY <2>1, <2>2, <2>3
  <2>6. PidsUnique'
    BY <2>2, <2>5 DEF IInv, PidInv, PidsUnique
  <2> QED
    BY <2>4, <2>6 DEF PidInv
<1> QED
  BY <1>4, <1>5, <1>6, <1>7, <1>8, <1>9, <1>10, <1>11, <1>12 DEF IInv

(* The invariant survives a creator building the first context of its EMBRYO. *)
LEMMA CreateSetupInv ==
  ASSUME IInv, NEW m \in CPU, CreateSetup(m)
  PROVE  IInv'
<1> USE Disjoint DEF Thread
<1> DEFINE t == cur[m]
           s == sysp[t]
<1>0. pc[t] = "embryo" /\ t \in Thread /\ (t \in Slots \/ t = m)
  BY DEF CreateSetup, At, IInv, TypeOK, CpuInv
<1>1. ncli[m] = 0 /\ lock # m
  BY <1>0 DEF IInv, LockBalanced, Holding, Spinning
<1>2. s \in Slots /\ state[s] = "EMBRYO" /\ \A n \in CPU : cur[n] # s
  BY <1>0 DEF IInv, CreatorInv, Creating, CpuInv
<1>3. /\ ppid' = [ppid EXCEPT ![s] = IF proc[m] = None THEN 0 ELSE pid[proc[m]]]
      /\ context' = [context EXCEPT ![s] = s]
      /\ stack' = [stack EXCEPT ![s] = <<UserFrame>>]
      /\ ei' = [ei EXCEPT ![m] = FALSE]
      /\ intena' = [intena EXCEPT ![m] = ei[m]]
      /\ ncli' = [ncli EXCEPT ![m] = 1]
      /\ pc' = [pc EXCEPT ![s] = "forkret", ![t] = "pubSpin"]
      /\ UNCHANGED <<cur, proc, scheduler_ctx, lock, state, pid, next_pid,
                     yc, yp, ra, sysp>>
  BY <1>1 DEF CreateSetup, IInv, TypeOK
<1>4. UserFrame \in Frame /\ UserFrame.pc = "user"
  BY DEF UserFrame, Frame, ProcPc
<1> HIDE DEF s, t
<1>5. t # s
  BY <1>2 DEF t
<1>6. /\ pc'[s] = "forkret" /\ pc'[t] = "pubSpin"
      /\ \A u \in Thread : u # s /\ u # t => pc'[u] = pc[u]
  BY <1>0, <1>2, <1>3, <1>5 DEF IInv, TypeOK
<1>7. TypeOK'
  <2>1. ppid' \in [Slots -> Nat]
    BY <1>2, <1>3 DEF IInv, TypeOK
  <2>2. stack' \in [Thread -> Seq(Frame)]
    BY <1>2, <1>3, <1>4 DEF IInv, TypeOK
  <2>3. pc' \in [Thread -> SchedPc \cup ProcPc]
    BY <1>0, <1>2, <1>3 DEF IInv, TypeOK, ProcPc
  <2>4. context' \in [Slots -> Slots \cup {None}] /\ ei' \in [CPU -> BOOLEAN]
        /\ intena' \in [CPU -> BOOLEAN] /\ ncli' \in [CPU -> Nat]
    BY <1>2, <1>3 DEF IInv, TypeOK
  <2> QED
    BY <1>3, <2>1, <2>2, <2>3, <2>4 DEF IInv, TypeOK
<1>8. CpuInv' /\ OneCpuPerProcess'
  BY SMTT(30), <1>0, <1>2, <1>3, <1>6 DEF IInv, TypeOK, CpuInv, OneCpuPerProcess, SchedPc, ProcPc, t
<1>9. LockBalanced'
  BY SMTT(30), <1>0, <1>1, <1>2, <1>3, <1>6 DEF IInv, TypeOK, CpuInv, OneCpuPerProcess, LockBalanced, Holding, Spinning, t
<1>10. IdleInv'
  <2>1. t \in Slots => state[t] = "RUNNING"
    BY DEF IInv, CpuInv, t
  <2> QED
    BY SMTT(30), <1>2, <1>3, <1>6, <2>1 DEF IInv, TypeOK, IdleInv
<1>11. CreatorInv'
  <2>1. \A u \in Thread : pc'[u] \in Creating => pc[u] \in Creating
    BY <1>0, <1>5, <1>6 DEF Creating
  <2>2. sysp' = sysp /\ state' = state /\ sysp[t] = s
    BY <1>3 DEF s
  <2>3. \A u \in Thread : pc'[u] = "pubSpin" =>
          context'[sysp[u]] = sysp[u] /\ pc'[sysp[u]] = "forkret"
    <3> SUFFICES ASSUME NEW u \in Thread, pc'[u] = "pubSpin", u # t
                 PROVE  context'[sysp[u]] = sysp[u] /\ pc'[sysp[u]] = "forkret"
      BY <1>2, <1>3, <1>6, <2>2 DEF IInv, TypeOK
    <3>1. u # s /\ pc[u] = "pubSpin"
      BY <1>5, <1>6
    <3>2. /\ sysp[u] \in Slots /\ state[sysp[u]] = "EMBRYO"
          /\ context[sysp[u]] = sysp[u] /\ pc[sysp[u]] = "forkret"
      BY <3>1 DEF IInv, CreatorInv, Creating
    <3>3. sysp[u] # t
      BY <1>0, <3>2
    <3> QED
      BY <1>2, <1>3, <1>6, <3>2, <3>3 DEF IInv, TypeOK
  <2> QED
    BY <2>1, <2>2, <2>3 DEF IInv, CreatorInv
<1>12. LocalInv' /\ MaskInv'
  BY SMTT(30), <1>0, <1>2, <1>3, <1>6 DEF IInv, TypeOK, CpuInv, LocalInv, MaskInv, OneCpuPerProcess, t
<1>13. FrameInv'
  <2>1. /\ stack'[s] = <<UserFrame>> /\ Len(stack'[s]) = 1
        /\ \A u \in Slots : u # s => stack'[u] = stack[u]
    BY <1>2, <1>3 DEF IInv, TypeOK
  <2>2. SavedOK(s, 1, UserFrame)
    BY <1>4 DEF SavedOK
  <2>3. ra' = ra /\ sysp' = sysp
    BY <1>3
  <2> SUFFICES ASSUME NEW u \in Slots
               PROVE  /\ Nested(u)' => Len(stack'[u]) > 0
                      /\ ~Nested(u)' => Len(stack'[u]) = 0
                      /\ InWait(u)' => WaitLocals(u)
                      /\ \A i \in 1..Len(stack'[u]) : SavedOK(u, i, stack'[u][i])
    BY <2>3 DEF FrameInv, WaitLocals, SavedOK
  <2>4. CASE u = s
    BY <1>6, <2>1, <2>2, <2>4 DEF Nested, InWait, InYield
  <2>5. CASE u = t
    BY <1>0, <1>5, <1>6, <2>1, <2>5 DEF IInv, FrameInv, Nested, InWait, InYield
  <2>6. CASE u # s /\ u # t
    BY <1>6, <2>1, <2>3, <2>6 DEF IInv, FrameInv, Nested, InWait
  <2> QED
    BY <2>4, <2>5, <2>6
<1>14. UserPreemptible'
  BY <1>0, <1>2, <1>3, <1>6 DEF IInv, TypeOK, CpuInv, UserPreemptible, OneCpuPerProcess, t
<1>15. PidInv'
  BY <1>3 DEF IInv, PidInv, PidsUnique
<1> QED
  BY <1>7, <1>8, <1>9, <1>10, <1>11, <1>12, <1>13, <1>14, <1>15 DEF IInv

(* The invariant survives every step of the machine. *)
LEMMA StepInv ==
  ASSUME IInv, Pinned, [Next]_vars
  PROVE  IInv'
<1>1. CASE UNCHANGED vars
  BY <1>1 DEF vars, cpuVars, tabVars, thrVars, IInv, TypeOK, CpuInv,
     OneCpuPerProcess, LockBalanced, IdleInv, CreatorInv, LocalInv, MaskInv,
     FrameInv, Nested, InWait, WaitLocals, SavedOK, UserPreemptible, PidInv,
     PidsUnique
<1>2. ASSUME NEW m \in CPU, Step(m)
      PROVE  IInv'
  <2>1. CASE Loop(m)
    BY <2>1, SchedStiInv, SchedAcquireInv, SchedSpinInv, SchedSwitchInv,
       SchedReturnedInv, SchedReleaseInv DEF Loop
  <2>2. CASE Yield(m)
    BY <2>2, YieldReadInv, YieldAcquireInv, YieldSwitchInv, YieldResumeInv,
       forkretInv, IretqInv, SysretInv DEF Yield
  <2>3. CASE Create(m)
    BY <2>3, AllocSlotInv, AllocFullInv, CreateFailInv, CreateSetupInv,
       PublishInv DEF Create
  <2>4. CASE WaitLoop(m)
    BY <2>4, WaitAgainInv, WaitReapInv, WaitNoneInv DEF WaitLoop
  <2> QED
    BY <1>2, <2>1, <2>2, <2>3, <2>4, BootCreateInv, BootNoInitInv,
       ExitSwitchInv DEF Step
<1> QED
  BY <1>1, <1>2, TimerInv, SysForkInv, SysExitInv, SysWaitInv DEF Next

(* On one CPU, or without a system call that yields, the inductive         *)
(* invariant holds in every reachable state, for every number of slots.    *)
THEOREM Invariance ==
  ASSUME Pinned PROVE Spec => []IInv
<1>1. Init => IInv
  BY InitInv
<1>2. IInv /\ [Next]_vars => IInv'
  BY StepInv
<1> QED
  BY <1>1, <1>2, PTL DEF Spec

(* The invariant implies the safety properties. *)
LEMMA InvImplies ==
  ASSUME IInv
  PROVE  TypeOK /\ CurrentProc /\ OneCpuPerProcess /\ LockBalanced /\ NoPanic
         /\ UserPreemptible /\ PidsUnique
<1>1. CurrentProc /\ NoPanic
  BY Disjoint DEF IInv, CpuInv, CurrentProc, NoPanic, SchedPc, ProcPc
<1> QED
  BY <1>1 DEF IInv, PidInv

(* Every variable keeps its type: swtch never loads a null context, and    *)
(* iretq never runs off the bottom of a kernel stack.                      *)
THEOREM TypeCorrect ==
  ASSUME Pinned PROVE Spec => []TypeOK
BY Invariance, InvImplies, PTL

(* yield, sys_exit and the scheduler keep mycpu()->proc true to what the   *)
(* CPU runs, and a running process keeps its kernel stack.                 *)
THEOREM CurrentProcSafe ==
  ASSUME Pinned PROVE Spec => []CurrentProc
BY Invariance, InvImplies, PTL

(* No two CPUs ever run on one kernel stack. *)
THEOREM StackExclusion ==
  ASSUME Pinned PROVE Spec => []OneCpuPerProcess
BY Invariance, InvImplies, PTL

(* proc_lock, ncli and IF are balanced across context switches. *)
THEOREM LockDiscipline ==
  ASSUME Pinned PROVE Spec => []LockBalanced
BY Invariance, InvImplies, PTL

(* No panic of spinlock.h or of sys_exit is reached. *)
THEOREM PanicFree ==
  ASSUME Pinned PROVE Spec => []NoPanic
BY Invariance, InvImplies, PTL

(* Only the scan of sys_wait takes a process out of ZOMBIE. *)
LEMMA ReapLemma ==
  ASSUME IInv, [Next]_vars
  PROVE  [ReapStep]_vars
<1> USE Disjoint DEF Thread, At
<1> SUFFICES ASSUME NEW m \in CPU,
                    Step(m) \/ Timer(m) \/ SysFork(m) \/ SysExit(m) \/ SysWait(m),
                    NEW z \in Slots, state[z] = "ZOMBIE", state'[z] # "ZOMBIE"
             PROVE  /\ state'[z] = "UNUSED"
                    /\ \E n \in CPU : /\ proc[n] # None
                                       /\ pid[proc[n]] = ppid[z]
                                       /\ pc[cur[n]] = "waitSpin"
  BY DEF Next, ReapStep
<1>1. CASE WaitReap(m)
  <2>1. cur[m] \in Slots /\ pc[cur[m]] = "waitSpin" /\ proc[m] = cur[m]
    BY <1>1 DEF WaitReap, IInv, CpuInv, SchedPc, ProcPc
  <2>2. sysp[cur[m]] = cur[m]
    BY <2>1 DEF IInv, FrameInv, InWait, WaitLocals
  <2>3. PICK r \in Slots : /\ ppid[r] = pid[cur[m]]
                           /\ state' = [state EXCEPT ![r] = "UNUSED"]
    BY <1>1, <2>2 DEF WaitReap, ZombieChildren
  <2>4. r = z /\ state'[z] = "UNUSED"
    BY <2>3 DEF IInv, TypeOK
  <2> QED
    BY <2>1, <2>3, <2>4
<1>2. CASE SchedSwitch(m)
  BY <1>2 DEF SchedSwitch, Runnable, Ahead, IInv, TypeOK
<1>3. CASE YieldSwitch(m) \/ ExitSwitch(m)
  <2>1. cur[m] \in Slots /\ state[cur[m]] = "RUNNING" /\ yp[cur[m]] = cur[m]
    BY <1>3 DEF YieldSwitch, ExitSwitch, IInv, CpuInv, LocalInv, SchedPc, ProcPc
  <2> QED
    BY <1>3, <2>1 DEF YieldSwitch, ExitSwitch, IInv, TypeOK
<1>4. CASE AllocSlot(m)
  BY <1>4 DEF AllocSlot, Unused, IInv, TypeOK
<1>5. CASE CreateFail(m) \/ Publish(m)
  <2>1. cur[m] \in Thread /\ sysp[cur[m]] \in Slots /\ state[sysp[cur[m]]] = "EMBRYO"
    BY <1>5 DEF CreateFail, Publish, IInv, TypeOK, CreatorInv, Creating
  <2> QED
    BY <1>5, <2>1 DEF CreateFail, Publish, IInv, TypeOK
<1>6. CASE BootCreate(m) \/ BootNoInit(m) \/ AllocFull(m) \/ CreateSetup(m)
  BY <1>6 DEF BootCreate, BootNoInit, AllocFull, CreateSetup, tabVars
<1>7. CASE SchedSti(m) \/ SchedAcquire(m) \/ SchedSpin(m) \/ SchedReturned(m) \/ SchedRelease(m)
  BY <1>7 DEF SchedSti, SchedAcquire, SchedSpin, SchedReturned, SchedRelease, tabVars
<1>8. CASE YieldRead(m) \/ YieldAcquire(m) \/ YieldResume(m) \/ forkret(m) \/ Iretq(m) \/ Sysret(m)
  BY <1>8 DEF YieldRead, YieldAcquire, YieldResume, forkret, Iretq, Sysret, tabVars
<1>9. CASE Timer(m) \/ SysFork(m) \/ SysExit(m) \/ SysWait(m) \/ WaitAgain(m) \/ WaitNone(m)
  BY <1>9 DEF Timer, SysFork, SysExit, SysWait, WaitAgain, WaitNone, tabVars
<1> QED
  BY <1>1, <1>2, <1>3, <1>4, <1>5, <1>6, <1>7, <1>8, <1>9
     DEF Step, Loop, Yield, Create, WaitLoop

(* A zombie is reaped by its own parent, in sys_wait, and never revived. *)
THEOREM ReapSafe ==
  ASSUME Pinned PROVE Spec => ReapedByParent
<1>1. IInv /\ [Next]_vars => [ReapStep]_vars
  BY ReapLemma
<1> QED
  BY <1>1, Invariance, PTL DEF Spec, ReapedByParent
=============================================================================
