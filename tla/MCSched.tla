------------------------------ MODULE MCSched ------------------------------
(* Sched on small machines: one or two CPUs, two or three process slots.   *)
EXTENDS SchedInv
CONSTANTS c0, c1

OneCpu  == {c0}
TwoCpus == {c0, c1}
AllSyscalls == {"fork", "exit", "wait"}
NoWait == {"fork", "exit"}
=============================================================================
