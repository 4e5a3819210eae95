-------------------------------- MODULE Boot --------------------------------
(***************************************************************************)
(* Bringing the processors up (main.c, gdt.c): the boot CPU fills cpus[],  *)
(* sends the others to ap_entry and waits until they have counted          *)
(* themselves; each of them finds its slot by its APIC id and sets itself  *)
(* up.  The boot loader holds the others in a loop on goto_address.        *)
(***************************************************************************)
EXTENDS Naturals, Sequences, SequencesExt, FiniteSets

CONSTANTS
    Machines,   \* [ids, bsp]: the APIC ids in the loader's order, the boot CPU's
    MAX_CPUS,
    U8          \* 2^w, the values of cpus[].apic_id

ASSUME BootAssumption ==
    /\ MAX_CPUS \in Nat \ {0} /\ U8 \in Nat \ {0}
    /\ \A m \in Machines : m.ids \in Seq(Nat) /\ IsInjective(m.ids) /\ m.bsp \in Range(m.ids)

NoSlot == MAX_CPUS

VARIABLES
    machine,
    bpc, bi,                \* the boot CPU: where it is in _start, its loop variable
    apic_id, ncpu,          \* cpus[].apic_id
    released,               \* the CPUs whose goto_address is set
    apc,                    \* per CPU: where it is in ap_entry
    gs, tss,                \* per CPU: the slots of MSR_GS_BASE and of its TSS
    ap_started

BootVars == <<machine, bpc, bi, apic_id, ncpu, released, apc, gs, tss, ap_started>>

Ids == Range(machine.ids)
APs == Ids \ {machine.bsp}
N == Len(machine.ids)

(* _start has set up slot 0 for itself and reached the SMP part. *)
BootInit ==
    /\ machine \in Machines
    /\ bpc = "enrol" /\ bi = 1
    /\ apic_id = [s \in 0..(MAX_CPUS - 1) |-> IF s = 0 THEN machine.bsp % U8 ELSE 0]
    /\ ncpu = 1 /\ released = {}
    /\ apc = [c \in APs |-> "parked"]
    /\ gs = [c \in Ids |-> IF c = machine.bsp THEN 0 ELSE NoSlot]
    /\ tss = gs
    /\ ap_started = 0

-----------------------------------------------------------------------------
(* _start *)

(* A slot for every other CPU, as long as there are any. *)
Enrol ==
    /\ bpc = "enrol"
    /\ IF bi <= N /\ ncpu < MAX_CPUS
       THEN /\ IF machine.ids[bi] = machine.bsp THEN UNCHANGED <<apic_id, ncpu>>
               ELSE /\ apic_id' = [apic_id EXCEPT ![ncpu] = machine.ids[bi] % U8]
                    /\ ncpu' = ncpu + 1
            /\ bi' = bi + 1 /\ UNCHANGED bpc
       ELSE bpc' = "release" /\ bi' = 1 /\ UNCHANGED <<apic_id, ncpu>>
    /\ UNCHANGED <<machine, released, apc, gs, tss, ap_started>>

(* goto_address of every other CPU, those without a slot too. *)
Release ==
    /\ bpc = "release"
    /\ IF bi <= N THEN /\ released' = released \cup ({machine.ids[bi]} \ {machine.bsp})
                       /\ bi' = bi + 1 /\ UNCHANGED bpc
       ELSE bpc' = "wait" /\ UNCHANGED <<bi, released>>
    /\ UNCHANGED <<machine, apic_id, ncpu, apc, gs, tss, ap_started>>

(* Mutant: the CPUs that the loader reports are awaited, not those with a  *)
(* slot.                                                                   *)
WaitAll ==
    /\ bpc = "wait" /\ ap_started >= N - 1
    /\ bpc' = "scheduler"
    /\ UNCHANGED <<machine, bi, apic_id, ncpu, released, apc, gs, tss, ap_started>>

Wait ==
    /\ bpc = "wait" /\ ap_started >= ncpu - 1
    /\ bpc' = "scheduler"
    /\ UNCHANGED <<machine, bi, apic_id, ncpu, released, apc, gs, tss, ap_started>>

-----------------------------------------------------------------------------
(* ap_entry *)

ApGoto(c, from, to) == apc[c] = from /\ apc' = [apc EXCEPT ![c] = to]

(* The first slot with this APIC id, and MSR_GS_BASE; without one it halts *)
(* for good.                                                               *)
FindSlot(c) ==
    /\ c \in released
    /\ LET found == {s \in 0..(ncpu - 1) : apic_id[s] = c}
       IN  IF found = {} THEN ApGoto(c, "parked", "halted") /\ UNCHANGED gs
           ELSE /\ ApGoto(c, "parked", "gdt")
                /\ gs' = [gs EXCEPT ![c] = CHOOSE s \in found : \A t \in found : s <= t]
    /\ UNCHANGED <<machine, bpc, bi, apic_id, ncpu, released, tss, ap_started>>

(* Its own GDT and TSS.  Loading the segments clears GS, which is set      *)
(* again.                                                                  *)
init_gdt_ap(c) ==
    /\ ApGoto(c, "gdt", "count")
    /\ tss' = [tss EXCEPT ![c] = gs[c]]
    /\ UNCHANGED <<machine, bpc, bi, apic_id, ncpu, released, gs, ap_started>>

(* The IDT, the local APIC, the system call MSRs and the timer are its     *)
(* own; then it counts itself and schedules.                               *)
CountIn(c) ==
    /\ ApGoto(c, "count", "scheduler")
    /\ ap_started' = ap_started + 1
    /\ UNCHANGED <<machine, bpc, bi, apic_id, ncpu, released, gs, tss>>

BspStep == Enrol \/ Release \/ Wait
ApStep == \E c \in APs : FindSlot(c) \/ init_gdt_ap(c) \/ CountIn(c)

BootNext == BspStep \/ ApStep

(* Every processor runs. *)
BootSpec == /\ BootInit /\ [][BootNext]_BootVars
            /\ WF_BootVars(BspStep) /\ WF_BootVars(ApStep)

-----------------------------------------------------------------------------
(* Properties *)

(* Every variable has its type. *)
BootTypeOK ==
    /\ machine \in Machines
    /\ bpc \in {"enrol", "release", "wait", "scheduler"} /\ bi \in 1..(N + 1)
    /\ apic_id \in [0..(MAX_CPUS - 1) -> 0..(U8 - 1)] /\ ncpu \in 1..MAX_CPUS
    /\ released \subseteq APs
    /\ apc \in [APs -> {"parked", "gdt", "count", "scheduler", "halted"}]
    /\ gs \in [Ids -> 0..MAX_CPUS] /\ tss \in [Ids -> 0..MAX_CPUS]
    /\ ap_started \in 0..N

(* Once the boot CPU is in its scheduler as many CPUs as there are slots   *)
(* are in theirs, each with a slot and a TSS of its own; however the CPUs  *)
(* interleave, whatever the loader's order and with more CPUs than slots.  *)
EachInItsSlot ==
    bpc = "scheduler" =>
        LET up == {c \in APs : apc[c] = "scheduler"} \cup {machine.bsp}
        IN  /\ Cardinality(up) = (IF N < MAX_CPUS THEN N ELSE MAX_CPUS)
            /\ \A c \in up : /\ gs[c] # NoSlot /\ tss[c] = gs[c]
                             /\ \A d \in up \ {c} : gs[c] # gs[d]

(* The system comes up: the boot CPU gets to its scheduler, and by then    *)
(* the CPUs that have a slot are in theirs.                                *)
AllOnline == <>(bpc = "scheduler") /\ []EachInItsSlot
=============================================================================
