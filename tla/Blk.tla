-------------------------------- MODULE Blk --------------------------------
(***************************************************************************)
(* One block device: blk_submit_sync and blk_complete (blk.c) over the     *)
(* interrupt-driven AHCI driver or the polling ATA driver.  A caller is a  *)
(* CPU; its struct blk_request is on its stack, so the caller names it.    *)
(* What a request transfers is abstracted to whether the device has done   *)
(* it, and whether well.                                                   *)
(***************************************************************************)
EXTENDS Naturals, FiniteSets

CONSTANTS
    Callers,    \* the CPUs that use the device
    BSP,        \* the one the device interrupts
    Setups,     \* the drivers, and who calls each with RFLAGS.IF = 0, as
                \* system calls do
    Slots,      \* command slots of the port; the ATA channel has one at a time
    MaxReqs,    \* bound: requests made in all
    None        \* a null pointer

ASSUME BlkAssumption ==
    /\ BSP \in Callers /\ None \notin Callers
    /\ Setups \subseteq [driver : {"ahci", "ata"}, masked : SUBSET Callers]
    /\ Slots # {} /\ IsFiniteSet(Slots) /\ None \notin Slots
    /\ MaxReqs \in Nat

VARIABLES
    setup,                \* the device's driver and its callers' RFLAGS.IF
    current_req,          \* dev->current_req
    done, status, result, \* per caller: the request, and what the call returned
    cpc, slot,            \* per caller: where it is, the slot it found
    xfer,                 \* per caller: what became of its transfer
    ci, cmd,              \* issued slots, and whose request each slot describes
    is, gis, irq,         \* port->is, hba->is, an interrupt on its way to BSP
    masked,               \* ioapic_mask_irq of the ATA channel
    reqs

hwVars == <<ci, cmd, is, gis, irq, masked>>
BlkVars == <<setup, current_req, done, status, result, cpc, slot, xfer, hwVars, reqs>>

BlkInit ==
    /\ setup \in Setups
    /\ current_req = None
    /\ done = [c \in Callers |-> FALSE]
    /\ status = [c \in Callers |-> "ok"]
    /\ result = [c \in Callers |-> "none"]
    /\ cpc = [c \in Callers |-> "idle"]
    /\ slot = [c \in Callers |-> None]
    /\ xfer = [c \in Callers |-> "none"]
    /\ ci = {} /\ cmd = [s \in Slots |-> None]
    /\ is = {} /\ gis = FALSE /\ masked = FALSE
    /\ irq = (setup.driver = "ata")   \* ata_identify_poll has raised one
    /\ reqs = 0

-----------------------------------------------------------------------------
(* blk.c *)

BlkGoto(c, l) == cpc' = [cpc EXCEPT ![c] = l]

(* The request is built and becomes the current one. *)
blk_submit_sync(c) ==
    /\ cpc[c] = "idle" /\ reqs < MaxReqs
    /\ done' = [done EXCEPT ![c] = FALSE]
    /\ status' = [status EXCEPT ![c] = "ok"]
    /\ result' = [result EXCEPT ![c] = "none"]
    /\ xfer' = [xfer EXCEPT ![c] = "none"]
    /\ current_req' = c
    /\ reqs' = reqs + 1
    /\ BlkGoto(c, "submit")
    /\ UNCHANGED <<slot, hwVars>>

(* submit failed. *)
SubmitError(c) ==
    /\ current_req' = None
    /\ result' = [result EXCEPT ![c] = "error"]
    /\ BlkGoto(c, "idle")

(* The test of the wait loop, and its hlt. *)
WaitTest(c) ==
    /\ cpc[c] = "test" /\ ~done[c]
    /\ BlkGoto(c, "hlt")
    /\ UNCHANGED <<current_req, done, status, result, slot, xfer, hwVars, reqs>>

Hlt(c) ==
    /\ cpc[c] = "hlt"
    /\ BlkGoto(c, "halted")
    /\ UNCHANGED <<current_req, done, status, result, slot, xfer, hwVars, reqs>>

(* Mutant: the finished request stays current. *)
ReturnStale(c) ==
    /\ cpc[c] = "test" /\ done[c]
    /\ result' = [result EXCEPT ![c] = status[c]]
    /\ BlkGoto(c, "idle")
    /\ UNCHANGED <<current_req, done, status, slot, xfer, hwVars, reqs>>

Return(c) ==
    /\ cpc[c] = "test" /\ done[c]
    /\ current_req' = None
    /\ result' = [result EXCEPT ![c] = status[c]]
    /\ BlkGoto(c, "idle")
    /\ UNCHANGED <<done, status, slot, xfer, hwVars, reqs>>

(* Mutant: a failed request is not marked done. *)
blk_completeOk(st) ==
    /\ status' = IF current_req = None THEN status ELSE [status EXCEPT ![current_req] = st]
    /\ done' = IF current_req = None \/ st = "error" THEN done
               ELSE [done EXCEPT ![current_req] = TRUE]

blk_complete(st) ==
    IF current_req = None THEN UNCHANGED <<done, status>>
    ELSE /\ status' = [status EXCEPT ![current_req] = st]
         /\ done' = [done EXCEPT ![current_req] = TRUE]

-----------------------------------------------------------------------------
(* ahci.c *)

(* Interrupt status is cleared, a slot is found and described; with none   *)
(* the call fails.                                                         *)
AhciFindSlot(c) ==
    /\ setup.driver = "ahci" /\ cpc[c] = "submit"
    /\ is' = {}
    /\ \E s \in Slots \ ci :
         /\ slot' = [slot EXCEPT ![c] = s]
         /\ cmd' = [cmd EXCEPT ![s] = c]
    /\ BlkGoto(c, "issue")
    /\ UNCHANGED <<current_req, done, status, result, xfer, ci, gis, irq, masked, reqs>>

AhciNoSlot(c) ==
    /\ setup.driver = "ahci" /\ cpc[c] = "submit"
    /\ is' = {}
    /\ Slots \subseteq ci
    /\ SubmitError(c)
    /\ UNCHANGED <<done, status, slot, xfer, ci, cmd, gis, irq, masked, reqs>>

(* Waits until the drive is not busy. *)
ahci_submit_dma(c) ==
    /\ setup.driver = "ahci" /\ cpc[c] = "issue"
    /\ \A r \in Callers : xfer[r] # "busy"
    /\ ci' = ci \cup {slot[c]}
    /\ xfer' = [xfer EXCEPT ![cmd[slot[c]]] = "busy"]
    /\ BlkGoto(c, "test")
    /\ UNCHANGED <<current_req, done, status, result, slot, cmd, is, gis, irq, masked, reqs>>

(* Interrupts are on unless the CPU is in a call made with them off. *)
IntOn(c) == cpc[c] = "idle" \/ c \notin setup.masked

(* An interrupt ends a hlt; other points go on where they were. *)
Awake(c) == cpc' = IF cpc[c] = "halted" THEN [cpc EXCEPT ![c] = "test"] ELSE cpc

(* Mutant: the error bit is not looked at. *)
AhciIrqNoError ==
    /\ setup.driver = "ahci" /\ irq /\ IntOn(BSP)
    /\ irq' = FALSE /\ gis' = FALSE /\ is' = {}
    /\ IF gis THEN blk_complete("ok") ELSE UNCHANGED <<done, status>>
    /\ Awake(BSP)
    /\ UNCHANGED <<current_req, result, slot, xfer, ci, cmd, masked, reqs>>

ahci_irq_handler ==
    /\ setup.driver = "ahci" /\ irq /\ IntOn(BSP)
    /\ irq' = FALSE /\ gis' = FALSE /\ is' = {}
    /\ IF gis THEN blk_complete(IF "tfes" \in is THEN "error" ELSE "ok")
       ELSE UNCHANGED <<done, status>>
    /\ Awake(BSP)
    /\ UNCHANGED <<current_req, result, slot, xfer, ci, cmd, masked, reqs>>

-----------------------------------------------------------------------------
(* ata.c *)

(* The bus master is stopped and its status cleared. *)
AtaReset(c) ==
    /\ setup.driver = "ata" /\ cpc[c] = "submit"
    /\ is' = {}
    /\ BlkGoto(c, "start")
    /\ UNCHANGED <<current_req, done, status, result, slot, xfer, ci, cmd, gis, irq, masked, reqs>>

(* Once the drive is not busy the command is written and started, with the *)
(* channel's interrupt masked.                                             *)
AtaStart(c) ==
    /\ setup.driver = "ata" /\ cpc[c] = "start"
    /\ ci = {}
    /\ \E s \in Slots : cmd' = [cmd EXCEPT ![s] = c] /\ ci' = {s}
    /\ xfer' = [xfer EXCEPT ![c] = "busy"]
    /\ masked' = TRUE
    /\ BlkGoto(c, "poll")
    /\ UNCHANGED <<current_req, done, status, result, slot, is, gis, irq, reqs>>

AtaPoll(c) ==
    /\ setup.driver = "ata" /\ cpc[c] = "poll"
    /\ is # {}
    /\ is' = {} /\ masked' = FALSE
    /\ blk_complete(IF "tfes" \in is THEN "error" ELSE "ok")
    /\ BlkGoto(c, "test")
    /\ UNCHANGED <<current_req, result, slot, xfer, ci, cmd, gis, irq, reqs>>

ata_irq_handler ==
    /\ setup.driver = "ata" /\ irq /\ IntOn(BSP)
    /\ irq' = FALSE /\ is' = {}
    /\ blk_complete(IF "tfes" \in is THEN "error" ELSE "ok")
    /\ Awake(BSP)
    /\ UNCHANGED <<current_req, result, slot, xfer, ci, cmd, gis, masked, reqs>>

-----------------------------------------------------------------------------
(* What may become of a command: "unreported" is an error that an ATA       *)
(* drive has in ATA_REG_STATUS only; the bus master's error bit is about   *)
(* the DMA.                                                                *)
Outcomes == {"ok", "error"} \cup (IF setup.driver = "ata" THEN {"unreported"} ELSE {})

(* The device finishes a command: the slot is free again, or on an AHCI    *)
(* error stays issued, as the port is never restarted, and an interrupt is *)
(* raised; one that is masked at the I/O APIC is lost.                     *)
DeviceDone(s) ==
    /\ s \in ci
    /\ \E st \in Outcomes :
         /\ xfer[cmd[s]] = "busy"
         /\ xfer' = [xfer EXCEPT ![cmd[s]] = st]
         /\ is' = is \cup {IF st = "error" THEN "tfes" ELSE "done"}
         /\ ci' = IF st = "error" /\ setup.driver = "ahci" THEN ci ELSE ci \ {s}
    /\ gis' = (setup.driver = "ahci") /\ irq' = (irq \/ ~masked)
    /\ UNCHANGED <<setup, current_req, done, status, result, cpc, slot, cmd, masked, reqs>>

(* Any other interrupt, such as the periodic timer, ends a hlt. *)
Wake(c) ==
    /\ cpc[c] = "halted" /\ IntOn(c)
    /\ BlkGoto(c, "test")
    /\ UNCHANGED <<setup, current_req, done, status, result, slot, xfer, hwVars, reqs>>

(* An interrupt that can be taken is taken before the next instruction. *)
Pending(c) == c = BSP /\ irq /\ IntOn(c)

BlkRun(c) ==
    /\ ~Pending(c)
    /\ UNCHANGED setup
    /\ \/ AhciFindSlot(c) \/ AhciNoSlot(c) \/ ahci_submit_dma(c)
       \/ AtaReset(c) \/ AtaStart(c) \/ AtaPoll(c)
       \/ WaitTest(c) \/ Hlt(c) \/ Return(c)

Interrupts == (ahci_irq_handler \/ ata_irq_handler) /\ UNCHANGED setup

Submit(c) == ~Pending(c) /\ blk_submit_sync(c) /\ UNCHANGED setup

BlkNext == \/ \E c \in Callers : Submit(c) \/ BlkRun(c) \/ Wake(c)
           \/ \E s \in Slots : DeviceDone(s)
           \/ Interrupts

BlkSpec == BlkInit /\ [][BlkNext]_BlkVars

(* A CPU that is not halted goes on, devices answer, interrupts arrive. *)
BlkFairSpec ==
    /\ BlkSpec
    /\ \A c \in Callers : WF_BlkVars(BlkRun(c)) /\ WF_BlkVars(Wake(c))
    /\ \A s \in Slots : WF_BlkVars(DeviceDone(s))
    /\ WF_BlkVars(Interrupts)

-----------------------------------------------------------------------------
(* Properties *)

(* Every variable has its type. *)
BlkTypeOK ==
    /\ setup \in Setups
    /\ current_req \in Callers \cup {None}
    /\ done \in [Callers -> BOOLEAN]
    /\ status \in [Callers -> {"ok", "error"}]
    /\ result \in [Callers -> {"none", "ok", "error"}]
    /\ cpc \in [Callers -> {"idle", "submit", "issue", "start", "poll", "test", "hlt", "halted"}]
    /\ slot \in [Callers -> Slots \cup {None}]
    /\ xfer \in [Callers -> {"none", "busy", "ok", "error", "unreported"}]
    /\ ci \subseteq Slots /\ cmd \in [Slots -> Callers \cup {None}]
    /\ is \subseteq {"done", "tfes"}
    /\ {gis, irq, masked} \subseteq BOOLEAN
    /\ reqs \in 0..MaxReqs

(* A call returns what became of its own transfer: 0 only after the device *)
(* has moved the caller's sectors, an error only if it failed or was never *)
(* started, although blk_complete marks whatever request is current.  The  *)
(* errors ata.c reads and drops count as success.                          *)
OwnCompletion ==
    \A c \in Callers : /\ result[c] = "ok" => xfer[c] \in {"ok", "unreported"}
                       /\ result[c] = "error" => xfer[c] \in {"error", "none"}

(* current_req never points to a request whose call has returned: the next *)
(* interrupt would write to a dead stack frame.                            *)
RequestLive == current_req # None => cpc[current_req] # "idle"

(* Every call returns, whatever the device answers and although the test   *)
(* of done and the hlt are not atomic.                                     *)
SubmitReturns == \A c \in Callers : cpc[c] = "submit" ~> cpc[c] = "idle"
=============================================================================
