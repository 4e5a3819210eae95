---------------------------- MODULE KernelProofs ----------------------------
(***************************************************************************)
(* Proofs about the components that MCKernel puts side by side: the block  *)
(* layer (Blk), the keyboard ring (Ring), the kernel's entries and exits   *)
(* (SysEntry), the loading of programs (Exec); and, with those of          *)
(* DeviceProofs, all seven together.                                       *)
(***************************************************************************)
EXTENDS MCKernel, DeviceProofs, SetOrderProofs, SequenceTheorems, TLAPS

-----------------------------------------------------------------------------
(* The block layer, called from the CPU that the device interrupts.        *)
(* current_req, done and status are shared with the interrupt handler, and *)
(* nothing names the request an interrupt is about; what makes the handler *)
(* mark the right one is where that request is:                            *)

Ended(x) == x \in {"ok", "error", "unreported"}
Reported(x) == {IF x = "error" THEN "tfes" ELSE "done"}

(* not issued, and no interrupt of an earlier one is left; *)
Early ==
    /\ xfer[BSP] = "none" /\ ~done[BSP] /\ ~irq
    /\ cpc[BSP] = "submit" \/ is = {}
    /\ cpc[BSP] = "issue" => setup.driver = "ahci" /\ slot[BSP] \in Slots /\ cmd[slot[BSP]] = BSP
    /\ cpc[BSP] = "start" => setup.driver = "ata"

(* polled for, with the channel's interrupt masked; *)
Polling ==
    /\ setup.driver = "ata" /\ masked /\ ~irq /\ ~done[BSP]
    /\ \/ xfer[BSP] = "busy" /\ is = {}
       \/ Ended(xfer[BSP]) /\ is = Reported(xfer[BSP])

(* in the wait loop with the command under way, with its interrupt on its  *)
(* way, or with the answer noted.                                          *)
UnderWay == setup.driver = "ahci" /\ xfer[BSP] = "busy" /\ ~done[BSP] /\ is = {} /\ ~irq
Signalled ==
    /\ setup.driver = "ahci" /\ Ended(xfer[BSP]) /\ ~done[BSP] /\ irq /\ gis
    /\ is = Reported(xfer[BSP])
Answered ==
    /\ Ended(xfer[BSP]) /\ done[BSP] /\ ~irq
    /\ status[BSP] = IF xfer[BSP] = "error" THEN "error" ELSE "ok"

PhaseInv ==
    /\ cpc[BSP] = "idle" => xfer[BSP] # "busy" /\ (irq => setup.driver = "ata")
    /\ cpc[BSP] \in {"submit", "issue", "start"} => Early
    /\ cpc[BSP] = "poll" => Polling
    /\ cpc[BSP] \in {"test", "hlt", "halted"} => UnderWay \/ Signalled \/ Answered

Links ==
    /\ current_req = (IF cpc[BSP] = "idle" THEN None ELSE BSP)
    /\ \A s \in ci : cmd[s] = BSP
    /\ result[BSP] # "none" => cpc[BSP] = "idle"
    /\ setup.driver = "ahci" => ~masked

(* The types, with the Booleans apart. *)
BlkData ==
    /\ setup \in Setups
    /\ current_req \in Callers \cup {None}
    /\ status \in [Callers -> {"ok", "error"}]
    /\ result \in [Callers -> {"none", "ok", "error"}]
    /\ cpc \in [Callers -> {"idle", "submit", "issue", "start", "poll", "test", "hlt", "halted"}]
    /\ slot \in [Callers -> Slots \cup {None}]
    /\ xfer \in [Callers -> {"none", "busy", "ok", "error", "unreported"}]
    /\ ci \subseteq Slots /\ cmd \in [Slots -> Callers \cup {None}]
    /\ is \subseteq {"done", "tfes"}
    /\ reqs \in 0..MaxReqs
BlkBools == done \in [Callers -> BOOLEAN] /\ gis \in BOOLEAN /\ irq \in BOOLEAN /\ masked \in BOOLEAN

BlkInv == BlkData /\ BlkBools /\ OwnCompletion /\ PhaseInv /\ Links

LEMMA BlkTypeParts == BlkData /\ BlkBools => BlkTypeOK
BY Zenon DEF BlkData, BlkBools, BlkTypeOK

LEMMA BlkInitInv ==
    ASSUME Callers = {BSP}, BlkInit
    PROVE  BlkInv
<1> USE BlkAssumption DEF BlkInit
<1>1. BlkData
  BY DEF BlkData
<1>a. done \in [Callers -> BOOLEAN] /\ gis \in BOOLEAN /\ masked \in BOOLEAN
  BY Zenon
<1>b. irq \in BOOLEAN
  BY Zenon
<1>2. OwnCompletion
  BY DEF OwnCompletion
<1>3. PhaseInv
  BY DEF PhaseInv
<1>4. Links
  BY DEF Links
<1> QED BY <1>1, <1>a, <1>b, <1>2, <1>3, <1>4 DEF BlkInv, BlkBools

LEMMA BlkSubmit ==
    ASSUME Callers = {BSP}, BlkInv, ~Pending(BSP), blk_submit_sync(BSP), UNCHANGED setup
    PROVE  BlkInv'
<1> USE BlkAssumption DEF blk_submit_sync, Pending, IntOn, BlkGoto, hwVars
<1>1. BlkData'
  BY DEF BlkInv, BlkData, BlkBools, Links
<1>2. BlkBools'
  BY Zenon DEF BlkInv, BlkBools
<1>a. DOMAIN done = Callers
  BY Zenon DEF BlkInv, BlkBools
<1>3. PhaseInv'
  BY <1>a DEF BlkInv, BlkData, PhaseInv, Links, Early, Polling, UnderWay, Signalled, Answered, Ended, Reported
<1>4. OwnCompletion'
  BY DEF BlkInv, BlkData, OwnCompletion, PhaseInv, Links, Early, Polling, UnderWay, Signalled, Answered, Ended
<1>5. Links'
  BY DEF BlkInv, BlkData, Links, PhaseInv, Early
<1> QED
  BY <1>1, <1>2, <1>3, <1>4, <1>5 DEF BlkInv

LEMMA BlkFindSlot ==
    ASSUME Callers = {BSP}, BlkInv, AhciFindSlot(BSP), UNCHANGED setup
    PROVE  BlkInv'
<1> USE BlkAssumption DEF AhciFindSlot, BlkGoto, hwVars
<1>1. BlkData'
  BY DEF BlkInv, BlkData, BlkBools, Links
<1>2. BlkBools'
  BY Zenon DEF BlkInv, BlkBools
<1>3. PhaseInv'
  BY DEF BlkInv, BlkData, PhaseInv, Links, Early, Polling, UnderWay, Signalled, Answered, Ended, Reported
<1>4. OwnCompletion'
  BY DEF BlkInv, BlkData, OwnCompletion, PhaseInv, Links, Early, Polling, UnderWay, Signalled, Answered, Ended
<1>5. Links'
  BY DEF BlkInv, BlkData, Links, PhaseInv, Early
<1> QED
  BY <1>1, <1>2, <1>3, <1>4, <1>5 DEF BlkInv

LEMMA BlkNoSlot ==
    ASSUME Callers = {BSP}, BlkInv, AhciNoSlot(BSP), UNCHANGED setup
    PROVE  BlkInv'
<1> USE BlkAssumption DEF AhciNoSlot, SubmitError, BlkGoto, hwVars
<1>1. BlkData'
  BY DEF BlkInv, BlkData, BlkBools, Links
<1>2. BlkBools'
  BY Zenon DEF BlkInv, BlkBools
<1>3. PhaseInv'
  BY DEF BlkInv, BlkData, PhaseInv, Links, Early, Polling, UnderWay, Signalled, Answered, Ended, Reported
<1>4. OwnCompletion'
  BY DEF BlkInv, BlkData, OwnCompletion, PhaseInv, Links, Early, Polling, UnderWay, Signalled, Answered, Ended
<1>5. Links'
  BY DEF BlkInv, BlkData, Links, PhaseInv, Early
<1> QED
  BY <1>1, <1>2, <1>3, <1>4, <1>5 DEF BlkInv

LEMMA BlkDma ==
    ASSUME Callers = {BSP}, BlkInv, ahci_submit_dma(BSP), UNCHANGED setup
    PROVE  BlkInv'
<1> USE BlkAssumption DEF ahci_submit_dma, BlkGoto, hwVars
<1>1. BlkData'
  BY DEF BlkInv, BlkData, Links, PhaseInv, Early
<1>2. BlkBools'
  BY Zenon DEF BlkInv, BlkBools
<1>3. PhaseInv'
  BY DEF BlkInv, BlkData, PhaseInv, Links, Early, Polling, UnderWay, Signalled, Answered, Ended, Reported
<1>4. OwnCompletion'
  BY DEF BlkInv, BlkData, OwnCompletion, PhaseInv, Links, Early, Polling, UnderWay, Signalled, Answered, Ended
<1>5. Links'
  BY DEF BlkInv, BlkData, Links, PhaseInv, Early
<1> QED
  BY <1>1, <1>2, <1>3, <1>4, <1>5 DEF BlkInv

LEMMA BlkReset ==
    ASSUME Callers = {BSP}, BlkInv, AtaReset(BSP), UNCHANGED setup
    PROVE  BlkInv'
<1> USE BlkAssumption DEF AtaReset, BlkGoto, hwVars
<1>1. BlkData'
  BY DEF BlkInv, BlkData, BlkBools, Links
<1>2. BlkBools'
  BY Zenon DEF BlkInv, BlkBools
<1>3. PhaseInv'
  BY DEF BlkInv, BlkData, PhaseInv, Links, Early, Polling, UnderWay, Signalled, Answered, Ended, Reported
<1>4. OwnCompletion'
  BY DEF BlkInv, BlkData, OwnCompletion, PhaseInv, Links, Early, Polling, UnderWay, Signalled, Answered, Ended
<1>5. Links'
  BY DEF BlkInv, BlkData, Links, PhaseInv, Early
<1> QED
  BY <1>1, <1>2, <1>3, <1>4, <1>5 DEF BlkInv

LEMMA BlkStart ==
    ASSUME Callers = {BSP}, BlkInv, AtaStart(BSP), UNCHANGED setup
    PROVE  BlkInv'
<1> USE BlkAssumption DEF AtaStart, BlkGoto, hwVars
<1>1. BlkData'
  BY DEF BlkInv, BlkData, BlkBools, Links
<1>2. BlkBools'
  BY Zenon DEF BlkInv, BlkBools
<1>3. PhaseInv'
  BY DEF BlkInv, BlkData, PhaseInv, Links, Early, Polling, UnderWay, Signalled, Answered, Ended, Reported
<1>4. OwnCompletion'
  BY DEF BlkInv, BlkData, OwnCompletion, PhaseInv, Links, Early, Polling, UnderWay, Signalled, Answered, Ended
<1>5. Links'
  BY DEF BlkInv, BlkData, Links, PhaseInv, Early
<1> QED
  BY <1>1, <1>2, <1>3, <1>4, <1>5 DEF BlkInv

LEMMA BlkPoll ==
    ASSUME Callers = {BSP}, BlkInv, AtaPoll(BSP), UNCHANGED setup
    PROVE  BlkInv'
<1> USE BlkAssumption DEF AtaPoll, blk_complete, BlkGoto, hwVars
<1>1. BlkData'
  BY DEF BlkInv, BlkData, BlkBools, Links
<1>2. BlkBools'
  BY Zenon DEF BlkInv, BlkBools
<1>a. DOMAIN done = Callers /\ DOMAIN status = Callers
  BY DEF BlkInv, BlkData, BlkBools
<1>b. Polling /\ current_req = BSP
  BY DEF BlkInv, PhaseInv, Links
<1>c. Ended(xfer[BSP]) /\ is = Reported(xfer[BSP])
  BY <1>b DEF Polling
<1>d. cpc'[BSP] = "test" /\ xfer' = xfer /\ irq' = irq
  BY DEF BlkInv, BlkData
<1>e. done'[BSP] /\ status'[BSP] = IF "tfes" \in is THEN "error" ELSE "ok"
  BY <1>a, <1>b
<1>f. Answered'
  <2>1. "tfes" \in is <=> xfer[BSP] = "error"
    BY <1>c DEF Reported
  <2> QED
    BY <2>1, <1>b, <1>c, <1>d, <1>e DEF Answered, Polling, Ended
<1>3. PhaseInv'
  BY <1>d, <1>f DEF PhaseInv
<1>4. OwnCompletion'
  BY DEF BlkInv, BlkData, OwnCompletion, PhaseInv, Links, Early, Polling, UnderWay, Signalled, Answered, Ended
<1>5. Links'
  BY DEF BlkInv, BlkData, Links, PhaseInv, Early
<1> QED
  BY <1>1, <1>2, <1>3, <1>4, <1>5 DEF BlkInv

LEMMA BlkTest ==
    ASSUME Callers = {BSP}, BlkInv, WaitTest(BSP), UNCHANGED setup
    PROVE  BlkInv'
<1> USE BlkAssumption DEF WaitTest, BlkGoto, hwVars
<1>1. BlkData'
  BY DEF BlkInv, BlkData, BlkBools, Links
<1>2. BlkBools'
  BY Zenon DEF BlkInv, BlkBools
<1>3. PhaseInv'
  BY DEF BlkInv, BlkData, PhaseInv, Links, Early, Polling, UnderWay, Signalled, Answered, Ended, Reported
<1>4. OwnCompletion'
  BY DEF BlkInv, BlkData, OwnCompletion, PhaseInv, Links, Early, Polling, UnderWay, Signalled, Answered, Ended
<1>5. Links'
  BY DEF BlkInv, BlkData, Links, PhaseInv, Early
<1> QED
  BY <1>1, <1>2, <1>3, <1>4, <1>5 DEF BlkInv

LEMMA BlkHlt ==
    ASSUME Callers = {BSP}, BlkInv, Hlt(BSP), UNCHANGED setup
    PROVE  BlkInv'
<1> USE BlkAssumption DEF Hlt, BlkGoto, hwVars
<1>1. BlkData'
  BY DEF BlkInv, BlkData, BlkBools, Links
<1>2. BlkBools'
  BY Zenon DEF BlkInv, BlkBools
<1>3. PhaseInv'
  BY DEF BlkInv, BlkData, PhaseInv, Links, Early, Polling, UnderWay, Signalled, Answered, Ended, Reported
<1>4. OwnCompletion'
  BY DEF BlkInv, BlkData, OwnCompletion, PhaseInv, Links, Early, Polling, UnderWay, Signalled, Answered, Ended
<1>5. Links'
  BY DEF BlkInv, BlkData, Links, PhaseInv, Early
<1> QED
  BY <1>1, <1>2, <1>3, <1>4, <1>5 DEF BlkInv

LEMMA BlkReturn ==
    ASSUME Callers = {BSP}, BlkInv, Return(BSP), UNCHANGED setup
    PROVE  BlkInv'
<1> USE BlkAssumption DEF Return, BlkGoto, hwVars
<1>1. BlkData'
  BY DEF BlkInv, BlkData, BlkBools, Links
<1>2. BlkBools'
  BY Zenon DEF BlkInv, BlkBools
<1>3. PhaseInv'
  BY DEF BlkInv, BlkData, PhaseInv, Links, Early, Polling, UnderWay, Signalled, Answered, Ended, Reported
<1>4. OwnCompletion'
  BY DEF BlkInv, BlkData, OwnCompletion, PhaseInv, Links, Early, Polling, UnderWay, Signalled, Answered, Ended
<1>5. Links'
  BY DEF BlkInv, BlkData, Links, PhaseInv, Early
<1> QED
  BY <1>1, <1>2, <1>3, <1>4, <1>5 DEF BlkInv

LEMMA BlkWake ==
    ASSUME Callers = {BSP}, BlkInv, Wake(BSP), UNCHANGED setup
    PROVE  BlkInv'
<1> USE BlkAssumption DEF Wake, BlkGoto, hwVars
<1>1. BlkData'
  BY DEF BlkInv, BlkData, BlkBools, Links
<1>2. BlkBools'
  BY Zenon DEF BlkInv, BlkBools
<1>3. PhaseInv'
  BY DEF BlkInv, BlkData, PhaseInv, Links, Early, Polling, UnderWay, Signalled, Answered, Ended, Reported
<1>4. OwnCompletion'
  BY DEF BlkInv, BlkData, OwnCompletion, PhaseInv, Links, Early, Polling, UnderWay, Signalled, Answered, Ended
<1>5. Links'
  BY DEF BlkInv, BlkData, Links, PhaseInv, Early
<1> QED
  BY <1>1, <1>2, <1>3, <1>4, <1>5 DEF BlkInv

LEMMA BlkAhci ==
    ASSUME Callers = {BSP}, BlkInv, ahci_irq_handler, UNCHANGED setup
    PROVE  BlkInv'
<1> USE BlkAssumption DEF ahci_irq_handler, Awake, IntOn, blk_complete, BlkGoto, hwVars
<1>1. BlkData'
  BY DEF BlkInv, BlkData, BlkBools, Links
<1>2. BlkBools'
  BY Zenon DEF BlkInv, BlkBools
<1>a. DOMAIN done = Callers /\ DOMAIN status = Callers
  BY DEF BlkInv, BlkData, BlkBools
<1>3. PhaseInv'
  BY <1>a DEF BlkInv, BlkData, PhaseInv, Links, Early, Polling, UnderWay, Signalled, Answered, Ended, Reported
<1>4. OwnCompletion'
  BY DEF BlkInv, BlkData, OwnCompletion, PhaseInv, Links, Early, Polling, UnderWay, Signalled, Answered, Ended
<1>5. Links'
  BY DEF BlkInv, BlkData, Links, PhaseInv, Early
<1> QED
  BY <1>1, <1>2, <1>3, <1>4, <1>5 DEF BlkInv

LEMMA BlkAta ==
    ASSUME Callers = {BSP}, BlkInv, ata_irq_handler, UNCHANGED setup
    PROVE  BlkInv'
<1> USE BlkAssumption DEF ata_irq_handler, Awake, IntOn, blk_complete, BlkGoto, hwVars
<1>1. BlkData'
  BY DEF BlkInv, BlkData, BlkBools, Links
<1>2. BlkBools'
  BY Zenon DEF BlkInv, BlkBools
<1>3. PhaseInv'
  BY DEF BlkInv, BlkData, PhaseInv, Links, Early, Polling, UnderWay, Signalled, Answered, Ended, Reported
<1>4. OwnCompletion'
  BY DEF BlkInv, BlkData, OwnCompletion, PhaseInv, Links, Early, Polling, UnderWay, Signalled, Answered, Ended
<1>5. Links'
  BY DEF BlkInv, BlkData, Links, PhaseInv, Early
<1> QED
  BY <1>1, <1>2, <1>3, <1>4, <1>5 DEF BlkInv

(* The device answers: it is the only caller's command, so the request is  *)
(* one that is polled for or waited for.                                   *)
LEMMA BlkDevice ==
    ASSUME Callers = {BSP}, BlkInv, NEW s \in Slots, DeviceDone(s)
    PROVE  BlkInv'
<1> USE BlkAssumption DEF DeviceDone
<1>1. cmd[s] = BSP /\ xfer[BSP] = "busy" /\ s \in ci
  BY DEF BlkInv, Links
<1>2. PICK st \in Outcomes :
         /\ xfer' = [xfer EXCEPT ![BSP] = st]
         /\ is' = is \cup {IF st = "error" THEN "tfes" ELSE "done"}
         /\ ci' = IF st = "error" /\ setup.driver = "ahci" THEN ci ELSE ci \ {s}
  BY <1>1
<1>3. Ended(st) /\ Reported(st) = {IF st = "error" THEN "tfes" ELSE "done"}
  BY DEF Outcomes, Ended, Reported
<1>4. xfer'[BSP] = st /\ xfer' \in [Callers -> {"none", "busy", "ok", "error", "unreported"}]
  BY <1>2, <1>3 DEF BlkInv, BlkData, Ended
<1>5. BlkData'
  BY <1>2, <1>4 DEF BlkInv, BlkData
<1>6. BlkBools'
  <2>1. irq' \in BOOLEAN /\ gis' \in BOOLEAN
    BY Zenon
  <2> QED
    BY <2>1, Zenon DEF BlkInv, BlkBools
<1>7. \/ cpc[BSP] = "poll" /\ Polling
      \/ cpc[BSP] \in {"test", "hlt", "halted"} /\ UnderWay
  BY <1>1 DEF BlkInv, BlkData, PhaseInv, Early, Signalled, Answered, Ended
<1>8. PhaseInv'
  <2>1. CASE cpc[BSP] = "poll" /\ Polling
    <3>1. is = {} /\ is' = Reported(st) /\ ~irq'
      BY <2>1, <1>1, <1>2, <1>3 DEF Polling, Ended
    <3>2. Polling'
      BY <2>1, <3>1, <1>3, <1>4 DEF Polling
    <3> QED
      BY <2>1, <3>2 DEF PhaseInv
  <2>2. CASE cpc[BSP] \in {"test", "hlt", "halted"} /\ UnderWay
    <3>1. is' = Reported(st) /\ irq' /\ gis' /\ setup'.driver = "ahci" /\ ~done'[BSP]
      BY <2>2, <1>2, <1>3 DEF UnderWay, BlkInv, Links
    <3>2. Signalled'
      BY <3>1, <1>3, <1>4 DEF Signalled
    <3> QED
      BY <2>2, <3>2 DEF PhaseInv
  <2> QED
    BY <1>7, <2>1, <2>2
<1>9. OwnCompletion'
  BY <1>7 DEF BlkInv, OwnCompletion, Links
<1>10. Links'
  BY <1>2 DEF BlkInv, Links
<1> QED
  BY <1>5, <1>6, <1>8, <1>9, <1>10 DEF BlkInv

LEMMA BlkStutter ==
    ASSUME BlkInv, UNCHANGED BlkVars
    PROVE  BlkInv'
BY Zenon DEF BlkInv, BlkVars, hwVars, BlkData, BlkBools, PhaseInv, Links, OwnCompletion,
   Early, Polling, UnderWay, Signalled, Answered

LEMMA BlkStep ==
    ASSUME Callers = {BSP}, BlkInv, [BlkNext]_BlkVars
    PROVE  BlkInv'
<1>1. CASE UNCHANGED BlkVars
  BY <1>1, BlkStutter
<1>2. CASE \E s \in Slots : DeviceDone(s)
  BY <1>2, BlkDevice
<1>3. CASE Interrupts
  BY <1>3, BlkAhci, BlkAta DEF Interrupts
<1>4. ASSUME NEW c \in Callers, Submit(c) \/ BlkRun(c) \/ Wake(c)
      PROVE  BlkInv'
  <2>1. Submit(BSP) \/ BlkRun(BSP) \/ Wake(BSP)
    BY <1>4
  <2>2. CASE Submit(BSP)
    BY <2>2, BlkSubmit DEF Submit
  <2>3. CASE Wake(BSP)
    BY <2>3, BlkWake DEF Wake
  <2>4. CASE BlkRun(BSP)
    BY <2>4, BlkFindSlot, BlkNoSlot, BlkDma, BlkReset, BlkStart, BlkPoll, BlkTest, BlkHlt, BlkReturn
       DEF BlkRun
  <2> QED
    BY <2>1, <2>2, <2>3, <2>4
<1> QED
  BY <1>1, <1>2, <1>3, <1>4 DEF BlkNext

LEMMA BlkInvariant ==
    ASSUME Callers = {BSP}
    PROVE  BlkSpec => []BlkInv
BY BlkInitInv, BlkStep, PTL DEF BlkSpec

(* Types of the block layer, AHCI and ATA together. *)
THEOREM BlkTypeSafe ==
    ASSUME Callers = {BSP}
    PROVE  BlkSpec => []BlkTypeOK
<1>1. BlkInv => BlkTypeOK
  BY BlkTypeParts DEF BlkInv
<1> QED
  BY <1>1, BlkInvariant, PTL

(* With one calling CPU, blk_submit_sync returns what became of its own    *)
(* transfer: the interrupt that sets done is never one that an earlier     *)
(* request left behind, for any number of requests, slots and mixture of   *)
(* drivers and callers with interrupts off.                                *)
THEOREM ResultIsOwn ==
    ASSUME Callers = {BSP}
    PROVE  BlkSpec => []OwnCompletion
<1>1. BlkInv => OwnCompletion
  BY DEF BlkInv
<1> QED
  BY <1>1, BlkInvariant, PTL

(* With one calling CPU, dev->current_req never outlives the call whose    *)
(* stack it points into.                                                   *)
THEOREM RequestNotDead ==
    ASSUME Callers = {BSP}
    PROVE  BlkSpec => []RequestLive
<1>1. BlkInv => RequestLive
  BY BlkAssumption DEF BlkInv, Links, RequestLive
<1> QED
  BY <1>1, BlkInvariant, PTL

-----------------------------------------------------------------------------
(* The keyboard ring on one CPU, where a system call runs with interrupts  *)
(* off.  The d-th place before the head, as an index:                      *)
Back(h, d) == IF d <= h THEN h - d ELSE h - d + Cap

(* The n places before the head hold the n bytes up to byte p. *)
HeldAs(b, h, n, p) == \A d \in 1..n : b[Back(h, d)] = p - d + 1

Kept(n) == IF n < Cap THEN n ELSE Cap
Put == typed - Len(wdata)

(* The readers' bytes rise, and come before what is still to be put, which *)
(* are the last bytes typed.                                               *)
RingOrder ==
    /\ \A j \in 1..Len(rout) : rout[j] > 0
    /\ \A j \in 1..(Len(rout) - 1) : rout[j] < rout[j + 1]
    /\ LastRead <= Put /\ Put >= 0
    /\ \A j \in 1..Len(wdata) : wdata[j] = Put + j

Writing == rpc[KbdCpu] \in {"fill", "putc", "head", "len"}
Reading == rpc[KbdCpu] \in {"start", "copy", "sub"}

(* Before and after each assignment of ring_putc and of ring_read. *)
RingPhase ==
    /\ Writing <=> Len(wdata) > 0
    /\ rpc[KbdCpu] # "fill" => ring_len <= Cap
    /\ rpc[KbdCpu] \in {"idle", "putc", "head", "len", "start"} => ring_len = Kept(Put - LastRead)
    /\ rpc[KbdCpu] \in {"idle", "putc"} \/ Reading => HeldAs(ring_buf, ring_head, ring_len, Put)
    /\ rpc[KbdCpu] = "fill" => Len(wdata) >= Cap
    /\ rpc[KbdCpu] = "head" =>
          /\ ring_buf[ring_head] = Put + 1
          /\ HeldAs(ring_buf, ring_head, IF ring_len < Cap THEN ring_len ELSE Cap - 1, Put)
    /\ rpc[KbdCpu] = "len" =>
          wlen = ring_len /\ HeldAs(ring_buf, ring_head, Kept(ring_len + 1), Put + 1)

ReadPhase ==
    /\ Reading => rn[KbdCpu] \in 1..ring_len
    /\ rpc[KbdCpu] = "start" => ri[KbdCpu] = 0
    /\ rpc[KbdCpu] = "copy" =>
          /\ ri[KbdCpu] \in 0..rn[KbdCpu]
          /\ ridx[KbdCpu] = Back(ring_head, ring_len - ri[KbdCpu])
          /\ IF ri[KbdCpu] = 0 THEN ring_len = Kept(Put - LastRead)
             ELSE LastRead = typed - ring_len + ri[KbdCpu]
    /\ rpc[KbdCpu] = "sub" =>
          rlen[KbdCpu] = ring_len /\ LastRead = typed - ring_len + rn[KbdCpu]

RingInv == RingTypeOK /\ RingOrder /\ RingPhase /\ ReadPhase

LEMMA RingConstants ==
    KbdCpu \in RingCpus /\ Cap \in Nat \ {0} /\ U32 \in Nat /\ 2 * Cap < U32
    /\ MaxByte \in Nat /\ MaxRune \in Nat /\ OutCap \subseteq 1..(U32 - 1)
BY RingAssumption

LEMMA BackRange ==
    ASSUME NEW h \in 0..(Cap - 1), NEW d \in 0..Cap
    PROVE  Back(h, d) \in 0..(Cap - 1)
BY RingConstants DEF Back

(* When the head moves on, every place is one further back. *)
LEMMA BackHead ==
    ASSUME NEW h \in 0..(Cap - 1), NEW d \in 1..Cap
    PROVE  Back(IF h + 1 = Cap THEN 0 ELSE h + 1, d) = Back(h, d - 1)
BY RingConstants DEF Back

(* The reader's index: the next place is one less far back. *)
LEMMA BackNext ==
    ASSUME NEW h \in 0..(Cap - 1), NEW d \in 1..Cap
    PROVE  Back(h, d - 1) = IF Back(h, d) + 1 = Cap THEN 0 ELSE Back(h, d) + 1
BY RingConstants DEF Back

(* Only the place Cap before the head is the head's. *)
LEMMA BackApart ==
    ASSUME NEW h \in 0..(Cap - 1), NEW d \in 1..(Cap - 1)
    PROVE  Back(h, d) # h
BY RingConstants DEF Back

(* One wrap at most. *)
LEMMA ModOnce ==
    ASSUME NEW b \in Nat \ {0}, NEW x \in 0..(b - 1)
    PROVE  (b + x) % b = x
<1> DEFINE a == b + x
           q == a \div b
<1>1. a \in Nat /\ a >= b /\ a < 2 * b
  OBVIOUS
<1>2. q \in Nat /\ q * b <= a /\ a < q * b + b /\ a % b = a - q * b
  <2> HIDE DEF a
  <2> QED
    BY <1>1, SMT
<1>3. q = 1
  <2> HIDE DEF q, a
  <2>1. q # 0
    BY <1>1, <1>2
  <2>2. ASSUME q >= 2
        PROVE  q * b >= 2 * b
    BY <2>2, <1>2, SMT
  <2> QED
    BY <2>1, <2>2, <1>1, <1>2
<1> QED
  BY <1>2, <1>3

LEMMA ModBelow ==
    ASSUME NEW b \in Nat \ {0}, NEW x \in 0..(b - 1)
    PROVE  x % b = x
BY SMT

(* Sequences of bytes. *)
LEMMA SeqLen ==
    ASSUME NEW S, NEW s \in Seq(S)
    PROVE  Len(s) \in Nat /\ (s = <<>> <=> Len(s) = 0) /\ (\A j \in 1..Len(s) : s[j] \in S)
BY EmptySeq, LenProperties

LEMMA SeqTail ==
    ASSUME NEW S, NEW s \in Seq(S), Len(s) > 0
    PROVE  /\ Head(s) = s[1] /\ Tail(s) \in Seq(S) /\ Len(Tail(s)) = Len(s) - 1
           /\ \A j \in 1..Len(Tail(s)) : Tail(s)[j] = s[j + 1]
BY HeadTailProperties, EmptySeq

LEMMA SeqAppend ==
    ASSUME NEW S, NEW s \in Seq(S), NEW e \in S
    PROVE  /\ Append(s, e) \in Seq(S) /\ Len(Append(s, e)) = Len(s) + 1
           /\ Append(s, e)[Len(s) + 1] = e /\ \A j \in 1..Len(s) : Append(s, e)[j] = s[j]
BY AppendProperties

LEMMA SeqRun ==
    ASSUME NEW k \in Nat, NEW m \in Nat, NEW top \in Nat, m + k <= top
    PROVE  /\ [j \in 1..k |-> m + j] \in Seq(1..top) /\ Len([j \in 1..k |-> m + j]) = k
           /\ \A j \in 1..k : [i \in 1..k |-> m + i][j] = m + j
OBVIOUS

LEMMA RingInitInv ==
    ASSUME RingCpus = {KbdCpu}, RingInit
    PROVE  RingInv
<1> USE RingConstants DEF RingInit
<1>1. RingTypeOK
  BY DEF RingTypeOK
<1>2. RingOrder
  BY DEF RingOrder, Put, LastRead
<1>0. Len(wdata) = 0 /\ typed = 0 /\ rout = <<>>
  BY EmptySeq
<1>c. Put = 0
  <2>1. Put = 0 - 0
    BY <1>0, Zenon DEF Put
  <2> QED
    BY <2>1, SMT
<1>e. rpc[KbdCpu] = "idle"
  OBVIOUS
<1>d. LastRead = 0
  BY <1>0, Zenon DEF LastRead
<1>a. Put = 0 /\ LastRead = 0 /\ rpc[KbdCpu] = "idle"
  BY <1>c, <1>d, <1>e
<1>b. Kept(0) = 0
  BY DEF Kept
<1>3. RingPhase
  BY <1>0, <1>a, <1>b DEF RingPhase, Writing, Reading, HeldAs
<1>4. ReadPhase
  BY DEF ReadPhase, Reading
<1> QED
  BY <1>1, <1>2, <1>3, <1>4 DEF RingInv

(* What the steps below use of the types: the CPU's own locals. *)
LEMMA RingTypes ==
    ASSUME RingCpus = {KbdCpu}, RingTypeOK
    PROVE  /\ ring_buf \in [0..(Cap - 1) -> 0..MaxByte]
           /\ ring_head \in 0..(Cap - 1) /\ ring_len \in 0..(U32 - 1)
           /\ typed \in 0..MaxByte /\ wdata \in Seq(1..MaxByte) /\ rout \in Seq(0..MaxByte)
           /\ Len(wdata) \in Nat /\ Len(rout) \in Nat
           /\ rn[KbdCpu] \in Nat /\ ri[KbdCpu] \in Nat /\ ridx[KbdCpu] \in Nat /\ rlen[KbdCpu] \in Nat
           /\ LastRead \in 0..MaxByte /\ Put \in Int
<1> USE RingConstants
<1>1. rn[KbdCpu] \in Nat /\ ri[KbdCpu] \in Nat /\ ridx[KbdCpu] \in Nat /\ rlen[KbdCpu] \in Nat
  BY DEF RingTypeOK
<1>2. /\ ring_buf \in [0..(Cap - 1) -> 0..MaxByte]
      /\ ring_head \in 0..(Cap - 1) /\ ring_len \in 0..(U32 - 1)
      /\ typed \in 0..MaxByte /\ wdata \in Seq(1..MaxByte) /\ rout \in Seq(0..MaxByte)
  BY DEF RingTypeOK
<1>3. Len(wdata) \in Nat /\ Len(rout) \in Nat
  BY <1>2, LenProperties
<1>4. LastRead \in 0..MaxByte
  BY <1>2, SeqLen DEF LastRead, Last
<1>5. Put \in Int
  BY <1>2, <1>3 DEF Put
<1> QED
  BY <1>1, <1>2, <1>3, <1>4, <1>5

(* A key: its bytes are the next ones. *)
LEMMA RingType ==
    ASSUME RingCpus = {KbdCpu}, RingInv, NEW k \in 1..MaxRune, kbd_put_rune(k)
    PROVE  RingInv'
<1> USE RingConstants DEF kbd_put_rune, RingGoto, ringVars, rVars
<1>a. RingTypeOK /\ Len(wdata) = 0 /\ k \in Nat /\ k > 0 /\ typed \in Nat
  <2>1. ~Writing /\ RingTypeOK
    BY DEF RingInv, Writing
  <2> QED
    BY <2>1, RingTypes DEF RingInv, RingPhase
<1>z. Put = typed
  BY <1>a DEF Put
<1>s. /\ wdata' \in Seq(1..MaxByte) /\ Len(wdata') = k
      /\ \A j \in 1..k : wdata'[j] = typed + j
  BY <1>a, SeqRun
<1>b. Len(wdata') = k /\ Put' = typed /\ LastRead' = LastRead
  BY <1>a, <1>s DEF Put, LastRead
<1>c. rpc'[KbdCpu] = IF k >= Cap THEN "fill" ELSE "putc"
  BY <1>a DEF RingTypeOK
<1>1. RingTypeOK'
  BY <1>a, <1>s DEF RingTypeOK
<1>2. RingOrder'
  BY <1>a, <1>z, <1>s, <1>b DEF RingInv, RingOrder
<1>3. RingPhase'
  <2>1. ring_len = Kept(Put - LastRead) /\ HeldAs(ring_buf, ring_head, ring_len, Put) /\ ring_len <= Cap
    BY DEF RingInv, RingPhase
  <2> QED
    BY <2>1, <1>a, <1>z, <1>b, <1>c DEF RingPhase, Writing, Reading
<1>4. ReadPhase'
  BY <1>c DEF ReadPhase, Reading
<1> QED
  BY <1>1, <1>2, <1>3, <1>4 DEF RingInv

LEMMA RingFillInv ==
    ASSUME RingCpus = {KbdCpu}, RingInv, RingFill
    PROVE  RingInv'
<1> USE RingConstants DEF RingFill, RingGoto, rVars
<1>a. RingTypeOK /\ Len(wdata) >= Cap /\ RingOrder
  BY DEF RingInv, RingPhase
<1>z. typed \in Nat /\ Len(wdata) \in Nat /\ LastRead \in Nat /\ wdata \in Seq(1..MaxByte)
  BY <1>a, RingTypes
<1>c. rpc'[KbdCpu] = "idle" /\ wdata' \in Seq(1..MaxByte) /\ Len(wdata') = 0
  BY <1>a, EmptySeq DEF RingTypeOK
<1>b. Put' = typed /\ LastRead' = LastRead /\ typed \in Nat /\ Len(wdata) \in Nat /\ LastRead \in Nat
  BY <1>z, <1>c DEF Put, LastRead
<1>d. \A j \in 1..Len(wdata) : wdata[j] \in 1..MaxByte /\ wdata[j] = typed - Len(wdata) + j
  BY <1>a, <1>z, SeqLen DEF RingOrder, Put
<1>e. \A k \in 0..(Cap - 1) : ring_buf'[k] = typed - Cap + k + 1 /\ ring_buf'[k] \in 0..MaxByte
  <2> TAKE k \in 0..(Cap - 1)
  <2>1. Len(wdata) - Cap + k + 1 \in 1..Len(wdata)
    BY <1>a, <1>b
  <2>2. ring_buf'[k] = wdata[Len(wdata) - Cap + k + 1]
    OBVIOUS
  <2> QED
    BY <2>1, <2>2, <1>b, <1>d
<1>1. RingTypeOK'
  <2>1. ring_buf' \in [0..(Cap - 1) -> 0..MaxByte]
    BY <1>e
  <2>2. rpc' \in [RingCpus -> {"idle", "fill", "putc", "head", "len", "start", "copy", "sub"}]
    BY <1>a DEF RingTypeOK
  <2>3. ring_head' \in 0..(Cap - 1) /\ ring_len' \in 0..(U32 - 1)
    OBVIOUS
  <2> QED
    BY <1>a, <1>c, <2>1, <2>2, <2>3 DEF RingTypeOK
<1>2. RingOrder'
  BY <1>a, <1>b, <1>c DEF RingOrder, Put
<1>f. HeldAs(ring_buf', 0, Cap, typed)
  <2> SUFFICES ASSUME NEW d \in 1..Cap
               PROVE  ring_buf'[Back(0, d)] = typed - d + 1
    BY DEF HeldAs
  <2>1. Back(0, d) = Cap - d /\ Cap - d \in 0..(Cap - 1)
    BY DEF Back
  <2>2. ring_buf'[Cap - d] = typed - Cap + (Cap - d) + 1
    BY <2>1, <1>e
  <2> QED
    BY <2>1, <2>2, <1>b
<1>g. Kept(typed - LastRead) = Cap
  BY <1>a, <1>b DEF RingOrder, Put, Kept
<1>3. RingPhase'
  BY <1>b, <1>c, <1>f, <1>g DEF RingPhase, Writing, Reading
<1>4. ReadPhase'
  BY <1>c DEF ReadPhase, Reading
<1> QED
  BY <1>1, <1>2, <1>3, <1>4 DEF RingInv

LEMMA RingStoreInv ==
    ASSUME RingCpus = {KbdCpu}, RingInv, PutStore
    PROVE  RingInv'
<1> USE RingConstants DEF PutStore, RingGoto, rVars, wVars
<1>a. RingTypeOK /\ Len(wdata) > 0 /\ RingOrder /\ ring_len <= Cap /\ ring_len = Kept(Put - LastRead)
      /\ HeldAs(ring_buf, ring_head, ring_len, Put)
  BY DEF RingInv, RingPhase, Writing
<1>b. Put' = Put /\ LastRead' = LastRead /\ wdata' = wdata
  BY DEF Put, LastRead
<1>c. rpc'[KbdCpu] = "head"
  BY <1>a DEF RingTypeOK
<1>z. wdata \in Seq(1..MaxByte) /\ Len(wdata) \in Nat
  BY <1>a, RingTypes
<1>d. Head(wdata) = Put + 1 /\ Head(wdata) \in 0..MaxByte
  BY <1>z, <1>a, SeqTail, SeqLen DEF RingOrder
<1>1. RingTypeOK'
  BY <1>a, <1>d DEF RingTypeOK
<1>2. RingOrder'
  BY <1>a, <1>b DEF RingOrder
<1>e. ring_buf'[ring_head] = Put + 1
  BY <1>a, <1>d DEF RingTypeOK
<1>f. HeldAs(ring_buf', ring_head, IF ring_len < Cap THEN ring_len ELSE Cap - 1, Put)
  <2> SUFFICES ASSUME NEW d \in 1..(IF ring_len < Cap THEN ring_len ELSE Cap - 1)
               PROVE  ring_buf'[Back(ring_head, d)] = Put - d + 1
    BY DEF HeldAs
  <2>0. ring_head \in 0..(Cap - 1) /\ ring_len \in Nat
    BY <1>a DEF RingTypeOK
  <2>1. d \in 1..(Cap - 1) /\ d \in 0..Cap /\ d \in 1..ring_len
    BY <2>0, <1>a
  <2>2. Back(ring_head, d) \in 0..(Cap - 1) /\ Back(ring_head, d) # ring_head
    BY <2>0, <2>1, BackRange, BackApart
  <2>3. ring_buf'[Back(ring_head, d)] = ring_buf[Back(ring_head, d)]
    BY <2>2, <1>a DEF RingTypeOK
  <2> QED
    BY <2>1, <2>3, <1>a DEF HeldAs
<1>3. RingPhase'
  BY <1>a, <1>b, <1>c, <1>e, <1>f DEF RingPhase, Writing, Reading
<1>4. ReadPhase'
  BY <1>c DEF ReadPhase, Reading
<1> QED
  BY <1>1, <1>2, <1>3, <1>4 DEF RingInv

LEMMA RingHeadInv ==
    ASSUME RingCpus = {KbdCpu}, RingInv, PutHead
    PROVE  RingInv'
<1> USE RingConstants DEF PutHead, RingGoto, rVars
<1>a. /\ RingTypeOK /\ Len(wdata) > 0 /\ RingOrder /\ ring_len <= Cap /\ ring_len = Kept(Put - LastRead)
      /\ ring_buf[ring_head] = Put + 1
      /\ HeldAs(ring_buf, ring_head, IF ring_len < Cap THEN ring_len ELSE Cap - 1, Put)
  BY DEF RingInv, RingPhase, Writing
<1>b. Put' = Put /\ LastRead' = LastRead /\ wdata' = wdata /\ Put \in Int
  BY <1>a, RingTypes DEF Put, LastRead
<1>c. rpc'[KbdCpu] = "len" /\ ring_head \in 0..(Cap - 1) /\ ring_len \in Nat
  BY <1>a DEF RingTypeOK
<1>1. RingTypeOK'
  <2>1. ring_head' \in 0..(Cap - 1)
    BY <1>c
  <2>2. rpc' \in [RingCpus -> {"idle", "fill", "putc", "head", "len", "start", "copy", "sub"}]
    BY <1>a DEF RingTypeOK
  <2> QED
    BY <1>a, <2>1, <2>2 DEF RingTypeOK
<1>2. RingOrder'
  BY <1>a, <1>b DEF RingOrder
<1>d. HeldAs(ring_buf, ring_head', Kept(ring_len + 1), Put + 1)
  <2> SUFFICES ASSUME NEW d \in 1..Kept(ring_len + 1)
               PROVE  ring_buf[Back(ring_head', d)] = (Put + 1) - d + 1
    BY DEF HeldAs
  <2>1. d \in 1..Cap /\ d \in Nat /\ d - 1 <= (IF ring_len < Cap THEN ring_len ELSE Cap - 1)
    BY <1>a, <1>c DEF Kept
  <2>2. Back(ring_head', d) = Back(ring_head, d - 1)
    BY <2>1, <1>c, BackHead
  <2>3. CASE d = 1
    BY <2>2, <2>3, <1>a, <1>b, <1>c DEF Back
  <2>4. CASE d # 1
    <3>1. d - 1 \in 1..(IF ring_len < Cap THEN ring_len ELSE Cap - 1)
      BY <2>1, <2>4, <1>c
    <3>2. ring_buf[Back(ring_head, d - 1)] = Put - (d - 1) + 1
      BY <3>1, <1>a DEF HeldAs
    <3> QED
      BY <2>1, <2>2, <3>2, <1>b
  <2> QED
    BY <2>3, <2>4
<1>3. RingPhase'
  BY <1>a, <1>b, <1>c, <1>d DEF RingPhase, Writing, Reading
<1>4. ReadPhase'
  BY <1>c DEF ReadPhase, Reading
<1> QED
  BY <1>1, <1>2, <1>3, <1>4 DEF RingInv

LEMMA RingLenInv ==
    ASSUME RingCpus = {KbdCpu}, RingInv, PutLen
    PROVE  RingInv'
<1> USE RingConstants DEF PutLen, RingGoto, rVars
<1>a. /\ RingTypeOK /\ Len(wdata) > 0 /\ RingOrder /\ ring_len <= Cap /\ ring_len = Kept(Put - LastRead)
      /\ wlen = ring_len /\ HeldAs(ring_buf, ring_head, Kept(ring_len + 1), Put + 1)
  BY DEF RingInv, RingPhase, Writing
<1>b. /\ wdata' = Tail(wdata) /\ wdata \in Seq(1..MaxByte) /\ Len(wdata) \in Nat /\ Len(wdata) > 0
      /\ wdata' \in Seq(1..MaxByte) /\ Len(wdata') = Len(wdata) - 1
      /\ \A j \in 1..Len(wdata') : wdata'[j] = wdata[j + 1]
  BY <1>a, RingTypes, SeqTail
<1>z. LastRead \in Nat /\ Put \in Int /\ typed \in Nat
  BY <1>a, RingTypes
<1>c. LastRead' = LastRead /\ LastRead \in Nat /\ Put \in Int /\ typed \in Nat /\ Put' = Put + 1
  BY <1>b, <1>z DEF Put, LastRead
<1>d. rpc'[KbdCpu] = (IF Len(wdata) > 1 THEN "putc" ELSE "idle") /\ ring_len \in Nat
  BY <1>a DEF RingTypeOK
<1>e. ring_len' = Kept(ring_len + 1) /\ ring_len' <= Cap
  BY <1>a, <1>d DEF Kept
<1>1. RingTypeOK'
  <2>1. ring_len' \in 0..(U32 - 1)
    BY <1>d, <1>e DEF Kept
  <2>2. rpc' \in [RingCpus -> {"idle", "fill", "putc", "head", "len", "start", "copy", "sub"}]
    BY <1>a DEF RingTypeOK
  <2> QED
    BY <1>a, <1>b, <2>1, <2>2 DEF RingTypeOK
<1>2. RingOrder'
  <2>1. \A j \in 1..Len(wdata') : wdata'[j] = Put' + j
    BY <1>a, <1>b, <1>c DEF RingOrder
  <2> QED
    BY <2>1, <1>a, <1>c DEF RingOrder
<1>f. ring_len' = Kept(Put' - LastRead')
  BY <1>a, <1>c, <1>d, <1>e DEF Kept, RingOrder
<1>3. RingPhase'
  <2>1. HeldAs(ring_buf', ring_head', ring_len', Put')
    BY <1>a, <1>c, <1>e
  <2>2. Writing' <=> Len(wdata') > 0
    BY <1>b, <1>d DEF Writing
  <2> QED
    BY <2>1, <2>2, <1>d, <1>e, <1>f DEF RingPhase, Reading
<1>4. ReadPhase'
  BY <1>d DEF ReadPhase, Reading
<1> QED
  BY <1>1, <1>2, <1>3, <1>4 DEF RingInv


LEMMA RingBegin ==
    ASSUME RingCpus = {KbdCpu}, RingInv, NEW w \in OutCap, ring_read(KbdCpu, w)
    PROVE  RingInv'
<1> USE RingConstants DEF ring_read, RingGoto, ringVars, wVars
<1>a. /\ RingTypeOK /\ RingOrder /\ ring_len <= Cap /\ ring_len = Kept(Put - LastRead)
      /\ HeldAs(ring_buf, ring_head, ring_len, Put) /\ (Writing <=> Len(wdata) > 0)
  BY DEF RingInv, RingPhase
<1>b. Put' = Put /\ LastRead' = LastRead /\ w \in 1..(U32 - 1) /\ ring_len \in 0..(U32 - 1)
  BY <1>a, RingTypes DEF Put, LastRead
<1>c. /\ rpc'[KbdCpu] = "start" /\ rn'[KbdCpu] = (IF ring_len > w THEN w ELSE ring_len)
      /\ ri'[KbdCpu] = 0
  BY <1>a DEF RingTypeOK
<1>d. rn'[KbdCpu] \in 1..ring_len /\ rn'[KbdCpu] \in 0..(U32 - 1)
  BY <1>b, <1>c
<1>1. RingTypeOK'
  <2>1. rn' \in [RingCpus -> 0..(U32 - 1)]
    <3>1. (IF ring_len > w THEN w ELSE ring_len) \in 0..(U32 - 1)
      BY <1>b
    <3> QED
      BY <3>1, <1>a DEF RingTypeOK
  <2>2. ri' \in [RingCpus -> 0..(U32 - 1)]
    BY <1>a DEF RingTypeOK
  <2>3. rpc' \in [RingCpus -> {"idle", "fill", "putc", "head", "len", "start", "copy", "sub"}]
    BY <1>a DEF RingTypeOK
  <2> QED
    BY <1>a, <2>1, <2>2, <2>3 DEF RingTypeOK
<1>2. RingOrder'
  BY <1>a, <1>b DEF RingOrder
<1>3. RingPhase'
  BY <1>a, <1>b, <1>c DEF RingPhase, Writing, Reading
<1>4. ReadPhase'
  BY <1>c, <1>d DEF ReadPhase, Reading
<1> QED
  BY <1>1, <1>2, <1>3, <1>4 DEF RingInv

(* (head - len) mod cap does not wrap as a u32. *)
LEMMA StartIsBack ==
    ASSUME NEW h \in 0..(Cap - 1), NEW n \in 0..Cap
    PROVE  (IF h >= n THEN h - n ELSE (Cap - (n - h)) % U32) = Back(h, n)
<1> USE RingConstants
<1>1. CASE h >= n
  BY <1>1 DEF Back
<1>2. CASE h < n
  <2>1. Cap - (n - h) \in 0..(U32 - 1) /\ U32 \in Nat \ {0}
    BY <1>2
  <2>2. (Cap - (n - h)) % U32 = Cap - (n - h)
    BY <2>1, ModBelow
  <2> QED
    BY <1>2, <2>2 DEF Back
<1> QED
  BY <1>1, <1>2

LEMMA RingStart ==
    ASSUME RingCpus = {KbdCpu}, RingTypeOK, ring_len <= Cap
    PROVE  ring_start = Back(ring_head, ring_len) /\ ring_start \in 0..(Cap - 1)
<1>1. ring_head \in 0..(Cap - 1) /\ ring_len \in 0..(U32 - 1)
  BY RingTypes
<1>2. ring_len \in 0..Cap
  BY <1>1, RingConstants
<1> QED
  BY <1>1, <1>2, StartIsBack, BackRange DEF ring_start

(* i of r bytes are copied, of n in the ring. *)
LEMMA StillToCopy ==
    ASSUME NEW n \in Nat, n <= Cap, NEW r \in 1..n, NEW i \in 0..r, i < r
    PROVE  /\ n - i \in 1..n /\ n - i \in 1..Cap /\ n - i \in 0..Cap /\ n - (i + 1) = n - i - 1
           /\ i + 1 \in 0..r /\ i + 1 # 0 /\ i + 1 \in 0..(U32 - 1)
BY RingConstants

LEMMA LeftInRing ==
    ASSUME NEW n \in Nat, n <= Cap, NEW r \in 1..n
    PROVE  n - r \in 0..(U32 - 1) /\ n - r <= Cap /\ n - r <= n /\ n - r < Cap
BY RingConstants

(* Going on from the oldest byte, modulo Cap. *)
LEMMA BackFrom ==
    ASSUME NEW h \in 0..(Cap - 1), NEW n \in 0..Cap, NEW j \in 1..n
    PROVE  (Back(h, n) + j - 1) % Cap = Back(h, n - j + 1)
<1> USE RingConstants
<1>1. CASE n <= h
  <2>1. h - n + j - 1 \in 0..(Cap - 1)
    BY <1>1
  <2>2. (h - n + j - 1) % Cap = h - n + j - 1
    BY <2>1, ModBelow
  <2> QED
    BY <1>1, <2>2 DEF Back
<1>2. CASE n > h /\ n - j + 1 > h
  <2>1. h - n + Cap + j - 1 \in 0..(Cap - 1)
    BY <1>2
  <2>2. (h - n + Cap + j - 1) % Cap = h - n + Cap + j - 1
    BY <2>1, ModBelow
  <2> QED
    BY <1>2, <2>2 DEF Back
<1>3. CASE n > h /\ n - j + 1 <= h
  <2>1. h - n + j - 1 \in 0..(Cap - 1)
    BY <1>3
  <2>2. (Cap + (h - n + j - 1)) % Cap = h - n + j - 1
    BY <2>1, ModOnce
  <2>3. Cap + (h - n + j - 1) = h - n + Cap + j - 1
    OBVIOUS
  <2> QED
    BY <1>3, <2>2, <2>3 DEF Back
<1> QED
  BY <1>1, <1>2, <1>3

LEMMA RingReadStart ==
    ASSUME RingCpus = {KbdCpu}, RingInv, ReadStart(KbdCpu)
    PROVE  RingInv'
<1> USE RingConstants DEF ReadStart, RingGoto, ringVars, wVars
<1>a. /\ RingTypeOK /\ RingOrder /\ ring_len <= Cap /\ ring_len = Kept(Put - LastRead)
      /\ HeldAs(ring_buf, ring_head, ring_len, Put) /\ (Writing <=> Len(wdata) > 0)
      /\ rn[KbdCpu] \in 1..ring_len /\ ri[KbdCpu] = 0
  BY DEF RingInv, RingPhase, ReadPhase, Reading
<1>b. Put' = Put /\ LastRead' = LastRead /\ ring_len \in 0..(U32 - 1) /\ ring_head \in 0..(Cap - 1)
      /\ rn[KbdCpu] \in Nat
  BY <1>a, RingTypes DEF Put, LastRead
<1>c. rpc'[KbdCpu] = "copy" /\ ridx'[KbdCpu] = ring_start
  BY <1>a DEF RingTypeOK
<1>d. ring_start = Back(ring_head, ring_len) /\ ring_start \in 0..(Cap - 1)
  BY <1>a, RingStart
<1>1. RingTypeOK'
  <2>1. ridx' \in [RingCpus -> 0..(U32 - 1)]
    BY SMTT(30), <1>a, <1>d DEF RingTypeOK
  <2>2. rpc' \in [RingCpus -> {"idle", "fill", "putc", "head", "len", "start", "copy", "sub"}]
    BY <1>a DEF RingTypeOK
  <2> QED
    BY SMTT(30), <1>a, <2>1, <2>2 DEF RingTypeOK
<1>2. RingOrder'
  BY <1>a, <1>b DEF RingOrder
<1>3. RingPhase'
  BY <1>a, <1>b, <1>c DEF RingPhase, Writing, Reading
<1>4. ReadPhase'
  <2>1. ring_len - ri[KbdCpu] = ring_len /\ ri[KbdCpu] \in 0..rn[KbdCpu]
    BY <1>a, <1>b
  <2> QED
    BY <2>1, <1>a, <1>b, <1>c, <1>d DEF ReadPhase, Reading
<1> QED
  BY <1>1, <1>2, <1>3, <1>4 DEF RingInv

(* The byte that is copied is the next one, and so later than the last. *)
LEMMA RingReadCopy ==
    ASSUME RingCpus = {KbdCpu}, RingInv, ReadCopy(KbdCpu)
    PROVE  RingInv'
<1> USE RingConstants DEF ReadCopy, RingGoto, ringVars, wVars
<1> DEFINE i == ri[KbdCpu]
           d == ring_len - ri[KbdCpu]
           b == typed - ring_len + ri[KbdCpu] + 1
<1>a. /\ RingTypeOK /\ RingOrder /\ ring_len <= Cap
      /\ HeldAs(ring_buf, ring_head, ring_len, Put) /\ (Writing <=> Len(wdata) > 0)
      /\ rn[KbdCpu] \in 1..ring_len
      /\ ri[KbdCpu] \in 0..rn[KbdCpu] /\ ri[KbdCpu] < rn[KbdCpu]
      /\ ridx[KbdCpu] = Back(ring_head, ring_len - ri[KbdCpu])
      /\ IF ri[KbdCpu] = 0 THEN ring_len = Kept(Put - LastRead)
         ELSE LastRead = typed - ring_len + ri[KbdCpu]
  BY DEF RingInv, RingPhase, ReadPhase, Reading
<1>b. /\ ring_len \in 0..(U32 - 1) /\ ring_head \in 0..(Cap - 1) /\ rn[KbdCpu] \in Nat /\ ri[KbdCpu] \in Nat
      /\ typed \in 0..MaxByte /\ rout \in Seq(0..MaxByte) /\ LastRead \in Nat /\ Len(wdata) \in Nat
      /\ ring_buf \in [0..(Cap - 1) -> 0..MaxByte] /\ Len(rout) \in Nat
  <2>1. RingTypeOK /\ ring_len <= Cap /\ rn[KbdCpu] \in 1..ring_len /\ ri[KbdCpu] \in 0..rn[KbdCpu]
    BY <1>a, Zenon
  <2> QED
    BY <2>1, RingTypes, SMTT(30)
<1>c. Len(wdata) = 0 /\ Put = typed /\ Put' = typed
  <2>1. ~Writing
    BY DEF Writing
  <2>2. Len(wdata) = 0
    BY <2>1, <1>a, <1>b
  <2> QED
    BY <2>2, <1>b DEF Put
<1>d. /\ d \in 1..ring_len /\ d \in 1..Cap /\ d \in 0..Cap
      /\ ring_len - (ri[KbdCpu] + 1) = d - 1
      /\ ri[KbdCpu] + 1 \in 0..rn[KbdCpu] /\ ri[KbdCpu] + 1 # 0 /\ ri[KbdCpu] + 1 \in 0..(U32 - 1)
  <2>1. ring_len \in Nat
    BY <1>b
  <2> QED
    BY <2>1, <1>a, StillToCopy
<1>e. ridx[KbdCpu] \in 0..(Cap - 1) /\ ring_buf[ridx[KbdCpu]] = b
  <2>1. ridx[KbdCpu] \in 0..(Cap - 1)
    BY <1>a, <1>b, <1>d, BackRange
  <2>2. ring_buf[Back(ring_head, d)] = typed - d + 1
    <3> HIDE DEF d
    <3> QED
      BY <1>a, <1>c, <1>d DEF HeldAs
  <2>3. typed - d + 1 = b
    BY <1>b
  <2> QED
    BY <2>1, <2>2, <2>3, <1>a
<1>f. b \in 0..MaxByte
  <2>1. ring_buf[ridx[KbdCpu]] \in 0..MaxByte
    BY <1>b, <1>e
  <2> QED
    BY <2>1, <1>e
<1>g. LastRead < b /\ b <= typed /\ b > 0
  <2>1. LastRead < b
    <3>1. CASE ri[KbdCpu] = 0
      <4>1. ring_len <= typed - LastRead
        BY <3>1, <1>a, <1>b, <1>c DEF Kept, RingOrder
      <4> QED
        BY <3>1, <4>1, <1>b
    <3>2. CASE ri[KbdCpu] # 0
      BY <3>2, <1>a, <1>b, SMTT(20)
    <3> QED
      BY <3>1, <3>2
  <2>2. b <= typed
    BY SMTT(30), <1>a, <1>b
  <2> QED
    BY <2>1, <2>2, <1>b
<1>h. rout' = Append(rout, b)
  <2>1. ridx[KbdCpu] \in DOMAIN ring_buf
    BY <1>b, <1>e
  <2> HIDE DEF b
  <2> QED
    BY <2>1, <1>e
<1>k. /\ rout' \in Seq(0..MaxByte) /\ Len(rout') = Len(rout) + 1
      /\ rout'[Len(rout) + 1] = b /\ \A j \in 1..Len(rout) : rout'[j] = rout[j]
  <2> HIDE DEF b
  <2> QED
    BY <1>b, <1>f, <1>h, SeqAppend
<1>l. LastRead' = b
  <2> HIDE DEF b
  <2>1. Len(rout') # 0
    BY <1>k, <1>b
  <2>2. rout' # <<>>
    BY <2>1, <1>k, SeqLen
  <2>3. LastRead' = rout'[Len(rout')]
    BY <2>2, Zenon DEF LastRead, Last
  <2> QED
    BY <2>3, <1>k
<1>m. rpc'[KbdCpu] = "copy" /\ ri'[KbdCpu] = ri[KbdCpu] + 1 /\ rn' = rn
      /\ ridx'[KbdCpu] = (IF ridx[KbdCpu] + 1 = Cap THEN 0 ELSE ridx[KbdCpu] + 1)
  BY <1>a DEF RingTypeOK
<1>n. ridx'[KbdCpu] = Back(ring_head, d - 1) /\ ridx'[KbdCpu] \in 0..(Cap - 1)
  <2>1. d - 1 \in 0..Cap
    BY <1>d
  <2> HIDE DEF d
  <2>2. ridx[KbdCpu] = Back(ring_head, d)
    BY <1>a DEF d
  <2>3. ridx'[KbdCpu] = Back(ring_head, d - 1)
    BY <2>2, <1>b, <1>d, <1>m, BackNext
  <2> QED
    BY <2>1, <2>3, <1>b, BackRange
<1>1. RingTypeOK'
  <2>1. ri' \in [RingCpus -> 0..(U32 - 1)]
    BY <1>d, <1>a DEF RingTypeOK
  <2>2. ridx' \in [RingCpus -> 0..(U32 - 1)]
    <3>1. (IF ridx[KbdCpu] + 1 = Cap THEN 0 ELSE ridx[KbdCpu] + 1) \in 0..(U32 - 1)
      BY <1>m, <1>n
    <3> QED
      BY <3>1, <1>a DEF RingTypeOK
  <2>3. rpc' \in [RingCpus -> {"idle", "fill", "putc", "head", "len", "start", "copy", "sub"}]
    BY <1>a DEF RingTypeOK
  <2>4. {rn', ri', ridx', rlen'} \subseteq [RingCpus -> 0..(U32 - 1)]
    BY <1>a, <2>1, <2>2 DEF RingTypeOK
  <2>5. /\ ring_buf' \in [0..(Cap - 1) -> 0..MaxByte] /\ ring_head' \in 0..(Cap - 1)
        /\ ring_len' \in 0..(U32 - 1) /\ wlen' \in 0..(U32 - 1)
        /\ typed' \in 0..MaxByte /\ wdata' \in Seq(1..MaxByte)
    BY <1>a DEF RingTypeOK
  <2> QED
    BY <1>k, <2>3, <2>4, <2>5 DEF RingTypeOK
<1>2. RingOrder'
  <2>1. \A j \in 1..Len(rout') : rout'[j] > 0
    <3> HIDE DEF b
    <3> TAKE j \in 1..Len(rout')
    <3>1. CASE j \in 1..Len(rout)
      BY <3>1, <1>a, <1>k DEF RingOrder
    <3>2. CASE j = Len(rout) + 1
      BY <3>2, <1>k, <1>g
    <3>3. j \in 1..Len(rout) \/ j = Len(rout) + 1
      <4>1. j \in 1..(Len(rout) + 1) /\ Len(rout) \in Nat
        BY <1>k, <1>b
      <4> QED BY <4>1
    <3> QED
      BY <3>1, <3>2, <3>3, Zenon
  <2>2. \A j \in 1..(Len(rout') - 1) : rout'[j] < rout'[j + 1]
    <3> HIDE DEF b
    <3> TAKE j \in 1..(Len(rout') - 1)
    <3>0. j \in 1..Len(rout) /\ rout'[j] = rout[j]
      BY <1>k, <1>b
    <3>1. CASE j = Len(rout)
      <4>1. LastRead = rout[j]
        BY <3>0, <3>1, <1>b, EmptySeq DEF LastRead, Last
      <4> QED
        BY <3>0, <3>1, <4>1, <1>k, <1>g
    <3>2. CASE j # Len(rout)
      <4>1. j \in 1..(Len(rout) - 1) /\ j + 1 \in 1..Len(rout)
        BY <3>0, <3>2, <1>b
      <4>2. rout[j] < rout[j + 1]
        BY <4>1, <1>a DEF RingOrder
      <4> QED
        BY <3>0, <4>1, <4>2, <1>k
    <3> QED
      BY <3>1, <3>2
  <2>3. LastRead' <= Put' /\ Put' >= 0
    BY <1>c, <1>g, <1>l, <1>b
  <2> QED
    BY <2>1, <2>2, <2>3, <1>c, <1>a DEF RingOrder
<1>3. RingPhase'
  BY <1>a, <1>c, <1>m DEF RingPhase, Writing, Reading
<1>4. ReadPhase'
  <2>1. ri'[KbdCpu] \in 0..rn'[KbdCpu] /\ ri'[KbdCpu] # 0
    BY <1>d, <1>m
  <2>2. ridx'[KbdCpu] = Back(ring_head', ring_len' - ri'[KbdCpu])
    <3> HIDE DEF d
    <3> QED
      BY <1>d, <1>m, <1>n
  <2>3. LastRead' = typed' - ring_len' + ri'[KbdCpu]
    <3>1. typed' = typed /\ ring_len' = ring_len
      OBVIOUS
    <3>2. typed - ring_len + (ri[KbdCpu] + 1) = b
      BY <1>b
    <3> HIDE DEF b
    <3> QED
      BY <1>l, <1>m, <3>1, <3>2, Zenon
  <2> QED
    BY <2>1, <2>2, <2>3, <1>a, <1>m DEF ReadPhase, Reading
<1> QED
  BY <1>1, <1>2, <1>3, <1>4 DEF RingInv

LEMMA RingReadLoad ==
    ASSUME RingCpus = {KbdCpu}, RingInv, ReadLoad(KbdCpu)
    PROVE  RingInv'
<1> USE RingConstants DEF ReadLoad, RingGoto, ringVars, wVars
<1>a. /\ RingTypeOK /\ RingOrder /\ ring_len <= Cap
      /\ HeldAs(ring_buf, ring_head, ring_len, Put) /\ (Writing <=> Len(wdata) > 0)
      /\ rn[KbdCpu] \in 1..ring_len /\ ri[KbdCpu] = rn[KbdCpu]
      /\ IF ri[KbdCpu] = 0 THEN ring_len = Kept(Put - LastRead)
         ELSE LastRead = typed - ring_len + ri[KbdCpu]
  BY DEF RingInv, RingPhase, ReadPhase, Reading
<1>b. Put' = Put /\ LastRead' = LastRead /\ ring_len \in 0..(U32 - 1) /\ rn[KbdCpu] \in Nat
  BY <1>a, RingTypes DEF Put, LastRead
<1>c. rpc'[KbdCpu] = "sub" /\ rlen'[KbdCpu] = ring_len
  BY <1>a DEF RingTypeOK
<1>d. LastRead = typed - ring_len + rn[KbdCpu]
  BY <1>a, <1>b
<1>1. RingTypeOK'
  <2>1. rlen' \in [RingCpus -> 0..(U32 - 1)]
    BY <1>a, <1>b DEF RingTypeOK
  <2>2. rpc' \in [RingCpus -> {"idle", "fill", "putc", "head", "len", "start", "copy", "sub"}]
    BY <1>a DEF RingTypeOK
  <2>3. {rn', ri', ridx', rlen'} \subseteq [RingCpus -> 0..(U32 - 1)]
    BY <1>a, <2>1 DEF RingTypeOK
  <2>4. UNCHANGED <<ring_buf, ring_head, ring_len, typed, wdata, wlen, rout>>
    OBVIOUS
  <2>5. RingTypeOK
    BY <1>a
  <2> QED
    BY <2>2, <2>3, <2>4, <2>5, Zenon DEF RingTypeOK
<1>2. RingOrder'
  BY <1>a, <1>b DEF RingOrder
<1>3. RingPhase'
  BY <1>a, <1>b, <1>c DEF RingPhase, Writing, Reading
<1>4. ReadPhase'
  BY <1>a, <1>b, <1>c, <1>d DEF ReadPhase, Reading
<1> QED
  BY <1>1, <1>2, <1>3, <1>4 DEF RingInv

(* len -= n: what is left is what was typed after the last byte read. *)
LEMMA RingReadStore ==
    ASSUME RingCpus = {KbdCpu}, RingInv, ReadStore(KbdCpu)
    PROVE  RingInv'
<1> USE RingConstants DEF ReadStore, RingGoto, wVars, rVars
<1>a. /\ RingTypeOK /\ RingOrder /\ ring_len <= Cap
      /\ HeldAs(ring_buf, ring_head, ring_len, Put) /\ (Writing <=> Len(wdata) > 0)
      /\ rn[KbdCpu] \in 1..ring_len /\ rlen[KbdCpu] = ring_len
      /\ LastRead = typed - ring_len + rn[KbdCpu]
  BY DEF RingInv, RingPhase, ReadPhase, Reading
<1>b. ring_len \in 0..(U32 - 1) /\ rn[KbdCpu] \in Nat /\ typed \in Nat /\ LastRead \in Nat /\ Len(wdata) \in Nat
  BY <1>a, RingTypes
<1>c. rpc'[KbdCpu] = "idle"
  BY <1>a DEF RingTypeOK
<1>d. Len(wdata) = 0 /\ Put = typed
  <2>1. ~Writing
    BY DEF Writing
  <2>2. Len(wdata) = 0
    BY <2>1, <1>a, <1>b
  <2> QED
    BY <2>2, <1>b DEF Put
<1>e. Put' = Put /\ LastRead' = LastRead
  BY DEF Put, LastRead
<1>g. /\ ring_len - rn[KbdCpu] \in 0..(U32 - 1) /\ ring_len - rn[KbdCpu] <= Cap
      /\ ring_len - rn[KbdCpu] <= ring_len /\ ring_len - rn[KbdCpu] < Cap
  <2>1. ring_len \in Nat
    BY <1>b
  <2> QED
    BY <2>1, <1>a, LeftInRing
<1>f. ring_len' = ring_len - rn[KbdCpu]
  <2>1. ring_len - rn[KbdCpu] \in 0..(U32 - 1) /\ U32 \in Nat \ {0}
    BY <1>g
  <2>2. (ring_len - rn[KbdCpu]) % U32 = ring_len - rn[KbdCpu]
    BY <2>1, ModBelow
  <2> QED
    BY <2>2, <1>a
<1>h. HeldAs(ring_buf, ring_head, ring_len', Put)
  <2>1. 1..(ring_len - rn[KbdCpu]) \subseteq 1..ring_len
    BY <1>b, <1>g
  <2> QED
    BY <2>1, <1>a, <1>f DEF HeldAs
<1>k. ring_len' = Kept(Put - LastRead)
  <2>1. Put - LastRead = ring_len - rn[KbdCpu]
    BY <1>a, <1>b, <1>d
  <2> QED
    BY <2>1, <1>a, <1>b, <1>f, <1>g DEF Kept
<1>1. RingTypeOK'
  <2>1. rpc' \in [RingCpus -> {"idle", "fill", "putc", "head", "len", "start", "copy", "sub"}]
    BY <1>a DEF RingTypeOK
  <2> QED
    BY <1>a, <1>f, <1>g, <2>1 DEF RingTypeOK
<1>2. RingOrder'
  BY <1>a, <1>e DEF RingOrder
<1>3. RingPhase'
  BY <1>c, <1>d, <1>e, <1>f, <1>g, <1>h, <1>k DEF RingPhase, Writing, Reading
<1>4. ReadPhase'
  BY <1>c DEF ReadPhase, Reading
<1> QED
  BY <1>1, <1>2, <1>3, <1>4 DEF RingInv

LEMMA RingStutter ==
    ASSUME RingInv, UNCHANGED RingVars
    PROVE  RingInv'
BY Zenon DEF RingInv, RingVars, ringVars, wVars, rVars, RingTypeOK, RingOrder, RingPhase, ReadPhase,
   Writing, Reading, Put, LastRead

LEMMA RingStep ==
    ASSUME RingCpus = {KbdCpu}, RingInv, [RingNext]_RingVars
    PROVE  RingInv'
<1>1. CASE UNCHANGED RingVars
  BY <1>1, RingStutter
<1>2. CASE \E k \in 1..MaxRune : kbd_put_rune(k)
  BY <1>2, RingType
<1>3. CASE ring_write
  BY <1>3, RingFillInv, RingStoreInv, RingHeadInv, RingLenInv DEF ring_write
<1>4. ASSUME NEW c \in RingCpus, Reader(c) \/ \E w \in OutCap : ring_read(c, w)
      PROVE  RingInv'
  <2>1. Reader(KbdCpu) \/ \E w \in OutCap : ring_read(KbdCpu, w)
    BY <1>4
  <2> QED
    BY <2>1, RingBegin, RingReadStart, RingReadCopy, RingReadLoad, RingReadStore DEF Reader
<1> QED
  BY <1>1, <1>2, <1>3, <1>4 DEF RingNext

LEMMA RingInvariant ==
    ASSUME RingCpus = {KbdCpu}
    PROVE  RingSpec => []RingInv
BY RingInitInv, RingStep, PTL DEF RingSpec

(* Held, which reads the ring from ring_start on, has the bytes in order. *)
LEMMA HeldInOrder ==
    ASSUME RingCpus = {KbdCpu}, RingInv, rpc[KbdCpu] = "idle"
    PROVE  Held = [j \in 1..Kept(typed - LastRead) |-> typed - Kept(typed - LastRead) + j]
<1> USE RingConstants
<1>a. /\ RingTypeOK /\ ring_len <= Cap /\ ring_len = Kept(Put - LastRead)
      /\ HeldAs(ring_buf, ring_head, ring_len, Put) /\ (Writing <=> Len(wdata) > 0)
  BY DEF RingInv, RingPhase
<1>b. ring_len \in 0..(U32 - 1) /\ ring_head \in 0..(Cap - 1) /\ typed \in Nat /\ Len(wdata) \in Nat
  BY <1>a, RingTypes
<1>c. Put = typed
  <2>1. ~Writing
    BY DEF Writing
  <2> QED
    BY <2>1, <1>a, <1>b DEF Put
<1>d. ring_start = Back(ring_head, ring_len) /\ ring_start \in 0..(Cap - 1)
  BY <1>a, RingStart
<1>e. ASSUME NEW j \in 1..ring_len
      PROVE  ring_buf[(ring_start + j - 1) % Cap] = typed - ring_len + j
  <2>1. ring_len - j + 1 \in 1..ring_len /\ ring_len \in 0..Cap /\ j \in Nat
    BY <1>a, <1>b
  <2>2. (ring_start + j - 1) % Cap = Back(ring_head, ring_len - j + 1)
    BY <2>1, <1>b, <1>d, BackFrom
  <2>3. ring_buf[Back(ring_head, ring_len - j + 1)] = Put - (ring_len - j + 1) + 1
    BY <2>1, <1>a DEF HeldAs
  <2> QED
    BY <2>1, <2>2, <2>3, <1>b, <1>c
<1>f. Held = [j \in 1..ring_len |-> typed - ring_len + j]
  BY <1>e DEF Held
<1> QED
  BY <1>a, <1>c, <1>f

(* Types of the keyboard ring. *)
THEOREM RingTypeSafe ==
    ASSUME RingCpus = {KbdCpu}
    PROVE  RingSpec => []RingTypeOK
<1>1. RingInv => RingTypeOK
  BY DEF RingInv
<1> QED
  BY <1>1, RingInvariant, PTL

(* On one CPU, for a ring of any capacity and readers with buffers of any  *)
(* size: ring_read gives the bytes in the order ring_write got them, none  *)
(* twice, and only overflow loses any.                                     *)
THEOREM RingFaithful ==
    ASSUME RingCpus = {KbdCpu}
    PROVE  RingSpec => []OnlyOverflowLoses
<1>1. RingInv => OnlyOverflowLoses
  <2> SUFFICES ASSUME RingInv
               PROVE  OnlyOverflowLoses
    OBVIOUS
  <2>1. \A j \in 1..(Len(rout) - 1) : 0 < rout[j] /\ rout[j] < rout[j + 1]
    <3>1. rout \in Seq(0..MaxByte) /\ Len(rout) \in Nat
      BY RingTypes DEF RingInv
    <3> TAKE j \in 1..(Len(rout) - 1)
    <3>2. j \in 1..Len(rout)
      BY <3>1
    <3>3. rout[j] \in 0..MaxByte
      BY <3>1, <3>2, SeqLen
    <3>4. rout[j] > 0 /\ rout[j] < rout[j + 1]
      BY <3>2 DEF RingInv, RingOrder
    <3> QED
      BY <3>3, <3>4
  <2>2. (\A c \in RingCpus : rpc[c] = "idle") =>
           Held = [j \in 1..Kept(typed - LastRead) |-> typed - Kept(typed - LastRead) + j]
    BY HeldInOrder
  <2> QED
    BY <2>1, <2>2, Zenon DEF OnlyOverflowLoses, Kept
<1> QED
  BY <1>1, RingInvariant, PTL

-----------------------------------------------------------------------------
(* Entering and leaving the kernel.  A process's registers are in one of   *)
(* three places: the CPU, the frame that syscall_exit will pop, with a     *)
(* copy in p->tf for fork, or the frame that trapret will pop.             *)

(* g has what w wants: when a program goes on, in every register but a rax *)
(* that is to hold the result of a call; and after a system call.          *)
Finds(w, g) ==
    \A r \in Reg : w[r] # Unset => g[r] = w[r] \/ (r = "rax" /\ w[r] \in Results)
FindsSaved(w, g) == \A r \in Reg \ {"rax", "rcx", "r11"} : w[r] # Unset => g[r] = w[r]

(* A frame is as long as the code that pops it expects. *)
FrameShape(f) ==
    /\ f.kind = "sys" => Len(f.slot) = Len(PopOrder)
    /\ f.kind = "trap" => Len(f.slot) = Len(TrapretOrder)

InCall(f, w, t) ==
    f.kind = "sys" /\ FindsSaved(w, Pop(f, PopOrder)) /\ FindsSaved(w, t)
Trapped(f, w) == f.kind = "trap" /\ Finds(w, Pop(f, TrapretOrder))

(* A process in mode m with frame f, registers g and p->tf t. *)
Sound(m, f, w, g, t) ==
    /\ FrameShape(f)
    /\ m = "user" => Finds(w, g)
    /\ m = "kernel" => InCall(f, w, t)
    /\ m = "ready" => InCall(f, w, t) \/ Trapped(f, w)
RegsSaved == \A p \in Tasks : Sound(mode[p], stack[p], want[p], regs[p], tf[p])

(* A process runs on one CPU, which has its kernel stack, and its frames   *)
(* are on that stack.                                                      *)
OwnStack ==
    /\ \A p \in Tasks : on[p] = p
    /\ \A c \in Cores : curr[c] # NoTask => krsp[c] = curr[c] /\ mode[curr[c]] \in {"user", "kernel"}
    /\ \A c, d \in Cores : curr[c] # NoTask /\ curr[c] = curr[d] => c = d

(* The types, with the kernel stacks as records of a frame. *)
FrameType == [kind : {"none", "sys", "trap"}, slot : Seq(Value)]
SysTypes ==
    /\ mode \in [Tasks -> {"unused", "user", "kernel", "ready"}]
    /\ regs \in [Tasks -> [Reg -> Value]] /\ tf \in [Tasks -> [Reg -> Value]]
    /\ want \in [Tasks -> [Reg -> Value]]
    /\ stack \in [Tasks -> FrameType]
    /\ on \in [Tasks -> Tasks]
    /\ curr \in [Cores -> Tasks \cup {NoTask}] /\ krsp \in [Cores -> Tasks \cup {NoTask}]
    /\ value \in 0..MaxValue

SysEntryInv == SysTypes /\ OwnStack /\ RegsSaved

(* The tables of syscall_entry.asm and idt.c.  What is pushed last is      *)
(* popped first, and nothing is in a table twice.                          *)
LEMMA OrderSizes ==
    /\ DOMAIN PushOrder = 1..16 /\ Len(PushOrder) = 16 /\ DOMAIN PopOrder = 1..16 /\ Len(PopOrder) = 16
    /\ DOMAIN IsrOrder = 1..18 /\ Len(IsrOrder) = 18
    /\ DOMAIN TrapretOrder = 1..18 /\ Len(TrapretOrder) = 18
<1>1. DOMAIN PushOrder = 1..16 /\ Len(PushOrder) = 16
  BY DEF PushOrder
<1>2. DOMAIN PopOrder = 1..16 /\ Len(PopOrder) = 16
  BY DEF PopOrder
<1>3. DOMAIN IsrOrder = 1..18 /\ Len(IsrOrder) = 18
  BY DEF IsrOrder
<1>4. DOMAIN TrapretOrder = 1..18 /\ Len(TrapretOrder) = 18
  BY DEF TrapretOrder
<1> QED
  BY <1>1, <1>2, <1>3, <1>4

LEMMA PopOnce ==
    ASSUME NEW i \in 1..16, NEW j \in 1..16, PopOrder[i] = PopOrder[j]
    PROVE  i = j
BY DEF PopOrder

LEMMA TrapretOnce ==
    ASSUME NEW i \in 1..18, NEW j \in 1..18, TrapretOrder[i] = TrapretOrder[j]
    PROVE  i = j
BY DEF TrapretOrder

LEMMA PushThenPop ==
    ASSUME NEW i \in 1..16
    PROVE  PopOrder[i] = PushOrder[17 - i]
BY DEF PopOrder, PushOrder

LEMMA IsrThenTrapret ==
    ASSUME NEW i \in 1..18
    PROVE  TrapretOrder[i] = IsrOrder[19 - i]
BY DEF TrapretOrder, IsrOrder

LEMMA RegNames ==
    Reg = {"rsp", "rflags", "rip", "rax", "rbx", "rcx", "rdx", "rsi", "rdi", "rbp",
           "r8", "r9", "r10", "r11", "r12", "r13", "r14", "r15"}
BY DEF Reg, Range, IsrOrder

LEMMA Popped ==
    ASSUME NEW r \in Reg \ {"rcx", "r11"}
    PROVE  \E i \in 1..16 : PopOrder[i] = r
<1>1. ASSUME NEW x, NEW i \in 1..16, PopOrder[i] = x
      PROVE  \E j \in 1..16 : PopOrder[j] = x
  BY <1>1
<1> QED
  BY RegNames DEF PopOrder

LEMMA TrapPopped ==
    ASSUME NEW r \in Reg
    PROVE  \E i \in 1..18 : TrapretOrder[i] = r
BY RegNames DEF TrapretOrder

LEMMA PoppedInReg ==
    /\ \A i \in 1..16 : PopOrder[i] \in Reg \ {"rcx", "r11"}
    /\ \A i \in 1..18 : TrapretOrder[i] \in Reg
<1>1. \A i \in 1..16 : PopOrder[i] \in Reg \ {"rcx", "r11"}
  BY RegNames DEF PopOrder
<1>2. \A i \in 1..18 : TrapretOrder[i] \in Reg
  BY RegNames DEF TrapretOrder
<1> QED
  BY <1>1, <1>2

(* Where p->tf is taken from is where the register was pushed. *)
LEMMA TfAtPush ==
    ASSUME NEW r \in Reg \ {"rcx", "r11"}
    PROVE  16 - TfOffset[r] \div 8 \in 1..16 /\ PushOrder[16 - TfOffset[r] \div 8] = r
BY RegNames DEF TfOffset, PushOrder

LEMMA TfInFrame ==
    ASSUME NEW r \in Reg
    PROVE  16 - TfOffset[r] \div 8 \in 1..16
BY RegNames DEF TfOffset

LEMMA TheOnlyPlace ==
    ASSUME NEW order, NEW i \in DOMAIN order,
           \A j \in DOMAIN order : order[j] = order[i] => j = i
    PROVE  (CHOOSE k \in DOMAIN order : order[k] = order[i]) = i
OBVIOUS

(* What a pop puts in a register: the k-th thing popped is the k-th from   *)
(* the end of the frame.                                                   *)
LEMMA SysPop ==
    ASSUME NEW f, NEW i \in 1..16
    PROVE  Pop(f, PopOrder)[PopOrder[i]] = f.slot[17 - i]
<1>1. i \in DOMAIN PopOrder /\ Len(PopOrder) = 16 /\ DOMAIN PopOrder = 1..16
  BY OrderSizes
<1>2. \A j \in DOMAIN PopOrder : PopOrder[j] = PopOrder[i] => j = i
  BY <1>1, PopOnce
<1>3. (CHOOSE k \in DOMAIN PopOrder : PopOrder[k] = PopOrder[i]) = i
  BY <1>1, <1>2, TheOnlyPlace
<1>4. PopOrder[i] \in Reg /\ PopOrder[i] \in Range(PopOrder)
  BY <1>1, PoppedInReg DEF Range
<1>5. Pop(f, PopOrder)[PopOrder[i]]
        = f.slot[Len(PopOrder) + 1 - (CHOOSE k \in DOMAIN PopOrder : PopOrder[k] = PopOrder[i])]
  BY <1>4, Zenon DEF Pop
<1>6. Len(PopOrder) + 1 - i = 17 - i
  BY <1>1
<1> QED
  BY <1>3, <1>5, <1>6, Zenon

LEMMA TrapPop ==
    ASSUME NEW f, NEW i \in 1..18
    PROVE  Pop(f, TrapretOrder)[TrapretOrder[i]] = f.slot[19 - i]
<1>1. i \in DOMAIN TrapretOrder /\ Len(TrapretOrder) = 18 /\ DOMAIN TrapretOrder = 1..18
  BY OrderSizes
<1>2. \A j \in DOMAIN TrapretOrder : TrapretOrder[j] = TrapretOrder[i] => j = i
  BY <1>1, TrapretOnce
<1>3. (CHOOSE k \in DOMAIN TrapretOrder : TrapretOrder[k] = TrapretOrder[i]) = i
  BY <1>1, <1>2, TheOnlyPlace
<1>4. TrapretOrder[i] \in Reg /\ TrapretOrder[i] \in Range(TrapretOrder)
  BY <1>1, PoppedInReg DEF Range
<1>5. Pop(f, TrapretOrder)[TrapretOrder[i]]
        = f.slot[Len(TrapretOrder) + 1
                 - (CHOOSE k \in DOMAIN TrapretOrder : TrapretOrder[k] = TrapretOrder[i])]
  BY <1>4, Zenon DEF Pop
<1>6. Len(TrapretOrder) + 1 - i = 19 - i
  BY <1>1
<1> QED
  BY <1>3, <1>5, <1>6, Zenon

(* syscall_exit gives back what syscall_entry saved. *)
LEMMA SysRoundTrip ==
    ASSUME NEW g, NEW r \in Reg \ {"rcx", "r11"}
    PROVE  Pop(Frame("sys", PushOrder, g), PopOrder)[r] = g[r]
<1>1. PICK i \in 1..16 : PopOrder[i] = r
  BY Popped
<1>2. 17 - i \in DOMAIN PushOrder /\ PushOrder[17 - i] = r
  BY <1>1, OrderSizes, PushThenPop
<1>3. Frame("sys", PushOrder, g).slot[17 - i] = g[r]
  BY <1>2 DEF Frame
<1> QED
  BY <1>1, <1>3, SysPop

(* trapret gives back what isr_common saved, and what kstack_setup made. *)
LEMMA TrapRoundTrip ==
    ASSUME NEW g, NEW r \in Reg
    PROVE  /\ Pop(Frame("trap", IsrOrder, g), TrapretOrder)[r] = g[r]
           /\ Pop(kstack_setup(g), TrapretOrder)[r] = g[r]
<1>1. PICK i \in 1..18 : TrapretOrder[i] = r
  BY TrapPopped
<1>2. 19 - i \in DOMAIN IsrOrder /\ IsrOrder[19 - i] = r
  BY <1>1, OrderSizes, IsrThenTrapret
<1>3. Frame("trap", IsrOrder, g).slot[19 - i] = g[r]
  BY <1>2 DEF Frame
<1>4. kstack_setup(g).slot[19 - i] = g[r]
  <2>1. DOMAIN Reverse(TrapretOrder) = 1..18 /\ Reverse(TrapretOrder)[19 - i] = TrapretOrder[i]
    <3>1. Len(TrapretOrder) = 18 /\ 19 - i \in 1..18 /\ 18 - (19 - i) + 1 = i
      BY OrderSizes
    <3> QED
      BY <3>1 DEF Reverse
  <2>2. 19 - i \in DOMAIN Reverse(TrapretOrder)
    BY <2>1
  <2> HIDE DEF Reverse
  <2> QED
    BY <2>1, <2>2, <1>1 DEF kstack_setup, Frame
<1> QED
  BY <1>1, <1>3, <1>4, TrapPop

(* p->tf has what was saved. *)
LEMMA TfSaved ==
    ASSUME NEW g, NEW r \in Reg \ {"rcx", "r11"}
    PROVE  SaveTf(Frame("sys", PushOrder, g))[r] = g[r]
<1>1. 16 - TfOffset[r] \div 8 \in DOMAIN PushOrder /\ PushOrder[16 - TfOffset[r] \div 8] = r
  BY TfAtPush, OrderSizes
<1>2. SaveTf(Frame("sys", PushOrder, g))[r]
        = Frame("sys", PushOrder, g).slot[Len(PushOrder) - TfOffset[r] \div 8]
  BY Zenon DEF SaveTf, AtOffset
<1>3. Len(PushOrder) - TfOffset[r] \div 8 = 16 - TfOffset[r] \div 8
  BY OrderSizes
<1> QED
  BY <1>1, <1>2, <1>3 DEF Frame

LEMMA SysretPops ==
    ASSUME NEW f, NEW r \in Reg \ {"rcx", "r11"}
    PROVE  Sysret(f)[r] = Pop(f, PopOrder)[r]
BY DEF Sysret, Pop

(* Types of values and frames. *)
LEMMA ValueHas ==
    /\ Unset \in Value /\ Zero \in Value /\ <<"result", 0>> \in Value /\ <<"pid", 0>> \in Value
    /\ \A r \in Reg, v \in 0..MaxValue : <<r, v>> \in Value
BY DEF Value, Results

LEMMA RegHas == {"rsp", "rip", "rflags", "rax", "rcx", "r11"} \subseteq Reg
BY RegNames

LEMMA FrameTyped ==
    ASSUME NEW g \in [Reg -> Value]
    PROVE  /\ Frame("sys", PushOrder, g) \in FrameType /\ FrameShape(Frame("sys", PushOrder, g))
           /\ Frame("trap", IsrOrder, g) \in FrameType /\ FrameShape(Frame("trap", IsrOrder, g))
           /\ kstack_setup(g) \in FrameType /\ FrameShape(kstack_setup(g))
           /\ Frame("sys", PushOrder, g).kind = "sys" /\ Frame("trap", IsrOrder, g).kind = "trap"
           /\ kstack_setup(g).kind = "trap"
<1>0. Len(PopOrder) = 16 /\ Len(TrapretOrder) = 18
  BY OrderSizes
<1>1. /\ [i \in DOMAIN PushOrder |-> g[PushOrder[i]]] \in Seq(Value)
      /\ Len([i \in DOMAIN PushOrder |-> g[PushOrder[i]]]) = 16
  <2>1. DOMAIN PushOrder = 1..16
    BY OrderSizes
  <2>2. \A i \in 1..16 : g[PushOrder[i]] \in Value
    <3> TAKE i \in 1..16
    <3>1. 17 - i \in 1..16 /\ 17 - (17 - i) = i
      OBVIOUS
    <3>2. PushOrder[i] = PopOrder[17 - i]
      BY <3>1, PushThenPop
    <3> QED
      BY <3>1, <3>2, PoppedInReg
  <2> QED
    BY <2>1, <2>2
<1>2. /\ [i \in DOMAIN IsrOrder |-> g[IsrOrder[i]]] \in Seq(Value)
      /\ Len([i \in DOMAIN IsrOrder |-> g[IsrOrder[i]]]) = 18
  <2>1. DOMAIN IsrOrder = 1..18
    BY OrderSizes
  <2>2. \A i \in 1..18 : g[IsrOrder[i]] \in Value
    BY <2>1 DEF Reg, Range
  <2> QED
    BY <2>1, <2>2
<1>3. /\ [i \in DOMAIN Reverse(TrapretOrder) |-> g[Reverse(TrapretOrder)[i]]] \in Seq(Value)
      /\ Len([i \in DOMAIN Reverse(TrapretOrder) |-> g[Reverse(TrapretOrder)[i]]]) = 18
  <2>1. DOMAIN Reverse(TrapretOrder) = 1..18
    BY <1>0 DEF Reverse
  <2>2. \A i \in 1..18 : g[Reverse(TrapretOrder)[i]] \in Value
    <3> TAKE i \in 1..18
    <3>1. 19 - i \in 1..18 /\ 18 - i + 1 = 19 - i
      OBVIOUS
    <3>2. Reverse(TrapretOrder)[i] = TrapretOrder[19 - i]
      BY <3>1, <1>0 DEF Reverse
    <3> QED
      BY <3>1, <3>2, PoppedInReg
  <2> QED
    BY <2>1, <2>2
<1> QED
  BY <1>0, <1>1, <1>2, <1>3 DEF Frame, kstack_setup, FrameType, FrameShape

(* Popping a frame of the right shape, and copying it to p->tf. *)
LEMMA PopTyped ==
    ASSUME NEW f \in FrameType, FrameShape(f)
    PROVE  /\ f.kind = "sys" => Pop(f, PopOrder) \in [Reg -> Value] /\ Sysret(f) \in [Reg -> Value]
                                /\ SaveTf(f) \in [Reg -> Value]
           /\ f.kind = "trap" => Pop(f, TrapretOrder) \in [Reg -> Value]
<1>0. f.slot \in Seq(Value)
  BY DEF FrameType
<1>1. ASSUME f.kind = "sys"
      PROVE  /\ Pop(f, PopOrder) \in [Reg -> Value] /\ Sysret(f) \in [Reg -> Value]
             /\ SaveTf(f) \in [Reg -> Value]
  <2>1. Len(f.slot) = 16
    BY <1>1, OrderSizes DEF FrameShape
  <2>2. \A i \in 1..16 : f.slot[i] \in Value
    BY <1>0, <2>1
  <2>3. \A r \in Reg : Pop(f, PopOrder)[r] \in Value
    <3> TAKE r \in Reg
    <3>1. CASE r \in {"rcx", "r11"}
      <4>1. r \notin Range(PopOrder)
        BY <3>1, PoppedInReg, OrderSizes DEF Range
      <4>2. Pop(f, PopOrder)[r] = Unset
        BY <4>1, Zenon DEF Pop
      <4> QED
        BY <4>2, ValueHas
    <3>2. CASE r \notin {"rcx", "r11"}
      <4>1. PICK i \in 1..16 : PopOrder[i] = r
        BY <3>2, Popped
      <4>2. Pop(f, PopOrder)[r] = f.slot[17 - i] /\ 17 - i \in 1..16
        BY <4>1, SysPop
      <4> QED
        BY <4>2, <2>2
    <3> QED
      BY <3>1, <3>2
  <2>4. Pop(f, PopOrder) \in [Reg -> Value]
    <3> DEFINE B(r) == IF r \in Range(PopOrder)
                       THEN f.slot[Len(PopOrder) + 1
                                   - (CHOOSE i \in DOMAIN PopOrder : PopOrder[i] = r)]
                       ELSE Unset
    <3>1. \A r \in Reg : Pop(f, PopOrder)[r] = B(r)
      BY Zenon DEF Pop
    <3>2. Pop(f, PopOrder) = [r \in Reg |-> B(r)]
      BY Zenon DEF Pop
    <3> HIDE DEF B
    <3> QED
      BY <3>1, <3>2, <2>3, Zenon
  <2>5. Sysret(f) \in [Reg -> Value]
    BY <2>4, RegHas DEF Sysret
  <2>6. SaveTf(f) \in [Reg -> Value]
    <3>1. \A r \in Reg : AtOffset(f, TfOffset[r]) \in Value
      <4> TAKE r \in Reg
      <4>1. Len(PushOrder) - TfOffset[r] \div 8 \in 1..16
        BY TfInFrame, OrderSizes
      <4> QED
        BY <4>1, <2>2 DEF AtOffset
    <3> QED
      BY <3>1, Zenon DEF SaveTf
  <2> QED
    BY <2>4, <2>5, <2>6
<1>2. ASSUME f.kind = "trap"
      PROVE  Pop(f, TrapretOrder) \in [Reg -> Value]
  <2>1. Len(f.slot) = 18
    BY <1>2, OrderSizes DEF FrameShape
  <2>2. \A i \in 1..18 : f.slot[i] \in Value
    BY <1>0, <2>1
  <2>3. \A r \in Reg : Pop(f, TrapretOrder)[r] \in Value
    <3> TAKE r \in Reg
    <3>1. PICK i \in 1..18 : TrapretOrder[i] = r
      BY TrapPopped
    <3>2. Pop(f, TrapretOrder)[r] = f.slot[19 - i] /\ 19 - i \in 1..18
      BY <3>1, TrapPop
    <3> QED
      BY <3>2, <2>2
  <2> DEFINE B(r) == IF r \in Range(TrapretOrder)
                     THEN f.slot[Len(TrapretOrder) + 1
                                 - (CHOOSE i \in DOMAIN TrapretOrder : TrapretOrder[i] = r)]
                     ELSE Unset
  <2>4. \A r \in Reg : Pop(f, TrapretOrder)[r] = B(r)
    BY Zenon DEF Pop
  <2>5. Pop(f, TrapretOrder) = [r \in Reg |-> B(r)]
    BY Zenon DEF Pop
  <2> HIDE DEF B
  <2> QED
    BY <2>3, <2>4, <2>5, Zenon
<1> QED
  BY <1>1, <1>2

LEMMA ForkTyped ==
    ASSUME NEW t \in [Reg -> Value]
    PROVE  build_fork_tf(t) \in [Reg -> Value]
BY ValueHas, RegHas DEF build_fork_tf

-----------------------------------------------------------------------------
(* What each way into or out of the kernel does to one process. *)

(* What is wanted after a system call that returns ret. *)
AfterCall(w, ret) == [w EXCEPT !["rcx"] = Unset, !["r11"] = Unset, !["rax"] = ret]

LEMMA AfterCallIs ==
    ASSUME NEW w \in [Reg -> Value], NEW ret \in Value
    PROVE  /\ AfterCall(w, ret) \in [Reg -> Value]
           /\ AfterCall(w, ret)["rcx"] = Unset /\ AfterCall(w, ret)["r11"] = Unset
           /\ AfterCall(w, ret)["rax"] = ret
           /\ \A r \in Reg \ {"rax", "rcx", "r11"} : AfterCall(w, ret)[r] = w[r]
BY ValueHas, RegHas DEF AfterCall

LEMMA EntrySound ==
    ASSUME NEW g \in [Reg -> Value], NEW w, NEW h, Finds(w, g)
    PROVE  LET f == Frame("sys", PushOrder, g) IN Sound("kernel", f, w, h, SaveTf(f))
<1> DEFINE f == Frame("sys", PushOrder, g)
<1>1. FrameShape(f) /\ f.kind = "sys"
  BY FrameTyped
<1>2. FindsSaved(w, Pop(f, PopOrder))
  BY SysRoundTrip DEF Finds, FindsSaved
<1>3. FindsSaved(w, SaveTf(f))
  BY TfSaved DEF Finds, FindsSaved
<1> HIDE DEF f
<1>4. Sound("kernel", f, w, h, SaveTf(f))
  BY <1>1, <1>2, <1>3 DEF Sound, InCall
<1> QED
  BY <1>4 DEF f

LEMMA InterruptSound ==
    ASSUME NEW g \in [Reg -> Value], NEW h, NEW t
    PROVE  Sound("ready", Frame("trap", IsrOrder, g), g, h, t)
<1> DEFINE f == Frame("trap", IsrOrder, g)
<1>1. FrameShape(f) /\ f.kind = "trap"
  BY FrameTyped
<1>2. Finds(g, Pop(f, TrapretOrder))
  BY TrapRoundTrip DEF Finds
<1> HIDE DEF f
<1>3. Sound("ready", f, g, h, t)
  BY <1>1, <1>2 DEF Sound, Trapped
<1> QED
  BY <1>3 DEF f

LEMMA ExitSound ==
    ASSUME NEW f, NEW w \in [Reg -> Value], NEW t, NEW ret \in Results, FrameShape(f), InCall(f, w, t)
    PROVE  Sound("user", f, AfterCall(w, ret), Sysret(f), t)
<1>1. Finds(AfterCall(w, ret), Sysret(f))
  <2>0. ret \in Value
    BY ValueHas DEF Results
  <2>a. AfterCall(w, ret)["rax"] \in Results
    BY <2>0, AfterCallIs
  <2> SUFFICES ASSUME NEW r \in Reg \ {"rax"}, AfterCall(w, ret)[r] # Unset
               PROVE  Sysret(f)[r] = AfterCall(w, ret)[r]
    BY <2>a DEF Finds
  <2>1. r \notin {"rcx", "r11"} /\ AfterCall(w, ret)[r] = w[r]
    BY <2>0, AfterCallIs
  <2>2. Pop(f, PopOrder)[r] = w[r]
    BY <2>1 DEF InCall, FindsSaved
  <2>3. Sysret(f)[r] = Pop(f, PopOrder)[r]
    BY <2>1, SysretPops
  <2> QED
    BY <2>1, <2>2, <2>3
<1> QED
  BY <1>1 DEF Sound

(* The child's p->tf has what fork's caller will find, and 0 in rax. *)
LEMMA ForkSound ==
    ASSUME NEW f, NEW w \in [Reg -> Value], NEW t \in [Reg -> Value], NEW h, InCall(f, w, t)
    PROVE  Sound("ready", kstack_setup(build_fork_tf(t)), AfterCall(w, Zero), h, build_fork_tf(t))
<1> DEFINE u == build_fork_tf(t)
           k == kstack_setup(u)
<1>0. u \in [Reg -> Value]
  BY ForkTyped
<1>1. FrameShape(k) /\ k.kind = "trap"
  <2> HIDE DEF u
  <2> QED
    BY <1>0, FrameTyped
<1>2. Finds(AfterCall(w, Zero), Pop(k, TrapretOrder))
  <2> SUFFICES ASSUME NEW r \in Reg, AfterCall(w, Zero)[r] # Unset
               PROVE  Pop(k, TrapretOrder)[r] = AfterCall(w, Zero)[r]
    BY DEF Finds
  <2>0. AfterCall(w, Zero)["rcx"] = Unset /\ AfterCall(w, Zero)["r11"] = Unset
        /\ AfterCall(w, Zero)["rax"] = Zero
    BY AfterCallIs, ValueHas
  <2>1. r \notin {"rcx", "r11"}
    BY <2>0
  <2>2. u[r] = AfterCall(w, Zero)[r]
    <3>1. CASE r = "rax"
      BY <2>0, <3>1 DEF build_fork_tf
    <3>2. CASE r # "rax"
      <4>1. AfterCall(w, Zero)[r] = w[r]
        BY <2>1, <3>2, AfterCallIs, ValueHas
      <4>2. t[r] = w[r]
        BY <2>1, <3>2, <4>1 DEF InCall, FindsSaved
      <4>3. u[r] = t[r]
        BY <2>1, <3>2 DEF build_fork_tf
      <4> QED
        BY <4>1, <4>2, <4>3
    <3> QED
      BY <3>1, <3>2
  <2>3. Pop(k, TrapretOrder)[r] = u[r]
    <3> HIDE DEF u
    <3> QED
      BY TrapRoundTrip
  <2> QED
    BY <2>2, <2>3
<1> HIDE DEF u, k
<1>3. Sound("ready", k, AfterCall(w, Zero), h, u)
  BY <1>1, <1>2 DEF Sound, Trapped
<1> QED
  BY <1>3 DEF k, u

(* exec writes to the slots that rsp, rip and rflags are popped from. *)
LEMMA ExecSlots ==
    /\ PopOrder[16] = "rsp" /\ PopOrder[15] = "rip" /\ PopOrder[14] = "rflags"
BY DEF PopOrder

LEMMA SlotsBack == 17 - 16 = 1 /\ 17 - 15 = 2 /\ 17 - 14 = 3
OBVIOUS

LEMMA ExecSound ==
    ASSUME NEW f \in FrameType, FrameShape(f), f.kind = "sys", NEW t,
           NEW a \in Value, NEW b \in Value, NEW d \in Value, NEW w,
           NEW e, e = [f EXCEPT !.slot[1] = a, !.slot[2] = b, !.slot[3] = d],
           w["rsp"] = a, w["rip"] = b, w["rflags"] = d,
           \A r \in Reg \ {"rsp", "rip", "rflags"} : w[r] = Unset
    PROVE  e \in FrameType /\ e.kind = "sys" /\ FrameShape(e) /\ Sound("user", e, w, Sysret(e), t)
<1>0. f.slot \in Seq(Value) /\ Len(f.slot) = 16
  BY OrderSizes DEF FrameType, FrameShape
<1>1. /\ e.kind = "sys" /\ e.slot \in Seq(Value) /\ Len(e.slot) = 16
      /\ e.slot[1] = a /\ e.slot[2] = b /\ e.slot[3] = d
  BY <1>0 DEF FrameType
<1>2. e \in FrameType /\ FrameShape(e)
  BY <1>1, OrderSizes DEF FrameType, FrameShape
<1>3. Finds(w, Sysret(e))
  <2> SUFFICES ASSUME NEW r \in Reg, w[r] # Unset
               PROVE  Sysret(e)[r] = w[r]
    BY DEF Finds
  <2>1. r \in {"rsp", "rip", "rflags"}
    OBVIOUS
  <2>2. Sysret(e)[r] = Pop(e, PopOrder)[r]
    BY <2>1, SysretPops
  <2>3. CASE r = "rsp"
    <3>1. PICK i \in 1..16 : PopOrder[i] = r
      BY <2>1, Popped
    <3>2. 16 \in 1..16 /\ PopOrder[16] = PopOrder[i]
      BY <2>3, <3>1, ExecSlots
    <3>3. i = 16
      BY <3>2, PopOnce
    <3>4. 17 - i = 1
      BY <3>3, SlotsBack, Zenon
    <3>5. Pop(e, PopOrder)[r] = e.slot[17 - i]
      <4>1. Pop(e, PopOrder)[PopOrder[i]] = e.slot[17 - i]
        BY SysPop, Zenon
      <4> QED BY <3>1, <4>1, Zenon
    <3> QED
      BY <2>3, <2>2, <3>4, <3>5, <1>1
  <2>4. CASE r = "rip"
    <3>1. PICK i \in 1..16 : PopOrder[i] = r
      BY <2>1, Popped
    <3>2. 15 \in 1..16 /\ PopOrder[15] = PopOrder[i]
      BY <2>4, <3>1, ExecSlots
    <3>3. i = 15
      BY <3>2, PopOnce
    <3>4. 17 - i = 2
      BY <3>3, SlotsBack, Zenon
    <3>5. Pop(e, PopOrder)[r] = e.slot[17 - i]
      <4>1. Pop(e, PopOrder)[PopOrder[i]] = e.slot[17 - i]
        BY SysPop, Zenon
      <4> QED BY <3>1, <4>1, Zenon
    <3> QED
      BY <2>4, <2>2, <3>4, <3>5, <1>1
  <2>5. CASE r = "rflags"
    <3>1. PICK i \in 1..16 : PopOrder[i] = r
      BY <2>1, Popped
    <3>2. 14 \in 1..16 /\ PopOrder[14] = PopOrder[i]
      BY <2>5, <3>1, ExecSlots
    <3>3. i = 14
      BY <3>2, PopOnce
    <3>4. 17 - i = 3
      BY <3>3, SlotsBack, Zenon
    <3>5. Pop(e, PopOrder)[r] = e.slot[17 - i]
      <4>1. Pop(e, PopOrder)[PopOrder[i]] = e.slot[17 - i]
        BY SysPop, Zenon
      <4> QED BY <3>1, <4>1, Zenon
    <3> QED
      BY <2>5, <2>2, <3>4, <3>5, <1>1
  <2> QED
    BY <2>1, <2>3, <2>4, <2>5
<1> QED
  BY <1>1, <1>2, <1>3 DEF Sound

-----------------------------------------------------------------------------
(* The steps *)

LEMMA SysInitInv ==
    ASSUME SysEntryInit
    PROVE  SysEntryInv
<1> USE SysEntryAssumption DEF SysEntryInit
<1>1. NewProgram \in [Reg -> Value] /\ NoRegs \in [Reg -> Value]
  BY ValueHas DEF NewProgram, NoRegs
<1>2. NoFrame \in FrameType /\ FrameShape(NoFrame)
  BY DEF NoFrame, FrameType, FrameShape
<1>3. kstack_setup(NewProgram) \in FrameType /\ FrameShape(kstack_setup(NewProgram))
      /\ kstack_setup(NewProgram).kind = "trap"
  BY <1>1, FrameTyped
<1>4. SysTypes
  BY <1>1, <1>2, <1>3 DEF SysTypes
<1>5. OwnStack
  BY DEF OwnStack
<1>6. RegsSaved
  <2> SUFFICES ASSUME NEW p \in Tasks
               PROVE  Sound(mode[p], stack[p], want[p], regs[p], tf[p])
    BY DEF RegsSaved
  <2>1. CASE p = FirstTask
    <3>1. Finds(NewProgram, Pop(kstack_setup(NewProgram), TrapretOrder))
      BY TrapRoundTrip DEF Finds
    <3>2. mode[p] = "ready" /\ stack[p] = kstack_setup(NewProgram) /\ want[p] = NewProgram
      BY <2>1
    <3> QED
      BY <3>1, <3>2, <1>3 DEF Sound, Trapped
  <2>2. CASE p # FirstTask
    BY <2>2, <1>2 DEF Sound
  <2> QED
    BY <2>1, <2>2
<1> QED
  BY <1>4, <1>5, <1>6 DEF SysEntryInv

(* A process that a step leaves alone. *)
LEMMA SysAlone ==
    ASSUME RegsSaved, NEW q \in Tasks,
           mode'[q] = mode[q], stack'[q] = stack[q], want'[q] = want[q], regs'[q] = regs[q], tf'[q] = tf[q]
    PROVE  Sound(mode'[q], stack'[q], want'[q], regs'[q], tf'[q])
BY DEF RegsSaved

LEMMA SysRunning ==
    ASSUME SysEntryInv, NEW c \in Cores, NEW p \in Tasks, curr[c] = p
    PROVE  /\ krsp[c] = p /\ on[p] = p /\ mode[p] \in {"user", "kernel"} /\ p # NoTask
           /\ \A d \in Cores : curr[d] = p => d = c
BY SysEntryAssumption DEF SysEntryInv, OwnStack

LEMMA SysSound ==
    ASSUME SysEntryInv, NEW p \in Tasks
    PROVE  /\ Sound(mode[p], stack[p], want[p], regs[p], tf[p]) /\ FrameShape(stack[p])
           /\ mode[p] = "user" => Finds(want[p], regs[p])
           /\ mode[p] = "kernel" => InCall(stack[p], want[p], tf[p]) /\ stack[p].kind = "sys"
           /\ mode[p] = "ready" => InCall(stack[p], want[p], tf[p]) \/ Trapped(stack[p], want[p])
           /\ regs[p] \in [Reg -> Value] /\ tf[p] \in [Reg -> Value] /\ want[p] \in [Reg -> Value]
           /\ stack[p] \in FrameType
BY DEF SysEntryInv, RegsSaved, Sound, InCall, SysTypes

LEMMA SysCompute ==
    ASSUME SysEntryInv, NEW p \in Tasks, Compute(p)
    PROVE  SysEntryInv'
<1> DEFINE g == [r \in Reg |-> <<r, value + 1>>]
<1>0. SysTypes /\ OwnStack /\ RegsSaved /\ value + 1 \in 0..MaxValue
  BY SysEntryAssumption DEF SysEntryInv, SysTypes, Compute
<1>1. g \in [Reg -> Value]
  BY <1>0, ValueHas
<1>2. /\ regs' = [regs EXCEPT ![p] = g] /\ want' = [want EXCEPT ![p] = g]
      /\ value' = value + 1 /\ mode[p] = "user"
      /\ UNCHANGED <<mode, stack, on, tf, curr, krsp>>
  BY <1>0 DEF SysTypes, Compute
<1> HIDE DEF g
<1>3. SysTypes'
  <2>1. regs' \in [Tasks -> [Reg -> Value]] /\ want' \in [Tasks -> [Reg -> Value]]
    BY <1>0, <1>1, <1>2 DEF SysTypes
  <2>2. value' \in 0..MaxValue
    BY <1>0, <1>2
  <2> QED
    BY <2>1, <2>2, <1>0, <1>2 DEF SysTypes
<1>4. OwnStack'
  BY <1>0, <1>2 DEF OwnStack
<1>5. RegsSaved'
  <2> SUFFICES ASSUME NEW q \in Tasks
               PROVE  Sound(mode'[q], stack'[q], want'[q], regs'[q], tf'[q])
    BY DEF RegsSaved
  <2>1. CASE q # p
    BY <2>1, <1>0, <1>2, SysAlone DEF SysTypes
  <2>2. CASE q = p
    <3>1. want'[p] = g /\ regs'[p] = g /\ mode'[p] = "user" /\ stack'[p] = stack[p]
      BY <1>0, <1>2 DEF SysTypes
    <3>2. FrameShape(stack[p])
      BY SysSound
    <3> QED
      BY <2>2, <3>1, <3>2 DEF Sound, Finds
  <2> QED
    BY <2>1, <2>2
<1> QED
  BY <1>3, <1>4, <1>5 DEF SysEntryInv

LEMMA SysEnter ==
    ASSUME SysEntryInv, NEW c \in Cores, NEW p \in Tasks, syscall_entry(c, p)
    PROVE  SysEntryInv'
<1> USE SysEntryAssumption
<1> DEFINE f == Frame("sys", PushOrder, regs[p])
<1>0. SysTypes /\ OwnStack /\ RegsSaved
  BY DEF SysEntryInv
<1>1. curr[c] = p /\ mode[p] = "user" /\ krsp[c] = p
  BY SysRunning DEF syscall_entry
<1>2. /\ stack' = [stack EXCEPT ![p] = f] /\ tf' = [tf EXCEPT ![p] = SaveTf(f)]
      /\ on' = [on EXCEPT ![p] = p] /\ regs' = [regs EXCEPT ![p] = NoRegs]
      /\ mode' = [mode EXCEPT ![p] = "kernel"]
      /\ UNCHANGED <<curr, krsp, want, value>>
  BY <1>1 DEF syscall_entry
<1>3. Sound("kernel", f, want[p], NoRegs, SaveTf(f))
  BY <1>1, SysSound, EntrySound
<1>4. f \in FrameType /\ SaveTf(f) \in [Reg -> Value] /\ NoRegs \in [Reg -> Value]
  BY SysSound, FrameTyped, PopTyped, ValueHas DEF NoRegs
<1> HIDE DEF f
<1>5. SysTypes'
  BY <1>0, <1>2, <1>4 DEF SysTypes
<1>6. OwnStack'
  BY <1>0, <1>1, <1>2 DEF OwnStack, SysTypes
<1>7. RegsSaved'
  <2> SUFFICES ASSUME NEW q \in Tasks
               PROVE  Sound(mode'[q], stack'[q], want'[q], regs'[q], tf'[q])
    BY DEF RegsSaved
  <2>1. CASE q # p
    BY <2>1, <1>0, <1>2, SysAlone DEF SysTypes
  <2>2. CASE q = p
    BY <2>2, <1>0, <1>2, <1>3 DEF SysTypes
  <2> QED
    BY <2>1, <2>2
<1> QED
  BY <1>5, <1>6, <1>7 DEF SysEntryInv

LEMMA SysInterrupt ==
    ASSUME SysEntryInv, NEW c \in Cores, NEW p \in Tasks, isr_common(c, p)
    PROVE  SysEntryInv'
<1> USE SysEntryAssumption
<1> DEFINE f == Frame("trap", IsrOrder, regs[p])
<1>0. SysTypes /\ OwnStack /\ RegsSaved
  BY DEF SysEntryInv
<1>1. curr[c] = p /\ mode[p] = "user" /\ krsp[c] = p
  BY SysRunning DEF isr_common
<1>2. /\ stack' = [stack EXCEPT ![p] = f] /\ on' = [on EXCEPT ![p] = p]
      /\ regs' = [regs EXCEPT ![p] = NoRegs] /\ mode' = [mode EXCEPT ![p] = "ready"]
      /\ curr' = [curr EXCEPT ![c] = NoTask] /\ want' = [want EXCEPT ![p] = regs[p]]
      /\ UNCHANGED <<tf, krsp, value>>
  BY <1>1 DEF isr_common
<1>3. regs[p] \in [Reg -> Value] /\ Sound("ready", f, regs[p], NoRegs, tf[p])
  BY SysSound, InterruptSound
<1>4. f \in FrameType /\ NoRegs \in [Reg -> Value]
  BY SysSound, FrameTyped, ValueHas DEF NoRegs
<1> HIDE DEF f
<1>5. SysTypes'
  BY <1>0, <1>2, <1>3, <1>4 DEF SysTypes
<1>6. OwnStack'
  BY <1>0, <1>1, <1>2 DEF OwnStack, SysTypes
<1>7. RegsSaved'
  <2> SUFFICES ASSUME NEW q \in Tasks
               PROVE  Sound(mode'[q], stack'[q], want'[q], regs'[q], tf'[q])
    BY DEF RegsSaved
  <2>1. CASE q # p
    BY <2>1, <1>0, <1>2, SysAlone DEF SysTypes
  <2>2. CASE q = p
    BY <2>2, <1>0, <1>2, <1>3 DEF SysTypes
  <2> QED
    BY <2>1, <2>2
<1> QED
  BY <1>5, <1>6, <1>7 DEF SysEntryInv

LEMMA SysHandler ==
    ASSUME SysEntryInv, NEW c \in Cores, NEW p \in Tasks, syscall_handler(c, p)
    PROVE  SysEntryInv'
<1> USE SysEntryAssumption
<1> DEFINE w == AfterCall(want[p], <<"result", 0>>)
<1>0. SysTypes /\ OwnStack /\ RegsSaved
  BY DEF SysEntryInv
<1>1. curr[c] = p /\ mode[p] = "kernel" /\ on[p] = p
  BY SysRunning DEF syscall_handler, Handling
<1>2. /\ regs' = [regs EXCEPT ![p] = Sysret(stack[p])] /\ mode' = [mode EXCEPT ![p] = "user"]
      /\ want' = [want EXCEPT ![p] = w]
      /\ UNCHANGED <<stack, on, tf, curr, krsp, value>>
  BY <1>1 DEF syscall_handler, syscall_exit, AfterCall
<1>3. w \in [Reg -> Value] /\ Sound("user", stack[p], w, Sysret(stack[p]), tf[p])
  BY <1>1, SysSound, ExitSound, AfterCallIs, ValueHas DEF Results
<1>4. Sysret(stack[p]) \in [Reg -> Value]
  BY <1>1, SysSound, PopTyped
<1> HIDE DEF w
<1>5. SysTypes'
  BY <1>0, <1>2, <1>3, <1>4 DEF SysTypes
<1>6. OwnStack'
  BY <1>0, <1>1, <1>2 DEF OwnStack, SysTypes
<1>7. RegsSaved'
  <2> SUFFICES ASSUME NEW q \in Tasks
               PROVE  Sound(mode'[q], stack'[q], want'[q], regs'[q], tf'[q])
    BY DEF RegsSaved
  <2>1. CASE q # p
    BY <2>1, <1>0, <1>2, SysAlone DEF SysTypes
  <2>2. CASE q = p
    BY <2>2, <1>0, <1>2, <1>3 DEF SysTypes
  <2> QED
    BY <2>1, <2>2
<1> QED
  BY <1>5, <1>6, <1>7 DEF SysEntryInv

LEMMA SysFork ==
    ASSUME SysEntryInv, NEW c \in Cores, NEW p \in Tasks, NEW q \in Tasks, proc_fork(c, p, q)
    PROVE  SysEntryInv'
<1> USE SysEntryAssumption
<1> DEFINE w == AfterCall(want[p], <<"pid", 0>>)
           x == AfterCall(want[p], Zero)
           u == build_fork_tf(tf[p])
           k == kstack_setup(u)
<1>0. SysTypes /\ OwnStack /\ RegsSaved
  BY DEF SysEntryInv
<1>1. curr[c] = p /\ mode[p] = "kernel" /\ on[p] = p /\ mode[q] = "unused" /\ p # q
  BY SysRunning DEF proc_fork, Handling
<1>a. tf' = [tf EXCEPT ![q] = u]
  BY DEF proc_fork
<1>b. stack' = [stack EXCEPT ![q] = k]
  <2>1. tf'[q] = u
    BY <1>a, <1>0 DEF SysTypes
  <2> HIDE DEF u
  <2> QED
    BY <2>1 DEF proc_fork
<1>2. /\ on' = [on EXCEPT ![q] = q]
      /\ regs' = [regs EXCEPT ![p] = Sysret(stack[p])]
      /\ mode' = [mode EXCEPT ![p] = "user", ![q] = "ready"]
      /\ want' = [want EXCEPT ![p] = w, ![q] = x]
      /\ UNCHANGED <<curr, krsp, value>>
  BY <1>1 DEF proc_fork, AfterCall
<1>3. w \in [Reg -> Value] /\ Sound("user", stack[p], w, Sysret(stack[p]), tf[p])
  BY <1>1, SysSound, ExitSound, AfterCallIs, ValueHas DEF Results
<1>4. Sysret(stack[p]) \in [Reg -> Value]
  BY <1>1, SysSound, PopTyped
<1>5. x \in [Reg -> Value] /\ Sound("ready", k, x, regs[q], u)
  BY <1>1, SysSound, ForkSound, AfterCallIs, ValueHas
<1>6. u \in [Reg -> Value]
  BY SysSound, ForkTyped
<1> HIDE DEF u
<1>7. k \in FrameType
  BY <1>6, FrameTyped
<1> HIDE DEF w, x, k
<1>8. SysTypes'
  <2>1. mode' \in [Tasks -> {"unused", "user", "kernel", "ready"}] /\ want' \in [Tasks -> [Reg -> Value]]
    BY <1>0, <1>2, <1>3, <1>5 DEF SysTypes
  <2>2. tf' \in [Tasks -> [Reg -> Value]] /\ regs' \in [Tasks -> [Reg -> Value]]
    BY <1>0, <1>2, <1>a, <1>4, <1>6 DEF SysTypes
  <2>3. stack' \in [Tasks -> FrameType] /\ on' \in [Tasks -> Tasks]
    BY <1>0, <1>2, <1>b, <1>7 DEF SysTypes
  <2> QED
    BY <2>1, <2>2, <2>3, <1>0, <1>2 DEF SysTypes
<1>c. mode'[p] = "user" /\ mode'[q] = "ready" /\ \A t \in Tasks \ {p, q} : mode'[t] = mode[t]
  BY <1>0, <1>1, <1>2 DEF SysTypes
<1>9. OwnStack'
  <2>1. \A t \in Tasks : on'[t] = t
    BY <1>0, <1>2 DEF OwnStack, SysTypes
  <2>2. ASSUME NEW d \in Cores, curr[d] # NoTask
        PROVE  krsp[d] = curr[d] /\ mode'[curr[d]] \in {"user", "kernel"}
    <3>1. krsp[d] = curr[d] /\ mode[curr[d]] \in {"user", "kernel"} /\ curr[d] \in Tasks
      BY <2>2, <1>0 DEF OwnStack, SysTypes
    <3> QED
      BY <3>1, <1>1, <1>c
  <2> QED
    BY <2>1, <2>2, <1>0, <1>2 DEF OwnStack
<1>10. RegsSaved'
  <2> SUFFICES ASSUME NEW t \in Tasks
               PROVE  Sound(mode'[t], stack'[t], want'[t], regs'[t], tf'[t])
    BY DEF RegsSaved
  <2>1. CASE t \notin {p, q}
    <3>1. want'[t] = want[t] /\ regs'[t] = regs[t] /\ tf'[t] = tf[t] /\ stack'[t] = stack[t]
      BY <2>1, <1>0, <1>2, <1>a, <1>b DEF SysTypes
    <3> QED
      BY <2>1, <3>1, <1>0, <1>c, SysAlone
  <2>2. CASE t = p
    <3>1. want'[p] = w /\ regs'[p] = Sysret(stack[p]) /\ tf'[p] = tf[p] /\ stack'[p] = stack[p]
      BY <1>0, <1>1, <1>2, <1>a, <1>b DEF SysTypes
    <3> QED
      BY <2>2, <3>1, <1>3, <1>c
  <2>3. CASE t = q
    <3>1. want'[q] = x /\ regs'[q] = regs[q] /\ tf'[q] = u /\ stack'[q] = k
      BY <1>0, <1>1, <1>2, <1>a, <1>b DEF SysTypes
    <3> QED
      BY <2>3, <3>1, <1>5, <1>c
  <2> QED
    BY <2>1, <2>2, <2>3
<1> QED
  BY <1>8, <1>9, <1>10 DEF SysEntryInv

LEMMA SysExec ==
    ASSUME SysEntryInv, NEW c \in Cores, NEW p \in Tasks, proc_exec(c, p)
    PROVE  SysEntryInv'
<1> USE SysEntryAssumption
<1> DEFINE v == value + 1
           a == <<"rsp", v>>
           b == <<"rip", v>>
           d == <<"rflags", v>>
           f == [stack[p] EXCEPT !.slot[1] = a, !.slot[2] = b, !.slot[3] = d]
           t == [r \in Reg |-> IF r \in {"rsp", "rip", "rflags"} THEN <<r, v>> ELSE tf[p][r]]
           w == [r \in Reg |-> IF r \in {"rsp", "rip", "rflags"} THEN <<r, v>> ELSE Unset]
<1>0. SysTypes /\ OwnStack /\ RegsSaved
  BY DEF SysEntryInv
<1>1. curr[c] = p /\ mode[p] = "kernel" /\ on[p] = p
  BY SysRunning DEF proc_exec, Handling
<1>v. v \in 0..MaxValue /\ value' = v
  BY <1>0 DEF SysTypes, proc_exec
<1> HIDE DEF v
<1>2. /\ stack' = [stack EXCEPT ![p] = f]
      /\ regs' = [regs EXCEPT ![p] = Sysret(f)]
      /\ mode' = [mode EXCEPT ![p] = "user"]
      /\ UNCHANGED <<on, curr, krsp>>
  BY <1>1 DEF proc_exec, v
<1>3. tf' = [tf EXCEPT ![p] = t] /\ want' = [want EXCEPT ![p] = w]
  BY DEF proc_exec, v
<1>4. a \in Value /\ b \in Value /\ d \in Value
  BY <1>v, ValueHas, RegHas
<1>5. t \in [Reg -> Value] /\ w \in [Reg -> Value]
  <2>1. \A r \in Reg : <<r, v>> \in Value
    BY <1>v, ValueHas
  <2> QED
    BY <2>1, ValueHas, SysSound
<1>6. w["rsp"] = a /\ w["rip"] = b /\ w["rflags"] = d
      /\ \A r \in Reg \ {"rsp", "rip", "rflags"} : w[r] = Unset
  BY RegHas
<1>7. stack[p] \in FrameType /\ FrameShape(stack[p]) /\ stack[p].kind = "sys"
  BY <1>1, SysSound
<1> HIDE DEF a, b, d, t, w
<1>8. f \in FrameType /\ f.kind = "sys" /\ FrameShape(f) /\ Sound("user", f, w, Sysret(f), t)
  BY <1>4, <1>6, <1>7, ExecSound
<1> HIDE DEF f
<1>9. Sysret(f) \in [Reg -> Value]
  BY <1>8, PopTyped
<1>10. SysTypes'
  <2>1. mode' \in [Tasks -> {"unused", "user", "kernel", "ready"}] /\ want' \in [Tasks -> [Reg -> Value]]
    BY <1>0, <1>2, <1>3, <1>5 DEF SysTypes
  <2>2. tf' \in [Tasks -> [Reg -> Value]] /\ regs' \in [Tasks -> [Reg -> Value]]
    BY <1>0, <1>2, <1>3, <1>5, <1>9 DEF SysTypes
  <2>3. stack' \in [Tasks -> FrameType]
    BY <1>0, <1>2, <1>8 DEF SysTypes
  <2> QED
    BY <2>1, <2>2, <2>3, <1>0, <1>2, <1>v DEF SysTypes
<1>11. OwnStack'
  BY <1>0, <1>1, <1>2 DEF OwnStack, SysTypes
<1>12. RegsSaved'
  <2> SUFFICES ASSUME NEW q \in Tasks
               PROVE  Sound(mode'[q], stack'[q], want'[q], regs'[q], tf'[q])
    BY DEF RegsSaved
  <2>1. CASE q # p
    BY <2>1, <1>0, <1>2, <1>3, SysAlone DEF SysTypes
  <2>2. CASE q = p
    BY <2>2, <1>0, <1>2, <1>3, <1>8 DEF SysTypes
  <2> QED
    BY <2>1, <2>2
<1> QED
  BY <1>10, <1>11, <1>12 DEF SysEntryInv

(* Switching away, in the middle of a call or for good. *)
LEMMA SysLeave ==
    ASSUME SysEntryInv, NEW c \in Cores, NEW p \in Tasks, sys_wait(c, p) \/ sys_exit_task(c, p)
    PROVE  SysEntryInv'
<1> USE SysEntryAssumption
<1>0. SysTypes /\ OwnStack /\ RegsSaved
  BY DEF SysEntryInv
<1>1. curr[c] = p /\ mode[p] = "kernel"
  BY DEF sys_wait, sys_exit_task, Handling
<1>2. PICK m \in {"ready", "unused"} :
         /\ mode' = [mode EXCEPT ![p] = m] /\ curr' = [curr EXCEPT ![c] = NoTask]
         /\ UNCHANGED <<regs, stack, on, tf, krsp, want, value>>
  BY DEF sys_wait, sys_exit_task
<1>3. SysTypes'
  BY <1>0, <1>2 DEF SysTypes
<1>4. OwnStack'
  BY <1>0, <1>1, <1>2 DEF OwnStack, SysTypes
<1>5. RegsSaved'
  <2> SUFFICES ASSUME NEW q \in Tasks
               PROVE  Sound(mode'[q], stack'[q], want'[q], regs'[q], tf'[q])
    BY DEF RegsSaved
  <2>1. CASE q # p
    BY <2>1, <1>0, <1>2, SysAlone DEF SysTypes
  <2>2. CASE q = p
    <3>1. Sound(m, stack[p], want[p], regs[p], tf[p])
      BY <1>1, SysSound DEF Sound
    <3> QED
      BY <2>2, <3>1, <1>0, <1>2 DEF SysTypes
  <2> QED
    BY <2>1, <2>2
<1> QED
  BY <1>3, <1>4, <1>5 DEF SysEntryInv

LEMMA SysRun ==
    ASSUME SysEntryInv, NEW c \in Cores, NEW p \in Tasks, Run(c, p)
    PROVE  SysEntryInv'
<1> USE SysEntryAssumption
<1>0. SysTypes /\ OwnStack /\ RegsSaved
  BY DEF SysEntryInv
<1>1. curr[c] = NoTask /\ mode[p] = "ready" /\ on[p] = p
  BY <1>0 DEF Run, OwnStack
<1>2. /\ curr' = [curr EXCEPT ![c] = p] /\ krsp' = [krsp EXCEPT ![c] = p]
      /\ UNCHANGED <<stack, on, tf, want, value>>
  BY DEF Run
<1>3. \E m \in {"user", "kernel"}, g \in [Reg -> Value] :
         /\ mode' = [mode EXCEPT ![p] = m] /\ regs' = [regs EXCEPT ![p] = g]
         /\ Sound(m, stack[p], want[p], g, tf[p])
  <2>1. CASE stack[p].kind = "trap"
    <3>1. regs' = [regs EXCEPT ![p] = Pop(stack[p], TrapretOrder)] /\ mode' = [mode EXCEPT ![p] = "user"]
      BY <2>1, <1>1 DEF Run
    <3>2. Pop(stack[p], TrapretOrder) \in [Reg -> Value]
      BY <2>1, SysSound, PopTyped
    <3>3. Sound("user", stack[p], want[p], Pop(stack[p], TrapretOrder), tf[p])
      BY <2>1, <1>1, SysSound DEF Sound, InCall, Trapped
    <3> QED
      BY <3>1, <3>2, <3>3
  <2>2. CASE stack[p].kind # "trap"
    <3>1. regs' = regs /\ mode' = [mode EXCEPT ![p] = "kernel"]
      BY <2>2, <1>1 DEF Run
    <3>2. regs' = [regs EXCEPT ![p] = regs[p]] /\ regs[p] \in [Reg -> Value]
      BY <3>1, <1>0 DEF SysTypes
    <3>3. Sound("kernel", stack[p], want[p], regs[p], tf[p])
      BY <2>2, <1>1, SysSound DEF Sound, Trapped
    <3> QED
      BY <3>1, <3>2, <3>3
  <2> QED
    BY <2>1, <2>2
<1>4. PICK m \in {"user", "kernel"}, g \in [Reg -> Value] :
         /\ mode' = [mode EXCEPT ![p] = m] /\ regs' = [regs EXCEPT ![p] = g]
         /\ Sound(m, stack[p], want[p], g, tf[p])
  BY <1>3
<1>5. SysTypes'
  BY <1>0, <1>2, <1>4 DEF SysTypes
<1>6. OwnStack'
  <2>0. \A d \in Cores : curr[d] # p
    BY <1>0, <1>1 DEF OwnStack
  <2>1. curr'[c] = p /\ krsp'[c] = p /\ mode'[p] \in {"user", "kernel"}
    BY <1>0, <1>2, <1>4 DEF SysTypes
  <2>2. \A d \in Cores \ {c} : curr'[d] = curr[d] /\ krsp'[d] = krsp[d]
    BY <1>0, <1>2 DEF SysTypes
  <2>3. \A q \in Tasks \ {p} : mode'[q] = mode[q]
    BY <1>0, <1>4 DEF SysTypes
  <2>4. ASSUME NEW d \in Cores, curr'[d] # NoTask
        PROVE  krsp'[d] = curr'[d] /\ mode'[curr'[d]] \in {"user", "kernel"}
    <3>1. CASE d = c
      BY <3>1, <2>1
    <3>2. CASE d # c
      <4>1. curr[d] \in Tasks \ {p} /\ krsp[d] = curr[d] /\ mode[curr[d]] \in {"user", "kernel"}
        BY <3>2, <2>0, <2>2, <2>4, <1>0 DEF OwnStack, SysTypes
      <4> QED
        BY <3>2, <4>1, <2>2, <2>3
    <3> QED
      BY <3>1, <3>2
  <2>5. ASSUME NEW d \in Cores, NEW e \in Cores, curr'[d] # NoTask, curr'[d] = curr'[e]
        PROVE  d = e
    BY <2>5, <2>0, <2>1, <2>2, <1>0 DEF OwnStack
  <2>6. \A q \in Tasks : on'[q] = q
    BY <1>0, <1>2 DEF OwnStack
  <2> QED
    BY <2>4, <2>5, <2>6 DEF OwnStack
<1>7. RegsSaved'
  <2> SUFFICES ASSUME NEW q \in Tasks
               PROVE  Sound(mode'[q], stack'[q], want'[q], regs'[q], tf'[q])
    BY DEF RegsSaved
  <2>1. CASE q # p
    BY <2>1, <1>0, <1>2, <1>4, SysAlone DEF SysTypes
  <2>2. CASE q = p
    BY <2>2, <1>0, <1>2, <1>4 DEF SysTypes
  <2> QED
    BY <2>1, <2>2
<1> QED
  BY <1>5, <1>6, <1>7 DEF SysEntryInv

LEMMA SysStep ==
    ASSUME SysEntryInv, [SysEntryNext]_SysEntryVars
    PROVE  SysEntryInv'
<1>1. CASE UNCHANGED SysEntryVars
  BY <1>1, Zenon DEF SysEntryVars, SysEntryInv, SysTypes, OwnStack, RegsSaved
<1>2. ASSUME NEW p \in Tasks, Compute(p)
      PROVE  SysEntryInv'
  BY <1>2, SysCompute
<1>3. ASSUME NEW p \in Tasks, NEW c \in Cores,
             \/ syscall_entry(c, p) \/ isr_common(c, p) \/ Run(c, p)
             \/ syscall_handler(c, p) \/ proc_exec(c, p)
             \/ sys_wait(c, p) \/ sys_exit_task(c, p)
             \/ \E q \in Tasks : proc_fork(c, p, q)
      PROVE  SysEntryInv'
  BY <1>3, SysEnter, SysInterrupt, SysRun, SysHandler, SysExec, SysLeave, SysFork
<1> QED
  BY <1>1, <1>2, <1>3 DEF SysEntryNext

LEMMA SysInvariant == SysEntrySpec => []SysEntryInv
BY SysInitInv, SysStep, PTL DEF SysEntrySpec

(* Types of the registers, the kernel stacks and p->tf. *)
THEOREM SysEntryTypeSafe == SysEntrySpec => []SysEntryTypeOK
<1>1. SysEntryInv => SysEntryTypeOK
  BY DEF SysEntryInv, SysTypes, FrameType, SysEntryTypeOK
<1> QED
  BY <1>1, SysInvariant, PTL

(* For any number of processes and processors: a program finds every       *)
(* register as it left it after an interrupt, rax, rcx and r11 too, and    *)
(* all but these three after a system call; a fork's child finds its       *)
(* parent's and 0 in rax; a new program starts at its entry point and      *)
(* stack.  The tables of syscall_entry.asm, isr_common, trapret and        *)
(* build_fork_tf agree.                                                    *)
THEOREM RegistersKept == SysEntrySpec => []RegsIntact
<1>1. SysEntryInv => RegsIntact
  BY DEF SysEntryInv, RegsSaved, Sound, Finds, RegsIntact, Agrees
<1> QED
  BY <1>1, SysInvariant, PTL

-----------------------------------------------------------------------------
(* Loading a program: elf_load_segments and setup_user_stack (Exec).  The  *)
(* pages depend on how far the two loops have come, the stack on how many  *)
(* strings are in it.                                                      *)

(* Header i has been put on page p. *)
PutOn(i, p) ==
    /\ i \in Loads /\ Touches(i, p)
    /\ i < hdr \/ (epc = "load" /\ i = hdr /\ p < va)

Stacked(p) == epc \in {"stack", "args", "done"} /\ p \in {StackBase, StackTop} /\ p < va

FileByte(h, a) == IF ByteOf(h, a) > got THEN Junk ELSE ByteOf(h, a)
PageIs(i, p) == /\ image[p].w = prog.phdr[i].w
                /\ \A k \in InPage : image[p].b[k] = FileByte(prog.phdr[i], p + k)
IsLast(i, p) == PutOn(i, p) /\ \A j \in Loads : PutOn(j, p) => j <= i

(* While pages are added, those that are there belong to the headers and   *)
(* the part of the current one that have been gone through, and each has   *)
(* the bytes of the last of them.                                          *)
PagesInv ==
    /\ \A p \in Nat : p \in DOMAIN image <=>
         p % PAGE_SIZE = 0 /\ ((\E i \in Loads : PutOn(i, p)) \/ Stacked(p))
    /\ \A p \in DOMAIN image : p < StackBase => \E i \in Loads : IsLast(i, p) /\ PageIs(i, p)

LoadPhase ==
    /\ epc = "idle" => hdr = 1 /\ image = [p \in {} |-> <<>>]
    /\ epc = "load" => hdr \in Loads /\ va % PAGE_SIZE = 0 /\ va >= VaStart(prog.phdr[hdr])
    /\ epc \in {"stack", "args", "done"} =>
         /\ hdr = Len(prog.phdr) + 1
         /\ va \in {StackBase, StackTop, StackTop + PAGE_SIZE}
         /\ epc # "stack" => va = StackTop + PAGE_SIZE

PageTypes ==
    /\ image = [p \in DOMAIN image |-> [b |-> image[p].b, w |-> image[p].w]]
    /\ \A p \in DOMAIN image : p \in Nat

ImageInv ==
    /\ ExecTypeOK /\ PageTypes /\ LoadPhase
    /\ epc \in {"next", "load", "stack", "args", "done"} => PagesInv

(* The strings after number arg are in the page, above sp, and uvas leads  *)
(* to them.                                                                *)
StringIn(i, o) ==
    /\ o \in sp..(PAGE_SIZE - argv[i])
    /\ \A j \in 1..argv[i] : image[StackBase].b[o + j - 1] = <<"char", i, j>>
Strings ==
    /\ sp \in 0..PAGE_SIZE
    /\ \A i \in (arg + 1)..Len(argv) : StringIn(i, uvas[i - arg] - StackBase)

Blank == \A k \in InPage : image[StackTop].b[k] = <<>>

ArgsPhase ==
    /\ uvas \in Seq(Int)
    /\ epc \in {"idle", "next", "load", "stack"} => uvas = <<>> /\ wild = FALSE
    /\ epc \in {"stack", "args", "done"} /\ StackTop < va => Blank
    /\ epc = "args" => /\ Len(uvas) = Len(argv) - arg /\ rsp = StackTop
                       /\ arg = Len(argv) => wild = FALSE
                       /\ wild = FALSE => Strings
                       /\ wild # FALSE => sp < 0
                       /\ \A room \in [0..Len(argv) -> 0..PAGE_SIZE] : Room(room) => sp = room[arg]

-----------------------------------------------------------------------------
(* Multiples of a page or of a word *)

LEMMA Multiples ==
  ASSUME NEW b \in Nat \ {0}, NEW p \in Nat, NEW q \in Nat, p % b = 0, q % b = 0
  PROVE  (p + q) % b = 0 /\ (p < q => p + b <= q)
<1> DEFINE x == p \div b
           y == q \div b
<1>1. x \in Nat /\ y \in Nat /\ p = b * x /\ q = b * y
  BY Divided
<1> HIDE DEF x, y
<1>2. (p + q) % b = 0
  <2>1. p + q = b * (x + y) + 0 /\ x + y \in Nat
    BY <1>1
  <2> QED BY <2>1, DivMod
<1>3. ASSUME p < q PROVE p + b <= q
  <2>1. x < y
    <3> SUFFICES ASSUME ~(x < y) PROVE FALSE
      OBVIOUS
    <3>1. PICK e \in Nat : x = y + e
      <4>1. x - y \in Nat /\ x = y + (x - y)
        BY <1>1
      <4> QED BY <4>1
    <3>2. b * x = b * y + b * e /\ b * e \in Nat /\ b * y \in Nat
      BY <1>1, <3>1
    <3> QED BY <1>1, <1>3, <3>2
  <2>2. PICK e \in Nat : y = x + 1 + e
    <3>1. y - x - 1 \in Nat /\ y = x + 1 + (y - x - 1)
      BY <1>1, <2>1
    <3> QED BY <3>1
  <2>3. b * y = b * x + b + b * e /\ b * e \in Nat /\ b * x \in Nat
    BY <1>1, <2>2
  <2> QED BY <1>1, <2>3
<1> QED
  BY <1>2, <1>3

LEMMA Offset ==
  ASSUME NEW b \in Nat \ {0}, NEW p \in Nat, p % b = 0, NEW r \in 0..(b - 1)
  PROVE  (p + r) % b = r
<1>1. p \div b \in Nat /\ p = b * (p \div b)
  BY Divided
<1>2. p + r = b * (p \div b) + r
  BY <1>1
<1> QED
  BY <1>1, <1>2, DivMod

LEMMA RoundDown ==
  ASSUME NEW b \in Nat \ {0}, NEW a \in Nat
  PROVE  LET d == a - (a % b) IN d \in Nat /\ d % b = 0 /\ d <= a /\ a < d + b
<1> DEFINE x == a \div b
           r == a % b
<1>1. x \in Nat /\ r \in 0..(b - 1) /\ a = b * x + r
  BY Divided
<1> HIDE DEF x, r
<1>2. a - r = b * x + 0 /\ b * x \in Nat
  BY <1>1
<1>3. (a - r) % b = 0
  BY <1>1, <1>2, DivMod
<1>4. a - r \in Nat /\ a - r <= a /\ a < (a - r) + b
  BY <1>1, <1>2
<1> QED
  BY <1>3, <1>4 DEF r

LEMMA MultipleOfMultiple ==
  ASSUME NEW b \in Nat \ {0}, NEW c \in Nat \ {0}, NEW a \in Nat, c % b = 0, a % c = 0
  PROVE  a % b = 0
<1> DEFINE x == a \div c
           y == c \div b
<1>1. x \in Nat /\ y \in Nat /\ a = c * x /\ c = b * y
  BY Divided
<1> HIDE DEF x, y
<1> DEFINE z == y * x
<1>2. a = b * z + 0 /\ z \in Nat
  BY <1>1
<1> HIDE DEF z
<1>3. (b * z + 0) % b = 0
  BY <1>2, DivMod
<1> QED
  BY <1>2, <1>3, Zenon

LEMMA ExecConstants ==
  /\ PAGE_SIZE \in Nat \ {0} /\ WordSize \in Nat \ {0} /\ FileSize \in Nat /\ HeaderSize \in 0..FileSize
  /\ StackBase \in Nat \ {0} /\ StackTop \in Nat /\ StackTop = StackBase + PAGE_SIZE
  /\ StackBase % PAGE_SIZE = 0 /\ StackTop % PAGE_SIZE = 0
  /\ 2 * WordSize \in Nat \ {0} /\ StackBase % (2 * WordSize) = 0
<1>1. /\ PAGE_SIZE \in Nat \ {0} /\ WordSize \in Nat \ {0} /\ PAGE_SIZE % (2 * WordSize) = 0
      /\ StackBase \in Nat \ {0} /\ StackBase % PAGE_SIZE = 0
      /\ FileSize \in Nat /\ HeaderSize \in 0..FileSize
  BY ExecAssumption
<1>2. PAGE_SIZE % PAGE_SIZE = 0
  <2>1. PAGE_SIZE = PAGE_SIZE * 1 + 0
    BY <1>1
  <2> QED BY <1>1, <2>1, DivMod
<1>3. StackTop \in Nat /\ StackTop = StackBase + PAGE_SIZE
  BY <1>1 DEF StackTop
<1>4. StackTop % PAGE_SIZE = 0
  BY <1>1, <1>2, <1>3, Multiples
<1>5. 2 * WordSize \in Nat \ {0}
  BY <1>1
<1>6. StackBase % (2 * WordSize) = 0
  BY <1>1, <1>5, MultipleOfMultiple
<1> QED
  BY <1>1, <1>3, <1>4, <1>5, <1>6

LEMMA PageOfIs ==
  ASSUME NEW a \in Nat
  PROVE  /\ PageOf(a) \in Nat /\ PageOf(a) % PAGE_SIZE = 0
         /\ PageOf(a) <= a /\ a < PageOf(a) + PAGE_SIZE
BY ExecConstants, RoundDown DEF PageOf

(* The next page, and that pages do not overlap. *)
LEMMA NextPage ==
  ASSUME NEW p \in Nat, NEW q \in Nat, p % PAGE_SIZE = 0, q % PAGE_SIZE = 0
  PROVE  (p + PAGE_SIZE) % PAGE_SIZE = 0 /\ (p < q => p + PAGE_SIZE <= q)
<1>1. PAGE_SIZE % PAGE_SIZE = 0
  <2>1. PAGE_SIZE = PAGE_SIZE * 1 + 0
    BY ExecConstants
  <2> QED BY ExecConstants, <2>1, DivMod
<1> QED
  BY <1>1, ExecConstants, Multiples

(* An address in a page. *)
LEMMA InPageOf ==
  ASSUME NEW p \in Nat, p % PAGE_SIZE = 0, NEW k \in InPage
  PROVE  PageOf(p + k) = p /\ (p + k) % PAGE_SIZE = k
<1>1. (p + k) % PAGE_SIZE = k
  BY ExecConstants, Offset DEF InPage
<1>2. (p + k) - k = p
  BY ExecConstants DEF InPage
<1>3. PageOf(p + k) = (p + k) - k
  BY <1>1, Zenon DEF PageOf
<1> QED
  BY <1>1, <1>2, <1>3, Zenon

(* The loop over the pages of a segment meets those it touches. *)
LEMMA SegmentPages ==
  ASSUME NEW h \in Phdr, NEW p \in Nat, p % PAGE_SIZE = 0
  PROVE  /\ VaStart(h) \in Nat /\ VaStart(h) % PAGE_SIZE = 0
         /\ p < VaEnd(h) <=> p < h.vaddr + h.memsz
         /\ p + PAGE_SIZE > h.vaddr <=> p >= VaStart(h)
<1>1. h.vaddr \in Nat /\ h.memsz \in Nat
  BY DEF Phdr
<1> DEFINE s == PageOf(h.vaddr)
           x == h.vaddr + h.memsz
           e == PageOf(x + PAGE_SIZE - 1)
<1>2. x \in Nat /\ x + PAGE_SIZE - 1 \in Nat
  BY <1>1, ExecConstants
<1>3. /\ s \in Nat /\ s % PAGE_SIZE = 0 /\ s <= h.vaddr /\ h.vaddr < s + PAGE_SIZE
      /\ e \in Nat /\ e % PAGE_SIZE = 0 /\ e <= x + PAGE_SIZE - 1 /\ x + PAGE_SIZE - 1 < e + PAGE_SIZE
  <2> HIDE DEF x
  <2> QED BY <1>1, <1>2, PageOfIs
<1>4. VaStart(h) = s /\ VaEnd(h) = e
  BY DEF VaStart, VaEnd
<1> HIDE DEF s, x, e
<1>5. (p < e => p + PAGE_SIZE <= e) /\ (p < s => p + PAGE_SIZE <= s)
  BY <1>3, NextPage
<1>6. /\ p < e <=> p < x
      /\ p + PAGE_SIZE > h.vaddr <=> p >= s
  BY <1>1, <1>2, <1>3, <1>5, ExecConstants
<1> QED
  BY <1>3, <1>4, <1>6 DEF x

-----------------------------------------------------------------------------
(* What the arguments are, and what Map and Write do *)

LEMMA JobTypes ==
  ASSUME ExecTypeOK
  PROVE  /\ prog.phdr \in Seq(Phdr) /\ Len(prog.phdr) \in Nat
         /\ DOMAIN prog.phdr = 1..Len(prog.phdr)
         /\ \A i \in 1..Len(prog.phdr) : prog.phdr[i] \in Phdr
         /\ argv = NoArgv \/ argv \in Seq(Nat \ {0})
         /\ Len(argv) \in Nat /\ \A i \in 1..Len(argv) : argv[i] \in Nat
<1>1. prog.phdr \in Seq(Phdr) /\ (argv = NoArgv \/ argv \in Seq(Nat \ {0}))
  BY JobsAssumption DEF ExecTypeOK
<1>2. argv \in Seq(Nat)
  <2>1. NoArgv \in Seq(Nat)
    BY DEF NoArgv
  <2>2. ASSUME argv \in Seq(Nat \ {0}) PROVE argv \in Seq(Nat)
    BY <2>2
  <2> QED
    BY <1>1, <2>1, <2>2
<1> QED
  BY <1>1, <1>2

LEMMA MapIs ==
  ASSUME PageTypes, NEW p \in Nat, NEW b, NEW w, Map(p, b, w)
  PROVE  /\ DOMAIN image' = DOMAIN image \cup {p} /\ PageTypes'
         /\ image'[p].b = b /\ image'[p].w = w
         /\ \A q \in DOMAIN image : q # p => image'[q] = image[q]
<1>1. image' = [q \in DOMAIN image \cup {p} |-> IF q = p THEN [b |-> b, w |-> w] ELSE image[q]]
  BY DEF Map
<1>2. /\ DOMAIN image' = DOMAIN image \cup {p} /\ image'[p] = [b |-> b, w |-> w]
      /\ \A q \in DOMAIN image : q # p => image'[q] = image[q]
  BY <1>1, Zenon
<1>3. \A q \in DOMAIN image' : image'[q] = [b |-> image'[q].b, w |-> image'[q].w]
  BY <1>2 DEF PageTypes
<1>4. image' = [q \in DOMAIN image' |-> image'[q]]
  BY <1>1, Zenon
<1>5. image' = [q \in DOMAIN image' |-> [b |-> image'[q].b, w |-> image'[q].w]]
  BY <1>3, <1>4
<1>6. \A q \in DOMAIN image' : q \in Nat
  BY <1>2 DEF PageTypes
<1>7. PageTypes'
  BY <1>5, <1>6 DEF PageTypes
<1> QED
  BY <1>2, <1>7

LEMMA WriteIs ==
  ASSUME PageTypes, NEW off \in Int, NEW bytes, Write(off, bytes)
  PROVE  /\ DOMAIN image' = DOMAIN image /\ PageTypes'
         /\ \A q \in DOMAIN image : q # StackBase => image'[q] = image[q]
         /\ StackBase \in DOMAIN image =>
              /\ image'[StackBase].w = image[StackBase].w
              /\ DOMAIN image'[StackBase].b = InPage
              /\ \A k \in InPage : image'[StackBase].b[k] =
                   IF k - off + 1 \in DOMAIN bytes THEN bytes[k - off + 1] ELSE image[StackBase].b[k]
<1> DEFINE nb == [k \in InPage |-> IF k - off + 1 \in DOMAIN bytes THEN bytes[k - off + 1]
                                  ELSE image[StackBase].b[k]]
<1>1. image' = [image EXCEPT ![StackBase].b = nb]
  BY DEF Write
<1>n. DOMAIN nb = InPage /\ \A k \in InPage : nb[k] =
         IF k - off + 1 \in DOMAIN bytes THEN bytes[k - off + 1] ELSE image[StackBase].b[k]
  OBVIOUS
<1> HIDE DEF nb
<1>2. /\ DOMAIN image' = DOMAIN image
      /\ \A q \in DOMAIN image : q # StackBase => image'[q] = image[q]
      /\ image' = [q \in DOMAIN image' |-> image'[q]]
      /\ StackBase \in DOMAIN image => image'[StackBase] = [image[StackBase] EXCEPT !.b = nb]
  BY <1>1 DEF PageTypes
<1>3. ASSUME StackBase \in DOMAIN image
      PROVE  image'[StackBase] = [b |-> nb, w |-> image[StackBase].w]
  <2>1. image[StackBase] = [b |-> image[StackBase].b, w |-> image[StackBase].w]
    BY <1>3 DEF PageTypes
  <2> QED
    BY <1>2, <1>3, <2>1
<1>4. \A q \in DOMAIN image' : image'[q] = [b |-> image'[q].b, w |-> image'[q].w]
  BY <1>2, <1>3 DEF PageTypes
<1>5. image' = [q \in DOMAIN image' |-> [b |-> image'[q].b, w |-> image'[q].w]]
  BY <1>2, <1>4
<1>6. PageTypes'
  BY <1>2, <1>5 DEF PageTypes
<1> QED
  BY <1>2, <1>3, <1>6, <1>n

LEMMA WriteWild ==
  ASSUME NEW off, NEW bytes, Write(off, bytes), wild \in BOOLEAN
  PROVE  wild' \in BOOLEAN /\ (wild' = FALSE => wild = FALSE /\ ~(off < 0))
         /\ (wild = FALSE /\ ~(off < 0) => wild' = FALSE)
BY Zenon DEF Write

-----------------------------------------------------------------------------
(* The image *)

(* The segments of every program end below the stack: elf_load_segments    *)
(* does not look.                                                          *)
SegmentsBelowStack ==
    \A j \in Jobs : \A i \in DOMAIN j.prog.phdr :
        j.prog.phdr[i].load => j.prog.phdr[i].vaddr + j.prog.phdr[i].memsz <= StackBase

(* A page of a segment gets what the file has at its addresses. *)
LEMMA PageBytesRight ==
  ASSUME NEW h \in Phdr, NEW p \in Nat, got \in Nat
  PROVE  DOMAIN PageBytes(h, p) = InPage
         /\ \A k \in InPage : PageBytes(h, p)[k] = FileByte(h, p + k)
<1>1. /\ h.vaddr \in Nat /\ h.filesz \in Nat /\ h.offset \in Nat
      /\ PAGE_SIZE \in Nat \ {0} /\ got \in Nat
  BY ExecConstants DEF Phdr
<1> DEFINE seg_file_end == h.vaddr + h.filesz
           copy_start == IF p > h.vaddr THEN p ELSE h.vaddr
           copy_end == IF p + PAGE_SIZE < seg_file_end THEN p + PAGE_SIZE ELSE seg_file_end
           src_off == h.offset + (copy_start - h.vaddr)
           dst_off == copy_start - p
           copied == IF p + PAGE_SIZE > h.vaddr /\ p < seg_file_end
                     THEN dst_off..(dst_off + (copy_end - copy_start) - 1) ELSE {}
<1>2. PageBytes(h, p) = [k \in InPage |-> IF k \in copied THEN elf_buf(src_off + (k - dst_off)) ELSE 0]
  BY DEF PageBytes
<1>3. ASSUME NEW k \in InPage
      PROVE  (IF k \in copied THEN elf_buf(src_off + (k - dst_off)) ELSE 0) = FileByte(h, p + k)
  <2>1. k \in 0..(PAGE_SIZE - 1)
    BY DEF InPage
  <2>2. k \in copied <=> p + k \in h.vaddr..(h.vaddr + h.filesz - 1)
    BY <1>1, <2>1
  <2>3. src_off + (k - dst_off) = h.offset + (p + k) - h.vaddr
    BY <1>1, <2>1
  <2> HIDE DEF copied, src_off, dst_off
  <2>4. CASE k \in copied
    <3>1. ByteOf(h, p + k) = h.offset + (p + k) - h.vaddr + 1
      BY <2>2, <2>4 DEF ByteOf
    <3>2. elf_buf(src_off + (k - dst_off)) =
            IF h.offset + (p + k) - h.vaddr < got THEN h.offset + (p + k) - h.vaddr + 1 ELSE Junk
      BY <2>3 DEF elf_buf
    <3> QED
      BY <1>1, <2>1, <2>4, <3>1, <3>2 DEF FileByte
  <2>5. CASE k \notin copied
    BY <1>1, <2>2, <2>5 DEF FileByte, ByteOf
  <2> QED
    BY <2>4, <2>5
<1> HIDE DEF seg_file_end, copy_start, copy_end, src_off, dst_off, copied
<1> QED
  BY <1>2, <1>3

LEMMA ExecTypeInit == ExecInit => ImageInv /\ ArgsPhase
<1> SUFFICES ASSUME ExecInit PROVE ImageInv /\ ArgsPhase
  OBVIOUS
<1>1. PICK j \in Jobs : prog = j.prog /\ argv = j.argv
  BY DEF ExecInit
<1>2. /\ j = [prog |-> [valid |-> j.prog.valid, phdr |-> j.prog.phdr], argv |-> j.argv]
      /\ j.prog.phdr \in Seq(Phdr)
      /\ j.argv = NoArgv \/ j.argv \in Seq(Nat \ {0})
  BY JobsAssumption
<1>3. [prog |-> prog, argv |-> argv] \in Jobs
  <2>1. [prog |-> prog, argv |-> argv] = j
    BY <1>1, <1>2
  <2> QED BY <2>1
<1>4. Len(argv) \in Nat /\ Len(prog.phdr) \in Nat
  <2>1. Len(NoArgv) \in Nat
    BY DEF NoArgv
  <2> QED BY <1>1, <1>2, <2>1
<1>5. ExecTypeOK
  <2>1. DOMAIN image = {}
    BY DEF ExecInit
  <2>2. /\ got \in 0..FileSize /\ hdr \in 1..(Len(prog.phdr) + 1) /\ va \in Nat
        /\ arg \in 0..Len(argv) /\ sp \in Int /\ rsp \in Int
    BY <1>4, ExecConstants DEF ExecInit
  <2>3. wild \in BOOLEAN /\ epc = "idle"
    BY DEF ExecInit
  <2> QED
    BY <1>3, <2>1, <2>2, <2>3, Zenon DEF ExecTypeOK
<1>6. PageTypes
  <2>1. image = [p \in {} |-> <<>>]
    BY DEF ExecInit
  <2>2. DOMAIN image = {}
    BY <2>1
  <2>3. [p \in {} |-> [b |-> image[p].b, w |-> image[p].w]] = [p \in {} |-> <<>>]
    OBVIOUS
  <2> QED
    BY <2>1, <2>2, <2>3, Zenon DEF PageTypes
<1>7. LoadPhase
  BY DEF ExecInit, LoadPhase
<1>8. uvas \in Seq(Int)
  BY DEF ExecInit
<1>9. ArgsPhase
  BY <1>8 DEF ExecInit, ArgsPhase
<1> QED
  BY <1>5, <1>6, <1>7, <1>9 DEF ImageInv, ExecInit

(* A step that adds no page. *)
LEMMA PagesCarried ==
  ASSUME ExecTypeOK, PageTypes, PagesInv, prog' = prog, got' = got, DOMAIN image' = DOMAIN image,
         \A p \in DOMAIN image : p < StackBase => image'[p] = image[p],
         \A p \in Nat : p % PAGE_SIZE = 0 => (Stacked(p)' <=> Stacked(p)),
         \A p \in Nat : \A i \in Loads : p % PAGE_SIZE = 0 => (PutOn(i, p)' <=> PutOn(i, p))
  PROVE  PagesInv'
<1>1. Loads' = Loads
  BY DEF Loads
<1>2. \A p \in DOMAIN image : p \in Nat /\ p % PAGE_SIZE = 0
  BY DEF ExecTypeOK, PageTypes
<1>3. ASSUME NEW p \in Nat
      PROVE  p \in DOMAIN image' <=>
               p % PAGE_SIZE = 0 /\ ((\E i \in Loads' : PutOn(i, p)') \/ Stacked(p)')
  <2>1. p \in DOMAIN image <=> p % PAGE_SIZE = 0 /\ ((\E i \in Loads : PutOn(i, p)) \/ Stacked(p))
    BY DEF PagesInv
  <2>2. p % PAGE_SIZE = 0 => ((\E i \in Loads : PutOn(i, p)) <=> (\E i \in Loads : PutOn(i, p)'))
    OBVIOUS
  <2> QED
    BY <1>1, <2>1, <2>2
<1>4. ASSUME NEW p \in DOMAIN image', p < StackBase
      PROVE  \E i \in Loads' : IsLast(i, p)' /\ PageIs(i, p)'
  <2>1. p \in DOMAIN image /\ p \in Nat /\ p % PAGE_SIZE = 0
    BY <1>2
  <2>2. PICK i \in Loads : IsLast(i, p) /\ PageIs(i, p)
    BY <1>4, <2>1 DEF PagesInv
  <2>3. \A j \in Loads : PutOn(j, p)' <=> PutOn(j, p)
    BY <2>1
  <2>4. IsLast(i, p)'
    BY <1>1, <2>2, <2>3 DEF IsLast
  <2>5. PageIs(i, p)'
    <3>1. image'[p] = image[p]
      BY <1>4, <2>1
    <3> QED
      BY <2>2, <3>1 DEF PageIs, FileByte, ByteOf
  <2> QED
    BY <1>1, <2>4, <2>5
<1> QED
  BY <1>3, <1>4 DEF PagesInv

(* The types, when no page changes. *)
LEMMA TypesCarried ==
  ASSUME ExecTypeOK, PageTypes, prog' = prog, argv' = argv, image' = image, arg' = arg, sp' = sp,
         rsp' = rsp, wild' = wild, va' \in Nat,
         epc' \in {"idle", "next", "load", "stack", "args", "done", "failed"},
         got' \in 0..FileSize, hdr' \in 1..(Len(prog.phdr) + 1)
  PROVE  ExecTypeOK' /\ PageTypes'
<1>1. PageTypes'
  BY DEF PageTypes
<1>2. ExecTypeOK'
  BY Zenon DEF ExecTypeOK
<1> QED
  BY <1>1, <1>2

LEMMA ReadStep == ImageInv /\ read_elf => ImageInv'
<1> SUFFICES ASSUME ImageInv, read_elf PROVE ImageInv'
  OBVIOUS
<1> USE DEF ImageInv
<1>1. epc = "idle" /\ epc' \in {"failed", "next"} /\ UNCHANGED <<prog, argv, hdr, va, image, arg, sp, uvas, rsp, wild>>
  BY DEF read_elf
<1>2. got' \in 0..FileSize
  BY ExecConstants DEF read_elf, ExecTypeOK
<1>3. hdr = 1 /\ image = [p \in {} |-> <<>>]
  BY <1>1 DEF LoadPhase
<1>4. ExecTypeOK' /\ PageTypes'
  <2>1. va' \in Nat /\ hdr' \in 1..(Len(prog.phdr) + 1)
    BY <1>1 DEF ExecTypeOK
  <2> QED BY <1>1, <1>2, <2>1, TypesCarried
<1>5. LoadPhase'
  BY <1>1 DEF LoadPhase
<1>6. PagesInv'
  <2>1. DOMAIN image' = {}
    BY <1>1, <1>3
  <2>2. \A p, i : ~PutOn(i, p)'
    <3>1. \A i \in Loads' : i \in Nat /\ ~(i < 1)
      BY <1>4, JobTypes, <1>1 DEF Loads
    <3> QED BY <1>1, <1>3, <3>1 DEF PutOn
  <2>3. \A p : ~Stacked(p)'
    BY <1>1 DEF Stacked
  <2> QED
    BY <2>1, <2>2, <2>3 DEF PagesInv
<1> QED
  BY <1>4, <1>5, <1>6

LEMMA HeaderStep == ImageInv /\ NextHeader => ImageInv'
<1> SUFFICES ASSUME ImageInv, NextHeader PROVE ImageInv'
  OBVIOUS
<1> USE DEF ImageInv
<1>1. epc = "next" /\ UNCHANGED <<prog, argv, got, image, arg, sp, uvas, rsp, wild>>
  BY DEF NextHeader
<1>2. PagesInv /\ ExecTypeOK /\ PageTypes
  BY <1>1
<1>3. /\ Len(prog.phdr) \in Nat /\ hdr \in 1..(Len(prog.phdr) + 1) /\ va \in Nat
      /\ Loads \subseteq 1..Len(prog.phdr) /\ got \in 0..FileSize
      /\ \A i \in 1..Len(prog.phdr) : prog.phdr[i] \in Phdr
  BY <1>2, JobTypes DEF ExecTypeOK, Loads
<1>4. Loads' = Loads /\ \A i, p : Touches(i, p)' <=> Touches(i, p)
  BY <1>1 DEF Loads, Touches
<1>5. CASE hdr > Len(prog.phdr)
  <2>1. epc' = "stack" /\ va' = StackBase /\ hdr' = hdr /\ hdr = Len(prog.phdr) + 1
    BY <1>3, <1>5 DEF NextHeader
  <2>2. ExecTypeOK' /\ PageTypes'
    BY <1>1, <1>2, <1>3, <2>1, ExecConstants, TypesCarried
  <2>3. LoadPhase'
    BY <1>1, <2>1 DEF LoadPhase
  <2>4. \A p \in Nat : ~Stacked(p)' /\ ~Stacked(p)
    BY <1>1, <2>1, ExecConstants DEF Stacked
  <2>5. \A p, i : PutOn(i, p)' <=> PutOn(i, p)
    BY <1>1, <1>4, <2>1 DEF PutOn
  <2>6. PagesInv'
    BY <1>1, <1>2, <2>4, <2>5, PagesCarried
  <2> QED
    BY <2>2, <2>3, <2>6
<1> DEFINE h == prog.phdr[hdr]
<1>6. CASE ~(hdr > Len(prog.phdr)) /\ h.load
  <2>1. epc' = "load" /\ va' = VaStart(h) /\ hdr' = hdr /\ hdr \in 1..Len(prog.phdr) /\ h \in Phdr
    BY <1>3, <1>6 DEF NextHeader
  <2>2. hdr \in Loads
    BY <1>2, <1>6, <2>1, JobTypes DEF Loads
  <2> HIDE DEF h
  <2>s. /\ VaStart(h) \in Nat /\ VaStart(h) % PAGE_SIZE = 0
        /\ \A p \in Nat : p % PAGE_SIZE = 0 => (p + PAGE_SIZE > h.vaddr <=> p >= VaStart(h))
    BY <2>1, SegmentPages, ExecConstants
  <2>3. ExecTypeOK' /\ PageTypes'
    BY <1>1, <1>2, <1>3, <2>1, <2>s, TypesCarried
  <2>4. LoadPhase'
    <3>1. hdr' \in Loads' /\ va' % PAGE_SIZE = 0 /\ va' >= VaStart(prog'.phdr[hdr'])
      BY <1>1, <1>4, <2>1, <2>2, <2>s DEF h
    <3> QED
      BY <2>1, <3>1 DEF LoadPhase, VaStart, PageOf
  <2>5. \A p : ~Stacked(p)' /\ ~Stacked(p)
    BY <1>1, <2>1 DEF Stacked
  <2>6. ASSUME NEW p \in Nat, NEW i \in Loads, p % PAGE_SIZE = 0
        PROVE  PutOn(i, p)' <=> PutOn(i, p)
    <3>1. ~(Touches(hdr, p) /\ p < VaStart(h))
      BY <2>6, <2>s DEF Touches, h
    <3> QED
      BY <1>1, <1>4, <2>1, <3>1 DEF PutOn
  <2>7. PagesInv'
    BY <1>1, <1>2, <2>5, <2>6, PagesCarried
  <2> QED
    BY <2>3, <2>4, <2>7
<1>7. CASE ~(hdr > Len(prog.phdr)) /\ ~h.load
  <2>1. epc' = epc /\ va' = va /\ hdr' = hdr + 1 /\ hdr \in 1..Len(prog.phdr) /\ hdr \notin Loads
    BY <1>3, <1>7 DEF NextHeader, Loads
  <2>2. ExecTypeOK' /\ PageTypes'
    BY <1>1, <1>2, <1>3, <2>1, TypesCarried
  <2>3. LoadPhase'
    BY <1>1, <2>1 DEF LoadPhase
  <2>4. \A p : ~Stacked(p)' /\ ~Stacked(p)
    BY <1>1, <2>1 DEF Stacked
  <2>5. \A i \in Loads : i < hdr + 1 <=> i < hdr
    BY <1>3, <2>1
  <2>6. \A p : \A i \in Loads : PutOn(i, p)' <=> PutOn(i, p)
    BY <1>1, <1>4, <2>1, <2>5 DEF PutOn
  <2>7. PagesInv'
    BY <1>1, <1>2, <2>4, <2>6, PagesCarried
  <2> QED
    BY <2>2, <2>3, <2>7
<1> QED
  BY <1>5, <1>6, <1>7

LEMMA LoadBelow ==
  ASSUME SegmentsBelowStack, ExecTypeOK, NEW i \in Loads
  PROVE  prog.phdr[i].vaddr + prog.phdr[i].memsz <= StackBase
<1> DEFINE j == [prog |-> prog, argv |-> argv]
<1>1. j \in Jobs /\ j.prog = prog
  BY DEF ExecTypeOK
<1> HIDE DEF j
<1> QED
  BY <1>1 DEF SegmentsBelowStack, Loads

(* The types, when a page is added. *)
LEMMA TypesMapped ==
  ASSUME ExecTypeOK, PageTypes, NEW p \in Nat, p % PAGE_SIZE = 0, NEW b, DOMAIN b = InPage,
         NEW w \in BOOLEAN, Map(p, b, w), va' \in Nat,
         UNCHANGED <<epc, prog, argv, got, hdr, arg, sp, rsp, wild>>
  PROVE  ExecTypeOK' /\ PageTypes'
<1>1. /\ DOMAIN image' = DOMAIN image \cup {p} /\ PageTypes'
      /\ image'[p].b = b /\ image'[p].w = w
      /\ \A q \in DOMAIN image : q # p => image'[q] = image[q]
  BY MapIs
<1>2. ASSUME NEW q \in DOMAIN image'
      PROVE  q % PAGE_SIZE = 0 /\ DOMAIN image'[q].b = InPage /\ image'[q].w \in BOOLEAN
  <2>1. CASE q = p
    BY <1>1, <2>1, Zenon
  <2>2. CASE q # p
    <3>1. q \in DOMAIN image /\ image'[q] = image[q]
      BY <1>1, <2>2, Zenon
    <3> QED
      BY <3>1, Zenon DEF ExecTypeOK
  <2> QED BY <2>1, <2>2
<1>3. ExecTypeOK'
  BY <1>2, Zenon DEF ExecTypeOK, InPage
<1> QED
  BY <1>1, <1>3

LEMMA LoadStep == ImageInv /\ LoadPage => ImageInv'
<1> SUFFICES ASSUME ImageInv, LoadPage PROVE ImageInv'
  OBVIOUS
<1> USE DEF ImageInv
<1> DEFINE h == prog.phdr[hdr]
<1>1. epc = "load" /\ UNCHANGED <<prog, argv, got, arg, sp, uvas, rsp, wild>>
  BY DEF LoadPage
<1>2. PagesInv /\ ExecTypeOK /\ PageTypes
  BY <1>1
<1>3. hdr \in Loads /\ va % PAGE_SIZE = 0 /\ va >= VaStart(h)
  BY <1>1 DEF LoadPhase
<1>4. /\ Len(prog.phdr) \in Nat /\ hdr \in 1..Len(prog.phdr) /\ va \in Nat /\ h \in Phdr
      /\ Loads \subseteq 1..Len(prog.phdr) /\ got \in 0..FileSize
      /\ \A i \in 1..Len(prog.phdr) : prog.phdr[i] \in Phdr
  BY <1>2, <1>3, JobTypes DEF ExecTypeOK, Loads
<1>5. h.vaddr \in Nat /\ h.memsz \in Nat
  BY <1>4 DEF Phdr
<1>6. Loads' = Loads /\ \A i, p : Touches(i, p)' <=> Touches(i, p)
  BY <1>1 DEF Loads, Touches
<1>7. \A p : ~Stacked(p)
  BY <1>1 DEF Stacked
<1>8. CASE va < VaEnd(h)
  <2>1. Map(va, PageBytes(h, va), h.w) /\ va' = va + PAGE_SIZE /\ epc' = epc /\ hdr' = hdr
    BY <1>8 DEF LoadPage
  <2>h. h.w \in BOOLEAN
    BY <1>4 DEF Phdr
  <2> HIDE DEF h
  <2>2. va < h.vaddr + h.memsz /\ va + PAGE_SIZE > h.vaddr
    BY <1>3, <1>4, <1>8, SegmentPages
  <2>3. va + PAGE_SIZE \in Nat /\ (va + PAGE_SIZE) % PAGE_SIZE = 0
        /\ \A p \in Nat : p % PAGE_SIZE = 0 => (p < va + PAGE_SIZE <=> p < va \/ p = va)
    <3>1. va + PAGE_SIZE \in Nat /\ va < va + PAGE_SIZE
      BY <1>4, ExecConstants
    <3>2. (va + PAGE_SIZE) % PAGE_SIZE = 0
      BY <1>3, <1>4, NextPage
    <3>3. ASSUME NEW p \in Nat, p % PAGE_SIZE = 0
          PROVE  p < va + PAGE_SIZE <=> p < va \/ p = va
      <4>1. va < p => va + PAGE_SIZE <= p
        BY <1>3, <1>4, <3>3, NextPage
      <4> QED BY <1>4, <3>1, <4>1
    <3> QED BY <3>1, <3>2, <3>3
  <2>4. got \in Nat
    BY <1>4, ExecConstants
  <2>5. DOMAIN PageBytes(h, va) = InPage
        /\ \A k \in InPage : PageBytes(h, va)[k] = FileByte(h, va + k)
    BY <1>4, <2>4, PageBytesRight
  <2>6. ExecTypeOK' /\ PageTypes'
    BY <1>1, <1>2, <1>3, <1>4, <2>h, <2>1, <2>3, <2>5, TypesMapped
  <2>7. LoadPhase'
    <3>1. hdr' \in Loads' /\ va' % PAGE_SIZE = 0 /\ va' >= VaStart(prog'.phdr[hdr'])
      <4>1. VaStart(h) \in Nat
        BY <1>3, <1>4, SegmentPages
      <4>2. va + PAGE_SIZE >= VaStart(h)
        <5>1. PAGE_SIZE \in Nat
          BY ExecConstants
        <5> QED BY <1>3, <1>4, <4>1, <5>1
      <4>3. prog'.phdr[hdr'] = h
        BY <1>1, <2>1 DEF h
      <4> QED
        BY <1>3, <1>6, <2>1, <2>3, <4>2, <4>3
    <3> QED
      BY <1>1, <2>1, <3>1 DEF LoadPhase, VaStart, PageOf
  <2>8. /\ DOMAIN image' = DOMAIN image \cup {va}
        /\ image'[va].b = PageBytes(h, va) /\ image'[va].w = h.w
        /\ \A q \in DOMAIN image : q # va => image'[q] = image[q]
    BY <1>2, <1>4, <2>1, MapIs
  <2>9. ASSUME NEW p \in Nat, p % PAGE_SIZE = 0, NEW i \in Loads
        PROVE  PutOn(i, p)' <=> PutOn(i, p) \/ (i = hdr /\ p = va)
    <3>1. Touches(hdr, va)
      BY <2>2 DEF Touches, h
    <3>2. p < va' <=> p < va \/ p = va
      BY <2>1, <2>3, <2>9
    <3> QED
      BY <1>1, <1>6, <2>1, <3>1, <3>2 DEF PutOn
  <2>10. \A p : ~Stacked(p)'
    BY <1>1, <2>1 DEF Stacked
  <2>11. ASSUME NEW p \in Nat
         PROVE  p \in DOMAIN image' <=>
                  p % PAGE_SIZE = 0 /\ ((\E i \in Loads' : PutOn(i, p)') \/ Stacked(p)')
    <3>1. p \in DOMAIN image <=> p % PAGE_SIZE = 0 /\ (\E i \in Loads : PutOn(i, p))
      BY <1>2, <1>7 DEF PagesInv
    <3>2. p % PAGE_SIZE = 0 => ((\E i \in Loads' : PutOn(i, p)') <=> (\E i \in Loads : PutOn(i, p)) \/ p = va)
      BY <1>3, <1>6, <2>9
    <3> QED
      BY <1>3, <2>8, <2>10, <3>1, <3>2
  <2>12. ASSUME NEW p \in DOMAIN image', p < StackBase
         PROVE  \E i \in Loads' : IsLast(i, p)' /\ PageIs(i, p)'
    <3>1. CASE p = va
      <4>1. \A j \in Loads : PutOn(j, p) => j <= hdr
        BY <1>4 DEF PutOn
      <4>2. IsLast(hdr, p)'
        BY <1>3, <1>4, <1>6, <2>1, <2>9, <3>1, <4>1 DEF IsLast
      <4>3. image'[p].w = h.w /\ \A k \in InPage : image'[p].b[k] = FileByte(h, p + k)
        BY <2>5, <2>8, <3>1
      <4>4. PageIs(hdr, p)'
        BY <1>1, <2>1, <4>3 DEF PageIs, FileByte, ByteOf, h
      <4> QED
        BY <1>3, <1>6, <2>1, <4>2, <4>4
    <3>2. CASE p # va
      <4>1. p \in DOMAIN image /\ image'[p] = image[p] /\ p \in Nat /\ p % PAGE_SIZE = 0
        BY <1>2, <2>8, <3>2 DEF PageTypes, ExecTypeOK
      <4>2. PICK i \in Loads : IsLast(i, p) /\ PageIs(i, p)
        BY <1>2, <2>12, <4>1 DEF PagesInv
      <4>3. \A j \in Loads : PutOn(j, p)' <=> PutOn(j, p)
        BY <2>9, <3>2, <4>1
      <4>4. IsLast(i, p)'
        BY <1>6, <4>2, <4>3 DEF IsLast
      <4>5. PageIs(i, p)'
        BY <1>1, <4>1, <4>2 DEF PageIs, FileByte, ByteOf
      <4> QED
        BY <1>6, <4>4, <4>5
    <3> QED
      BY <3>1, <3>2
  <2>13. PagesInv'
    BY <2>11, <2>12 DEF PagesInv
  <2> QED
    BY <2>6, <2>7, <2>13
<1>9. CASE ~(va < VaEnd(h))
  <2>1. epc' = "next" /\ hdr' = hdr + 1 /\ va' = va /\ image' = image
    BY <1>9 DEF LoadPage
  <2>2. ExecTypeOK' /\ PageTypes'
    BY <1>1, <1>2, <1>4, <2>1, TypesCarried
  <2>3. LoadPhase'
    BY <2>1 DEF LoadPhase
  <2>4. \A p : ~Stacked(p)'
    BY <2>1 DEF Stacked
  <2>5. ASSUME NEW p \in Nat, NEW i \in Loads, p % PAGE_SIZE = 0
        PROVE  PutOn(i, p)' <=> PutOn(i, p)
    <3>1. Touches(hdr, p) => p < va
      <4>1. VaEnd(h) \in Int /\ (p < VaEnd(h) <=> p < h.vaddr + h.memsz)
        <5>1. h.vaddr + h.memsz + PAGE_SIZE - 1 \in Nat
          BY <1>5, ExecConstants
        <5>2. VaEnd(h) \in Int
          BY <5>1, PageOfIs DEF VaEnd
        <5> QED BY <1>4, <2>5, <5>2, SegmentPages
      <4>2. Touches(hdr, p) => p < h.vaddr + h.memsz
        BY DEF Touches
      <4> HIDE DEF h
      <4> QED
        BY <1>4, <1>9, <4>1, <4>2
    <3>2. i < hdr + 1 <=> i < hdr \/ i = hdr
      BY <1>4
    <3> QED
      BY <1>1, <1>6, <2>1, <3>1, <3>2 DEF PutOn
  <2>6. PagesInv'
    BY <1>1, <1>2, <1>7, <2>1, <2>4, <2>5, PagesCarried
  <2> QED
    BY <2>2, <2>3, <2>6
<1> QED
  BY <1>8, <1>9

LEMMA StackStep == ImageInv /\ StackPage => ImageInv'
<1> SUFFICES ASSUME ImageInv, StackPage PROVE ImageInv'
  OBVIOUS
<1> USE DEF ImageInv
<1>1. epc = "stack" /\ UNCHANGED <<prog, argv, got, hdr, uvas, wild>>
  BY DEF StackPage
<1>2. PagesInv /\ ExecTypeOK /\ PageTypes
  BY <1>1
<1>3. hdr = Len(prog.phdr) + 1 /\ va \in {StackBase, StackTop, StackTop + PAGE_SIZE}
  BY <1>1 DEF LoadPhase
<1>4. Loads' = Loads /\ \A i, p : Touches(i, p)' <=> Touches(i, p)
  BY <1>1 DEF Loads, Touches
<1>c. PAGE_SIZE \in Nat \ {0} /\ StackBase \in Nat /\ StackTop \in Nat /\ StackTop = StackBase + PAGE_SIZE
  BY ExecConstants
<1>5. CASE va < StackTop + PAGE_SIZE
  <2> DEFINE z == [k \in InPage |-> <<>>]
  <2>1. Map(va, z, TRUE) /\ va' = va + PAGE_SIZE /\ UNCHANGED <<epc, rsp, arg, sp>>
    BY <1>5 DEF StackPage
  <2>z. DOMAIN z = InPage
    OBVIOUS
  <2> HIDE DEF z
  <2>2. /\ va \in {StackBase, StackTop} /\ va' \in {StackTop, StackTop + PAGE_SIZE}
        /\ va \in Nat /\ va' \in Nat /\ va >= StackBase
    BY <1>3, <1>5, <1>c, <2>1
  <2>3. va % PAGE_SIZE = 0
    BY <2>2, ExecConstants
  <2>4. ExecTypeOK' /\ PageTypes'
    BY <1>1, <1>2, <2>1, <2>2, <2>3, <2>z, TypesMapped
  <2>5. LoadPhase'
    BY <1>1, <1>3, <2>1, <2>2 DEF LoadPhase
  <2>6. /\ DOMAIN image' = DOMAIN image \cup {va}
        /\ \A q \in DOMAIN image : q # va => image'[q] = image[q]
    BY <1>2, <2>1, <2>2, MapIs
  <2>7. \A i, p : PutOn(i, p)' <=> PutOn(i, p)
    BY <1>1, <1>4, <2>1 DEF PutOn
  <2>8. ASSUME NEW p PROVE Stacked(p)' <=> Stacked(p) \/ p = va
    <3>1. p \in {StackBase, StackTop} => (p < va + PAGE_SIZE <=> p < va \/ p = va)
      BY <1>c, <2>2
    <3> QED
      BY <1>1, <2>1, <2>2, <3>1 DEF Stacked
  <2>9. ASSUME NEW p \in Nat
        PROVE  p \in DOMAIN image' <=>
                 p % PAGE_SIZE = 0 /\ ((\E i \in Loads' : PutOn(i, p)') \/ Stacked(p)')
    <3>1. p \in DOMAIN image <=> p % PAGE_SIZE = 0 /\ ((\E i \in Loads : PutOn(i, p)) \/ Stacked(p))
      BY <1>2 DEF PagesInv
    <3> QED
      BY <1>4, <2>3, <2>6, <2>7, <2>8, <3>1
  <2>10. ASSUME NEW p \in DOMAIN image', p < StackBase
         PROVE  \E i \in Loads' : IsLast(i, p)' /\ PageIs(i, p)'
    <3>1. p # va
      BY <1>c, <2>2, <2>10
    <3>2. p \in DOMAIN image /\ image'[p] = image[p]
      BY <2>6, <3>1
    <3>3. PICK i \in Loads : IsLast(i, p) /\ PageIs(i, p)
      BY <1>2, <2>10, <3>2 DEF PagesInv
    <3>4. IsLast(i, p)'
      BY <1>4, <2>7, <3>3 DEF IsLast
    <3>5. PageIs(i, p)'
      BY <1>1, <3>2, <3>3 DEF PageIs, FileByte, ByteOf
    <3> QED
      BY <1>4, <3>4, <3>5
  <2>11. PagesInv'
    BY <2>9, <2>10 DEF PagesInv
  <2> QED
    BY <2>4, <2>5, <2>11
<1>6. CASE ~(va < StackTop + PAGE_SIZE)
  <2>1. /\ epc' \in {"done", "args"} /\ rsp' = StackTop /\ arg' = Len(argv) /\ sp' = PAGE_SIZE
        /\ UNCHANGED <<va, image>>
    BY <1>6 DEF StackPage
  <2>2. va = StackTop + PAGE_SIZE
    BY <1>3, <1>6, <1>c
  <2>3. ExecTypeOK' /\ PageTypes'
    <3>1. PageTypes'
      BY <1>2, <2>1 DEF PageTypes
    <3>2. arg' \in 0..Len(argv) /\ sp' \in Int /\ rsp' \in Int
      BY <1>2, <1>c, <2>1, JobTypes
    <3>3. ExecTypeOK'
      BY <1>1, <1>2, <2>1, <3>2, Zenon DEF ExecTypeOK
    <3> QED BY <3>1, <3>3
  <2>4. LoadPhase'
    BY <1>1, <1>3, <2>1, <2>2 DEF LoadPhase
  <2>5. \A p : Stacked(p)' <=> Stacked(p)
    BY <1>1, <2>1 DEF Stacked
  <2>6. \A p, i : PutOn(i, p)' <=> PutOn(i, p)
    BY <1>1, <1>4, <2>1 DEF PutOn
  <2>7. PagesInv'
    BY <1>1, <1>2, <2>1, <2>5, <2>6, PagesCarried
  <2> QED
    BY <2>3, <2>4, <2>7
<1> QED
  BY <1>5, <1>6

LEMMA FailStep == ImageInv /\ LoadFails => ImageInv'
<1> SUFFICES ASSUME ImageInv, LoadFails PROVE ImageInv'
  OBVIOUS
<1>1. epc' = "failed" /\ UNCHANGED <<prog, argv, got, hdr, va, image, arg, sp, uvas, rsp, wild>>
  BY DEF LoadFails
<1>2. ExecTypeOK' /\ PageTypes'
  <2>1. va \in Nat /\ got \in 0..FileSize /\ hdr \in 1..(Len(prog.phdr) + 1)
    BY DEF ImageInv, ExecTypeOK
  <2> QED BY <1>1, <2>1, TypesCarried DEF ImageInv
<1> QED
  BY <1>1, <1>2 DEF ImageInv, LoadPhase

LEMMA ArgsFailStep == ImageInv /\ ArgsFail => ImageInv'
<1> SUFFICES ASSUME ImageInv, ArgsFail PROVE ImageInv'
  OBVIOUS
<1> USE DEF ImageInv
<1>1. epc = "args" /\ epc' = "done"
      /\ UNCHANGED <<prog, argv, got, hdr, va, image, arg, sp, uvas, rsp, wild>>
  BY DEF ArgsFail
<1>2. PagesInv /\ ExecTypeOK /\ PageTypes
  BY <1>1
<1>3. ExecTypeOK' /\ PageTypes'
  <2>1. va \in Nat /\ got \in 0..FileSize /\ hdr \in 1..(Len(prog.phdr) + 1)
    BY <1>2 DEF ExecTypeOK
  <2> QED BY <1>1, <1>2, <2>1, TypesCarried
<1>4. LoadPhase'
  BY <1>1 DEF LoadPhase
<1>5. \A p : Stacked(p)' <=> Stacked(p)
  BY <1>1 DEF Stacked
<1>6. \A p, i : PutOn(i, p)' <=> PutOn(i, p)
  BY <1>1 DEF PutOn, Loads, Touches
<1>7. PagesInv'
  BY <1>1, <1>2, <1>5, <1>6, PagesCarried
<1> QED
  BY <1>3, <1>4, <1>7

(* Writing to the stack leaves the segments alone. *)
LEMMA WrittenInv ==
  ASSUME ImageInv, epc = "args", NEW off \in Int, NEW bytes, Write(off, bytes),
         sp' \in Int, rsp' \in Int, arg' \in 0..Len(argv), epc' \in {"args", "done"},
         UNCHANGED <<prog, argv, got, hdr, va>>
  PROVE  ImageInv'
<1> USE DEF ImageInv
<1>2. PagesInv /\ ExecTypeOK /\ PageTypes
  OBVIOUS
<1>3. /\ DOMAIN image' = DOMAIN image /\ PageTypes'
      /\ \A q \in DOMAIN image : q # StackBase => image'[q] = image[q]
      /\ StackBase \in DOMAIN image =>
           image'[StackBase].w = image[StackBase].w /\ DOMAIN image'[StackBase].b = InPage
  BY <1>2, WriteIs
<1>4. ExecTypeOK'
  <2>1. ASSUME NEW q \in DOMAIN image'
        PROVE  q % PAGE_SIZE = 0 /\ DOMAIN image'[q].b = InPage /\ image'[q].w \in BOOLEAN
    <3>1. q \in DOMAIN image
      BY <1>3
    <3>2. q % PAGE_SIZE = 0 /\ DOMAIN image[q].b = InPage /\ image[q].w \in BOOLEAN
      BY <1>2, <3>1, Zenon DEF ExecTypeOK
    <3> QED
      BY <1>3, <3>1, <3>2, Zenon
  <2>2. wild' \in BOOLEAN
    <3>1. wild \in BOOLEAN
      BY <1>2 DEF ExecTypeOK
    <3> QED BY <3>1, WriteWild
  <2> QED
    BY <1>2, <2>1, <2>2, Zenon DEF ExecTypeOK, InPage
<1>5. LoadPhase'
  BY DEF LoadPhase
<1>6. \A p : Stacked(p)' <=> Stacked(p)
  BY DEF Stacked
<1>7. \A p, i : PutOn(i, p)' <=> PutOn(i, p)
  BY DEF PutOn, Loads, Touches
<1>8. \A p \in DOMAIN image : p < StackBase => image'[p] = image[p]
  BY <1>2, <1>3, ExecConstants DEF PageTypes
<1>9. PagesInv'
  BY <1>2, <1>3, <1>6, <1>7, <1>8, PagesCarried
<1> QED
  BY <1>3, <1>4, <1>5, <1>9

LEMMA ImageInvImplies == SegmentsBelowStack /\ ImageInv => ImageLoaded
<1> SUFFICES ASSUME SegmentsBelowStack, ImageInv, epc \in {"args", "done"}
             PROVE  /\ DOMAIN image = {p \in {PageOf(a) : a \in 0..(StackTop + PAGE_SIZE - 1)} :
                                         p >= StackBase \/ \E i \in Loads : Touches(i, p)}
                    /\ \A p \in {q \in DOMAIN image : q < StackBase} :
                         LET h == prog.phdr[Max({i \in Loads : Touches(i, p)})]
                         IN  /\ image[p].w = h.w
                             /\ \A k \in InPage : image[p].b[k] =
                                  IF ByteOf(h, p + k) > got THEN Junk ELSE ByteOf(h, p + k)
  BY DEF ImageLoaded
<1> USE DEF ImageInv
<1>1. PagesInv /\ ExecTypeOK /\ PageTypes
  OBVIOUS
<1>2. hdr = Len(prog.phdr) + 1 /\ va = StackTop + PAGE_SIZE
  BY DEF LoadPhase
<1>3. /\ Len(prog.phdr) \in Nat /\ Loads \subseteq 1..Len(prog.phdr)
      /\ \A i \in Loads : prog.phdr[i] \in Phdr
  BY <1>1, JobTypes DEF Loads
<1>4. \A p : \A i \in Loads : PutOn(i, p) <=> Touches(i, p)
  <2>1. \A i \in Loads : i < hdr
    BY <1>2, <1>3
  <2> QED BY <2>1 DEF PutOn
<1>c. PAGE_SIZE \in Nat \ {0} /\ StackBase \in Nat /\ StackTop \in Nat /\ StackTop = StackBase + PAGE_SIZE
  BY ExecConstants
<1>5. \A p : Stacked(p) <=> p \in {StackBase, StackTop}
  BY <1>2, <1>c DEF Stacked
<1>6. \A p \in Nat : \A i \in Loads : Touches(i, p) => p < StackBase
  <2> SUFFICES ASSUME NEW p \in Nat, NEW i \in Loads, Touches(i, p) PROVE p < StackBase
    OBVIOUS
  <2>1. prog.phdr[i].vaddr + prog.phdr[i].memsz <= StackBase
    BY <1>1, LoadBelow
  <2>2. prog.phdr[i].vaddr \in Nat /\ prog.phdr[i].memsz \in Nat
    BY <1>3 DEF Phdr
  <2> QED BY <1>c, <2>1, <2>2 DEF Touches
<1>7. ASSUME NEW p
      PROVE  p \in {PageOf(a) : a \in 0..(StackTop + PAGE_SIZE - 1)} <=>
               p \in Nat /\ p % PAGE_SIZE = 0 /\ p <= StackTop
  <2>1. ASSUME NEW a \in 0..(StackTop + PAGE_SIZE - 1), p = PageOf(a)
        PROVE  p \in Nat /\ p % PAGE_SIZE = 0 /\ p <= StackTop
    <3>1. a \in Nat /\ a < StackTop + PAGE_SIZE
      BY <1>c, <2>1
    <3>2. p \in Nat /\ p % PAGE_SIZE = 0 /\ p <= a
      BY <2>1, <3>1, PageOfIs
    <3>3. ~(StackTop < p)
      <4>1. StackTop < p => StackTop + PAGE_SIZE <= p
        BY <3>2, ExecConstants, NextPage
      <4> QED BY <1>c, <3>1, <3>2, <4>1
    <3> QED BY <1>c, <3>2, <3>3
  <2>2. ASSUME p \in Nat, p % PAGE_SIZE = 0, p <= StackTop
        PROVE  p \in {PageOf(a) : a \in 0..(StackTop + PAGE_SIZE - 1)}
    <3>1. p \in 0..(StackTop + PAGE_SIZE - 1)
      BY <1>c, <2>2
    <3>2. PageOf(p) = p
      BY <2>2 DEF PageOf
    <3> QED BY <3>1, <3>2
  <2> QED BY <2>1, <2>2
<1>8. ASSUME NEW p
      PROVE  p \in DOMAIN image <=>
               /\ p \in {PageOf(a) : a \in 0..(StackTop + PAGE_SIZE - 1)}
               /\ p >= StackBase \/ \E i \in Loads : Touches(i, p)
  <2>1. p \in DOMAIN image => p \in Nat
    BY <1>1 DEF PageTypes
  <2>2. p \in Nat => (p \in DOMAIN image <=>
            p % PAGE_SIZE = 0 /\ ((\E i \in Loads : Touches(i, p)) \/ p \in {StackBase, StackTop}))
    BY <1>1, <1>4, <1>5 DEF PagesInv
  <2>3. ASSUME p \in Nat, p % PAGE_SIZE = 0, p <= StackTop, p >= StackBase
        PROVE  p \in {StackBase, StackTop}
    <3>1. StackBase < p => StackBase + PAGE_SIZE <= p
      BY <2>3, ExecConstants, NextPage
    <3> QED BY <1>c, <2>3, <3>1
  <2>4. ASSUME p \in {StackBase, StackTop}
        PROVE  p \in Nat /\ p % PAGE_SIZE = 0 /\ p <= StackTop /\ p >= StackBase
    <3>1. p % PAGE_SIZE = 0
      BY <2>4, ExecConstants
    <3> QED BY <1>c, <2>4, <3>1
  <2>5. ASSUME p \in Nat, NEW i \in Loads, Touches(i, p)
        PROVE  p <= StackTop
    <3>1. p < StackBase
      BY <1>6, <2>5
    <3> QED BY <1>c, <2>5, <3>1
  <2> QED
    BY <1>7, <2>1, <2>2, <2>3, <2>4, <2>5
<1>9. ASSUME NEW p \in DOMAIN image, p < StackBase
      PROVE  LET h == prog.phdr[Max({i \in Loads : Touches(i, p)})]
             IN  /\ image[p].w = h.w
                 /\ \A k \in InPage : image[p].b[k] =
                      IF ByteOf(h, p + k) > got THEN Junk ELSE ByteOf(h, p + k)
  <2>1. PICK i \in Loads : IsLast(i, p) /\ PageIs(i, p)
    BY <1>1, <1>9 DEF PagesInv
  <2>2. Touches(i, p) /\ \A j \in Loads : Touches(j, p) => j <= i
    BY <1>4, <2>1 DEF IsLast
  <2> DEFINE S == {j \in Loads : Touches(j, p)}
  <2>3. i \in S /\ \A j \in S : j <= i
    BY <2>2
  <2>4. S \subseteq Nat
    <3>1. \A n \in Nat : \A j \in 1..n : j \in Nat
      OBVIOUS
    <3>2. \A j \in Loads : j \in Nat
      BY <1>3, <3>1, Zenon
    <3> QED
      BY <3>2, Zenon
  <2> HIDE DEF S
  <2>5. Max(S) \in S /\ \A j \in S : Max(S) >= j
    <3>1. \E x \in S : \A y \in S : x >= y
      BY <2>3, <2>4
    <3> QED BY <3>1 DEF Max
  <2>6. Max(S) = i
    <3> DEFINE m == Max(S)
    <3>1. m \in Nat /\ i \in Nat /\ m <= i /\ m >= i
      BY <2>3, <2>4, <2>5
    <3> HIDE DEF m
    <3>2. m = i
      BY <3>1
    <3> QED BY <3>2 DEF m
  <2>7. image[p].w = prog.phdr[i].w
        /\ \A k \in InPage : image[p].b[k] =
             IF ByteOf(prog.phdr[i], p + k) > got THEN Junk ELSE ByteOf(prog.phdr[i], p + k)
    BY <2>1 DEF PageIs, FileByte
  <2> QED
    BY <2>6, <2>7, Zenon DEF S
<1> QED
  <2>1. DOMAIN image = {p \in {PageOf(a) : a \in 0..(StackTop + PAGE_SIZE - 1)} :
                          p >= StackBase \/ \E i \in Loads : Touches(i, p)}
    BY <1>8, Zenon
  <2> QED
    BY <2>1, <1>9, Zenon

-----------------------------------------------------------------------------
(* The arguments *)

(* Until the stack is there, nothing is put on it. *)
LEMMA EarlyArgs ==
  ASSUME ArgsPhase, epc \in {"idle", "next", "load", "stack"}, uvas' = uvas, wild' = wild,
         epc' \in {"next", "load", "failed"} \/ (epc' = "stack" /\ va' <= StackTop),
         va' \in Nat
  PROVE  ArgsPhase' /\ ArgsIntact'
<1>1. epc' \in {"stack", "args", "done"} => epc' = "stack" /\ ~(StackTop < va')
  BY ExecConstants
<1>2. ArgsPhase'
  BY <1>1 DEF ArgsPhase
<1> QED
  BY <1>2 DEF ArgsIntact

LEMMA StackArgs == ImageInv /\ ArgsPhase /\ StackPage => ArgsPhase' /\ ArgsIntact'
<1> SUFFICES ASSUME ImageInv, ArgsPhase, StackPage PROVE ArgsPhase' /\ ArgsIntact'
  OBVIOUS
<1>1. epc = "stack" /\ UNCHANGED <<prog, argv, got, hdr, uvas, wild>>
  BY DEF StackPage
<1>2. uvas = <<>> /\ wild = FALSE /\ uvas \in Seq(Int)
  BY <1>1 DEF ArgsPhase
<1>3. va \in {StackBase, StackTop, StackTop + PAGE_SIZE}
  BY <1>1 DEF LoadPhase, ImageInv
<1>c. PAGE_SIZE \in Nat \ {0} /\ StackBase \in Nat /\ StackTop \in Nat /\ StackTop = StackBase + PAGE_SIZE
  BY ExecConstants
<1>4. CASE va < StackTop + PAGE_SIZE
  <2> DEFINE z == [k \in InPage |-> <<>>]
  <2>1. Map(va, z, TRUE) /\ va' = va + PAGE_SIZE /\ epc' = "stack"
    BY <1>1, <1>4 DEF StackPage
  <2>2. va \in {StackBase, StackTop} /\ va \in Nat
    BY <1>3, <1>4, <1>c
  <2>3. StackTop < va' => va = StackTop
    BY <1>c, <2>1, <2>2
  <2>4. StackTop < va' => Blank'
    <3>1. image'[va].b = z
      BY <2>1, <2>2, MapIs DEF ImageInv
    <3> QED BY <2>3, <3>1 DEF Blank
  <2> QED
    BY <1>1, <1>2, <2>1, <2>4 DEF ArgsPhase, ArgsIntact
<1>5. CASE ~(va < StackTop + PAGE_SIZE)
  <2>1. /\ epc' = IF argv = NoArgv THEN "done" ELSE "args"
        /\ rsp' = StackTop /\ arg' = Len(argv) /\ sp' = PAGE_SIZE /\ UNCHANGED <<va, image>>
    BY <1>5 DEF StackPage
  <2>2. StackTop < va
    BY <1>3, <1>5, <1>c
  <2>3. Blank'
    BY <1>1, <2>1, <2>2 DEF ArgsPhase, Blank
  <2>4. ArgsIntact'
    BY <1>1, <2>1 DEF ArgsIntact
  <2>n. Len(argv) \in Nat
    BY JobTypes DEF ImageInv
  <2>5. Strings'
    <3>1. sp' \in 0..PAGE_SIZE /\ (arg' + 1)..Len(argv') = {}
      BY <1>1, <1>c, <2>n, <2>1
    <3> QED BY <3>1 DEF Strings
  <2>6. Len(uvas') = Len(argv') - arg'
    BY <1>1, <1>2, <2>n, <2>1
  <2>7. \A room \in [0..Len(argv') -> 0..PAGE_SIZE] : Room(room)' => sp' = room[arg']
    BY <1>1, <2>1 DEF Room
  <2>8. /\ epc' \in {"done", "args"} /\ uvas' \in Seq(Int) /\ wild' = FALSE /\ rsp' = StackTop
    BY <1>1, <1>2, <2>1
  <2>9. ArgsPhase'
    BY <2>3, <2>5, <2>6, <2>7, <2>8, Zenon DEF ArgsPhase
  <2> QED
    BY <2>4, <2>9
<1> QED
  BY <1>4, <1>5

(* kalloc fails: the program starts with a blank page at its rsp. *)
LEMMA FailArgs == ImageInv /\ ArgsPhase /\ ArgsFail => ArgsPhase' /\ ArgsIntact'
<1> SUFFICES ASSUME ImageInv, ArgsPhase, ArgsFail PROVE ArgsPhase' /\ ArgsIntact'
  OBVIOUS
<1>1. epc = "args" /\ epc' = "done" /\ arg = Len(argv)
      /\ UNCHANGED <<prog, argv, got, hdr, va, image, arg, sp, uvas, rsp, wild>>
  BY DEF ArgsFail
<1>2. uvas \in Seq(Int) /\ wild = FALSE /\ rsp = StackTop
  BY <1>1 DEF ArgsPhase
<1>3. va = StackTop + PAGE_SIZE
  BY <1>1 DEF ImageInv, LoadPhase
<1>4. Blank
  <2>1. StackTop < va
    BY <1>3, ExecConstants
  <2> QED BY <1>1, <2>1 DEF ArgsPhase
<1>5. ArgsPhase'
  BY <1>1, <1>2, <1>4 DEF ArgsPhase, Blank
<1>6. NoArgs'
  <2>1. ASSUME NEW k \in InPage PROVE StackByte(StackTop + k)' = <<>>
    <3>1. PageOf(StackTop + k) = StackTop /\ (StackTop + k) % PAGE_SIZE = k
      BY ExecConstants, InPageOf
    <3> QED BY <1>1, <1>4, <3>1 DEF StackByte, Blank
  <2> QED
    BY <1>1, <1>2, <2>1 DEF NoArgs
<1> QED
  BY <1>1, <1>2, <1>5, <1>6 DEF ArgsIntact

LEMMA ConsIs ==
  ASSUME NEW s \in Seq(Int), NEW e \in Int
  PROVE  /\ <<e>> \o s \in Seq(Int) /\ Len(<<e>> \o s) = Len(s) + 1
         /\ (<<e>> \o s)[1] = e /\ \A j \in 1..Len(s) : (<<e>> \o s)[j + 1] = s[j]
<1>1. <<e>> \in Seq(Int) /\ Len(<<e>>) = 1 /\ <<e>>[1] = e
  OBVIOUS
<1> DEFINE t == <<e>>
<1> HIDE DEF t
<1>2. t \in Seq(Int) /\ Len(t) = 1 /\ t[1] = e
  BY <1>1 DEF t
<1>3. Len(s) \in Nat
  OBVIOUS
<1>4. t \o s \in Seq(Int) /\ Len(t \o s) = 1 + Len(s)
      /\ \A i \in 1..(1 + Len(s)) : (t \o s)[i] = IF i <= 1 THEN t[i] ELSE s[i - 1]
  <2>1. t \o s \in Seq(Int) /\ Len(t \o s) = Len(t) + Len(s)
        /\ \A i \in 1..(Len(t) + Len(s)) : (t \o s)[i] = IF i <= Len(t) THEN t[i] ELSE s[i - Len(t)]
    BY <1>2, ConcatProperties, Zenon
  <2> QED
    BY <1>2, <2>1, Zenon
<1>5. (t \o s)[1] = e
  <2>1. 1 \in 1..(1 + Len(s))
    BY <1>3
  <2> QED BY <1>2, <1>4, <2>1
<1>6. ASSUME NEW j \in 1..Len(s) PROVE (t \o s)[j + 1] = s[j]
  <2>1. j + 1 \in 1..(1 + Len(s)) /\ ~(j + 1 <= 1) /\ (j + 1) - 1 = j
    BY <1>3
  <2> QED BY <1>4, <2>1
<1> QED
  BY <1>3, <1>4, <1>5, <1>6 DEF t

LEMMA CopyArgs == ImageInv /\ ArgsPhase /\ CopyString => ImageInv' /\ ArgsPhase' /\ ArgsIntact'
<1> SUFFICES ASSUME ImageInv, ArgsPhase, CopyString PROVE ImageInv' /\ ArgsPhase' /\ ArgsIntact'
  OBVIOUS
<1>1. /\ epc = "args" /\ epc' = "args" /\ arg > 0 /\ arg' = arg - 1 /\ sp' = sp - argv[arg]
      /\ UNCHANGED <<prog, argv, got, hdr, va, rsp>>
  BY DEF CopyString
<1>2. Write(sp', String(arg)) /\ uvas' = <<StackBase + sp'>> \o uvas
  BY DEF CopyString
<1>3. ExecTypeOK /\ PageTypes /\ PagesInv
  BY <1>1 DEF ImageInv
<1> DEFINE n == Len(argv)
           a == argv[arg]
<1>4. /\ n \in Nat /\ arg \in 1..n /\ sp \in Int /\ rsp \in Int /\ a \in Nat
      /\ \A i \in 1..n : argv[i] \in Nat
  <2>1. arg \in 0..Len(argv) /\ sp \in Int /\ rsp \in Int
    BY <1>3 DEF ExecTypeOK
  <2> QED BY <1>1, <1>3, <2>1, JobTypes
<1>5. sp' \in Int /\ rsp' \in Int /\ arg' \in 0..n
  BY <1>1, <1>4
<1>6. ImageInv'
  BY <1>1, <1>2, <1>5, WrittenInv
<1>c. PAGE_SIZE \in Nat \ {0} /\ StackBase \in Nat /\ StackTop \in Nat /\ StackTop = StackBase + PAGE_SIZE
  BY ExecConstants
<1>7. va = StackTop + PAGE_SIZE /\ StackTop < va
  BY <1>1, <1>c DEF ImageInv, LoadPhase
<1>8. StackBase \in DOMAIN image /\ StackTop \in DOMAIN image
  <2>1. Stacked(StackBase) /\ Stacked(StackTop)
    BY <1>1, <1>7, <1>c DEF Stacked
  <2> QED BY <1>3, <2>1, ExecConstants DEF PagesInv
<1>9. /\ image'[StackTop] = image[StackTop]
      /\ \A k \in InPage : image'[StackBase].b[k] =
           IF k - sp' + 1 \in DOMAIN String(arg) THEN String(arg)[k - sp' + 1]
           ELSE image[StackBase].b[k]
  <2>1. StackTop # StackBase
    BY <1>c
  <2> QED BY <1>2, <1>3, <1>5, <1>8, <2>1, WriteIs
<1>10. Blank'
  <2>1. Blank
    BY <1>1, <1>7 DEF ArgsPhase
  <2> QED BY <1>9, <2>1 DEF Blank
<1>11. /\ uvas \in Seq(Int) /\ Len(uvas) = n - arg /\ rsp = StackTop
       /\ wild = FALSE => Strings
       /\ wild # FALSE => sp < 0
       /\ \A room \in [0..n -> 0..PAGE_SIZE] : Room(room) => sp = room[arg]
  BY <1>1 DEF ArgsPhase
<1>12. /\ uvas' \in Seq(Int) /\ Len(uvas') = n - arg' /\ uvas'[1] = StackBase + sp'
       /\ \A j \in 1..(n - arg) : uvas'[j + 1] = uvas[j]
  <2>1. StackBase + sp' \in Int
    BY <1>5, <1>c
  <2>2. /\ uvas' \in Seq(Int) /\ Len(uvas') = Len(uvas) + 1 /\ uvas'[1] = StackBase + sp'
        /\ \A j \in 1..Len(uvas) : uvas'[j + 1] = uvas[j]
    BY <1>2, <1>11, <2>1, ConsIs
  <2> QED
    BY <1>1, <1>4, <1>11, <2>2
<1>13. wild \in BOOLEAN
  BY <1>3 DEF ExecTypeOK
<1>14. /\ wild' = FALSE => wild = FALSE /\ ~(sp' < 0)
       /\ wild = FALSE /\ ~(sp' < 0) => wild' = FALSE
  BY <1>2, <1>13, WriteWild
<1>h. sp' = sp - a
  BY <1>1
<1> HIDE DEF a
<1>15. wild' # FALSE => sp' < 0
  <2>1. sp < 0 => sp' < 0
    BY <1>4, <1>h
  <2> QED
    BY <1>11, <1>14, <2>1, Zenon
<1>16. ASSUME NEW room \in [0..n -> 0..PAGE_SIZE], Room(room)
       PROVE  sp' = room[arg']
  BY <1>1, <1>4, <1>11, <1>16 DEF Room
<1>17. ASSUME wild' = FALSE PROVE Strings'
  <2>1. sp \in 0..PAGE_SIZE /\ sp' \in 0..PAGE_SIZE /\ Strings
    BY <1>h, <1>4, <1>c, <1>11, <1>14, <1>17 DEF Strings
  <2>s. DOMAIN String(arg) = 1..a /\ \A j \in 1..a : String(arg)[j] = <<"char", arg, j>>
    BY DEF String, a
  <2>2. ASSUME NEW i \in (arg' + 1)..n PROVE StringIn(i, uvas[i - arg] - StackBase)'
    <3>1. CASE i = arg
      <4>a. argv[i] = a
        BY <3>1 DEF a
      <4>1. uvas'[i - arg'] - StackBase = sp'
        <5>1. i - arg' = 1
          BY <1>1, <1>4, <3>1
        <5>2. uvas'[i - arg'] = StackBase + sp'
          BY <1>12, <5>1, Zenon
        <5>3. (StackBase + sp') - StackBase = sp'
          BY <1>4, <1>h, <1>c
        <5> QED BY <5>2, <5>3, Zenon
      <4>2. sp' \in sp'..(PAGE_SIZE - argv[i])
        BY <1>4, <1>h, <1>c, <2>1, <4>a
      <4>3. ASSUME NEW j \in 1..argv[i]
            PROVE  image'[StackBase].b[sp' + j - 1] = <<"char", i, j>>
        <5>1. sp' + j - 1 \in InPage /\ (sp' + j - 1) - sp' + 1 = j /\ j \in 1..a
          BY <1>4, <1>h, <1>c, <2>1, <4>a DEF InPage
        <5> QED BY <1>9, <2>s, <3>1, <5>1
      <4> QED
        BY <1>1, <4>1, <4>2, <4>3 DEF StringIn
    <3>2. CASE i # arg
      <4>1. i \in (arg + 1)..n /\ i \in 1..n /\ i - arg \in 1..(n - arg) /\ i - arg' = (i - arg) + 1
        BY <1>1, <1>4, <3>2
      <4> DEFINE o == uvas[i - arg] - StackBase
      <4>2. uvas'[i - arg'] - StackBase = o
        BY <1>12, <4>1
      <4>3. StringIn(i, o)
        BY <2>1, <4>1 DEF Strings
      <4> HIDE DEF o
      <4>4. o \in sp..(PAGE_SIZE - argv[i])
            /\ \A j \in 1..argv[i] : image[StackBase].b[o + j - 1] = <<"char", i, j>>
        BY <4>3 DEF StringIn
      <4>5. o \in sp'..(PAGE_SIZE - argv[i])
        BY <1>4, <1>h, <1>c, <4>1, <4>4
      <4>6. ASSUME NEW j \in 1..argv[i]
            PROVE  image'[StackBase].b[o + j - 1] = <<"char", i, j>>
        <5>a. argv[i] \in Nat /\ j \in Nat /\ j >= 1 /\ j <= argv[i] /\ o >= sp /\ o + argv[i] <= PAGE_SIZE
              /\ o \in Int /\ sp >= 0
          BY <1>4, <1>c, <2>1, <4>1, <4>4
        <5>b. o + j - 1 \in 0..(PAGE_SIZE - 1) /\ (o + j - 1) - sp' + 1 > a
          BY <1>4, <1>h, <1>c, <5>a
        <5>1. o + j - 1 \in InPage /\ (o + j - 1) - sp' + 1 \notin 1..a
          BY <1>4, <1>h, <5>a, <5>b DEF InPage
        <5> QED BY <1>9, <2>s, <4>4, <5>1
      <4> QED
        BY <1>1, <4>2, <4>5, <4>6 DEF StringIn
    <3> QED BY <3>1, <3>2
  <2> QED
    BY <1>1, <2>1, <2>2 DEF Strings
<1>18. arg' # n
  BY <1>1, <1>4
<1>19. ArgsPhase'
  <2>1. \A room \in [0..Len(argv') -> 0..PAGE_SIZE] : Room(room)' => sp' = room[arg']
    BY <1>1, <1>16 DEF Room
  <2> QED
    BY <1>1, <1>10, <1>11, <1>12, <1>15, <1>17, <1>18, <2>1 DEF ArgsPhase
<1> QED
  BY <1>1, <1>6, <1>19 DEF ArgsIntact

(* The words of the table, and their bytes. *)
LEMMA TableWords ==
  ASSUME NEW s \in Seq(Int), NEW n \in Nat, Len(s) = n
  PROVE  LET words == <<n>> \o s \o <<0, 0>>
         IN  /\ Len(words) = n + 3
             /\ words[1] = n /\ words[n + 2] = 0 /\ words[n + 3] = 0
             /\ \A i \in 1..n : words[i + 1] = s[i]
<1> DEFINE t == <<n>> \o s
           z == <<0, 0>>
<1>1. /\ t \in Seq(Int) /\ Len(t) = n + 1 /\ t[1] = n /\ \A j \in 1..n : t[j + 1] = s[j]
  BY ConsIs
<1>2. z \in Seq(Int) /\ Len(z) = 2 /\ z[1] = 0 /\ z[2] = 0
  OBVIOUS
<1> HIDE DEF t, z
<1>3. Len(t \o z) = Len(t) + Len(z)
      /\ \A i \in 1..(Len(t) + Len(z)) : (t \o z)[i] = IF i <= Len(t) THEN t[i] ELSE z[i - Len(t)]
  BY <1>1, <1>2, ConcatProperties, Zenon
<1>4. Len(t \o z) = n + 3
      /\ \A i \in 1..(n + 3) : (t \o z)[i] = IF i <= n + 1 THEN t[i] ELSE z[i - (n + 1)]
  BY <1>1, <1>2, <1>3
<1>5. (t \o z)[1] = n
  <2>1. 1 \in 1..(n + 3) /\ 1 <= n + 1
    OBVIOUS
  <2> QED BY <1>1, <1>4, <2>1
<1>6. (t \o z)[n + 2] = 0 /\ (t \o z)[n + 3] = 0
  <2>1. /\ n + 2 \in 1..(n + 3) /\ ~(n + 2 <= n + 1) /\ (n + 2) - (n + 1) = 1
        /\ n + 3 \in 1..(n + 3) /\ ~(n + 3 <= n + 1) /\ (n + 3) - (n + 1) = 2
    OBVIOUS
  <2> QED BY <1>2, <1>4, <2>1
<1>7. ASSUME NEW i \in 1..n PROVE (t \o z)[i + 1] = s[i]
  <2>1. i + 1 \in 1..(n + 3) /\ i + 1 <= n + 1
    OBVIOUS
  <2> QED BY <1>1, <1>4, <2>1
<1> QED
  BY <1>4, <1>5, <1>6, <1>7 DEF t, z

LEMMA WordEnds ==
  ASSUME NEW m \in Nat, NEW c \in Nat, m < c
  PROVE  WordSize * m \in Nat /\ WordSize * c \in Nat /\ WordSize * m + WordSize <= WordSize * c
<1>1. PICK e \in Nat : c = m + 1 + e
  <2>1. c - m - 1 \in Nat /\ c = m + 1 + (c - m - 1)
    OBVIOUS
  <2> QED BY <2>1
<1>w. WordSize \in Nat
  BY ExecConstants
<1>2. WordSize * c = WordSize * m + WordSize + WordSize * e /\ WordSize * e \in Nat
      /\ WordSize * m \in Nat /\ WordSize * c \in Nat
  BY <1>1, <1>w
<1> QED
  BY <1>2, <1>w

LEMMA WordBytesAre ==
  ASSUME NEW vs, NEW c \in Nat, Len(vs) = c
  PROVE  /\ DOMAIN WordBytes(vs) = 1..(WordSize * c)
         /\ \A m \in 0..(c - 1) : \A k \in 0..(WordSize - 1) :
              WordBytes(vs)[WordSize * m + k + 1] = <<vs[m + 1], k>>
<1>1. DOMAIN WordBytes(vs) = 1..(WordSize * c)
  BY DEF WordBytes
<1>2. ASSUME NEW m \in 0..(c - 1), NEW k \in 0..(WordSize - 1)
      PROVE  WordBytes(vs)[WordSize * m + k + 1] = <<vs[m + 1], k>>
  <2> DEFINE x == WordSize * m + k
  <2>1. WordSize * m \in Nat /\ WordSize * c \in Nat /\ WordSize * m + WordSize <= WordSize * c
    BY WordEnds
  <2>w. WordSize \in Nat \ {0} /\ k \in Nat /\ k < WordSize /\ m \in Nat
    BY ExecConstants
  <2>2. x \in Nat /\ x + 1 \in 1..(WordSize * c) /\ (x + 1) - 1 = x
    BY <2>1, <2>w
  <2>3. x \div WordSize = m /\ x % WordSize = k
    BY <2>w, DivMod
  <2> HIDE DEF x
  <2>4. WordBytes(vs)[x + 1] = <<vs[((x + 1) - 1) \div WordSize + 1], ((x + 1) - 1) % WordSize>>
    <3>1. x + 1 \in 1..(WordSize * Len(vs))
      BY <2>2
    <3> QED BY <3>1, Zenon DEF WordBytes
  <2>5. WordBytes(vs)[x + 1] = <<vs[m + 1], k>>
    BY <2>2, <2>3, <2>4, Zenon
  <2> QED
    BY <2>5 DEF x
<1> QED
  BY <1>1, <1>2

(* Aligning an address aligns its offset in the page. *)
LEMMA AlignStack ==
  ASSUME NEW o \in Nat
  PROVE  AlignDown(StackBase + o) = StackBase + AlignDown(o)
         /\ AlignDown(o) \in Nat /\ AlignDown(o) <= o
<1> DEFINE c == 2 * WordSize
           x == StackBase \div c
           y == o \div c
           r == o % c
<1>1. c \in Nat \ {0} /\ StackBase \in Nat /\ StackBase % c = 0
  BY ExecConstants
<1> HIDE DEF c
<1>2. x \in Nat /\ StackBase = c * x /\ y \in Nat /\ r \in 0..(c - 1) /\ o = c * y + r
  BY <1>1, Divided
<1> HIDE DEF x, y
<1>3. (StackBase + o) % c = r
  <2>1. StackBase + o = c * (x + y) + r /\ x + y \in Nat /\ r \in Nat /\ r < c
    <3> HIDE DEF r
    <3> QED BY <1>1, <1>2
  <2> DEFINE z == x + y
  <2> HIDE DEF r, z
  <2>2. (c * z + r) % c = r
    BY <1>1, <2>1, DivMod DEF z
  <2> QED BY <2>1, <2>2, Zenon DEF z
<1>4. o - r \in Nat /\ o - r <= o
  <2>1. c * y \in Nat
    BY <1>1, <1>2
  <2> HIDE DEF r
  <2> QED BY <1>2, <2>1
<1>5. AlignDown(StackBase + o) = (StackBase + o) - r /\ AlignDown(o) = o - r
  BY <1>3 DEF AlignDown, c
<1> HIDE DEF r
<1>6. r \in Int /\ (StackBase + o) - r = StackBase + (o - r)
  BY <1>1, <1>2
<1> QED
  BY <1>4, <1>5, <1>6

LEMMA PushArgs == ImageInv /\ ArgsPhase /\ PushTable => ImageInv' /\ ArgsPhase' /\ ArgsIntact'
<1> SUFFICES ASSUME ImageInv, ArgsPhase, PushTable PROVE ImageInv' /\ ArgsPhase' /\ ArgsIntact'
  OBVIOUS
<1> DEFINE n == Len(argv)
           words == <<n>> \o uvas \o <<0, 0>>
           off == AlignDown(StackBase + sp) - StackBase - WordSize * Len(words)
           bytes == WordBytes(words)
<1>1. /\ epc = "args" /\ epc' = "done" /\ arg = 0
      /\ UNCHANGED <<prog, argv, got, hdr, va, arg, sp, uvas>>
  BY DEF PushTable
<1>2. Write(off, bytes) /\ rsp' = StackBase + off
  BY DEF PushTable
<1>3. ExecTypeOK /\ PageTypes /\ PagesInv
  BY <1>1 DEF ImageInv
<1>4. n \in Nat /\ sp \in Int
  BY <1>3, JobTypes DEF ExecTypeOK
<1>5. /\ uvas \in Seq(Int) /\ Len(uvas) = n - arg /\ Len(uvas) = n
  BY <1>1, <1>4 DEF ArgsPhase
<1>6. /\ Len(words) = n + 3 /\ words[1] = n /\ words[n + 2] = 0 /\ words[n + 3] = 0
      /\ \A i \in 1..n : words[i + 1] = uvas[i]
  BY <1>4, <1>5, TableWords
<1> HIDE DEF words
<1>c. /\ PAGE_SIZE \in Nat \ {0} /\ StackBase \in Nat /\ StackTop \in Nat
      /\ StackTop = StackBase + PAGE_SIZE /\ WordSize \in Nat \ {0}
  BY ExecConstants
<1>7. off \in Int
  <2>1. AlignDown(StackBase + sp) \in Int
    <3>1. StackBase + sp \in Int /\ 2 * WordSize \in Nat \ {0}
      BY <1>4, <1>c
    <3>2. \A x \in Int, c \in Nat \ {0} : x % c \in Int
      OBVIOUS
    <3>3. (StackBase + sp) % (2 * WordSize) \in Int
      BY <3>1, <3>2
    <3> QED
      BY <3>1, <3>3 DEF AlignDown
  <2>2. WordSize * Len(words) \in Int
    BY <1>4, <1>6, <1>c
  <2> QED
    BY <1>c, <2>1, <2>2
<1>o. off = AlignDown(StackBase + sp) - StackBase - WordSize * (n + 3)
  BY <1>6
<1> HIDE DEF off, bytes
<1>8. rsp' \in Int /\ sp' \in Int /\ arg' \in 0..n
  BY <1>1, <1>2, <1>4, <1>7, <1>c
<1>9. ImageInv'
  BY <1>1, <1>2, <1>7, <1>8, WrittenInv
<1>10. va = StackTop + PAGE_SIZE /\ StackTop < va
  BY <1>1, <1>c DEF ImageInv, LoadPhase
<1>11. StackBase \in DOMAIN image /\ StackTop \in DOMAIN image
  <2>1. Stacked(StackBase) /\ Stacked(StackTop)
    BY <1>1, <1>10, <1>c DEF Stacked
  <2> QED BY <1>3, <2>1, ExecConstants DEF PagesInv
<1>12. /\ image'[StackTop] = image[StackTop]
       /\ \A k \in InPage : image'[StackBase].b[k] =
            IF k - off + 1 \in DOMAIN bytes THEN bytes[k - off + 1] ELSE image[StackBase].b[k]
  <2>1. StackTop # StackBase
    BY <1>c
  <2> QED BY <1>2, <1>3, <1>7, <1>11, <2>1, WriteIs
<1>13. ArgsPhase'
  <2>1. Blank
    BY <1>1, <1>10 DEF ArgsPhase
  <2>2. Blank'
    BY <1>12, <2>1 DEF Blank
  <2> QED
    BY <1>1, <1>5, <2>2 DEF ArgsPhase
<1>14. ASSUME argv # NoArgv, Fits PROVE wild' = FALSE /\ AllArgs'
  <2>1. PICK room \in [0..n -> 0..PAGE_SIZE] :
           Room(room) /\ AlignDown(room[0]) >= WordSize * (n + 3)
    BY <1>14 DEF Fits
  <2>2. sp = room[0]
    BY <1>1, <2>1 DEF ArgsPhase
  <2>3. sp \in 0..PAGE_SIZE /\ sp \in Nat
    BY <1>4, <1>c, <2>1, <2>2
  <2> DEFINE top == AlignDown(sp)
             size == WordSize * (n + 3)
  <2>4. AlignDown(StackBase + sp) = StackBase + top /\ top \in Nat /\ top <= sp
    BY <2>3, AlignStack
  <2>5. size \in Nat /\ top >= size
    <3>1. size \in Nat
      BY <1>4, <1>c
    <3> QED BY <2>1, <2>2, <3>1
  <2>6. off = AlignDown(StackBase + sp) - StackBase - size
    BY <1>o
  <2> HIDE DEF top, size
  <2>7. off \in Nat /\ off + size = top /\ off + size <= sp
    BY <1>c, <2>3, <2>4, <2>5, <2>6
  <2>8. wild = FALSE
    <3>1. ~(sp < 0)
      BY <2>3
    <3> QED BY <1>1, <3>1 DEF ArgsPhase
  <2>9. wild' = FALSE
    <3>1. ~(off < 0)
      BY <2>7
    <3>2. wild \in BOOLEAN
      BY <2>8
    <3> QED BY <1>2, <2>8, <3>1, <3>2, WriteWild
  <2>10. Strings
    BY <1>1, <2>8 DEF ArgsPhase
  <2>11. DOMAIN bytes = 1..size
         /\ \A m \in 0..(n + 2) : \A k \in 0..(WordSize - 1) :
              bytes[WordSize * m + k + 1] = <<words[m + 1], k>>
    <3>1. n + 3 \in Nat /\ (n + 3) - 1 = n + 2
      BY <1>4
    <3>2. DOMAIN WordBytes(words) = 1..(WordSize * (n + 3))
          /\ \A m \in 0..((n + 3) - 1) : \A k \in 0..(WordSize - 1) :
               WordBytes(words)[WordSize * m + k + 1] = <<words[m + 1], k>>
      BY <1>6, <3>1, WordBytesAre
    <3> QED BY <3>1, <3>2 DEF bytes, size
  (* What the program finds in its stack page. *)
  <2>12. \A k \in InPage : StackByte(StackBase + k)' = image'[StackBase].b[k]
    <3> SUFFICES ASSUME NEW k \in InPage PROVE StackByte(StackBase + k)' = image'[StackBase].b[k]
      OBVIOUS
    <3>1. PageOf(StackBase + k) = StackBase /\ (StackBase + k) % PAGE_SIZE = k
      BY ExecConstants, InPageOf
    <3> QED BY <3>1 DEF StackByte
  <2>13. ASSUME NEW m \in 0..(n + 2), NEW v, v = words[m + 1]
         PROVE  Holds(rsp + WordSize * m, v)'
    <3>y. PICK y : y = WordSize * m
      OBVIOUS
    <3>1. y \in Nat /\ y + WordSize <= size
      <4>1. m \in Nat /\ n + 3 \in Nat /\ m < n + 3
        BY <1>4
      <4> QED BY <3>y, <4>1, WordEnds DEF size
    <3>2. \A k \in 0..(WordSize - 1) : bytes[y + k + 1] = <<v, k>>
      BY <2>11, <2>13, <3>y
    <3>3. ASSUME NEW k \in 0..(WordSize - 1)
          PROVE  StackByte(rsp + y + k)' = <<v, k>>
      <4>q. PICK q : q = off + y + k
        OBVIOUS
      <4>1. q \in 0..(PAGE_SIZE - 1) /\ q - off + 1 = y + k + 1 /\ y + k + 1 \in 1..size
        BY <1>c, <2>3, <2>5, <2>7, <3>1, <4>q
      <4>2. rsp' + y + k = StackBase + q
        BY <1>2, <1>c, <2>7, <3>1, <4>q
      <4>3. StackByte(StackBase + q)' = <<v, k>>
        BY <1>12, <2>11, <2>12, <3>2, <4>1 DEF InPage
      <4>4. StackByte(rsp + y + k)' = StackByte(StackBase + q)'
        BY <4>2 DEF StackByte
      <4> QED
        BY <4>3, <4>4
    <3> QED
      BY <3>3, <3>y DEF Holds
  <2>14. Holds(rsp, Len(argv))'
    <3>1. 0 \in 0..(n + 2) /\ WordSize * 0 = 0 /\ rsp' + 0 = rsp' /\ 0 + 1 = 1
      BY <1>2, <1>4, <1>7, <1>c
    <3>2. PICK v : v = n
      OBVIOUS
    <3>3. Holds(rsp + WordSize * 0, v)'
      BY <1>6, <2>13, <3>1, <3>2
    <3> QED
      BY <1>1, <3>1, <3>2, <3>3 DEF Holds
  <2>15. Holds(ArgAt(Len(argv) + 1), 0)' /\ Holds(ArgAt(Len(argv) + 2), 0)'
    <3>1. n + 1 \in 0..(n + 2) /\ n + 2 \in 0..(n + 2) /\ (n + 1) + 1 = n + 2 /\ (n + 2) + 1 = n + 3
      BY <1>4
    <3>2. PICK m, l : m = n + 1 /\ l = n + 2
      OBVIOUS
    <3>3. Holds(rsp + WordSize * m, 0)' /\ Holds(rsp + WordSize * l, 0)'
      BY <1>6, <2>13, <3>1, <3>2
    <3> QED
      BY <1>1, <3>2, <3>3 DEF Holds, ArgAt
  <2>16. ASSUME NEW i \in 1..n
         PROVE  \E x \in StackBase..(StackTop - 1) :
                  Holds(ArgAt(i), x)' /\ \A j \in 1..argv[i] : StackByte(x + j - 1)' = <<"char", i, j>>
    <3>x. PICK x, o : x = uvas[i] /\ o = x - StackBase
      OBVIOUS
    <3>1. argv[i] \in Nat \ {0}
      <4>1. argv \in Seq(Nat \ {0})
        BY <1>3, <1>14, JobTypes
      <4> QED BY <4>1
    <3>2. x \in Int
      BY <1>4, <1>5, <3>x
    <3>3. StringIn(i, o)
      <4>1. i \in (arg + 1)..n /\ i - arg = i
        BY <1>1, <1>4
      <4>2. StringIn(i, uvas[i - arg] - StackBase)
        BY <2>10, <4>1 DEF Strings
      <4> QED BY <3>x, <4>1, <4>2
    <3>4. Holds(ArgAt(i), x)'
      <4>1. i \in 0..(n + 2)
        BY <1>4
      <4>2. x = words[i + 1]
        BY <1>6, <3>x
      <4>3. Holds(rsp + WordSize * i, x)'
        BY <2>13, <4>1, <4>2
      <4> QED
        BY <4>3 DEF ArgAt
    <3>o. x = StackBase + o /\ o \in Int
      BY <1>c, <3>2, <3>x
    <3>5. o \in sp..(PAGE_SIZE - argv[i])
          /\ \A j \in 1..argv[i] : image[StackBase].b[o + j - 1] = <<"char", i, j>>
      BY <3>3 DEF StringIn
    <3>6. x \in StackBase..(StackTop - 1)
      BY <1>c, <2>3, <3>1, <3>o, <3>5
    <3>7. ASSUME NEW j \in 1..argv[i] PROVE StackByte(x + j - 1)' = <<"char", i, j>>
      <4>q. PICK q : q = o + j - 1
        OBVIOUS
      <4>1. q \in 0..(PAGE_SIZE - 1) /\ q >= sp
        BY <1>c, <2>3, <3>1, <3>o, <3>5, <4>q
      <4>2. q - off + 1 \notin 1..size
        BY <2>3, <2>5, <2>7, <4>1
      <4>3. x + j - 1 = StackBase + q
        BY <1>c, <3>1, <3>o, <4>q
      <4>4. image[StackBase].b[q] = <<"char", i, j>>
        BY <3>5, <4>q
      <4>5. StackByte(StackBase + q)' = <<"char", i, j>>
        BY <1>12, <2>11, <2>12, <4>1, <4>2, <4>4 DEF InPage
      <4> QED
        BY <4>3, <4>5
    <3>8. x \in StackBase..(StackTop - 1) /\ Holds(ArgAt(i), x)'
          /\ \A j \in 1..argv[i] : StackByte(x + j - 1)' = <<"char", i, j>>
      BY <3>4, <3>6, <3>7
    <3> QED
      BY <3>8
  <2>17. AllArgs'
    BY <1>1, <2>14, <2>15, <2>16 DEF AllArgs
  <2> QED
    BY <2>9, <2>17
<1>15. Fits' <=> Fits
  BY <1>1 DEF Fits, Room
<1> QED
  BY <1>1, <1>9, <1>13, <1>14, <1>15 DEF ArgsIntact

ExecInv == ImageInv /\ ArgsPhase /\ ArgsIntact

LEMMA ExecStep == ExecInv /\ [ExecNext]_ExecVars => ExecInv'
<1> SUFFICES ASSUME ExecInv, [ExecNext]_ExecVars PROVE ExecInv'
  OBVIOUS
<1>0. ImageInv /\ ArgsPhase /\ ArgsIntact
  BY DEF ExecInv
<1>t. ImageInv' => va' \in Nat
  BY DEF ImageInv, ExecTypeOK
<1>1. CASE read_elf
  <2>1. ImageInv'
    BY <1>0, <1>1, ReadStep
  <2>2. epc = "idle" /\ epc' \in {"next", "failed"} /\ uvas' = uvas /\ wild' = wild
    BY <1>1 DEF read_elf
  <2> QED BY <1>0, <1>t, <2>1, <2>2, EarlyArgs DEF ExecInv
<1>2. CASE NextHeader
  <2>1. ImageInv'
    BY <1>0, <1>2, HeaderStep
  <2>2. epc = "next" /\ epc' \in {"next", "load", "stack"} /\ uvas' = uvas /\ wild' = wild
        /\ (epc' = "stack" => va' <= StackTop)
    BY <1>2, ExecConstants DEF NextHeader
  <2> QED BY <1>0, <1>t, <2>1, <2>2, EarlyArgs DEF ExecInv
<1>3. CASE LoadPage
  <2>1. ImageInv'
    BY <1>0, <1>3, LoadStep
  <2>2. epc = "load" /\ epc' \in {"load", "next"} /\ uvas' = uvas /\ wild' = wild
    BY <1>3 DEF LoadPage
  <2> QED BY <1>0, <1>t, <2>1, <2>2, EarlyArgs DEF ExecInv
<1>4. CASE StackPage
  BY <1>0, <1>4, StackStep, StackArgs DEF ExecInv
<1>5. CASE LoadFails
  <2>1. ImageInv'
    BY <1>0, <1>5, FailStep
  <2>2. epc \in {"load", "stack"} /\ epc' = "failed" /\ uvas' = uvas /\ wild' = wild
    BY <1>5 DEF LoadFails
  <2> QED BY <1>0, <1>t, <2>1, <2>2, EarlyArgs DEF ExecInv
<1>6. CASE ArgsFail
  BY <1>0, <1>6, ArgsFailStep, FailArgs DEF ExecInv
<1>7. CASE CopyString
  BY <1>0, <1>7, CopyArgs DEF ExecInv
<1>8. CASE PushTable
  BY <1>0, <1>8, PushArgs DEF ExecInv
<1>9. CASE UNCHANGED ExecVars
  <2>1. UNCHANGED <<epc, prog, argv, got, hdr, va, image, arg, sp, uvas, rsp, wild>>
    BY <1>9 DEF ExecVars
  <2>2. ImageInv'
    <3>1. ExecTypeOK /\ PageTypes /\ LoadPhase
      BY <1>0 DEF ImageInv
    <3>2. va \in Nat /\ got \in 0..FileSize /\ hdr \in 1..(Len(prog.phdr) + 1)
          /\ epc \in {"idle", "next", "load", "stack", "args", "done", "failed"}
      BY <3>1 DEF ExecTypeOK
    <3>3. ExecTypeOK' /\ PageTypes'
      BY <2>1, <3>1, <3>2, TypesCarried
    <3>4. LoadPhase'
      BY <2>1, <3>1, Zenon DEF LoadPhase, Loads, VaStart, PageOf
    <3>5. \A p : Stacked(p)' <=> Stacked(p)
      BY <2>1 DEF Stacked
    <3>6. \A p, i : PutOn(i, p)' <=> PutOn(i, p)
      BY <2>1 DEF PutOn, Loads, Touches
    <3>7. PagesInv => PagesInv'
      BY <2>1, <3>1, <3>5, <3>6, PagesCarried
    <3> QED
      BY <1>0, <2>1, <3>3, <3>4, <3>7 DEF ImageInv
  <2>3. ArgsPhase' /\ ArgsIntact'
    BY <1>0, <2>1, Zenon DEF ArgsPhase, ArgsIntact, Blank, Strings, StringIn, Room, Fits, NoArgs, AllArgs,
       Holds, ArgAt, StackByte
  <2> QED BY <2>2, <2>3 DEF ExecInv
<1> QED
  BY <1>1, <1>2, <1>3, <1>4, <1>5, <1>6, <1>7, <1>8, <1>9 DEF ExecNext

LEMMA ExecInvariant == ExecSpec => []ExecInv
<1>1. ExecInit => ExecInv
  <2>1. ExecInit => ArgsIntact
    BY DEF ExecInit, ArgsIntact
  <2> QED BY <2>1, ExecTypeInit DEF ExecInv
<1> QED
  BY <1>1, ExecStep, PTL DEF ExecSpec

(* Every variable has its type while a program is loaded, whatever its     *)
(* headers and its arguments are.                                          *)
THEOREM ExecTypeSafe == ExecSpec => []ExecTypeOK
<1>1. ExecInv => ExecTypeOK
  BY DEF ExecInv, ImageInv
<1> QED
  BY <1>1, ExecInvariant, PTL

(* elf_load_segments builds the image that the headers describe, for every *)
(* number, order and overlap of segments, if they end below the stack.     *)
THEOREM ImageExact == ASSUME SegmentsBelowStack PROVE ExecSpec => []ImageLoaded
<1>1. ExecInv => ImageLoaded
  BY ImageInvImplies DEF ExecInv
<1> QED
  BY <1>1, ExecInvariant, PTL

(* setup_user_stack hands over every argument that fits, for every number  *)
(* and length of the strings.                                              *)
THEOREM ArgsHandedOver == ExecSpec => []ArgsIntact
<1>1. ExecInv => ArgsIntact
  BY DEF ExecInv
<1> QED
  BY <1>1, ExecInvariant, PTL

-----------------------------------------------------------------------------
(* The seven components side by side *)

(* A step of the whole is one of a component, and no step of the others.   *)
LEMMA KernelSteps ==
  ASSUME [Next]_kernelVars
  PROVE  /\ [BlkNext]_BlkVars /\ [RingNext]_RingVars /\ [Ps2Next]_Ps2Vars /\ [ConsoleNext]_ConsoleVars
         /\ [SysEntryNext]_SysEntryVars /\ [ExecNext]_ExecVars /\ [BootNext]_BootVars
<1>1. CASE UNCHANGED kernelVars
  BY <1>1 DEF kernelVars, soloVars
<1>2. CASE Next
  BY <1>2 DEF Next, BlkOnly, BootOnly, soloVars
<1> QED
  BY <1>1, <1>2

(* The whole does what each component does alone.                          *)
LEMMA KernelComponents ==
  Spec => BlkSpec /\ RingSpec /\ Ps2Spec /\ ConsoleSpec /\ SysEntrySpec /\ ExecSpec /\ BootSteps
<1>1. Init => BlkInit /\ RingInit /\ Ps2Init /\ ConsoleInit /\ SysEntryInit /\ ExecInit /\ BootInit
  BY DEF Init
<1>2. [Next]_kernelVars =>
        /\ [BlkNext]_BlkVars /\ [RingNext]_RingVars /\ [Ps2Next]_Ps2Vars /\ [ConsoleNext]_ConsoleVars
        /\ [SysEntryNext]_SysEntryVars /\ [ExecNext]_ExecVars /\ [BootNext]_BootVars
  BY KernelSteps
<1> QED
  BY <1>1, <1>2, PTL DEF Spec, BlkSpec, RingSpec, Ps2Spec, ConsoleSpec, SysEntrySpec, ExecSpec, BootSteps

(* Every variable of the seven components has its type, for all values of  *)
(* their constants, with one caller of the block layer and readers on the  *)
(* CPU that takes the keyboard's interrupt.                                *)
THEOREM KernelTypeSafe ==
  ASSUME Callers = {BSP}, RingCpus = {KbdCpu}, BspFits
  PROVE  Spec => []TypeOK
<1>1. BlkSpec => []BlkTypeOK
  BY BlkTypeSafe
<1>2. RingSpec => []RingTypeOK
  BY RingTypeSafe
<1>3. BootSteps => []BootTypeOK
  BY BootTypeSafe
<1>4. BlkTypeOK /\ RingTypeOK /\ Ps2TypeOK /\ ConsoleTypeOK /\ SysEntryTypeOK /\ ExecTypeOK /\ BootTypeOK => TypeOK
  BY DEF TypeOK
<1> QED
  BY <1>1, <1>2, <1>3, <1>4, Ps2TypeSafe, ConsoleTypeSafe, SysEntryTypeSafe, ExecTypeSafe, KernelComponents, PTL
=============================================================================
