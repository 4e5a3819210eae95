------------------------------ MODULE MCKernel ------------------------------
(***************************************************************************)
(* Blk, Ring, Ps2, Console, SysEntry, Exec and Boot on small instances.    *)
(* They share no state here: a behaviour is one of a single component, and *)
(* the others stay as they begin.                                          *)
(***************************************************************************)
EXTENDS Blk, Ring, Ps2, Console, SysEntry, Exec, Boot

CONSTANTS
    Parts,                  \* the components this run looks at
    c0, c1, s0, s1, t1, t2

VARIABLE part

(* One caller and two command slots: the AHCI driver called with           *)
(* interrupts on and the ATA driver called by system calls, or the AHCI    *)
(* driver called by a system call.                                         *)
OneCpu == {c0}
TwoCpus == {c0, c1}
TwoSlots == {s0, s1}
TwoTasks == {t1, t2}
AhciOpenAtaMasked == {[driver |-> "ahci", masked |-> {}],
                      [driver |-> "ata", masked |-> {c0}]}
AhciMasked == {[driver |-> "ahci", masked |-> {c0}]}
SmallAndLarge == {1, 2, 5}

(* a, 1, shift, caps lock, and the shift that a keyboard sends with some   *)
(* keys of its extension; a movement each way, of less than 128 upwards or *)
(* to the right; a mouse that acknowledges a reset and one that does not.  *)
FiveKeys == {<<30>>, <<2>>, <<42>>, <<58>>, <<224, 42>>}
TwoPackets == {<<8, 1, 100>>, <<57, 200, 30>>}
BothAnswers == {<<170, 0>>, <<250, 170, 0>>}

(* Texts that wrap and scroll, go back, change colours with as many        *)
(* parameters as there is room for and with more, and that show nothing.   *)
Say(q) == [chars |-> q, sgr |-> <<>>, ink |-> q]
Colour(q, ns) == [chars |-> <<"esc", "[">> \o q \o <<"m">>, sgr |-> ns, ink |-> <<>>]
Unseen(q) == [chars |-> q, sgr |-> <<>>, ink |-> <<>>]
ManyTexts ==
    {Say(<<"x">>), Say(<<"y", "m", ";">>), Say(<<"lf">>), Say(<<"cr">>), Say(<<"bs">>),
     Colour(<<"3", "1", ";", "1">>, <<31, 1>>), Colour(<<>>, <<0>>),
     Colour(<<"4", "2", ";", "9", "7", ";", "1", "0", "3", ";", "4", "4">>, <<42, 97, 103, 44>>),
     Unseen(<<"esc", "[", "2", "J">>), Unseen(<<"esc", "x">>), Unseen(<<"nul">>)}

(* Two segments after a header that is not loaded, apart, next to each     *)
(* other or on one page, with and without bytes in the file and zeros; and *)
(* arguments that leave room, fill the page exactly or do not fit.         *)
Header(l, v, o, f, m, w) ==
    [load |-> l, vaddr |-> v, offset |-> o, filesz |-> f, memsz |-> m, w |-> w]
Program(hs) == [valid |-> TRUE, phdr |-> hs]
TextSegments == {Header(TRUE, v, o, f, f + b, FALSE) :
                   v \in {0, 9, 32, 44}, o \in {0, 6}, f \in {0, 7, 24}, b \in {0, 5}}
NoteSegment == Header(FALSE, 0, 0, 8, 8, FALSE)
DataAt(v) == Header(TRUE, v, 2, 11, 30, TRUE)
ManyJobs ==
    {[prog |-> Program(<<NoteSegment, h, DataAt(v)>>), argv |-> NoArgv] : h \in TextSegments, v \in {16, 38}}
    \cup {[prog |-> Program(<<DataAt(0)>>), argv |-> a] :
            a \in {<<>>, <<1>>, <<2, 1>>, <<1, 1, 1>>, <<1, 2, 1>>, <<4, 5>>}}
    \cup {[prog |-> [valid |-> FALSE, phdr |-> <<>>], argv |-> NoArgv]}

(* The boot CPU first, in the middle or last; more CPUs than slots. *)
ManyMachines == {[ids |-> q, bsp |-> 0] : q \in {<<0>>, <<0, 1>>, <<2, 0, 3>>, <<3, 1, 2, 0>>}}
                \cup {[ids |-> <<3, 1, 0, 2>>, bsp |-> 1]}

soloVars == <<RingVars, Ps2Vars, ConsoleVars, SysEntryVars, ExecVars>>
kernelVars == <<part, BlkVars, BootVars, soloVars>>

(* The components that are not looked at begin in one state. *)
Init ==
    /\ part \in Parts
    /\ BlkInit /\ RingInit /\ Ps2Init /\ ConsoleInit /\ SysEntryInit /\ ExecInit /\ BootInit
    /\ part # "exec" => Len(prog.phdr) = 0
    /\ part # "boot" => Len(machine.ids) = 1
    /\ part # "blk" => setup = CHOOSE x \in Setups : TRUE

BlkOnly == part = "blk" /\ UNCHANGED <<part, BootVars, soloVars>>
BootOnly == part = "boot" /\ UNCHANGED <<part, BlkVars, soloVars>>

Next ==
    \/ BlkOnly /\ BlkNext
    \/ BootOnly /\ BootNext
    \/ /\ UNCHANGED <<part, BlkVars, BootVars>>
       /\ \/ /\ part = "ring" /\ RingNext
             /\ UNCHANGED <<Ps2Vars, ConsoleVars, SysEntryVars, ExecVars>>
          \/ /\ part = "ps2" /\ Ps2Next
             /\ UNCHANGED <<RingVars, ConsoleVars, SysEntryVars, ExecVars>>
          \/ /\ part = "console" /\ ConsoleNext
             /\ UNCHANGED <<RingVars, Ps2Vars, SysEntryVars, ExecVars>>
          \/ /\ part = "sysentry" /\ SysEntryNext
             /\ UNCHANGED <<RingVars, Ps2Vars, ConsoleVars, ExecVars>>
          \/ /\ part = "exec" /\ ExecNext
             /\ UNCHANGED <<RingVars, Ps2Vars, ConsoleVars, SysEntryVars>>

Spec == Init /\ [][Next]_kernelVars

(* The fairness of BlkFairSpec and of BootSpec. *)
FairSpec ==
    /\ Spec
    /\ \A c \in Callers : /\ WF_kernelVars(BlkOnly /\ BlkRun(c))
                          /\ WF_kernelVars(BlkOnly /\ Wake(c))
    /\ \A s \in Slots : WF_kernelVars(BlkOnly /\ DeviceDone(s))
    /\ WF_kernelVars(BlkOnly /\ Interrupts)
    /\ WF_kernelVars(BootOnly /\ BspStep) /\ WF_kernelVars(BootOnly /\ ApStep)

(* Every variable of the seven components has its type. *)
TypeOK == /\ BlkTypeOK /\ RingTypeOK /\ Ps2TypeOK /\ ConsoleTypeOK
          /\ SysEntryTypeOK /\ ExecTypeOK /\ BootTypeOK

(* The system comes up, in the behaviours of Boot. *)
Online == part = "boot" => AllOnline
=============================================================================
