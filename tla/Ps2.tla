-------------------------------- MODULE Ps2 --------------------------------
(***************************************************************************)
(* The PS/2 driver (ps2.c): how ps2_init brings the keyboard and the mouse *)
(* up, the decoding of scancodes and of mouse packets in the two interrupt *)
(* handlers, and /dev/mousectl.  The controller has one output buffer for  *)
(* both devices: bytes wait in `obuf', the first is the one that can be    *)
(* read, and it raises the interrupt of its device when it gets there.     *)
(*                                                                         *)
(* Bytes are the real ones.  What a key or a packet means is kept in       *)
(* ghosts where the user produces it, before it becomes bytes.             *)
(***************************************************************************)
EXTENDS Naturals, Integers, Sequences, SequencesExt, FiniteSets

CONSTANTS
    Keys,           \* what is pressed and released: <<k>>, or <<224, k>> with a prefix
    Packets,        \* what the mouse may report, three bytes
    ResetAnswers,   \* what a mouse may answer to a reset
    Burst,          \* the bytes one interrupt handles (64)
    MaxKeys, MaxEarly,      \* bounds: key events in all, and during ps2_init
    MaxPackets, MaxCtl      \* bounds: packets of the mouse, writes to mousectl

(* The code of a key that is released is its own and the top bit, and not  *)
(* the prefix.  Bit 3 of a packet's first byte is always set.              *)
ASSUME Ps2Assumption ==
    /\ Burst \in Nat \ {0} /\ MaxKeys \in Nat /\ MaxEarly \in 0..MaxKeys /\ MaxPackets \in Nat /\ MaxCtl \in Nat
    /\ \A key \in Keys : \E k \in 0..127 \ {96} : key \in {<<k>>, <<224, k>>}
    /\ \A p \in Packets : p \in Seq(0..255) /\ Len(p) = 3 /\ p[1] \div 8 % 2 = 1
    /\ ResetAnswers \subseteq Seq(0..255)

Ack == 250
Bit(b, k) == (b \div k) % 2 = 1

(* The keys: a, 1, space; F1 has no rune.  Two shifts, ctrl, alt, caps.    *)
scancode_to_rune == [k \in 0..127 |-> CASE k = 30 -> "a" [] k = 2 -> "1" [] k = 57 -> " " [] OTHER -> ""]
scancode_to_rune_shift == [k \in 0..127 |-> CASE k = 30 -> "A" [] k = 2 -> "!" [] OTHER -> ""]
modifier_scancodes ==
    [k \in 0..127 |-> CASE k \in {42, 54} -> {"shift"} [] k = 29 -> {"ctrl"} [] k = 56 -> {"alt"}
                        [] OTHER -> {}]
Letters == {"a", "A"}

VARIABLES
    step,                       \* where ps2_init is; "on" after sti
    obuf, irqs,                 \* [aux, byte] waiting; the interrupts pending
    kbd_on, mouse_on, reports,  \* the ports, and whether the mouse reports
    kbd_modifiers, e0,
    mouse_buf, mouse_enabled, mouse_x, mouse_y, mouse_buttons,
    runes, events,              \* what was put in the two rings
    typed_runes, moves,         \* ghosts: what the user's keys and the mouse meant
    down,                       \* the keys that are down
    shift_held, caps_lock,      \* ghosts: the modifiers as the user left them
    calm,                       \* ghost: the devices of which ps2_init has read every
                                \* answer and nothing else
    nkeys, npackets, nctl

ctlVars == <<step, obuf, irqs, kbd_on, mouse_on, reports, calm>>
kbdVars == <<kbd_modifiers, e0, runes>>
mouseVars == <<mouse_buf, mouse_enabled, mouse_x, mouse_y, mouse_buttons, events>>
userVars == <<typed_runes, moves, down, shift_held, caps_lock, nkeys, npackets, nctl>>
Ps2Vars == <<ctlVars, kbdVars, mouseVars, userVars>>

Ps2Init ==
    /\ step = "disable" /\ obuf = <<>> /\ irqs = {}
    /\ kbd_on = TRUE /\ mouse_on = TRUE /\ reports = FALSE
    /\ kbd_modifiers = {} /\ e0 = FALSE /\ runes = <<>>
    /\ mouse_buf = <<>> /\ mouse_enabled = TRUE /\ mouse_x = 0 /\ mouse_y = 0
    /\ mouse_buttons = 0 /\ events = <<>>
    /\ typed_runes = <<>> /\ moves = <<>> /\ down = {} /\ shift_held = FALSE /\ caps_lock = FALSE
    /\ calm = {"kbd", "mouse"} /\ nkeys = 0 /\ npackets = 0 /\ nctl = 0

-----------------------------------------------------------------------------
(* The controller *)

IrqOf(b) == IF b.aux THEN "mouse" ELSE "kbd"
FromKbd(bs) == [i \in DOMAIN bs |-> [aux |-> FALSE, byte |-> bs[i]]]
FromMouse(bs) == [i \in DOMAIN bs |-> [aux |-> TRUE, byte |-> bs[i]]]

(* Interrupts pending once the buffer is q: those of q's first byte, if it *)
(* has just become the first.                                              *)
Raised(q) == IF q = <<>> THEN {} ELSE {IrqOf(Head(q))}
Queue(bs) == /\ obuf' = obuf \o bs
             /\ irqs' = IF obuf = <<>> THEN irqs \cup Raised(bs) ELSE irqs

(* A port that is enabled passes its device's bytes on; a key is one or    *)
(* two bytes, which the mouse may come between.                            *)
Meant(k) == LET base == scancode_to_rune[k]
                up == IF base \in Letters THEN shift_held # caps_lock ELSE shift_held
            IN  IF up /\ scancode_to_rune_shift[k] # "" THEN scancode_to_rune_shift[k] ELSE base

Key(key, release) ==
    /\ kbd_on /\ nkeys < IF step = "on" THEN MaxKeys ELSE MaxEarly
    /\ release => key \in down     \* a key that is down may repeat
    /\ down' = IF release THEN down \ {key} ELSE down \cup {key}
    /\ nkeys' = nkeys + 1
    /\ Queue(FromKbd([i \in DOMAIN key |-> IF i = Len(key) /\ release THEN key[i] + 128 ELSE key[i]]))
    /\ shift_held' = IF key \in {<<42>>, <<54>>} THEN ~release ELSE shift_held
    /\ caps_lock' = IF key = <<58>> /\ ~release THEN ~caps_lock ELSE caps_lock
    /\ typed_runes' = IF Len(key) = 1 /\ ~release /\ Meant(key[1]) # ""
                      THEN Append(typed_runes, Meant(key[1])) ELSE typed_runes
    /\ UNCHANGED <<step, kbd_on, mouse_on, reports, calm, kbdVars, mouseVars, moves, npackets, nctl>>

(* The nine bits of a movement are the byte and the sign in the first one. *)
Moved(p, i, sign, overflow) ==
    IF Bit(p[1], overflow) THEN 0 ELSE p[i] - (IF Bit(p[1], sign) THEN 256 ELSE 0)
Motion(p) == [dx |-> Moved(p, 2, 16, 64), dy |-> -Moved(p, 3, 32, 128), buttons |-> p[1] % 8]

Packet(p) ==
    /\ mouse_on /\ reports /\ npackets < MaxPackets
    /\ npackets' = npackets + 1
    /\ Queue(FromMouse(p))
    /\ moves' = Append(moves, Motion(p))
    /\ UNCHANGED <<step, kbd_on, mouse_on, reports, calm, kbdVars, mouseVars, typed_runes,
                   down, shift_held, caps_lock, nkeys, nctl>>

-----------------------------------------------------------------------------
(* ps2_init, before interrupts are on *)

InitStep(from, to) == step = from /\ step' = to

(* Both ports are disabled, the buffer is flushed, both are enabled. *)
DisablePorts ==
    /\ InitStep("disable", "flush")
    /\ kbd_on' = FALSE /\ mouse_on' = FALSE
    /\ UNCHANGED <<obuf, irqs, reports, calm, kbdVars, mouseVars, userVars>>
FlushAndEnable ==
    /\ InitStep("flush", "reset")
    /\ calm' = calm \ {IrqOf(b) : b \in Range(obuf)}
    /\ obuf' = <<>>
    /\ kbd_on' = TRUE /\ mouse_on' = TRUE
    /\ UNCHANGED <<irqs, reports, kbdVars, mouseVars, userVars>>

SendReset ==
    /\ InitStep("reset", "read 1")
    /\ \E a \in ResetAnswers : Queue(FromMouse(a))
    /\ UNCHANGED <<kbd_on, mouse_on, reports, calm, kbdVars, mouseVars, userVars>>

(* ps2_wait_read and inb, whatever byte it is. *)
TakeFirst(rest) ==
    /\ obuf' = rest
    /\ irqs' = irqs \cup Raised(rest)

ReadAnswer(from, to) ==
    /\ InitStep(from, to)
    /\ obuf # <<>>
    /\ TakeFirst(Tail(obuf))
    /\ calm' = IF Head(obuf).aux THEN calm ELSE {}
    /\ UNCHANGED <<kbd_on, mouse_on, reports, kbdVars, mouseVars, userVars>>

SendEnable ==
    /\ InitStep("enable", "read 3")
    /\ reports' = TRUE
    /\ Queue(FromMouse(<<Ack>>))
    /\ calm' = IF \E b \in Range(obuf) : b.aux THEN calm \ {"mouse"} ELSE calm
    /\ UNCHANGED <<kbd_on, mouse_on, kbdVars, mouseVars, userVars>>

ps2_init == \/ DisablePorts \/ FlushAndEnable \/ SendReset \/ SendEnable
            \/ ReadAnswer("read 1", "read 2") \/ ReadAnswer("read 2", "enable")
            \/ ReadAnswer("read 3", "on")

-----------------------------------------------------------------------------
(* The interrupt handlers.  k is [m, e0, out]: kbd_modifiers, e0 and what  *)
(* was put in the ring.                                                    *)

SetModifier(k, m, release) == [k EXCEPT !.m = IF release THEN @ \ m ELSE @ \cup m]

Rune(m, key) ==
    LET base == scancode_to_rune[key]
        shifted == scancode_to_rune_shift[key]
        shift == "shift" \in m
        caps == "caps" \in m
    IN  IF base \in Letters
        THEN IF shift # caps /\ shifted # "" THEN shifted ELSE base
        ELSE IF shift /\ shifted # "" THEN shifted ELSE base

kbd_handle_scancode(k, scancode) ==
    LET key == scancode % 128
        release == scancode >= 128
    IN  CASE scancode = 224 -> [k EXCEPT !.e0 = TRUE]
          [] scancode # 224 /\ k.e0 ->
               LET n == [k EXCEPT !.e0 = FALSE]
               IN  CASE key = 29 -> SetModifier(n, {"ctrl"}, release)
                     [] key = 56 -> SetModifier(n, {"alt"}, release)
                     [] OTHER -> n
          [] scancode # 224 /\ ~k.e0 /\ key = 58 ->
               IF release THEN k
               ELSE IF "caps" \in k.m THEN [k EXCEPT !.m = @ \ {"caps"}]
               ELSE [k EXCEPT !.m = @ \cup {"caps"}]
          [] scancode # 224 /\ ~k.e0 /\ key # 58 /\ modifier_scancodes[key] # {} ->
               SetModifier(k, modifier_scancodes[key], release)
          [] OTHER -> IF release \/ Rune(k.m, key) = "" THEN k
                      ELSE [k EXCEPT !.out = Append(@, Rune(k.m, key))]

(* Mutant: the handler takes the mouse's bytes too. *)
TakenAny(aux) == IF Len(obuf) < Burst THEN Len(obuf) ELSE Burst

(* How many bytes a handler takes: those of its device that come first. *)
Taken(aux) ==
    CHOOSE n \in 0..Burst :
      /\ n <= Len(obuf) /\ \A i \in 1..n : obuf[i].aux = aux
      /\ n < Burst /\ n < Len(obuf) => obuf[n + 1].aux # aux

(* The bytes are gone; each that became the first raised its interrupt. *)
Handle(irq, n) ==
    /\ step = "on" /\ irq \in irqs
    /\ obuf' = SubSeq(obuf, n + 1, Len(obuf))
    /\ irqs' = (irqs \ {irq}) \cup {IrqOf(obuf[i]) : i \in 2..(n + 1) \cap DOMAIN obuf}

Bytes(n) == [i \in 1..n |-> obuf[i].byte]

kbd_interrupt ==
    LET n == Taken(FALSE)
        k == FoldLeft(kbd_handle_scancode, [m |-> kbd_modifiers, e0 |-> e0, out |-> runes], Bytes(n))
    IN  /\ Handle("kbd", n)
        /\ kbd_modifiers' = k.m /\ e0' = k.e0 /\ runes' = k.out
        /\ UNCHANGED <<step, kbd_on, mouse_on, reports, calm, mouseVars, userVars>>

(* (i8)b, and with the sign bit or'ed in. *)
Signed(b) == IF b < 128 THEN b ELSE b - 256
Delta(b, flags, sign, overflow) ==
    IF Bit(flags, overflow) THEN 0
    ELSE IF Bit(flags, sign) THEN b - 256 ELSE Signed(b)

(* m is [buf, x, y, buttons, out].  A first byte without bit 3 is skipped. *)
mouse_byte(m, data) ==
    LET buf == Append(m.buf, data)
        dx == Delta(buf[2], buf[1], 16, 64)
        dy == -Delta(buf[3], buf[1], 32, 128)
        buttons == buf[1] % 8
    IN  CASE m.buf = <<>> /\ ~Bit(data, 8) -> m
          [] Len(buf) < 3 /\ (m.buf # <<>> \/ Bit(data, 8)) -> [m EXCEPT !.buf = buf]
          [] OTHER -> IF mouse_enabled
                      THEN [buf |-> <<>>, x |-> m.x + dx, y |-> m.y + dy, buttons |-> buttons,
                            out |-> Append(m.out, [dx |-> dx, dy |-> dy, buttons |-> buttons])]
                      ELSE [m EXCEPT !.buf = <<>>]

mouse_interrupt ==
    LET n == Taken(TRUE)
        m == FoldLeft(mouse_byte, [buf |-> mouse_buf, x |-> mouse_x, y |-> mouse_y,
                                   buttons |-> mouse_buttons, out |-> events], Bytes(n))
    IN  /\ Handle("mouse", n)
        /\ mouse_buf' = m.buf /\ mouse_x' = m.x /\ mouse_y' = m.y
        /\ mouse_buttons' = m.buttons /\ events' = m.out
        /\ UNCHANGED <<step, kbd_on, mouse_on, reports, calm, kbdVars, mouse_enabled, userVars>>

(* "ena..." and "dis..." *)
mousectl_write(enable) ==
    /\ step = "on" /\ nctl < MaxCtl
    /\ nctl' = nctl + 1
    /\ mouse_enabled' = enable
    /\ UNCHANGED <<ctlVars, kbdVars, mouse_buf, mouse_x, mouse_y, mouse_buttons, events,
                   typed_runes, moves, down, shift_held, caps_lock, nkeys, npackets>>

Ps2Next == \/ ps2_init \/ kbd_interrupt \/ mouse_interrupt
           \/ \E key \in Keys, release \in BOOLEAN : Key(key, release)
           \/ \E p \in Packets : Packet(p)
           \/ \E enable \in BOOLEAN : mousectl_write(enable)

Ps2Spec == Ps2Init /\ [][Ps2Next]_Ps2Vars

-----------------------------------------------------------------------------
(* Properties *)

(* Every variable has its type. *)
Ps2TypeOK ==
    /\ step \in {"disable", "flush", "reset", "read 1", "read 2", "enable", "read 3", "on"}
    /\ obuf \in Seq([aux : BOOLEAN, byte : 0..255]) /\ irqs \subseteq {"kbd", "mouse"}
    /\ {kbd_on, mouse_on, reports, e0, mouse_enabled, shift_held, caps_lock} \subseteq BOOLEAN
    /\ calm \subseteq {"kbd", "mouse"}
    /\ kbd_modifiers \subseteq {"shift", "ctrl", "alt", "caps"}
    /\ down \subseteq Keys /\ mouse_buf \in Seq(0..255) /\ Len(mouse_buf) < 3
    /\ mouse_x \in Int /\ mouse_y \in Int /\ mouse_buttons \in 0..7
    /\ nkeys \in 0..MaxKeys /\ npackets \in 0..MaxPackets /\ nctl \in 0..MaxCtl

Travel(x, e) == x + e.dx
Travelled(es) == FoldLeft(Travel, 0, es)

(* The programs get what the user did: the runes of the keys, with the     *)
(* modifiers as the user last left them when the key went down, and the    *)
(* movements of the mouse, in order and none made up, however the bytes of *)
(* the two devices mix in the one buffer, split over interrupts, and       *)
(* although keys are handled later than they are pressed.  Nothing is      *)
(* missing once the buffer is empty, unless mousectl has turned the mouse  *)
(* off, and the position is the sum of the movements.  It holds of a       *)
(* device when ps2_init has read its answers and nothing else: of the      *)
(* mouse only if it does not acknowledge the reset.                        *)
InputAsSent ==
    /\ "kbd" \in calm => /\ IsPrefix(runes, typed_runes)
                         /\ obuf = <<>> => runes = typed_runes
    /\ "mouse" \in calm => /\ nctl = 0 => IsPrefix(events, moves)
                           /\ obuf = <<>> /\ nctl = 0 => events = moves
                           /\ mouse_x = Travelled(events)
=============================================================================
