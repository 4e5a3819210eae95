-------------------------------- MODULE Ring --------------------------------
(***************************************************************************)
(* The keyboard ring (ring.h, ps2.c, devfs.c): ring_write in the interrupt *)
(* handler on the boot CPU, ring_read in read system calls on every CPU.   *)
(* Nothing locks the ring.  A system call has interrupts off, so on one    *)
(* CPU reads and writes exclude each other; on several they interleave,    *)
(* and len++ and len -= n are a load and a store.                          *)
(*                                                                         *)
(* The bytes are numbered in the order they are typed: byte k is k.        *)
(***************************************************************************)
EXTENDS Naturals, Integers, Sequences, FiniteSets, SequencesExt

CONSTANTS
    RingCpus,   \* the processors
    KbdCpu,     \* the one the keyboard interrupts
    Cap,        \* r->cap
    U32,        \* 2^w, the values of a u32
    MaxByte,    \* bound: bytes typed in all
    MaxRune,    \* the longest encoding of a key
    OutCap      \* the sizes of the readers' buffers

ASSUME RingAssumption ==
    /\ KbdCpu \in RingCpus
    /\ Cap \in Nat \ {0} /\ U32 \in Nat /\ 2 * Cap < U32
    /\ MaxByte \in Nat /\ MaxRune \in Nat
    /\ OutCap \subseteq 1..(U32 - 1)

VARIABLES
    ring_buf, ring_head, ring_len,  \* ring_t; a byte never written is 0
    typed,                          \* the bytes the handler has been given
    wdata, wlen,                    \* the handler: bytes still to put, its load of len
    rpc,                            \* per CPU
    rn, ri, ridx, rlen,             \* per CPU: the locals of ring_read, its load of len
    rout                            \* what readers have got, in the order of the copies

ringVars == <<ring_buf, ring_head, ring_len>>
wVars == <<typed, wdata, wlen>>
rVars == <<rn, ri, ridx, rlen, rout>>
RingVars == <<ringVars, wVars, rpc, rVars>>

RingInit ==
    /\ ring_buf = [k \in 0..(Cap - 1) |-> 0] /\ ring_head = 0 /\ ring_len = 0
    /\ typed = 0 /\ wdata = <<>> /\ wlen = 0
    /\ rpc = [c \in RingCpus |-> "idle"]
    /\ rn = [c \in RingCpus |-> 0] /\ ri = [c \in RingCpus |-> 0]
    /\ ridx = [c \in RingCpus |-> 0] /\ rlen = [c \in RingCpus |-> 0]
    /\ rout = <<>>

RingGoto(c, l) == rpc' = [rpc EXCEPT ![c] = l]

-----------------------------------------------------------------------------
(* ring_write, in the interrupt handler *)

(* A key of k bytes. *)
kbd_put_rune(k) ==
    /\ rpc[KbdCpu] = "idle" /\ typed + k <= MaxByte
    /\ typed' = typed + k
    /\ wdata' = [j \in 1..k |-> typed + j]
    /\ RingGoto(KbdCpu, IF k >= Cap THEN "fill" ELSE "putc")
    /\ UNCHANGED <<ringVars, wlen, rVars>>

(* Mutant: the first cap bytes are kept, not the last. *)
RingFillFirst ==
    /\ rpc[KbdCpu] = "fill"
    /\ ring_head' = 0 /\ ring_len' = Cap
    /\ ring_buf' = [k \in 0..(Cap - 1) |-> wdata[k + 1]]
    /\ wdata' = <<>>
    /\ RingGoto(KbdCpu, "idle")
    /\ UNCHANGED <<typed, wlen, rVars>>

(* At least cap bytes: the last cap of them replace everything. *)
RingFill ==
    /\ rpc[KbdCpu] = "fill"
    /\ ring_head' = 0 /\ ring_len' = Cap
    /\ ring_buf' = [k \in 0..(Cap - 1) |-> wdata[Len(wdata) - Cap + k + 1]]
    /\ wdata' = <<>>
    /\ RingGoto(KbdCpu, "idle")
    /\ UNCHANGED <<typed, wlen, rVars>>

(* ring_putc: the byte, the head, then len. *)
PutStore ==
    /\ rpc[KbdCpu] = "putc"
    /\ ring_buf' = [ring_buf EXCEPT ![ring_head] = Head(wdata)]
    /\ RingGoto(KbdCpu, "head")
    /\ UNCHANGED <<ring_head, ring_len, wVars, rVars>>

(* Mutant: head is not wrapped. *)
PutHeadNoWrap ==
    /\ rpc[KbdCpu] = "head"
    /\ ring_head' = ring_head + 1
    /\ wlen' = ring_len
    /\ RingGoto(KbdCpu, "len")
    /\ UNCHANGED <<ring_buf, ring_len, typed, wdata, rVars>>

PutHead ==
    /\ rpc[KbdCpu] = "head"
    /\ ring_head' = IF ring_head + 1 = Cap THEN 0 ELSE ring_head + 1
    /\ wlen' = ring_len
    /\ RingGoto(KbdCpu, "len")
    /\ UNCHANGED <<ring_buf, ring_len, typed, wdata, rVars>>

PutLen ==
    /\ rpc[KbdCpu] = "len"
    /\ ring_len' = IF wlen < Cap THEN wlen + 1 ELSE ring_len
    /\ wdata' = Tail(wdata)
    /\ RingGoto(KbdCpu, IF Len(wdata) > 1 THEN "putc" ELSE "idle")
    /\ UNCHANGED <<ring_buf, ring_head, typed, wlen, rVars>>

-----------------------------------------------------------------------------
(* ring_read, in kbd_read and cons_read *)

ring_read(c, w) ==
    /\ rpc[c] = "idle" /\ ring_len > 0
    /\ rn' = [rn EXCEPT ![c] = IF ring_len > w THEN w ELSE ring_len]
    /\ ri' = [ri EXCEPT ![c] = 0]
    /\ RingGoto(c, "start")
    /\ UNCHANGED <<ringVars, wVars, ridx, rlen, rout>>

(* (head - len) mod cap, in u32 arithmetic. *)
ring_start == IF ring_head >= ring_len THEN ring_head - ring_len ELSE (Cap - (ring_len - ring_head)) % U32

ReadStart(c) ==
    /\ rpc[c] = "start"
    /\ ridx' = [ridx EXCEPT ![c] = ring_start]
    /\ RingGoto(c, "copy")
    /\ UNCHANGED <<ringVars, wVars, rn, ri, rlen, rout>>

(* One byte is copied; an index outside the storage reads something else. *)
ReadCopy(c) ==
    /\ rpc[c] = "copy" /\ ri[c] < rn[c]
    /\ rout' = Append(rout, IF ridx[c] \in DOMAIN ring_buf THEN ring_buf[ridx[c]] ELSE 0)
    /\ ri' = [ri EXCEPT ![c] = @ + 1]
    /\ ridx' = [ridx EXCEPT ![c] = IF @ + 1 = Cap THEN 0 ELSE @ + 1]
    /\ UNCHANGED <<ringVars, wVars, rpc, rn, rlen>>

ReadLoad(c) ==
    /\ rpc[c] = "copy" /\ ri[c] = rn[c]
    /\ rlen' = [rlen EXCEPT ![c] = ring_len]
    /\ RingGoto(c, "sub")
    /\ UNCHANGED <<ringVars, wVars, rn, ri, ridx, rout>>

ReadStore(c) ==
    /\ rpc[c] = "sub"
    /\ ring_len' = (rlen[c] - rn[c]) % U32
    /\ RingGoto(c, "idle")
    /\ UNCHANGED <<ring_buf, ring_head, wVars, rVars>>

-----------------------------------------------------------------------------
ring_write == RingFill \/ PutStore \/ PutHead \/ PutLen
Reader(c) == ReadStart(c) \/ ReadCopy(c) \/ ReadLoad(c) \/ ReadStore(c)

RingNext ==
    \/ \E k \in 1..MaxRune : kbd_put_rune(k)
    \/ ring_write
    \/ \E c \in RingCpus : Reader(c) \/ \E w \in OutCap : ring_read(c, w)

RingSpec == RingInit /\ [][RingNext]_RingVars

-----------------------------------------------------------------------------
(* Properties *)

(* Every variable has its type. *)
RingTypeOK ==
    /\ ring_buf \in [0..(Cap - 1) -> 0..MaxByte]
    /\ ring_head \in 0..(Cap - 1)
    /\ ring_len \in 0..(U32 - 1) /\ wlen \in 0..(U32 - 1)
    /\ typed \in 0..MaxByte
    /\ wdata \in Seq(1..MaxByte)
    /\ rpc \in [RingCpus -> {"idle", "fill", "putc", "head", "len", "start", "copy", "sub"}]
    /\ {rn, ri, ridx, rlen} \subseteq [RingCpus -> 0..(U32 - 1)]
    /\ rout \in Seq(0..MaxByte)

(* The last byte read, and what is in the ring, oldest first. *)
LastRead == IF rout = <<>> THEN 0 ELSE Last(rout)
Held == [j \in 1..ring_len |-> ring_buf[(ring_start + j - 1) % Cap]]

(* Readers get the bytes in the order they were typed and none twice, and  *)
(* only overflow loses any: between calls the ring holds the last bytes    *)
(* typed since the last one that was read, as many as fit, oldest first.   *)
OnlyOverflowLoses ==
    /\ \A j \in 1..(Len(rout) - 1) : 0 < rout[j] /\ rout[j] < rout[j + 1]
    /\ (\A c \in RingCpus : rpc[c] = "idle") =>
         LET kept == IF typed - LastRead < Cap THEN typed - LastRead ELSE Cap
         IN  Held = [j \in 1..kept |-> typed - kept + j]
=============================================================================
