-------------------------------- MODULE Exec --------------------------------
(***************************************************************************)
(* Loading a program (proc.c): read_elf, elf_load_segments, and for exec   *)
(* setup_user_stack.  What becomes of the frames and the page tables is in *)
(* AddrSpace; here a page is its bytes.                                    *)
(*                                                                         *)
(* A program is [valid, phdr]: whether e_magic and the others are right,   *)
(* and the headers, [load, vaddr, offset, filesz, memsz, w].  An argv is   *)
(* the lengths of its strings, with their NUL.                             *)
(*                                                                         *)
(* The byte at offset o of the file is o + 1, Junk is what a page from     *)
(* kalloc may hold.  On the stack a word v is the bytes <<v, 0>>, <<v, 1>> *)
(* and so on, and <<>> is a zero that nothing was written over.            *)
(***************************************************************************)
EXTENDS Naturals, Integers, Sequences, SequencesExt, FiniteSetsExt

CONSTANTS
    PAGE_SIZE, WordSize,
    FileSize,       \* of the program's file
    HeaderSize,     \* the ELF and program headers, at its start
    Jobs,           \* the programs and their arguments, [prog, argv]
    StackBase       \* USER_STACK_BASE; USER_STACK_TOP is one page above

ASSUME ExecAssumption ==
    /\ PAGE_SIZE \in Nat \ {0} /\ WordSize \in Nat \ {0} /\ PAGE_SIZE % (2 * WordSize) = 0
    /\ StackBase \in Nat \ {0} /\ StackBase % PAGE_SIZE = 0
    /\ FileSize \in Nat /\ HeaderSize \in 0..FileSize

Junk == -1
NoArgv == <<0>>             \* proc_create has no arguments to pass
Phdr == [load : BOOLEAN, vaddr : Nat, offset : Nat, filesz : Nat, memsz : Nat, w : BOOLEAN]

ASSUME JobsAssumption ==
    \A j \in Jobs :
      /\ j = [prog |-> [valid |-> j.prog.valid, phdr |-> j.prog.phdr], argv |-> j.argv]
      /\ j.prog.valid \in BOOLEAN /\ j.prog.phdr \in Seq(Phdr)
      /\ j.argv = NoArgv \/ j.argv \in Seq(Nat \ {0})

StackTop == StackBase + PAGE_SIZE
PageOf(a) == a - (a % PAGE_SIZE)
InPage == 0..(PAGE_SIZE - 1)

VARIABLES
    epc,            \* "idle", "load", "stack", "args", "done", "failed"
    prog, argv,     \* the arguments
    got,            \* how much of the file vfs_read has read
    hdr, va,        \* the header and the page that are next
    image,          \* the pages mapped so far: [b, w]
    arg, sp, uvas,  \* setup_user_stack: the argument that is next, str_ptr, argv_uvas
    rsp,            \* what the program starts with
    wild            \* ghost: something was written below the stack page

ExecVars == <<epc, prog, argv, got, hdr, va, image, arg, sp, uvas, rsp, wild>>

ExecInit ==
    /\ epc = "idle" /\ \E j \in Jobs : prog = j.prog /\ argv = j.argv
    /\ got = 0 /\ hdr = 1 /\ va = 0
    /\ image = [p \in {} |-> <<>>]
    /\ arg = 0 /\ sp = 0 /\ uvas = <<>> /\ rsp = 0 /\ wild = FALSE

-----------------------------------------------------------------------------
(* read_elf takes any read that is not an error for a complete one.  A     *)
(* read stops at a block of the disk, so the headers are there.            *)
read_elf ==
    /\ epc = "idle"
    /\ \/ epc' = "failed" /\ UNCHANGED got
       \/ /\ got' \in HeaderSize..FileSize
          /\ epc' = IF prog.valid THEN "next" ELSE "failed"
    /\ UNCHANGED <<prog, argv, hdr, va, image, arg, sp, uvas, rsp, wild>>

elf_buf(o) == IF o < got THEN o + 1 ELSE Junk

-----------------------------------------------------------------------------
(* elf_load_segments *)

VaStart(h) == PageOf(h.vaddr)
VaEnd(h) == PageOf(h.vaddr + h.memsz + PAGE_SIZE - 1)

(* The next header; others than PT_LOAD are passed over. *)
NextHeader ==
    /\ epc = "next"
    /\ IF hdr > Len(prog.phdr) THEN epc' = "stack" /\ va' = StackBase /\ UNCHANGED hdr
       ELSE LET h == prog.phdr[hdr]
            IN  IF h.load THEN epc' = "load" /\ va' = VaStart(h) /\ UNCHANGED hdr
                ELSE hdr' = hdr + 1 /\ UNCHANGED <<epc, va>>
    /\ UNCHANGED <<prog, argv, got, image, arg, sp, uvas, rsp, wild>>

Map(p, b, w) == image' = [q \in DOMAIN image \cup {p} |-> IF q = p THEN [b |-> b, w |-> w] ELSE image[q]]

(* Mutant: the last page of the file's bytes is copied whole. *)
PageBytesWhole(h, p) ==
    LET end == h.vaddr + h.filesz
        from == IF p > h.vaddr THEN p ELSE h.vaddr
    IN  [k \in InPage |-> IF p < end /\ p + k >= from THEN elf_buf(h.offset + p + k - h.vaddr) ELSE 0]

(* A page of zeros, and what the file has of it. *)
PageBytes(h, p) ==
    LET seg_file_end == h.vaddr + h.filesz
        copy_start == IF p > h.vaddr THEN p ELSE h.vaddr
        copy_end == IF p + PAGE_SIZE < seg_file_end THEN p + PAGE_SIZE ELSE seg_file_end
        src_off == h.offset + (copy_start - h.vaddr)
        dst_off == copy_start - p
        copied == IF p + PAGE_SIZE > h.vaddr /\ p < seg_file_end
                  THEN dst_off..(dst_off + (copy_end - copy_start) - 1) ELSE {}
    IN  [k \in InPage |-> IF k \in copied THEN elf_buf(src_off + (k - dst_off)) ELSE 0]

LoadPage ==
    /\ epc = "load"
    /\ LET h == prog.phdr[hdr]
       IN  IF va < VaEnd(h) THEN /\ Map(va, PageBytes(h, va), h.w)
                                 /\ va' = va + PAGE_SIZE
                                 /\ UNCHANGED <<epc, hdr>>
           ELSE epc' = "next" /\ hdr' = hdr + 1 /\ UNCHANGED <<va, image>>
    /\ UNCHANGED <<prog, argv, got, arg, sp, uvas, rsp, wild>>

(* The pages of the stack; then proc_create starts at USER_STACK_TOP. *)
StackPage ==
    /\ epc = "stack"
    /\ IF va < StackTop + PAGE_SIZE
       THEN /\ Map(va, [k \in InPage |-> <<>>], TRUE)
            /\ va' = va + PAGE_SIZE
            /\ UNCHANGED <<epc, rsp, arg, sp>>
       ELSE /\ epc' = IF argv = NoArgv THEN "done" ELSE "args"
            /\ rsp' = StackTop /\ arg' = Len(argv) /\ sp' = PAGE_SIZE
            /\ UNCHANGED <<va, image>>
    /\ UNCHANGED <<prog, argv, got, hdr, uvas, wild>>

(* kalloc fails. *)
LoadFails ==
    /\ epc \in {"load", "stack"}
    /\ epc' = "failed"
    /\ UNCHANGED <<prog, argv, got, hdr, va, image, arg, sp, uvas, rsp, wild>>

-----------------------------------------------------------------------------
(* setup_user_stack, in the page at USER_STACK_BASE *)

(* memcpy to the page: what falls below it is lost to the program. *)
Write(off, bytes) ==
    /\ image' = [image EXCEPT ![StackBase].b =
         [k \in InPage |-> IF k - off + 1 \in DOMAIN bytes THEN bytes[k - off + 1] ELSE @[k]]]
    /\ wild' = (wild \/ off < 0)

(* kalloc fails for the table of pointers: the program gets no arguments. *)
ArgsFail ==
    /\ epc = "args" /\ arg = Len(argv)
    /\ epc' = "done"
    /\ UNCHANGED <<prog, argv, got, hdr, va, image, arg, sp, uvas, rsp, wild>>

(* The strings, the last first, from the top of the page down. *)
String(i) == [j \in 1..argv[i] |-> <<"char", i, j>>]
CopyString ==
    /\ epc = "args" /\ arg > 0
    /\ sp' = sp - argv[arg]
    /\ Write(sp', String(arg))
    /\ uvas' = <<StackBase + sp'>> \o uvas
    /\ arg' = arg - 1
    /\ UNCHANGED <<epc, prog, argv, got, hdr, va, rsp>>

(* rsp &= ~15 *)
AlignDown(a) == a - (a % (2 * WordSize))

WordBytes(vs) == [k \in 1..(WordSize * Len(vs)) |->
                    <<vs[(k - 1) \div WordSize + 1], (k - 1) % WordSize>>]

(* Mutant: the pointers are pushed in the order of the strings. *)
PushTableBackward ==
    /\ epc = "args" /\ arg = 0
    /\ LET words == <<Len(argv)>> \o Reverse(uvas) \o <<0, 0>>
           off == AlignDown(StackBase + sp) - StackBase - WordSize * Len(words)
       IN  Write(off, WordBytes(words)) /\ rsp' = StackBase + off
    /\ epc' = "done"
    /\ UNCHANGED <<prog, argv, got, hdr, va, arg, sp, uvas>>

(* argc, the pointers, and a null for argv and one for envp. *)
PushTable ==
    /\ epc = "args" /\ arg = 0
    /\ LET words == <<Len(argv)>> \o uvas \o <<0, 0>>
           off == AlignDown(StackBase + sp) - StackBase - WordSize * Len(words)
       IN  Write(off, WordBytes(words)) /\ rsp' = StackBase + off
    /\ epc' = "done"
    /\ UNCHANGED <<prog, argv, got, hdr, va, arg, sp, uvas>>

ExecNext == \/ read_elf \/ NextHeader \/ LoadPage \/ StackPage \/ LoadFails
            \/ ArgsFail \/ CopyString \/ PushTable

ExecSpec == ExecInit /\ [][ExecNext]_ExecVars

-----------------------------------------------------------------------------
(* Properties *)

ExecTypeOK ==
    /\ epc \in {"idle", "next", "load", "stack", "args", "done", "failed"}
    /\ [prog |-> prog, argv |-> argv] \in Jobs
    /\ got \in 0..FileSize /\ hdr \in 1..(Len(prog.phdr) + 1) /\ va \in Nat
    /\ \A p \in DOMAIN image : p % PAGE_SIZE = 0 /\ DOMAIN image[p].b = InPage /\ image[p].w \in BOOLEAN
    /\ arg \in 0..Len(argv) /\ sp \in Int /\ rsp \in Int /\ wild \in BOOLEAN

Loads == {i \in DOMAIN prog.phdr : prog.phdr[i].load}
Touches(i, p) == LET h == prog.phdr[i] IN p + PAGE_SIZE > h.vaddr /\ p < h.vaddr + h.memsz

(* The byte that header h puts at address a. *)
ByteOf(h, a) == IF a \in h.vaddr..(h.vaddr + h.filesz - 1) THEN h.offset + a - h.vaddr + 1 ELSE 0

(* A program that has been loaded finds in its pages the bytes of its file *)
(* and zeros elsewhere, writable as its headers say, and no other page but *)
(* the stack.  A page that two segments share has those of the later one   *)
(* only, and what a short read left out is junk.                           *)
ImageLoaded ==
    epc \in {"args", "done"} =>
      /\ DOMAIN image = {p \in {PageOf(a) : a \in 0..(StackTop + PAGE_SIZE - 1)} :
                           p >= StackBase \/ \E i \in Loads : Touches(i, p)}
      /\ \A p \in {q \in DOMAIN image : q < StackBase} :
           LET h == prog.phdr[Max({i \in Loads : Touches(i, p)})]
           IN  /\ image[p].w = h.w
               /\ \A k \in InPage : image[p].b[k] =
                                   IF ByteOf(h, p + k) > got THEN Junk ELSE ByteOf(h, p + k)

(* What the program reads on its stack. *)
StackByte(a) == image[PageOf(a)].b[a % PAGE_SIZE]
Holds(a, v) == \A k \in 0..(WordSize - 1) : StackByte(a + k) = <<v, k>>
ArgAt(i) == rsp + WordSize * i

(* room[i] is what is left of the page when the strings after i are in it. *)
Room(room) == /\ room[Len(argv)] = PAGE_SIZE
              /\ \A i \in 1..Len(argv) : room[i - 1] = room[i] - argv[i]
Fits == \E room \in [0..Len(argv) -> 0..PAGE_SIZE] :
          Room(room) /\ AlignDown(room[0]) >= WordSize * (Len(argv) + 3)

(* No arguments at all, or all of them. *)
NoArgs == rsp = StackTop /\ \A k \in InPage : StackByte(StackTop + k) = <<>>
AllArgs ==
    /\ Holds(rsp, Len(argv))
    /\ \A i \in 1..Len(argv) :
         \E a \in StackBase..(StackTop - 1) :
           Holds(ArgAt(i), a) /\ \A j \in 1..argv[i] : StackByte(a + j - 1) = <<"char", i, j>>
    /\ Holds(ArgAt(Len(argv) + 1), 0) /\ Holds(ArgAt(Len(argv) + 2), 0)

(* A program that exec starts finds argc at rsp, above it argv, a null and *)
(* a null for envp, and each pointer leads to its string, whole, if they   *)
(* fit in the page; if kalloc failed it finds none at all.                 *)
ArgsIntact == epc = "done" /\ argv # NoArgv /\ Fits => ~wild /\ (NoArgs \/ AllArgs)
=============================================================================
