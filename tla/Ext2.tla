-------------------------------- MODULE Ext2 --------------------------------
(***************************************************************************)
(* The ext2 file system (ext2.c), read only: mounting it, the map from the *)
(* blocks of a file to the blocks of the disk, reading a file, looking a   *)
(* name up and listing a directory, with disk blocks that cannot be read   *)
(* and with kalloc failing.                                                *)
(*                                                                         *)
(* The disk holds one file and one directory.  Which block of the disk is  *)
(* block l of the file is Data(l); the pointer blocks are built from it,   *)
(* and ext2_block_map must find its way back.  A block is named by what it *)
(* is for, <<kind, first block of the file>>, a byte of the disk is        *)
(* <<block, offset>>.                                                      *)
(***************************************************************************)
EXTENDS Naturals, Integers, Sequences, FiniteSets, SequencesExt

CONSTANTS
    BlockSize,      \* p->block_size, in bytes
    Ptrs,           \* p->block_size / 4
    Size,           \* the size of the file in bytes
    Holes,          \* the sets of its blocks that may be absent
    Dirents,        \* the directory: [off, rec, ino, name], blocks filled exactly
    DirentHeader,   \* the least rec_len: 8
    Unreadable,     \* the sets of disk blocks that may fail in one call
    Counts,         \* the byte counts of reads
    Offsets,        \* the arguments of seek
    U64,            \* 2^w, the values of a u64
    BgdtBlocks      \* how many blocks the group descriptors take

ASSUME Ext2Assumption ==
    /\ BlockSize \in Nat \ {0} /\ Ptrs \in Nat \ {0} /\ Size \in Nat
    /\ Size <= BlockSize * (12 + Ptrs + Ptrs * Ptrs + Ptrs * Ptrs * Ptrs)
    /\ U64 \in Nat /\ Offsets \subseteq 0..(U64 - 1)
    \* sys_read passes a u32 on, which does not wrap at the end of a file
    /\ Counts \subseteq Nat /\ \A c \in Counts \cup {0} : Size + c < U64
    /\ BgdtBlocks \in Nat /\ DirentHeader \in Nat

(* A directory as it is written: one record after the other, a name once,  *)
(* and nothing in use after a record that is too short.                    *)
ASSUME DirentsAssumption ==
    /\ Dirents \in Seq([off : Nat, rec : Nat \ {0}, ino : Nat, name : STRING])
    /\ Dirents # <<>> => Dirents[1].off = 0
    /\ \A i \in 1..(Len(Dirents) - 1) : Dirents[i + 1].off = Dirents[i].off + Dirents[i].rec
    /\ \A i, j \in DOMAIN Dirents :
         /\ Dirents[i].ino # 0 /\ Dirents[j].ino # 0 /\ Dirents[i].name = Dirents[j].name => i = j
         /\ Dirents[i].rec < DirentHeader /\ i <= j => Dirents[j].ino = 0

Sq == Ptrs * Ptrs
NBlocks == 12 + Ptrs + Sq + Sq * Ptrs
Absent == <<"none", 0>>     \* the block number 0
Unread == <<"unread", 0>>   \* whatever kalloc's page holds

VARIABLES
    opened_is,      \* what is open: the "file" or the "dir"ectory
    holes,          \* the blocks of the file that are absent
    mstep, mstate,  \* ext2_mount_fs: its next step, and whether it runs
    held,           \* the pages the mount holds
    pos,            \* f->pos of the open file
    reading,        \* ext2_read runs
    last,           \* the last read: where, how much, what came, what failed
    dpos, listed,   \* f->pos of the open directory, the entries listed so far
    begin,          \* ghost: where that listing began
    dend            \* the last ext2_readdir found the end, without a failure

Ext2Vars == <<opened_is, holes, mstep, mstate, held, pos, reading, last, dpos, begin, listed, dend>>

NoRead == [from |-> 0, count |-> 0, out |-> <<>>, bad |-> {}, poor |-> {}]

Ext2Init ==
    /\ opened_is \in {"file", "dir"}
    /\ holes \in IF opened_is = "file" THEN Holes ELSE {{}}
    /\ mstep = 1 /\ mstate = "idle" /\ held = {}
    /\ pos = 0 /\ reading = FALSE /\ last = NoRead
    /\ dpos = 0 /\ begin = 0 /\ listed = <<>> /\ dend = FALSE

-----------------------------------------------------------------------------
(* The disk *)

(* Where block l of the file is, unless it is a hole. *)
Data(l) == IF l \in holes \/ l * BlockSize >= Size THEN Absent ELSE <<"data", l>>

(* The first block of the file that the single, double and triple indirect *)
(* block reaches, and the pointer block that reaches the n blocks from l   *)
(* on, if one of them is there.                                            *)
First == <<12, 12 + Ptrs, 12 + Ptrs + Sq>>
PtrBlock(kind, l, n) ==
    IF \E k \in l..(l + n - 1) : Data(k) # Absent THEN <<kind, l>> ELSE Absent
inode_block(k) ==
    CASE k < 12 -> Data(k)
      [] k = 12 -> PtrBlock("single", First[1], Ptrs)
      [] k = 13 -> PtrBlock("double", First[2], Sq)
      [] k = 14 -> PtrBlock("triple", First[3], Sq * Ptrs)

(* Entry i of the pointer block b.  When b cannot be read the entry is     *)
(* whatever is in the page that kalloc returned.                           *)
Entry(b, i, bad) ==
    CASE b \in bad -> Unread
      [] b \notin bad /\ b[1] = "single" -> Data(b[2] + i)
      [] b \notin bad /\ b[1] = "double" -> PtrBlock("single", b[2] + i * Ptrs, Ptrs)
      [] b \notin bad /\ b[1] = "triple" -> PtrBlock("double", b[2] + i * Sq, Sq)

(* From a pointer block on: a 0 on the way is a hole; after an entry that  *)
(* was not read anything may follow.                                       *)
Via(b, i, bad) == IF b \in {Absent, Unread} THEN b ELSE Entry(b, i, bad)
Via2(b, i, j, bad) == Via(Via(b, i, bad), j, bad)
Via3(b, i, j, k, bad) == Via(Via2(b, i, j, bad), k, bad)

(* Mutant: the double indirect blocks begin one pointer too early. *)
BlockMapShift(lbn, bad) ==
    LET s == lbn - 12
        d == lbn - First[2] + 1
        t == lbn - First[3]
    IN  CASE lbn < 12 -> inode_block(lbn)
          [] lbn >= 12 /\ s < Ptrs - 1 -> Via(inode_block(12), s, bad)
          [] s >= Ptrs - 1 /\ d < Sq -> Via2(inode_block(13), d \div Ptrs, d % Ptrs, bad)
          [] OTHER -> Via3(inode_block(14), t \div Sq, (t \div Ptrs) % Ptrs, t % Ptrs, bad)

ext2_block_map(lbn, bad) ==
    LET s == lbn - 12
        d == s - Ptrs
        t == d - Sq
    IN  CASE lbn < 12 -> inode_block(lbn)
          [] lbn >= 12 /\ s < Ptrs -> Via(inode_block(12), s, bad)
          [] s >= Ptrs /\ d < Sq -> Via2(inode_block(13), d \div Ptrs, d % Ptrs, bad)
          [] OTHER -> Via3(inode_block(14), t \div Sq, (t \div Ptrs) % Ptrs, t % Ptrs, bad)

-----------------------------------------------------------------------------
(* Mounting: each step allocates a page, frees one, or reads and checks;   *)
(* `undo' is what the code frees when the step fails.                      *)

Alloc(x, u) == [kind |-> "alloc", page |-> x, undo |-> u]
Check(x, u) == [kind |-> "check", page |-> x, undo |-> u]
Free(x) == [kind |-> "free", page |-> x, undo |-> {}]

MountHead == <<Alloc("raw", {}), Check("superblock", {"raw"}), Check("signature", {"raw"}),
               Alloc("priv", {"raw"}), Alloc("bgdt", {"raw", "priv"})>>
(* The reads of the group descriptors are not checked. *)
MountBgdt == [k \in 1..(2 * BgdtBlocks) |->
                IF k % 2 = 1 THEN Alloc("tmp", {"bgdt", "raw", "priv"}) ELSE Free("tmp")]
MountRoot == <<Free("raw"), Alloc("buf", {"bgdt", "priv"}),
               Check("root inode", {"buf", "bgdt", "priv"}), Free("buf"),
               Alloc("copy", {"bgdt", "priv"}), Alloc("vino", {"copy", "bgdt", "priv"}),
               Alloc("dentry", {"copy", "vino", "bgdt", "priv"})>>
ext2_mount_fs == MountHead \o MountBgdt \o MountRoot

(* Mutant: the pages of the root inode are forgotten. *)
FailForget ==
    /\ mstate = "mounting" /\ ext2_mount_fs[mstep].kind # "free"
    /\ held' = held \ (ext2_mount_fs[mstep].undo \ {"copy", "vino"})
    /\ mstate' = "failed"
    /\ UNCHANGED <<opened_is, holes, mstep, pos, reading, last, dpos, begin, listed, dend>>

MountStart ==
    /\ mstate = "idle"
    /\ mstate' = "mounting"
    /\ UNCHANGED <<opened_is, holes, mstep, held, pos, reading, last, dpos, begin, listed, dend>>

MountStep ==
    /\ mstate = "mounting"
    /\ LET s == ext2_mount_fs[mstep]
       IN  held' = CASE s.kind = "alloc" -> held \cup {s.page}
                     [] s.kind = "free" -> held \ {s.page}
                     [] OTHER -> held
    /\ mstate' = IF mstep = Len(ext2_mount_fs) THEN "mounted" ELSE mstate
    /\ mstep' = IF mstep = Len(ext2_mount_fs) THEN mstep ELSE mstep + 1
    /\ UNCHANGED <<opened_is, holes, pos, reading, last, dpos, begin, listed, dend>>

MountFail ==
    /\ mstate = "mounting" /\ ext2_mount_fs[mstep].kind # "free"
    /\ held' = held \ ext2_mount_fs[mstep].undo
    /\ mstate' = "failed"
    /\ UNCHANGED <<opened_is, holes, mstep, pos, reading, last, dpos, begin, listed, dend>>

(* The root dentry and its inode stay allocated. *)
ext2_unmount ==
    /\ mstate = "mounted" /\ ~reading
    /\ held' = held \ {"bgdt", "priv"}
    /\ mstate' = "unmounted"
    /\ UNCHANGED <<opened_is, holes, mstep, pos, reading, last, dpos, begin, listed, dend>>

-----------------------------------------------------------------------------
(* Reading.  `bad' are the disk blocks that fail in this call, `poor' the  *)
(* blocks of the file for which kalloc fails in ext2_block_map.            *)

ext2_read(count, bad, poor) ==
    /\ mstate = "mounted" /\ opened_is = "file" /\ ~reading /\ pos < Size
    /\ LET n == IF (pos + count) % U64 > Size THEN Size - pos ELSE count
       IN  last' = [from |-> pos, count |-> n, out |-> <<>>, bad |-> bad, poor |-> poor]
    /\ reading' = TRUE
    /\ UNCHANGED <<opened_is, holes, mstep, mstate, held, pos, dpos, begin, listed, dend>>

(* The block the loop needs next: kalloc fails in ext2_block_map for some. *)
At == last.from + Len(last.out)
Lbn == At \div BlockSize
Phys == IF Lbn \in last.poor /\ Lbn >= 12 THEN Absent ELSE ext2_block_map(Lbn, last.bad)

(* One round of the loop: the rest of the block, or of what was asked for. *)
(* With a block number that was not read, what is copied is anything.      *)
ReadChunk ==
    /\ reading /\ Len(last.out) < last.count
    /\ Phys # Absent /\ Phys \notin last.bad
    /\ LET off == At % BlockSize
           rest == last.count - Len(last.out)
           chunk == IF BlockSize - off > rest THEN rest ELSE BlockSize - off
       IN  last' = [last EXCEPT !.out = @ \o [k \in 1..chunk |-> <<Phys, off + k - 1>>]]
    /\ UNCHANGED <<opened_is, holes, mstep, mstate, held, pos, reading, dpos, begin, listed, dend>>

(* The loop is done, or it ends at a hole, at a block that cannot be read  *)
(* or at a failed kalloc; a block number that was not read may be 0.       *)
ReadEnd ==
    /\ reading
    /\ Len(last.out) < last.count => Phys \in {Absent, Unread} \cup last.bad
    /\ pos' = pos + Len(last.out)
    /\ reading' = FALSE
    /\ UNCHANGED <<opened_is, holes, mstep, mstate, held, last, dpos, begin, listed, dend>>

(* vfs_seek, with ext2_getattr: an offset is a u64 and wraps. *)
vfs_seek(base, off) ==
    /\ mstate = "mounted" /\ opened_is = "file" /\ ~reading
    /\ pos' = CASE base = "SET" -> off
                [] base = "CUR" -> (pos + off) % U64
                [] base = "END" -> (Size + off) % U64
    /\ last' = NoRead
    /\ UNCHANGED <<opened_is, holes, mstep, mstate, held, reading, dpos, begin, listed, dend>>

-----------------------------------------------------------------------------
(* Directories *)

Dirent == DOMAIN Dirents
Offset(i) == Dirents[i].off
After(i) == Dirents[i].off + Dirents[i].rec
Live(i) == Dirents[i].ino # 0
DirSize == IF Dirents = <<>> THEN 0 ELSE After(Len(Dirents))
Ends == {0} \cup {After(i) : i \in Dirent}

(* The entries the loop gets to from offset o on: it stops at a block it   *)
(* cannot read and at a record shorter than its header.                    *)
Stops(i, bad) == Offset(i) \div BlockSize \in bad \/ Dirents[i].rec < DirentHeader
Seen(o, bad) ==
    {i \in Dirent : Offset(i) >= o /\ \A j \in Dirent : Offset(j) >= o /\ j <= i => ~Stops(j, bad)}

(* Mutant: a deleted entry ends the directory. *)
ReaddirStop(bad) ==
    /\ mstate = "mounted" /\ opened_is = "dir" /\ dpos \in Ends
    /\ LET s == Seen(dpos, bad) IN
       IF s # {} /\ Live(Min(s))
       THEN listed' = Append(listed, Min(s)) /\ dpos' = After(Min(s)) /\ dend' = FALSE
       ELSE dend' = (bad = {}) /\ UNCHANGED <<listed, dpos>>
    /\ UNCHANGED <<opened_is, holes, mstep, mstate, held, pos, reading, last, begin>>

(* The next entry that is in use; the position is that of the one after.   *)
(* Other positions, which vfs_seek may leave, are not modelled: in the      *)
(* middle of an entry the bytes there are taken for one, and beyond the    *)
(* end, or past 2^32 (the code keeps 32 bits), there is no promise.        *)
ext2_readdir(bad) ==
    /\ mstate = "mounted" /\ opened_is = "dir" /\ dpos \in Ends
    /\ LET s == {i \in Seen(dpos, bad) : Live(i)} IN
       IF s # {}
       THEN listed' = Append(listed, Min(s)) /\ dpos' = After(Min(s)) /\ dend' = FALSE
       ELSE dend' = (bad = {}) /\ UNCHANGED <<listed, dpos>>
    /\ UNCHANGED <<opened_is, holes, mstep, mstate, held, pos, reading, last, begin>>

(* The first entry in use with this name, or none. *)
ext2_lookup(name, bad) ==
    LET s == {i \in Seen(0, bad) : Live(i) /\ Dirents[i].name = name}
    IN  IF s = {} THEN 0 ELSE Dirents[Min(s)].ino

(* vfs_seek on the directory, whose fops have no llseek either: it is      *)
(* listed from there on.  Reading the directory with ext2_read, which      *)
(* moves f->pos too, is not modelled: vfs_seek can move it as far.         *)
vfs_seek_dir(base, off) ==
    /\ mstate = "mounted" /\ opened_is = "dir"
    /\ dpos' = CASE base = "SET" -> off
                 [] base = "CUR" -> (dpos + off) % U64
                 [] base = "END" -> (DirSize + off) % U64
    /\ begin' = dpos' /\ listed' = <<>> /\ dend' = FALSE
    /\ UNCHANGED <<opened_is, holes, mstep, mstate, held, pos, reading, last>>

Ext2Next ==
    \/ MountStart \/ MountStep \/ MountFail \/ ext2_unmount
    \/ ReadChunk \/ ReadEnd
    \/ \E c \in Counts, bad \in Unreadable, poor \in {{}, 12..NBlocks} : ext2_read(c, bad, poor)
    \/ \E base \in {"SET", "CUR", "END"}, off \in Offsets :
          vfs_seek(base, off) \/ vfs_seek_dir(base, off)
    \/ \E bad \in {{}, {1}} : ext2_readdir(bad)

Ext2Spec == Ext2Init /\ [][Ext2Next]_Ext2Vars

-----------------------------------------------------------------------------
(* Properties *)

(* Every variable has its type. *)
Ext2TypeOK ==
    /\ opened_is \in {"file", "dir"} /\ holes \in Holes \cup {{}}
    /\ mstep \in DOMAIN ext2_mount_fs
    /\ mstate \in {"idle", "mounting", "mounted", "failed", "unmounted"}
    /\ held \subseteq {"raw", "priv", "bgdt", "tmp", "buf", "copy", "vino", "dentry"}
    /\ pos \in 0..(U64 - 1) /\ reading \in BOOLEAN
    /\ {dpos, begin} \subseteq (0..(U64 - 1)) \cup Ends /\ listed \in Seq(Dirent) /\ dend \in BOOLEAN

(* A read returns the bytes of the file from the position on, over direct, *)
(* indirect and doubly and triply indirect blocks, whatever was read and   *)
(* sought before, and none beyond its end.  It is cut short only by a      *)
(* hole, by a block that cannot be read or by want of memory.  A pointer   *)
(* block that cannot be read is the exception: the code does not notice    *)
(* and goes on with what is in the buffer.                                 *)
ReadFaithful ==
    LET byte(k) == <<Data(k \div BlockSize), k % BlockSize>>
    IN  /\ \A k \in DOMAIN last.out :
             \/ last.out[k] = byte(last.from + k - 1)
             \/ last.out[k][1] = Unread /\ \E b \in last.bad : b[1] # "data"
        /\ Len(last.out) <= last.count
        /\ At <= Size
        /\ (~reading /\ last.bad = {} /\ last.poor = {} /\ Len(last.out) < last.count) =>
              Data(Lbn) = Absent

(* A mount that fails, at any of its steps, has freed everything it        *)
(* allocated, and frees nothing that it does not hold.                     *)
MountFailsClean ==
    /\ mstate = "failed" => held = {}
    /\ mstate = "mounting" => ext2_mount_fs[mstep].undo \subseteq held

(* A listing gives the entries in use in order, each once: at any moment   *)
(* those between where it began, or was sought, and the position, and at   *)
(* its end all from there on, although entries are deleted and blocks fail *)
(* to be read in between.  A name can be looked up just when it is listed. *)
DirComplete ==
    /\ \A m, n \in DOMAIN listed : m < n => listed[m] < listed[n]
    /\ Range(listed) = {i \in Dirent : Live(i) /\ begin <= Offset(i) /\ Offset(i) < dpos}
    /\ dend => \A i \in Dirent : Live(i) /\ begin <= Offset(i) => Offset(i) < dpos
    /\ \A i \in Dirent : Live(i) => ext2_lookup(Dirents[i].name, {}) = Dirents[i].ino
=============================================================================
