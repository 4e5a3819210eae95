-------------------------------- MODULE Devfs --------------------------------
(***************************************************************************)
(* The device file system (devfs.c): the table of nodes, its listing, and  *)
(* the files of its devices with their positions.  The block device is     *)
(* read and written in whole sectors through a buffer.                     *)
(*                                                                         *)
(* A byte of the disk is the number of the write it came from; Junk is     *)
(* what a page that kalloc returns may hold.                               *)
(***************************************************************************)
EXTENDS Naturals, Integers, Sequences, FiniteSets, SequencesExt, FiniteSetsExt

CONSTANTS
    DEVFS_MAX_NODES,
    DevNames,       \* the names that are registered
    SectorSize,     \* dev->sector_size, in bytes
    Sectors,        \* the sectors of the disk
    FbSize,         \* kconsole_get_size
    CtlLen,         \* the length of the text of fbctl
    IoCounts,       \* the byte counts of reads and writes
    SeekArgs,       \* the arguments of seek
    Word, U32,      \* 2^w, the values of a u64 and of a u32
    MaxReg,         \* bound: nodes ever registered
    MaxWrites       \* bound: writes to the disk

ASSUME DevfsAssumption ==
    /\ DEVFS_MAX_NODES \in Nat \ {0} /\ U32 \in Nat /\ DEVFS_MAX_NODES < U32 /\ U32 <= Word
    /\ SectorSize \in Nat \ {0} /\ Sectors \in Nat
    /\ Word \in Nat \ {0} /\ FbSize \in 0..(Word - 1) /\ CtlLen \in 0..(Word - 1)
    /\ SectorSize * (Sectors + 1) <= Word /\ MaxReg \in Nat
    /\ IoCounts \subseteq Nat /\ SeekArgs \subseteq 0..(Word - 1)

Slots == 1..DEVFS_MAX_NODES
NoNode == [name |-> "", ino |-> 0]
Junk0 == -1
Devices == {"blk", "fb", "fbctl", "null"}
Bases == {"SET", "CUR", "END"}      \* whence

VARIABLES
    nodes, next_ino,    \* g_nodes, g_next_ino
    rpos, seen, rend,   \* a listing: f->pos, the names it gave, whether it ended
    stay,               \* ghost: the names from there on that stay registered
    fpos,               \* f->pos of an open file of each device
    disk,               \* the bytes of the disk
    writes, wanted,     \* ghost: writes so far; what the disk should hold
    spoiled             \* ghost: bytes written back after a read that failed

NodeVars == <<nodes, next_ino, rpos, seen, rend, stay>>
IoVars == <<fpos, disk, writes, wanted, spoiled>>
DevfsVars == <<NodeVars, IoVars>>

DevfsInit ==
    /\ nodes = [i \in Slots |-> NoNode] /\ next_ino = 2
    /\ rpos = 0 /\ seen = <<>> /\ rend = FALSE /\ stay = {}
    /\ fpos = [v \in Devices |-> 0]
    /\ disk = [o \in 0..(Sectors * SectorSize - 1) |-> 0]
    /\ writes = 0 /\ wanted = disk /\ spoiled = {}

-----------------------------------------------------------------------------
(* The nodes *)

InUse(i) == nodes[i].ino # 0
Names == {nodes[i].name : i \in {j \in Slots : InUse(j)}}

(* Mutant: the newest node comes first. *)
RegisterSwap(name) ==
    /\ next_ino < MaxReg + 2 /\ name \notin Names /\ \E i \in Slots : ~InUse(i)
    /\ LET i == Min({j \in Slots : ~InUse(j)})
       IN  nodes' = [nodes EXCEPT ![i] = nodes[1], ![1] = [name |-> name, ino |-> next_ino]]
    /\ next_ino' = next_ino + 1
    /\ UNCHANGED <<rpos, seen, rend, stay, IoVars>>

(* The first free slot; refused when the name exists or the table is full. *)
devfs_register(name) ==
    /\ next_ino < MaxReg + 2 /\ name \notin Names /\ \E i \in Slots : ~InUse(i)
    /\ LET i == Min({j \in Slots : ~InUse(j)})
       IN  nodes' = [nodes EXCEPT ![i] = [name |-> name, ino |-> next_ino]]
    /\ next_ino' = next_ino + 1
    /\ UNCHANGED <<rpos, seen, rend, stay, IoVars>>

devfs_unregister(name) ==
    /\ name \in Names
    /\ nodes' = [i \in Slots |-> IF nodes[i].name = name THEN NoNode ELSE nodes[i]]
    /\ stay' = stay \ {name}
    /\ UNCHANGED <<next_ino, rpos, seen, rend, IoVars>>

(* The slots in use after the first n, and the number of slots that the    *)
(* listing has behind it: f->pos as a u32.                                 *)
Later(n) == {i \in Slots : i > n /\ InUse(i)}
Idx == rpos % U32

(* The next slot in use from the position on; it becomes the position. *)
devfs_readdir ==
    /\ LET later == Later(Idx)
       IN  IF later = {} THEN rend' = TRUE /\ UNCHANGED <<rpos, seen>>
           ELSE /\ rpos' = Min(later) /\ seen' = Append(seen, nodes[Min(later)].name)
                /\ rend' = FALSE
    /\ UNCHANGED <<nodes, next_ino, stay, IoVars>>

(* The directory is opened again. *)
devfs_dir_open ==
    /\ rpos' = 0 /\ seen' = <<>> /\ rend' = FALSE /\ stay' = Names
    /\ UNCHANGED <<nodes, next_ino, IoVars>>

(* Where vfs_seek goes for a file that has no llseek: getattr says 0 for   *)
(* the size of everything in devfs.                                        *)
Sought(old, base, off) == IF base = "CUR" THEN (old + off) % Word ELSE off

(* vfs_seek on the directory: it is listed from there on. *)
vfs_seek_root(base, off) ==
    /\ rpos' = Sought(rpos, base, off)
    /\ seen' = <<>> /\ rend' = FALSE
    /\ stay' = {nodes[i].name : i \in Later(Idx')}
    /\ UNCHANGED <<nodes, next_ino, IoVars>>

-----------------------------------------------------------------------------
(* The block device.  blk_read and blk_write fail on sectors it has not    *)
(* (an offset near 2^64 wraps, but its first sector is not on the disk);   *)
(* `ok' is whether the transfer succeeds.                                  *)

SectorsOf(n) == [first |-> fpos["blk"] \div SectorSize,
                 end |-> (fpos["blk"] + n + SectorSize - 1) \div SectorSize]
Fits(s) == s.end <= Sectors
Bytes(s) == (s.first * SectorSize)..(s.end * SectorSize - 1)
Advance(v, n) == fpos' = [fpos EXCEPT ![v] = (@ + n) % Word]

(* All of what was asked for, or nothing. *)
blkdev_read(n) ==
    /\ Fits(SectorsOf(n))
    /\ Advance("blk", n)
    /\ UNCHANGED <<NodeVars, disk, writes, wanted, spoiled>>

(* What the buffer holds before the new bytes are put in. *)
ReadBack(s, ok) == [o \in Bytes(s) |-> IF ok THEN disk[o] ELSE Junk0]
InRange(o, n) == fpos["blk"] <= o /\ o < fpos["blk"] + n

(* Mutant: the buffer is written back from the start of the sector. *)
WriteNoDelta(n, rok, wok) ==
    /\ Fits(SectorsOf(n)) /\ writes < MaxWrites
    /\ LET s == SectorsOf(n)
           buf == [o \in Bytes(s) |-> IF o < s.first * SectorSize + n THEN writes + 1
                                      ELSE ReadBack(s, rok)[o]]
       IN  /\ disk' = IF wok THEN [o \in DOMAIN disk |-> IF o \in Bytes(s) THEN buf[o] ELSE disk[o]]
                      ELSE disk
           /\ spoiled' = spoiled
    /\ writes' = writes + 1
    /\ wanted' = IF wok THEN [o \in DOMAIN wanted |-> IF InRange(o, n) THEN writes + 1 ELSE wanted[o]]
                 ELSE wanted
    /\ IF wok THEN Advance("blk", n) ELSE UNCHANGED fpos
    /\ UNCHANGED NodeVars

(* Read the sectors, put the new bytes in, write them back.  Whether the   *)
(* read succeeded is not looked at.                                        *)
blkdev_write(n, rok, wok) ==
    /\ Fits(SectorsOf(n)) /\ writes < MaxWrites
    /\ LET s == SectorsOf(n)
           buf == [o \in Bytes(s) |-> IF InRange(o, n) THEN writes + 1 ELSE ReadBack(s, rok)[o]]
       IN  /\ disk' = IF wok THEN [o \in DOMAIN disk |-> IF o \in Bytes(s) THEN buf[o] ELSE disk[o]]
                      ELSE disk
           /\ spoiled' = IF ~wok THEN spoiled
                         ELSE (IF rok THEN spoiled ELSE spoiled \cup Bytes(s))
                              \ {o \in Bytes(s) : InRange(o, n)}
    /\ writes' = writes + 1
    /\ wanted' = IF wok THEN [o \in DOMAIN wanted |-> IF InRange(o, n) THEN writes + 1 ELSE wanted[o]]
                 ELSE wanted
    /\ IF wok THEN Advance("blk", n) ELSE UNCHANGED fpos
    /\ UNCHANGED NodeVars

(* Anywhere: the position is not compared with the size of the disk. *)
blkdev_llseek(base, off) ==
    /\ fpos' = [fpos EXCEPT !["blk"] = IF base = "SET" THEN off ELSE (@ + off) % Word]
    /\ UNCHANGED <<NodeVars, disk, writes, wanted, spoiled>>

-----------------------------------------------------------------------------
(* The other devices *)

(* fb_dev_read and fb_dev_write, up to the end of the framebuffer. *)
fb_dev_io(n) ==
    /\ fpos["fb"] < FbSize
    /\ Advance("fb", IF fpos["fb"] + n > FbSize THEN FbSize - fpos["fb"] ELSE n)
    /\ UNCHANGED <<NodeVars, disk, writes, wanted, spoiled>>

(* Mutant: the position is not brought back to the end. *)
LlseekNoClamp(base, off) ==
    /\ LET new == CASE base = "SET" -> off
                    [] base = "CUR" -> (fpos["fb"] + off) % Word
                    [] base = "END" -> (FbSize + off) % Word
       IN  fpos' = [fpos EXCEPT !["fb"] = new]
    /\ UNCHANGED <<NodeVars, disk, writes, wanted, spoiled>>

(* A position past the end, or before the start, becomes the end. *)
fb_dev_llseek(base, off) ==
    /\ LET new == CASE base = "SET" -> off
                    [] base = "CUR" -> (fpos["fb"] + off) % Word
                    [] base = "END" -> (FbSize + off) % Word
       IN  fpos' = [fpos EXCEPT !["fb"] = IF new > FbSize THEN FbSize ELSE new]
    /\ UNCHANGED <<NodeVars, disk, writes, wanted, spoiled>>

fbctl_read(n) ==
    /\ fpos["fbctl"] < CtlLen
    /\ Advance("fbctl", IF CtlLen - fpos["fbctl"] > n THEN n ELSE CtlLen - fpos["fbctl"])
    /\ UNCHANGED <<NodeVars, disk, writes, wanted, spoiled>>

(* null_write, zero_read and cons_write: everything, always. *)
null_io(n) ==
    /\ Advance("null", n)
    /\ UNCHANGED <<NodeVars, disk, writes, wanted, spoiled>>

(* vfs_seek on a file without llseek: anywhere. *)
vfs_seek_node(v, base, off) ==
    /\ fpos' = [fpos EXCEPT ![v] = Sought(@, base, off)]
    /\ UNCHANGED <<NodeVars, disk, writes, wanted, spoiled>>

NodeNext ==
    \/ \E name \in DevNames : devfs_register(name) \/ devfs_unregister(name)
    \/ devfs_readdir \/ devfs_dir_open
    \/ \E base \in Bases, off \in SeekArgs : vfs_seek_root(base, off)
IoNext ==
    \/ \E n \in IoCounts : blkdev_read(n) \/ \E rok, wok \in BOOLEAN : blkdev_write(n, rok, wok)
    \/ \E base \in {"SET", "CUR"}, off \in SeekArgs : blkdev_llseek(base, off)
CharNext ==
    \/ \E n \in IoCounts : fb_dev_io(n) \/ fbctl_read(n) \/ null_io(n)
    \/ \E base \in Bases, off \in SeekArgs :
          fb_dev_llseek(base, off) \/ \E v \in {"fbctl", "null"} : vfs_seek_node(v, base, off)
DevfsNext == NodeNext \/ IoNext \/ CharNext

DevfsSpec == DevfsInit /\ [][DevfsNext]_DevfsVars

-----------------------------------------------------------------------------
(* Properties *)

(* Every variable has its type; the position in the framebuffer is never   *)
(* outside it, whatever is sought.  (The other files let it go anywhere.)  *)
DevfsTypeOK ==
    /\ nodes \in [Slots -> [name : DevNames \cup {""}, ino : 0..(MaxReg + 1)]]
    /\ next_ino \in 2..(MaxReg + 2)
    /\ rpos \in 0..(Word - 1) /\ seen \in Seq(DevNames) /\ rend \in BOOLEAN
    /\ stay \subseteq DevNames
    /\ fpos \in [Devices -> 0..(Word - 1)]
    /\ fpos["fb"] <= FbSize

(* Every node that stays registered while /dev is listed, from its start   *)
(* or from where it was sought, is in the listing exactly once, although   *)
(* others come and go in the slots around it.                              *)
ListedOnce ==
    \A name \in stay :
        LET times == Cardinality({k \in DOMAIN seen : seen[k] = name})
        IN  times <= 1 /\ (rend => times = 1)

(* Writing part of a sector changes the bytes written and no others: every *)
(* byte of the disk is the last one written to it.  (Not the bytes that    *)
(* blkdev_write put back without having been able to read them.)           *)
DiskAsWritten == \A o \in DOMAIN disk \ spoiled : disk[o] = wanted[o]
=============================================================================
