-------------------------------- MODULE Vfs --------------------------------
(***************************************************************************)
(* Names, mounts and dentries (vfs.c), with the directories of initfs and  *)
(* the mount functions of initfs, ext2 and devfs.                          *)
(*                                                                         *)
(* A path is the sequence of its components.  Every lookup makes new       *)
(* dentries and inodes, a page each, and nothing caches them: `free' counts *)
(* the pages kalloc has left.  The dentries of a finished lookup that no   *)
(* mount refers to are never looked at again, so `dent' keeps only those   *)
(* that mounts reach; the others are pages that are gone.  Inode reference *)
(* counts free nothing and are left out.                                   *)
(*                                                                         *)
(* main.c mounts initfs, ext2 and devfs in this order; here mounts, mkdir  *)
(* and umount come in any order.                                           *)
(***************************************************************************)
EXTENDS Naturals, Integers, Sequences, FiniteSets, SequencesExt, FiniteSetsExt

CONSTANTS
    Paths,              \* the paths programs use
    MountCalls,         \* <<type, path>>: what is mounted where
    Ext2Tree,           \* what is on the disk: <<directory, name>> -> inode number
    Ext2Dirs,           \* the inode numbers that are directories
    DevNodes,           \* the names in /dev, in the order of their inode numbers
    LongNames,          \* the names that do not fit in a dentry
    INITFS_MAX_DIRS,
    NPages,             \* the pages there are
    MaxSb               \* bound: superblocks ever made

FsType == {"initfs", "ext2", "devfs"}
RootNum == [initfs |-> 1, ext2 |-> 2, devfs |-> 1]
(* The pages type->mount takes, and those type->unmount gives back. *)
MountPages == [initfs |-> 2, ext2 |-> 5, devfs |-> 2]
UnmountPages == [initfs |-> 0, ext2 |-> 2, devfs |-> 0]

ASSUME VfsAssumption ==
    /\ Paths \subseteq Seq(STRING)
    /\ MountCalls \subseteq FsType \X Seq(STRING \ {".", ".."})
    /\ \A e \in DOMAIN Ext2Tree : e[1] \in Ext2Dirs /\ Ext2Tree[e] \in Nat /\ Ext2Tree[e] > 2
    /\ 2 \in Ext2Dirs /\ Ext2Dirs \subseteq Nat /\ DevNodes \in Seq(STRING)
    /\ INITFS_MAX_DIRS \in Nat /\ NPages \in Nat /\ MaxSb \in Nat

VARIABLES
    types,      \* g_fs_types
    mounts,     \* g_mounts, newest first; the last one is g_root_mnt
    dent,       \* the dentries that mounts reach
    dirs,       \* g_dirs of initfs: names, in the order of their inode numbers
    free,       \* the pages that are free
    nsb,        \* superblocks made so far
    opened,     \* how many files vfs_open has made and vfs_close has not freed
    mtab        \* ghost: which superblock is to be seen at which directory

VfsVars == <<types, mounts, dent, dirs, free, nsb, opened, mtab>>

VfsInit ==
    /\ types = {} /\ mounts = <<>> /\ dirs = <<>>
    /\ dent = [x \in {} |-> 0]
    /\ free = NPages /\ nsb = 0 /\ opened = 0
    /\ mtab = [x \in {} |-> 0]

-----------------------------------------------------------------------------
(* The file systems *)

(* The inode number of name in the directory num, or 0.  All directories   *)
(* of initfs have the same entries: initfs_lookup ignores the directory.   *)
Position(s, x) == IF \E i \in DOMAIN s : s[i] = x
                  THEN CHOOSE i \in DOMAIN s : s[i] = x ELSE -1
fs_child(n, name) ==
    CASE n.sb.type = "initfs" -> Position(dirs, name) + 1
      [] n.sb.type = "devfs" -> Position(DevNodes, name) + 1
      [] OTHER -> IF <<n.num, name>> \in DOMAIN Ext2Tree THEN Ext2Tree[<<n.num, name>>] ELSE 0

vfs_is_dir(n) ==
    CASE n.sb.type = "initfs" -> TRUE
      [] n.sb.type = "devfs" -> n.num = 1
      [] OTHER -> n.num \in Ext2Dirs

(* iops->lookup with fr pages free: ext2 needs one for the directory block *)
(* while it reads the inode and makes the two structures of an inode.      *)
ext2_lookup_rc(found, fr) ==
    CASE fr = 0 -> "ENOMEM"
      [] ~found -> "ENOENT"
      [] fr = 1 -> "EIO"
      [] fr = 2 -> "ENOMEM"
      [] OTHER -> "OK"
fs_lookup_rc(n, name, fr) ==
    LET found == fs_child(n, name) > 0
    IN  IF n.sb.type = "ext2" THEN ext2_lookup_rc(found, fr)
        ELSE IF ~found THEN "ENOENT" ELSE IF fr = 0 THEN "ENOMEM" ELSE "OK"
InodePages(n) == IF n.sb.type = "ext2" THEN 2 ELSE 1

-----------------------------------------------------------------------------
(* Walking a path.  A walk is [mnt, cur, d, fr, rc]: where it is, and the  *)
(* dentries and free pages so far.                                         *)

g_root_mnt == Last(mounts)
g_root_dent == g_root_mnt.root

Node(d, x) == [sb |-> d[x].sb, num |-> d[x].num]

(* The mount the walk starts in: what is mounted over the root, if any. *)
vfs_find_mount_by_mountpoint(x) == {i \in DOMAIN mounts : mounts[i].mp = x}
StartMount ==
    LET over == vfs_find_mount_by_mountpoint(g_root_dent)
    IN  IF dent[g_root_dent].mp /\ over # {} THEN mounts[Min(over)] ELSE g_root_mnt
Start == [mnt |-> StartMount, cur |-> StartMount.root, d |-> dent, fr |-> free, rc |-> "OK"]

(* By inode, as the dentry of a lookup is never the one mounted on. *)
vfs_find_mount_by_inode(d, n) ==
    {i \in DOMAIN mounts : mounts[i].mp # 0 /\ Node(d, mounts[i].mp) = n}

(* Only a dentry without a parent is freed. *)
vfs_dentry_put(w, x) ==
    LET last == w.d[x].ref = 1 /\ w.d[x].parent = 0
    IN  [w EXCEPT !.d[x].ref = @ - 1,
                  !.d[x].live = @ /\ ~last,
                  !.fr = @ + (IF last THEN 1 ELSE 0)]

NewDentry(n, parent) ==
    [sb |-> n.sb, num |-> n.num, parent |-> parent, ref |-> 1, mp |-> FALSE, live |-> TRUE]
NewId(d) == 1 + Max(DOMAIN d \cup {0})
WithDentry(d, x, e) == [y \in DOMAIN d \cup {x} |-> IF y = x THEN e ELSE d[y]]

(* Mutant: the roots of mounts are not told from temporary dentries. *)
IsTempAny(w) == w.cur # g_root_dent

(* Whether a dentry the walk leaves behind is one of its own. *)
IsTemp(w) == w.cur # g_root_dent /\ w.cur # w.mnt.root

(* The child is a new dentry, lost when the lookup fails or when something *)
(* is mounted on it: then the walk goes on at the root of that mount.      *)
vfs_lookup_child(w, name) ==
    LET dir == Node(w.d, w.cur)
        rc == fs_lookup_rc(dir, name, w.fr - 1)
        n == [sb |-> dir.sb, num |-> fs_child(dir, name)]
        sub == vfs_find_mount_by_inode(w.d, n)
        v == [w EXCEPT !.fr = @ - 1 - InodePages(dir)]
        x == NewId(w.d)
        d == WithDentry(w.d, x, NewDentry(n, w.cur))
        u == IF IsTemp(w) THEN vfs_dentry_put([v EXCEPT !.d = d], w.cur) ELSE [v EXCEPT !.d = d]
    IN  IF ~vfs_is_dir(dir) THEN [w EXCEPT !.rc = "ENOTDIR"]
        ELSE IF name \in LongNames \/ w.fr = 0 THEN [w EXCEPT !.rc = "ENOMEM"]
        ELSE IF rc # "OK" THEN [w EXCEPT !.fr = @ - 1, !.rc = rc]
        ELSE IF sub # {} THEN [v EXCEPT !.mnt = mounts[Min(sub)], !.cur = mounts[Min(sub)].root]
        ELSE [u EXCEPT !.cur = x]

(* Mutant: ".." goes up two levels. *)
DotDotTwice(w) ==
    LET p == w.d[w.cur].parent
    IN  IF p = 0 THEN w ELSE [w EXCEPT !.cur = IF w.d[p].parent # 0 THEN w.d[p].parent ELSE p]

(* "..": from the root of a mount to its mount point, without leaving mnt. *)
vfs_dotdot(w) ==
    IF w.cur = w.mnt.root /\ w.mnt.mp # 0 THEN [w EXCEPT !.cur = w.mnt.mp]
    ELSE IF w.d[w.cur].parent # 0 THEN [w EXCEPT !.cur = w.d[w.cur].parent] ELSE w

Step(w, name) ==
    IF w.rc # "OK" \/ name = "." THEN w
    ELSE IF name = ".." THEN vfs_dotdot(w)
    ELSE vfs_lookup_child(w, name)

NoRoot == [mnt |-> 0, cur |-> 0, d |-> dent, fr |-> free, rc |-> "EINVAL"]
vfs_lookup(p) == IF mounts = <<>> THEN NoRoot ELSE FoldLeft(Step, Start, p)
(* The walk to the parent directory; the path must have a last component. *)
vfs_lookup_parent(p) ==
    IF p = <<>> THEN [vfs_lookup(p) EXCEPT !.rc = "EINVAL"] ELSE vfs_lookup(Front(p))

-----------------------------------------------------------------------------
(* The operations *)

(* What the walk w leaves: the dentries that the mounts ms still reach.  A  *)
(* parent is older than its children, so NewId(d) steps up reach the roots. *)
Up(s, d) == s \cup ({d[x].parent : x \in s} \ {0})
Reached(d, ms) ==
    FoldLeft(Up, (UNION {{m.root, m.mp} : m \in Range(ms)}) \ {0}, [k \in 1..NewId(d) |-> d])
Leaves(w, ms) ==
    /\ dent' = [x \in Reached(w.d, ms) |-> w.d[x]]
    /\ free' = w.fr

Drop(w) == IF w.rc = "OK" /\ IsTemp(w) THEN vfs_dentry_put(w, w.cur) ELSE w

vfs_register_fs(t) ==
    /\ t \notin types
    /\ types' = types \cup {t}
    /\ UNCHANGED <<mounts, dent, dirs, free, nsb, opened, mtab>>

(* Refused while the type is mounted. *)
vfs_unregister_fs(t) ==
    /\ t \in types /\ \A i \in DOMAIN mounts : mounts[i].sb.type # t
    /\ types' = types \ {t}
    /\ UNCHANGED <<mounts, dent, dirs, free, nsb, opened, mtab>>

(* The directory that a mount on p covers. *)
Cover(n) == IF n \in DOMAIN mtab THEN [sb |-> mtab[n], num |-> RootNum[mtab[n].type]] ELSE n
RefStep(n, name) ==
    LET c == IF n.num = 0 \/ ~vfs_is_dir(n) THEN 0 ELSE fs_child(n, name)
    IN  IF c = 0 THEN [n EXCEPT !.num = 0] ELSE Cover([n EXCEPT !.num = c])
RootNode == [sb |-> g_root_mnt.sb, num |-> RootNum[g_root_mnt.sb.type]]
RefWalk(p) == FoldLeft(RefStep, Cover(RootNode), p)
Covered(p) ==
    IF p = <<>> THEN RootNode
    ELSE LET n == RefWalk(Front(p)) IN [n EXCEPT !.num = fs_child(n, Last(p))]

(* A mount that finds another one at its place stays hidden under it. *)
Mounted(p, s) ==
    mtab' = IF mounts = <<>> \/ Covered(p) \in DOMAIN mtab THEN mtab
            ELSE WithDentry(mtab, Covered(p), s)

(* The superblock, what type->mount makes, and the mount; `ok' is whether  *)
(* the device can be read.  On failure the superblock is freed, with       *)
(* whatever unmount frees when the mount itself could not be allocated.    *)
vfs_mount(t, p, ok) ==
    /\ t \in types /\ nsb < MaxSb
    /\ LET isRoot == p = <<>> /\ mounts = <<>>
           w == IF isRoot THEN [NoRoot EXCEPT !.rc = "OK"] ELSE vfs_lookup(p)
           s == [id |-> nsb, type |-> t]
           x == NewId(w.d)
           made == w.fr - 1 - MountPages[t]
           mp == IF isRoot THEN 0 ELSE w.cur
           d == WithDentry(IF isRoot THEN w.d ELSE [w.d EXCEPT ![w.cur].mp = TRUE],
                           x, NewDentry([sb |-> s, num |-> RootNum[t]], 0))
           ms == <<[sb |-> s, mp |-> mp, root |-> x]>> \o mounts
           able == IF w.rc # "OK" \/ ~ok THEN FALSE
                   ELSE IF isRoot THEN TRUE ELSE vfs_is_dir(Node(w.d, w.cur))
       IN  \/ /\ ~able \/ made < 0
              /\ Leaves(w, mounts) /\ UNCHANGED <<mounts, nsb, mtab>>
           \/ /\ able /\ made = 0
              /\ Leaves([w EXCEPT !.fr = UnmountPages[t] + 1], mounts)
              /\ UNCHANGED <<mounts, nsb, mtab>>
           \/ /\ able /\ made > 0
              /\ mounts' = ms /\ nsb' = nsb + 1 /\ Mounted(p, s)
              /\ Leaves([w EXCEPT !.d = d, !.fr = made - 1], ms)
    /\ UNCHANGED <<types, dirs, opened>>

(* The newest mount whose mount point is the very dentry that the lookup   *)
(* ends at.  The lookup goes into a mount, so this is one hidden under     *)
(* another, or the one that the path leaves again with "..".               *)
vfs_umount(p) ==
    LET w == vfs_lookup(p)
        at == vfs_find_mount_by_mountpoint(w.cur)
        m == mounts[Min(at)]
        ms == RemoveAt(mounts, Min(at))
    IN  /\ IF w.rc = "OK" /\ at # {}
           THEN /\ mounts' = ms
                /\ mtab' = [n \in {k \in DOMAIN mtab : mtab[k] # m.sb} |-> mtab[n]]
                /\ Leaves([w EXCEPT !.d[w.cur].mp = FALSE,
                                    !.fr = @ + 2 + UnmountPages[m.sb.type]], ms)
           ELSE Leaves(w, mounts) /\ UNCHANGED <<mounts, mtab>>
        /\ UNCHANGED <<types, dirs, nsb, opened>>

(* The dentry is given back before the file is allocated. *)
vfs_open(p) ==
    /\ LET w == Drop(vfs_lookup(p))
           ok == w.rc = "OK" /\ w.fr > 0
       IN  /\ Leaves(IF ok THEN [w EXCEPT !.fr = @ - 1] ELSE w, mounts)
           /\ opened' = IF ok THEN opened + 1 ELSE opened
    /\ UNCHANGED <<types, mounts, dirs, nsb, mtab>>

(* vfs_open with VFS_O_CREAT: no file system has the create operation. *)
vfs_open_creat(p) ==
    /\ Leaves(vfs_lookup_parent(p), mounts)
    /\ UNCHANGED <<types, mounts, dirs, nsb, opened, mtab>>

(* vfs_unlink: nor has one the unlink operation. *)
vfs_unlink(p) ==
    /\ Leaves(vfs_lookup_parent(p), mounts)
    /\ UNCHANGED <<types, mounts, dirs, nsb, opened, mtab>>

VfsClose ==
    /\ opened > 0
    /\ opened' = opened - 1 /\ free' = free + 1
    /\ UNCHANGED <<types, mounts, dent, dirs, nsb, mtab>>

vfs_stat(p) ==
    /\ Leaves(Drop(vfs_lookup(p)), mounts)
    /\ UNCHANGED <<types, mounts, dirs, nsb, opened, mtab>>

(* Only initfs makes directories.  The name is entered before the inode is *)
(* allocated and stays when that fails; both pages are lost.               *)
initfs_mkdir(name) ==
    Position(dirs, name) = -1 /\ Len(dirs) < INITFS_MAX_DIRS
vfs_mkdir(p) ==
    /\ LET w == vfs_lookup_parent(p)
           dir == Node(w.d, w.cur)
           tried == w.rc = "OK" /\ dir.sb.type = "initfs" /\ w.fr > 0 /\ Last(p) \notin LongNames
           ok == tried /\ initfs_mkdir(Last(p))
       IN  /\ dirs' = IF ok THEN Append(dirs, Last(p)) ELSE dirs
           /\ Leaves([w EXCEPT !.fr = IF ok /\ @ > 1 THEN @ - 2
                                      ELSE IF tried THEN @ - 1 ELSE @], mounts)
    /\ UNCHANGED <<types, mounts, nsb, opened, mtab>>

VfsNext ==
    \/ \E t \in FsType : vfs_register_fs(t) \/ vfs_unregister_fs(t)
    \/ \E c \in MountCalls : vfs_mount(c[1], c[2], TRUE) \/ vfs_mkdir(c[2])
    \/ \E c \in MountCalls : c[1] = "ext2" /\ vfs_mount(c[1], c[2], FALSE)
    \/ \E p \in Paths : \/ vfs_open(p) \/ vfs_stat(p)
                        \/ vfs_open_creat(p) \/ vfs_unlink(p) \/ vfs_umount(p)
    \/ VfsClose

VfsSpec == VfsInit /\ [][VfsNext]_VfsVars

-----------------------------------------------------------------------------
(* Properties *)

Sb == [id : 0..MaxSb, type : FsType]

(* Every variable has its type. *)
VfsTypeOK ==
    /\ types \subseteq FsType
    /\ mounts \in Seq([sb : Sb, mp : Nat, root : Nat])
    /\ \A x \in DOMAIN dent :
         dent[x] \in [sb : Sb, num : Nat, parent : {0} \cup DOMAIN dent, ref : Int,
                      mp : BOOLEAN, live : BOOLEAN]
    /\ dirs \in Seq(STRING) /\ Len(dirs) <= INITFS_MAX_DIRS
    /\ free \in 0..NPages /\ nsb \in 0..MaxSb /\ opened \in 0..NPages
    /\ Range(mtab) \subseteq Sb

(* The path without "." and "..". *)
Resolve(q, c) ==
    CASE c = "." -> q
      [] c = ".." -> IF q = <<>> THEN q ELSE Front(q)
      [] OTHER -> Append(q, c)
Normal(p) == FoldLeft(Resolve, <<>>, p)

(* No ".." of p is applied at the root of a mount. *)
StaysInside(p) ==
    \A k \in DOMAIN p :
        p[k] = ".." => LET n == RefWalk(Normal(SubSeq(p, 1, k - 1)))
                       IN  n.num # RootNum[n.sb.type]

(* vfs_lookup finds what the path names: the file that the path without    *)
(* its dots names in the tree of the mounted file systems, with the mount  *)
(* it belongs to, whatever was mounted, unmounted and looked up before; it *)
(* says that something does not exist only when it does not.  (".." at the *)
(* root of a mount, where the code is documented as best effort, is left   *)
(* out.)                                                                   *)
WalkCorrect ==
    \A p \in Paths : mounts # <<>> /\ StaysInside(p) =>
        LET w == vfs_lookup(p)
        IN  /\ w.rc = "OK" => /\ Node(w.d, w.cur) = RefWalk(Normal(p))
                              /\ w.mnt.sb = w.d[w.cur].sb
            /\ w.rc \in {"ENOENT", "ENOTDIR"} =>
                 \E k \in 0..Len(p) : RefWalk(Normal(SubSeq(p, 1, k))).num = 0

(* No lookup frees the root or the mount point of a mount: vfs_dentry_put  *)
(* is to free temporary dentries only.                                     *)
MountRootsAlive ==
    \A i \in DOMAIN mounts : /\ dent[mounts[i].root].live
                             /\ mounts[i].mp # 0 => dent[mounts[i].mp].live
=============================================================================
