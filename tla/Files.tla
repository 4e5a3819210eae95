------------------------------- MODULE Files -------------------------------
(***************************************************************************)
(* File descriptors: the fd table of each process, and the struct vfs_file *)
(* objects that tables share and count references to (syscall.c, proc.c,   *)
(* vfs.c, pipe.c).                                                         *)
(*                                                                         *)
(* A system call decides what it does to the caller's own table, which     *)
(* nobody else looks at, and then does its vfs_file_get and vfs_close      *)
(* calls one by one.  refcnt++ and --refcnt are a load and a store.  A     *)
(* system call has interrupts off, so at most NCpu are in progress.        *)
(***************************************************************************)
EXTENDS Naturals, FiniteSets, Sequences, SequencesExt, FiniteSetsExt, SetOrder

CONSTANTS
    Procs,      \* the slots of proc_table
    InitProc,   \* the slot of /bin/init
    MAX_FDS,
    File,       \* the pages that can hold a struct vfs_file
    NCpu,       \* ncpu
    None        \* a null pointer

ASSUME FilesAssumption ==
    /\ InitProc \in Procs
    /\ MAX_FDS \in Nat /\ MAX_FDS >= 3
    /\ IsFiniteSet(Procs) /\ IsFiniteSet(File) /\ Cardinality(File) >= 2
    /\ NCpu \in Nat \ {0}
    /\ None \notin File \cup Nat

Fd == 0..(MAX_FDS - 1)
NoFiles == [fd \in Fd |-> None]

VARIABLES
    files,      \* per process: p->files
    alive,      \* the processes that exist and have not exited
    heap,       \* the pages that hold a struct vfs_file
    refcnt,     \* f->refcnt
    todo, reg   \* per process: gets and puts still to do; the load of refcnt

FilesVars == <<files, alive, heap, refcnt, todo, reg>>

(* proc_create has opened /dev/cons twice for init, or failed to. *)
FilesInit ==
    /\ \E f, g \in File :
         /\ f # g
         /\ \/ /\ files = [p \in Procs |-> IF p = InitProc
                             THEN [NoFiles EXCEPT ![0] = f, ![1] = g, ![2] = g]
                             ELSE NoFiles]
               /\ heap = {f, g}
               /\ refcnt = [h \in File |-> IF h = f THEN 1 ELSE IF h = g THEN 2 ELSE 0]
            \/ /\ files = [p \in Procs |-> NoFiles]
               /\ heap = {}
               /\ refcnt = [h \in File |-> 0]
    /\ alive = {InitProc}
    /\ todo = [p \in Procs |-> <<>>]
    /\ reg = [p \in Procs |-> None]

-----------------------------------------------------------------------------
(* Helpers *)

Get(f) == [op |-> "get", arg |-> f]
Put(f) == [op |-> "put", arg |-> f]

InCall == {p \in Procs : todo[p] # <<>>}

(* p may enter a system call: it runs, on a CPU no other call is on. *)
CanCall(p) == p \in alive \ InCall /\ Cardinality(InCall) < NCpu

(* q is the slot proc_alloc finds: nobody is in it, leaving it or filling  *)
(* it in.                                                                  *)
proc_alloc(q) ==
    /\ q \notin alive \cup InCall
    /\ \A p \in InCall : Last(todo[p]) # [op |-> "publish", arg |-> q]

(* fd_alloc: the lowest free descriptor, or none. *)
FreeFds(t) == {fd \in Fd : t[fd] = None}
fd_alloc(t, f) == IF FreeFds(t) = {} THEN t ELSE [t EXCEPT ![Min(FreeFds(t))] = f]

(* The operation o on the file of every open descriptor of t, in order. *)
ForEach(t, o) ==
    LET fds == Ascending(Fd \ FreeFds(t))
    IN  [k \in DOMAIN fds |-> [op |-> o, arg |-> t[fds[k]]]]

-----------------------------------------------------------------------------
(* System calls *)

(* vfs_open: a new file with one reference (names are Vfs's). *)
NewFile(f) ==
    /\ heap' = heap \cup {f}
    /\ refcnt' = [refcnt EXCEPT ![f] = 1]

(* The call fails without a file, and with no descriptor closes it again. *)
sys_open(p) ==
    /\ CanCall(p)
    /\ \E f \in File \ heap :
         /\ NewFile(f)
         /\ files' = [files EXCEPT ![p] = fd_alloc(@, f)]
         /\ todo' = [todo EXCEPT ![p] = IF FreeFds(files[p]) = {} THEN <<Put(f)>> ELSE <<>>]
    /\ UNCHANGED <<alive, reg>>

sys_close(p, fd) ==
    /\ CanCall(p) /\ files[p][fd] # None
    /\ files' = [files EXCEPT ![p][fd] = None]
    /\ todo' = [todo EXCEPT ![p] = <<Put(files[p][fd])>>]
    /\ UNCHANGED <<alive, heap, refcnt, reg>>

sys_dup(p, fd) ==
    /\ CanCall(p) /\ files[p][fd] # None
    /\ LET f == files[p][fd] IN
       /\ files' = [files EXCEPT ![p] = fd_alloc(@, f)]
       /\ todo' = [todo EXCEPT ![p] =
                     IF FreeFds(files[p]) = {} THEN <<Get(f), Put(f)>> ELSE <<Get(f)>>]
    /\ UNCHANGED <<alive, heap, refcnt, reg>>

(* Mutant: the file at newfd is closed even when it is the one duplicated. *)
Dup2Self(p, old, new) ==
    /\ CanCall(p) /\ files[p][old] # None
    /\ files' = [files EXCEPT ![p][new] = files[p][old]]
    /\ todo' = [todo EXCEPT ![p] =
                  (IF files[p][new] = None THEN <<>> ELSE <<Put(files[p][new])>>)
                  \o <<Get(files[p][old])>>]
    /\ UNCHANGED <<alive, heap, refcnt, reg>>

(* The file at newfd is closed first. *)
sys_dup2(p, old, new) ==
    /\ CanCall(p) /\ files[p][old] # None /\ old # new
    /\ files' = [files EXCEPT ![p][new] = files[p][old]]
    /\ todo' = [todo EXCEPT ![p] =
                  (IF files[p][new] = None THEN <<>> ELSE <<Put(files[p][new])>>)
                  \o <<Get(files[p][old])>>]
    /\ UNCHANGED <<alive, heap, refcnt, reg>>

(* Two new files. *)
pipe_create(r, w) ==
    /\ r # w
    /\ heap' = heap \cup {r, w}
    /\ refcnt' = [refcnt EXCEPT ![r] = 1, ![w] = 1]

(* With descriptors for one or none of them both are closed. *)
sys_pipe(p) ==
    /\ CanCall(p)
    /\ \E r, w \in File \ heap :
         /\ pipe_create(r, w)
         /\ IF Cardinality(FreeFds(files[p])) >= 2
            THEN /\ files' = [files EXCEPT ![p] = fd_alloc(fd_alloc(@, r), w)]
                 /\ UNCHANGED todo
            ELSE /\ todo' = [todo EXCEPT ![p] = <<Put(r), Put(w)>>]
                 /\ UNCHANGED files
    /\ UNCHANGED <<alive, reg>>

(* The child gets the parent's table.  It runs only when the call is over: *)
(* it is published after the last vfs_file_get.                            *)
proc_fork(p, q) ==
    /\ CanCall(p) /\ proc_alloc(q)
    /\ files' = [files EXCEPT ![q] = files[p]]
    /\ todo' = [todo EXCEPT ![p] =
                  Append(ForEach(files[p], "get"), [op |-> "publish", arg |-> q])]
    /\ UNCHANGED <<alive, heap, refcnt, reg>>

(* proc_close_fds *)
sys_exit(p) ==
    /\ CanCall(p)
    /\ todo' = [todo EXCEPT ![p] = ForEach(files[p], "put")]
    /\ files' = [files EXCEPT ![p] = NoFiles]
    /\ alive' = alive \ {p}
    /\ UNCHANGED <<heap, refcnt, reg>>

-----------------------------------------------------------------------------
(* The reference counts *)

Doing(p, op) == todo[p] # <<>> /\ Head(todo[p]).op = op
Done(p) == todo' = [todo EXCEPT ![p] = Tail(@)]

Load(p) ==
    /\ Doing(p, "get") \/ Doing(p, "put")
    /\ reg[p] = None
    /\ reg' = [reg EXCEPT ![p] = refcnt[Head(todo[p]).arg]]
    /\ UNCHANGED <<files, alive, heap, refcnt, todo>>

vfs_file_get(p) ==
    /\ Doing(p, "get") /\ reg[p] # None
    /\ refcnt' = [refcnt EXCEPT ![Head(todo[p]).arg] = reg[p] + 1]
    /\ reg' = [reg EXCEPT ![p] = None]
    /\ Done(p)
    /\ UNCHANGED <<files, alive, heap>>

(* vfs_close: the close operations of the file systems do nothing, and the *)
(* one of pipe.c is not called, as make_pipe_end leaves f->fops null.      *)
vfs_file_put(p) ==
    /\ Doing(p, "put") /\ reg[p] # None
    /\ LET f == Head(todo[p]).arg IN
       /\ refcnt' = [refcnt EXCEPT ![f] = reg[p] - 1]
       /\ heap' = IF reg[p] = 1 THEN heap \ {f} ELSE heap
    /\ reg' = [reg EXCEPT ![p] = None]
    /\ Done(p)
    /\ UNCHANGED <<files, alive>>

Publish(p) ==
    /\ Doing(p, "publish")
    /\ alive' = alive \cup {Head(todo[p]).arg}
    /\ Done(p)
    /\ UNCHANGED <<files, heap, refcnt, reg>>

-----------------------------------------------------------------------------
Call(p) ==
    \/ sys_open(p) \/ sys_pipe(p) \/ sys_exit(p)
    \/ \E fd \in Fd : sys_close(p, fd) \/ sys_dup(p, fd)
    \/ \E old, new \in Fd : sys_dup2(p, old, new)
    \/ \E q \in Procs : proc_fork(p, q)
Count(p) == Load(p) \/ vfs_file_get(p) \/ vfs_file_put(p) \/ Publish(p)

FilesNext == \E p \in Procs : Call(p) \/ Count(p)

FilesSpec == FilesInit /\ [][FilesNext]_FilesVars

-----------------------------------------------------------------------------
(* Properties *)

(* What a call may have to do. *)
Ops == [op : {"get", "put"}, arg : File] \cup [op : {"publish"}, arg : Procs]

(* Every variable has its type. *)
FilesTypeOK ==
    /\ files \in [Procs -> [Fd -> File \cup {None}]]
    /\ alive \subseteq Procs
    /\ heap \subseteq File
    /\ refcnt \in [File -> Nat]
    /\ todo \in [Procs -> Seq(Ops)]
    /\ reg \in [Procs -> Nat \cup {None}]

(* The descriptors that refer to f, and the operations on f still to do. *)
Refs(f) == {d \in Procs \X Fd : files[d[1]][d[2]] = f}
Owed(f, o) == {d \in Procs \X (1..(2 * MAX_FDS)) :
                 d[2] <= Len(todo[d[1]]) /\ todo[d[1]][d[2]] = [op |-> o, arg |-> f]}

(* refcnt counts the descriptors: a file has as many references as tables  *)
(* have descriptors for it, but for the gets and puts a call in progress   *)
(* has still to do, across open, close, dup, dup2, pipe, fork and exit and *)
(* on their error paths.  So no descriptor refers to a file that has been  *)
(* freed, and a file without descriptors is freed.                         *)
RefsExact ==
    \A f \in File :
      LET have == IF f \in heap THEN refcnt[f] ELSE 0
          due == Cardinality(Refs(f)) + Cardinality(Owed(f, "put"))
      IN  /\ have + Cardinality(Owed(f, "get")) = due
          /\ f \in heap => due > 0
=============================================================================
