-------------------------------- MODULE MCFs --------------------------------
(***************************************************************************)
(* Files, Vfs, Ext2 and Devfs on small instances.  They share no state     *)
(* here: a behaviour is one of Files, of Vfs, of Ext2 or of one of the     *)
(* three halves of Devfs (nodes, disk, other devices), and the others stay *)
(* as they begin.                                                          *)
(***************************************************************************)
EXTENDS Files, Vfs, Ext2, Devfs, TLC

CONSTANTS
    Parts,                  \* the components this run looks at
    p1, p2, f1, f2, f3

VARIABLE part

TwoProcs == {p1, p2}
ThreeFiles == {f1, f2, f3}
FilePerms == Permutations(File)

(* /bin/init and the directory /dev on the disk, one node in /dev. *)
Tree == (<<2, "bin">> :> 3) @@ (<<2, "dev">> :> 4) @@ (<<3, "init">> :> 5)
OneNode == <<"null">>
BootMounts == {<<"initfs", <<>>>>, <<"ext2", <<>>>>, <<"devfs", <<"dev">>>>}
InsidePaths == {<<>>, <<"bin", "init", "..", "init">>, <<"bin", ".", "..", "dev", "null">>,
                <<"dev", "..">>, <<"..">>, <<"dev", "null", "x">>, <<"long", "x">>}
OutsidePaths == InsidePaths \cup {<<"dev", "..", "..", "bin">>}

(* A file in all four ranges of the block map, dense or sparse; blocks of  *)
(* data and of pointers that fail; deleted entries at the start, in the    *)
(* middle and at the end of a directory of three blocks.                   *)
SomeHoles == {{}, {3, 13}, 14..17}
SomeFail == {{}, {<<"data", 5>>}, {<<"single", 12>>}, {<<"single", 18>>}, {<<"triple", 18>>}}
ADirectory ==
    <<[off |-> 0, rec |-> 2, ino |-> 5, name |-> "a"],
      [off |-> 2, rec |-> 2, ino |-> 0, name |-> "b"],
      [off |-> 4, rec |-> 4, ino |-> 0, name |-> "c"],
      [off |-> 8, rec |-> 4, ino |-> 6, name |-> "d"],
      [off |-> 12, rec |-> 3, ino |-> 7, name |-> "e"],
      [off |-> 15, rec |-> 1, ino |-> 0, name |-> "f"]>>

fsVars == <<part, FilesVars, VfsVars, Ext2Vars, DevfsVars>>

Init ==
    /\ part \in Parts
    /\ FilesInit /\ (part # "files" => heap = {})
    /\ VfsInit
    /\ Ext2Init /\ (part # "ext2" => opened_is = "file" /\ holes = {})
    /\ DevfsInit

Next ==
    /\ UNCHANGED part
    /\ \/ part = "files" /\ FilesNext /\ UNCHANGED <<VfsVars, Ext2Vars, DevfsVars>>
       \/ part = "vfs" /\ VfsNext /\ UNCHANGED <<FilesVars, Ext2Vars, DevfsVars>>
       \/ part = "ext2" /\ Ext2Next /\ UNCHANGED <<FilesVars, VfsVars, DevfsVars>>
       \/ /\ \/ part = "nodes" /\ NodeNext
             \/ part = "disk" /\ IoNext
             \/ part = "chars" /\ CharNext
          /\ UNCHANGED <<FilesVars, VfsVars, Ext2Vars>>

Spec == Init /\ [][Next]_fsVars

(* Every variable of the four components has its type. *)
TypeOK == FilesTypeOK /\ VfsTypeOK /\ Ext2TypeOK /\ DevfsTypeOK
=============================================================================
