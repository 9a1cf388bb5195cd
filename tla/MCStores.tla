------------------------------ MODULE MCStores ------------------------------
(***************************************************************************)
(* The file systems that keep one tree in two places, one of them in a     *)
(* behaviour: r2fs (objects and listings) and cowfs (a base and an         *)
(* overlay).                                                               *)
(***************************************************************************)
EXTENDS R2fs

CONSTANTS t1, t2, CowDirs, CowFiles, CowBase, CowOps

VARIABLES
    disk, tombstones, renames, tree, moved, spoiled, cut, ops,  \* those of Cowfs
    part                                                        \* the file system

W == INSTANCE Cowfs WITH DirPaths <- CowDirs, FilePaths <- CowFiles, Base <- CowBase, MaxOps <- CowOps, plain <- tree

ASSUME CowAssumption == W!PathsAssumption /\ W!BaseAssumption

cowVars == <<disk, tombstones, renames, tree, moved, spoiled, cut, ops>>

MCInit == Init /\ W!Init /\ part \in {"r2fs", "cowfs"}

OfR2fs == part = "r2fs" /\ Next /\ UNCHANGED <<cowVars, part>>
OfCowfs == part = "cowfs" /\ W!Next /\ UNCHANGED <<vars, part>>

MCSpec == MCInit /\ [][OfR2fs \/ OfCowfs]_<<vars, cowVars, part>>

(* The two layers with their tombstones and renames are the tree that the  *)
(* callers made. (cowfs.go, StatContext, Open and Deleted.)                *)
ViewIsTree == part = "cowfs" => W!ViewIsTree

(* A rename that a crash cuts short leaves the file at its old or its new  *)
(* name. (cowfs.go, Rename.)                                               *)
CutRenameKeepsFile == part = "cowfs" => W!CutRenameKeepsFile

-----------------------------------------------------------------------------
(* The bucket has a directory with a file; e may become one.               *)
MCPaths == {<<>>, <<"d">>, <<"d", "x">>, <<"e">>, <<"e", "x">>}
MCStored ==
    [p \in MCPaths |->
        CASE p = <<>> -> Object("dir", {"d"}, 0)
          [] p = <<"d">> -> Object("dir", {"x"}, 0)
          [] p = <<"d", "x">> -> Object("file", {"old"}, 0)
          [] OTHER -> None]
MCOps ==
    [t \in {t1, t2} |->
        IF t = t1 THEN {"rename", "remove", "copy", "patch"}
        ELSE {"create", "mkdir", "link", "chmod", "save", "stat"}]

(* The base has a file f, and a directory d with a file x.                 *)
MCCowDirs == {<<>>, <<"d">>}
MCCowFiles == {<<"f">>, <<"g">>, <<"d", "x">>}
MCCowBase ==
    [p \in MCCowDirs \cup MCCowFiles |->
        CASE p \in {<<>>, <<"d">>} -> [kind |-> "dir", data |-> {}]
          [] p = <<"f">> -> [kind |-> "file", data |-> {<<"old", "f">>}]
          [] p = <<"d", "x">> -> [kind |-> "file", data |-> {<<"old", "x">>}]
          [] OTHER -> [kind |-> "none", data |-> {}]]
=============================================================================
