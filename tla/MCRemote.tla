------------------------------ MODULE MCRemote ------------------------------
(***************************************************************************)
(* The file systems that hold what a remote one has, one of them in a      *)
(* behaviour: the client of httpfs, which caches answers, and syncfs,      *)
(* which pulls and pushes changes.                                         *)
(***************************************************************************)
EXTENDS Httpfs, Syncfs

CONSTANTS c1, c2

VARIABLE part  \* the file system

\* httpfs is run beside one of the stores of syncfs
MCInit == Init /\ SyncInit /\ (part = "syncfs" \/ (part = "httpfs" /\ local # remote))

\* Another client changes the remote, or a step of a Sync fails, not both.  It
\* does so two seconds later, and where nothing gets lost track of by it.
OfSyncfs ==
    /\ part = "syncfs" /\ SyncNext
    /\ others' + broken' < 2
    /\ others' # others => clock' > clock /\ loose' = loose
    /\ UNCHANGED <<vars, part>>
OfHttpfs == part = "httpfs" /\ Next /\ UNCHANGED <<syncVars, part>>

MCSpec == MCInit /\ [][OfSyncfs \/ OfHttpfs]_<<vars, syncVars, part>>

-----------------------------------------------------------------------------
(* httpfs: a directory with a file in it, and a name for it to move to.    *)
MCPaths == {<<>>, <<"d">>, <<"e">>, <<"d", "f">>, <<"e", "f">>}
MCStored ==
    [p \in MCPaths |-> CASE p \in {<<>>, <<"d">>} -> [kind |-> "dir", mode |-> 0]
                         [] p = <<"d", "f">> -> [kind |-> "file", mode |-> 0]
                         [] OTHER -> [kind |-> "none", mode |-> 0]]
MCCalls == [c \in Clients |-> IF c = c1 THEN 2 ELSE 1]
MCOps ==
    [c \in Clients |-> IF c = c1 THEN {"open", "create", "chmod", "rename", "remove", "mkdir", "write", "symlink", "patch"}
                       ELSE {"stat", "readdir", "chmod"}]

(* syncfs: a file that is newer on the local side, and one on the remote   *)
(* only; or a directory on both sides.                                     *)
Present(ver, dir, time) == [ver |-> ver, dir |-> dir, time |-> time]
Missing == Present(0, FALSE, 0)
MCSyncStored ==
    {[local |-> [p \in {1, 2} |-> IF p = 1 THEN Present(1, FALSE, 3) ELSE Missing],
      remote |-> [p \in {1, 2} |-> Present(p + 1, FALSE, 2)]],
     LET both == [p \in {1, 2} |-> IF p = 1 THEN Present(1, TRUE, 2) ELSE Missing]
     IN  [local |-> both, remote |-> both]}
MCSyncOps ==
    [t \in {c1, c2} |-> IF t = c1 THEN {"create", "remove", "rename", "mkdir", "chmod", "renamedir"} ELSE {"write"}]
=============================================================================
