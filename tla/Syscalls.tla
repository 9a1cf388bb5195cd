------------------------------- MODULE Syscalls -------------------------------
(***************************************************************************)
(* The system calls of a worker: a task answers the calls that come over   *)
(* its session, each in a goroutine of its own, with the functions of      *)
(* package fs and a table of file descriptors.                             *)
(*                                                                         *)
(* A call by name hands the name on.  A call by descriptor looks the file  *)
(* up in the table, lets go of the task's lock, and then uses the file:    *)
(* another call may have closed it.  Fchmod, Fchown and Ftruncate use the  *)
(* name the file had when it was opened.                                   *)
(*                                                                         *)
(* The descriptors 0 to 2, which open the task's own files anew at each    *)
(* use, and Bind and Unbind (module Namespace) are left out.               *)
(*                                                                         *)
(* Bound: a plan says which calls each goroutine makes, one after another. *)
(***************************************************************************)
EXTENDS FSHelpers

CONSTANTS
    Plans   \* what goroutines may do: for each, a sequence of sets of calls

VARIABLES
    plan,   \* plan[p]: the calls that p has still to make
    fds,    \* fds[d]: the open file and the name of descriptor d; partial
    fdIdx   \* the descriptor given last

table == <<fds, fdIdx>>
sysvars == <<helpervars, plan, table>>

(***************************************************************************)
(* The calls, as the frames they begin with.                               *)
(***************************************************************************)
mkdir(n) == Frame("mkdir", n, n, 2)
mkdirAll(n) == Frame("mkdirall", n, n, 2)
remove(n) == Frame("remove", n, n, 0)
removeAll(n) == Frame("removeall", n, n, 0)
rename(n, m) == Frame("fsrename", n, m, 0)
copy(n, m) == Frame("copyfs", n, m, 0)
symlink(to, n) == Frame("symlink", n, to, 0)
chmod(n) == Frame("chmod", n, n, 3)
chown(n) == Frame("chmod", n, n, 4)
chtimes(n) == Frame("chmod", n, n, 5)
truncate(n, size) == [Frame("truncate", n, n, 0) EXCEPT !.off = size]
writeFile(n, cells) == [Frame("writefile", n, n, 0) EXCEPT !.cells = cells]
appendFile(n, cells) == [Frame("appendfile", n, n, 0) EXCEPT !.cells = cells]
readFile(n) == Frame("readfile", n, n, 0)
readDir(n) == Frame("look", n, n, 0)
stat(n) == Frame("look", n, n, 0)
lstat(n) == Frame("look", n, n, 0)
readlink(n) == Frame("look", n, n, 0)
waitFor(n) == Frame("waitfor", n, n, 0)

(* Opening leaves a frame that gives the file a descriptor.                *)
open(n) == Frame("open", n, n, 0)
create(n) == Frame("create", n, n, 0)
openFile(n, flags) == [Frame("openfile", n, n, 0) EXCEPT !.flags = flags]
Opening == {"open", "create", "openfile"}

(* A frame with no name works on the file of a descriptor.                 *)
read == FileOp("read", <<>>, 0)
write(cells) == [FileOp("write", <<>>, 0) EXCEPT !.cells = cells]
writeAt(cells, off) == [FileOp("writeat", <<>>, 0) EXCEPT !.cells = cells, !.off = off]
fstat == FileOp("fstat", <<>>, 0)
sync == FileOp("sync", <<>>, 0)
close == FileOp("close", <<>>, 0)
fchmod == Frame("chmod", <<>>, <<>>, 3)
fchown == Frame("chmod", <<>>, <<>>, 4)
ftruncate(size) == [Frame("truncate", <<>>, <<>>, 0) EXCEPT !.off = size]
ByName == {"chmod", "truncate"}
OnFile == {"read", "write", "writeat", "fstat", "sync"}
PathCalls == ByName \cup {"mkdir", "mkdirall", "remove", "removeall", "fsrename", "copyfs", "symlink",
                         "writefile", "appendfile", "readfile", "look", "waitfor"}

(***************************************************************************)
(* A call comes in.                                                        *)
(***************************************************************************)
Wanted(p) == IF plan[p] = <<>> THEN {} ELSE Head(plan[p])
Comes(p, f) ==
    /\ stack[p] = <<>> /\ plan[p] # <<>>
    /\ f \in Head(plan[p])
    /\ plan' = [plan EXCEPT ![p] = Tail(@)]
Begins(p, frames) ==
    /\ stack' = [stack EXCEPT ![p] = frames]
    /\ trip' = [trip EXCEPT ![p] = TripOf(frames[1])]
    /\ UNCHANGED <<tree, data, back, faults, table>>
Answers(p, r) ==
    /\ back' = [back EXCEPT ![p] = r]
    /\ trip' = [trip EXCEPT ![p] = NoTrip]
    /\ UNCHANGED <<stack, faults>>

CallByPath(p) ==
    \E f \in Wanted(p) :
        /\ Comes(p, f)
        /\ f.n # <<>> /\ f.op \in PathCalls
        /\ Begins(p, <<f>>)

CallOpen(p) ==
    \E f \in Wanted(p) :
        /\ Comes(p, f)
        /\ f.op \in Opening
        /\ Begins(p, <<Frame("fd", f.n, f.n, 0), f>>)

(* FD: the file and the name of a descriptor.                              *)
FD(d) == d \in DOMAIN fds

CallByFD(p) ==
    \E f \in Wanted(p), d \in 1..fdIdx :
        /\ Comes(p, f)
        /\ f.n = <<>> /\ f.op \in ByName \cup OnFile
        /\ IF ~FD(d) THEN Answers(p, Result("invalid", 0, <<>>)) /\ UNCHANGED <<tree, data, table>>
           ELSE Begins(p, <<IF f.op \in ByName THEN [f EXCEPT !.n = fds[d].path, !.m = fds[d].path]
                            ELSE [f EXCEPT !.h = fds[d].file]>>)

(* CloseFD takes the descriptor out and closes the file under the lock of  *)
(* the task.                                                               *)
CloseFD(d) == fds' = [e \in DOMAIN fds \ {d} |-> fds[e]] /\ UNCHANGED fdIdx

CallClose(p) ==
    \E d \in 1..fdIdx :
        /\ Comes(p, close)
        /\ IF ~FD(d) THEN Answers(p, Result("invalid", 0, <<>>)) /\ UNCHANGED <<tree, data, table>>
           ELSE /\ CloseFD(d)
                /\ Answers(p, Ok)
                /\ IF fds[d].file = 0 \/ file[fds[d].file].closed THEN UNCHANGED <<tree, data>>
                   ELSE CloseFile(fds[d].file)

(***************************************************************************)
(* What a call does at its end, or by itself.                              *)
(***************************************************************************)
OpenFD(h, path) ==
    /\ fdIdx' = fdIdx + 1
    /\ fds' = [e \in DOMAIN fds \cup {fdIdx + 1} |-> IF e = fdIdx + 1 THEN [file |-> h, path |-> path] ELSE fds[e]]

GivesFD(p) ==
    /\ At(p, "fd", 0)
    /\ Gives(p, back[p])
    /\ IF Failed(p) THEN UNCHANGED table ELSE OpenFD(back[p].h, Top(p).n)

(* Stat, Lstat, Readlink, ReadDir, Fstat: nothing changes.                 *)
Look(p) ==
    /\ At(p, "look", 0) \/ At(p, "fstat", 0)
    /\ Gives(p, IF Top(p).op = "look" /\ ~Exists(Top(p).n) THEN Result("notexist", 0, <<>>) ELSE Ok)
    /\ UNCHANGED table

(* No file here can be synced.                                             *)
Sync(p) ==
    /\ At(p, "sync", 0)
    /\ Fail(p, "notsupported")
    /\ UNCHANGED table

(* WaitFor asks again and again until the time is over.                    *)
WaitFor(p) ==
    /\ At(p, "waitfor", 0)
    /\ (Exists(Top(p).n) /\ Gives(p, Ok)) \/ Fail(p, "notexist")
    /\ UNCHANGED table

CallStep(p) ==
    \/ CallByPath(p) \/ CallOpen(p) \/ CallByFD(p) \/ CallClose(p)
    \/ (GivesFD(p) \/ Look(p) \/ Sync(p) \/ WaitFor(p)) /\ UNCHANGED <<faults, trip, plan>>

(* One step of the file systems and of package fs.                         *)
FsStep(p) == (Step(p) \/ Fails(p) \/ CopyIsCut(p)) /\ UNCHANGED <<table, plan>>

SysInit ==
    /\ HelperInit
    /\ plan \in Plans
    /\ fds = [d \in {} |-> 0] /\ fdIdx = 0
=============================================================================
