------------------------------ MODULE FSHelpers ------------------------------
(***************************************************************************)
(* The functions of package fs that make one call of several: OpenFile,    *)
(* WriteFile, MkdirAll, RemoveAll, CopyFS and Rename, used on two file     *)
(* systems of memfs.  Nothing makes such a call atomic: those of other     *)
(* goroutines come between its parts, and each part may fail.              *)
(*                                                                         *)
(* The calls of a name go to the file system in front of it, which is what *)
(* ResolveTo finds (module Resolution).  memfs itself never fails: a       *)
(* system in Faulty stands for one behind a network, whose calls may fail  *)
(* before they have done anything, and whose reads may end early.          *)
(*                                                                         *)
(* Bounds: MaxFaults failed calls or reads, no names outside Paths.        *)
(***************************************************************************)
EXTENDS Memfs

CONSTANTS
    Faulty,   \* file systems whose calls may fail
    MaxFaults

VARIABLES
    faults, \* how many calls and reads have failed
    trip    \* trip[p]: history: the Rename across file systems that p made last

helpervars == <<memvars, faults, trip>>

Sys(n) == Head(n)
NoTrip == [old |-> <<>>, new |-> <<>>, held |-> <<>>, alone |-> FALSE, cut |-> FALSE]

(* A frame steps on and waits for the call g.                              *)
Call(p, f, g) == stack' = [stack EXCEPT ![p] = Front(@) \o <<f, g>>] /\ UNCHANGED <<back, tree, data>>
Then(p, pc, g) == Call(p, [Top(p) EXCEPT !.pc = pc], g)
GoesOn(p, f) == Become(p, f) /\ UNCHANGED <<tree, data>>
Gives(p, r) == Returns(p, r) /\ UNCHANGED <<tree, data>>
FileOp(op, n, h) == [Frame(op, n, n, 0) EXCEPT !.h = h]
Failed(p) == back[p].err # "ok"

(***************************************************************************)
(* OpenFile for writing: open or create, truncate by creating again, set   *)
(* the mode with the file closed, as Close might undo it, seek to the end. *)
(* O_EXCL is ignored.                                                      *)
(***************************************************************************)
OpenFileStep(p) ==
    LET f == Top(p)  r == back[p] IN
    \/ /\ At(p, "openfile", 0)
       /\ Then(p, 1, Frame("open", f.n, f.n, 0))
    \/ /\ At(p, "openfile", 1)
       /\ IF r.err = "notexist" /\ "create" \in f.flags THEN Then(p, 3, Frame("create", f.n, f.n, 0))
          ELSE IF Failed(p) THEN Gives(p, r)
          ELSE IF "trunc" \in f.flags THEN Then(p, 2, FileOp("close", f.n, r.h))
          ELSE GoesOn(p, [f EXCEPT !.pc = 4, !.h = r.h])
    \/ /\ At(p, "openfile", 2)
       /\ Then(p, 3, Frame("create", f.n, f.n, 0))
    \/ /\ At(p, "openfile", 3)
       /\ IF Failed(p) THEN Gives(p, r) ELSE GoesOn(p, [f EXCEPT !.pc = 4, !.h = r.h])
    \/ /\ At(p, "openfile", 4)
       /\ IF f.mode # 0 THEN Then(p, 5, FileOp("close", f.n, f.h)) ELSE GoesOn(p, [f EXCEPT !.pc = 7])
    \/ /\ At(p, "openfile", 5)
       /\ Then(p, 6, Frame("chmod", f.n, f.n, f.mode))
    \/ /\ At(p, "openfile", 6)
       /\ IF Failed(p) THEN Gives(p, r) ELSE Then(p, 8, Frame("open", f.n, f.n, 0))
    \/ /\ At(p, "openfile", 7)
       /\ IF "append" \in f.flags /\ f.h # 0
          THEN Then(p, 9, [FileOp("seek", f.n, f.h) EXCEPT !.off = Len(buf[file[f.h].buf])])
          ELSE Gives(p, Result("ok", f.h, <<>>))
    \/ /\ At(p, "openfile", 8)
       /\ IF Failed(p) THEN Gives(p, r) ELSE GoesOn(p, [f EXCEPT !.pc = 7, !.h = r.h])
    \/ /\ At(p, "openfile", 9)
       /\ Gives(p, Result("ok", f.h, <<>>))

WriteFileStep(p) ==
    LET f == Top(p)  r == back[p] IN
    \/ /\ At(p, "writefile", 0)
       /\ Then(p, 1, Frame("create", f.n, f.n, 0))
    \/ /\ At(p, "writefile", 1)
       /\ IF Failed(p) THEN Gives(p, r)
          ELSE Call(p, [f EXCEPT !.pc = 2, !.h = r.h], [FileOp("write", f.n, r.h) EXCEPT !.cells = f.cells])
    \/ /\ At(p, "writefile", 2)
       /\ Call(p, [f EXCEPT !.pc = 3, !.err = r.err], FileOp("close", f.n, f.h))
    \/ /\ At(p, "writefile", 3)
       /\ Gives(p, IF f.err # "ok" THEN Result(f.err, 0, <<>>) ELSE r)

MkdirAllStep(p) ==
    LET f == Top(p)  r == back[p] IN
    \/ /\ At(p, "mkdirall", 0)
       /\ Then(p, 1, Frame("mkdir", f.n, f.n, f.mode))
    \/ /\ At(p, "mkdirall", 1)
       /\ IF r.err \in {"ok", "exist"} THEN Gives(p, Ok)
          ELSE IF r.err # "notexist" \/ IsRoot(Parent(f.n)) THEN Gives(p, r)
          ELSE Then(p, 2, Frame("mkdirall", Parent(f.n), f.n, f.mode))
    \/ /\ At(p, "mkdirall", 2)
       /\ IF Failed(p) THEN Gives(p, r) ELSE Then(p, 3, Frame("mkdir", f.n, f.n, f.mode))
    \/ /\ At(p, "mkdirall", 3)
       /\ Gives(p, r)

(* A child is named below the directory, wherever that was listed.         *)
Child(n, kid) == Append(n, Last(kid))

RemoveAllStep(p) ==
    LET f == Top(p)  r == back[p] IN
    \/ /\ At(p, "removeall", 0)
       /\ Then(p, 1, Frame("remove", f.n, f.n, 0))
    \/ /\ At(p, "removeall", 1)
       /\ IF r.err # "notempty" THEN Gives(p, r) ELSE Then(p, 2, Frame("open", f.n, f.n, 0))
    \/ /\ At(p, "removeall", 2)
       /\ IF Failed(p) THEN Gives(p, r)
          ELSE IF r.h # 0 THEN Gives(p, Result("other", 0, <<>>))
          ELSE GoesOn(p, [f EXCEPT !.pc = 3, !.todo = r.kids])
    \/ /\ At(p, "removeall", 3)
       /\ IF f.todo = <<>> THEN Then(p, 5, Frame("remove", f.n, f.n, 0))
          ELSE LET k == Child(f.n, Head(f.todo)) IN
               Call(p, [f EXCEPT !.pc = 4, !.todo = Tail(@)], Frame("removeall", k, k, 0))
    \/ /\ At(p, "removeall", 4)
       /\ IF Failed(p) THEN Gives(p, r) ELSE GoesOn(p, [f EXCEPT !.pc = 3])
    \/ /\ At(p, "removeall", 5)
       /\ Gives(p, r)

(***************************************************************************)
(* CopyFS: a link, a directory with all there is in it, or a file.         *)
(***************************************************************************)
Mode(n) == IF n \in DOMAIN nodes THEN node[nodes[n]].mode ELSE 1

CopyStep(p) ==
    LET f == Top(p) IN
    /\ At(p, "copyfs", 0)
    /\ IF Kind(f.n) = "none" THEN Fail(p, "notexist")
       ELSE GoesOn(p, [f EXCEPT !.mode = Mode(f.n),
                                !.op = CASE Kind(f.n) = "link" -> "copylink"
                                         [] Kind(f.n) = "dir" -> "copydir"
                                         [] OTHER -> "copyfile"])

CopyLinkStep(p) ==
    LET f == Top(p) IN
    \/ /\ At(p, "copylink", 0)
       /\ IF Kind(f.n) = "none" THEN Fail(p, "notexist")
          ELSE IF Kind(f.n) # "link" THEN Fail(p, "invalid")
          ELSE Then(p, 1, Frame("symlink", f.m, node[nodes[f.n]].to, 0))
    \/ /\ At(p, "copylink", 1)
       /\ Gives(p, back[p])

(* An entry that cannot be copied ends the copy.                           *)
EntryPassedOver(p) == FALSE
EntryFails(p) == Failed(p)

CopyDirStep(p) ==
    LET f == Top(p)  r == back[p] IN
    \/ /\ At(p, "copydir", 0)
       /\ Then(p, 1, Frame("open", f.n, f.n, 0))
    \/ /\ At(p, "copydir", 1)
       /\ IF Failed(p) THEN Gives(p, r) ELSE Then(p, 2, Frame("mkdirall", f.m, f.m, f.mode))
    \/ /\ At(p, "copydir", 2)
       /\ IF Failed(p) THEN Gives(p, r) ELSE Then(p, 3, Frame("open", f.n, f.n, 0))
    \/ /\ At(p, "copydir", 3)
       /\ IF Failed(p) THEN Gives(p, r)
          ELSE IF r.h # 0 THEN Gives(p, Result("other", 0, <<>>))
          ELSE GoesOn(p, [f EXCEPT !.pc = 4, !.todo = r.kids])
    \/ /\ At(p, "copydir", 4)
       /\ IF f.todo = <<>> THEN Then(p, 6, Frame("chmod", f.m, f.m, f.mode))
          ELSE LET k == Head(f.todo) IN
               Call(p, [f EXCEPT !.pc = 5, !.todo = Tail(@)], Frame("copyfs", Child(f.n, k), Child(f.m, k), 0))
    \/ /\ At(p, "copydir", 5)
       /\ IF EntryFails(p) THEN Gives(p, r) ELSE GoesOn(p, [f EXCEPT !.pc = 4])
    \/ /\ At(p, "copydir", 6)
       /\ Gives(p, r)

(* The bytes go over at once: both files are private to the copy.  Where   *)
(* there is no file to write to, the copy ends with an error.              *)
Copies(p, cells) ==
    LET f == Top(p)  next == [f EXCEPT !.pc = 4] IN
    IF f.off = 0 THEN /\ stack' = [stack EXCEPT ![p] = Front(@) \o <<next>>]
                      /\ back' = [back EXCEPT ![p] = Result("other", 0, <<>>)]
                      /\ UNCHANGED <<tree, data>>
    ELSE /\ IF cells = <<>> THEN UNCHANGED data
            ELSE /\ file[f.off].off + Len(cells) <= MaxLen
                 /\ WriteFile(f.off, cells)
         /\ stack' = [stack EXCEPT ![p] = Front(@) \o <<next, FileOp("close", f.m, f.off)>>]
         /\ UNCHANGED <<back, tree>>

SourceCells(p) == IF Top(p).h = 0 THEN <<>> ELSE buf[file[Top(p).h].buf]

CopyFileStep(p) ==
    LET f == Top(p)  r == back[p] IN
    \/ /\ At(p, "copyfile", 0)
       /\ Then(p, 1, Frame("open", f.n, f.n, 0))
    \/ /\ At(p, "copyfile", 1)
       /\ IF Failed(p) THEN Gives(p, r)
          ELSE Call(p, [f EXCEPT !.pc = 2, !.h = r.h], [Frame("openfile", f.m, f.m, f.mode) EXCEPT !.flags = {"create", "trunc"}])
    \/ /\ At(p, "copyfile", 2)
       /\ IF Failed(p) THEN Gives(p, r) ELSE GoesOn(p, [f EXCEPT !.pc = 3, !.off = r.h])
    \/ /\ At(p, "copyfile", 3)
       /\ Copies(p, SourceCells(p))
    \/ /\ At(p, "copyfile", 4)
       /\ Call(p, [f EXCEPT !.pc = 5, !.err = r.err], Frame("chmod", f.m, f.m, f.mode))
    \/ /\ At(p, "copyfile", 5)
       /\ Gives(p, IF Failed(p) THEN r ELSE Result(f.err, 0, <<>>))

(* AppendFile writes at the size that the node has.                        *)
AppendFileStep(p) ==
    LET f == Top(p)  r == back[p] IN
    \/ /\ At(p, "appendfile", 0)
       /\ Then(p, 1, Frame("open", f.n, f.n, 0))
    \/ /\ At(p, "appendfile", 1)
       /\ IF Failed(p) THEN Gives(p, r)
          ELSE IF r.h = 0 THEN Gives(p, Result("permission", 0, <<>>))
          ELSE Call(p, [f EXCEPT !.pc = 2, !.h = r.h],
                    [FileOp("writeat", f.n, r.h) EXCEPT !.cells = f.cells, !.off = Len(buf[node[file[r.h].node].buf])])
    \/ /\ At(p, "appendfile", 2)
       /\ Call(p, [f EXCEPT !.pc = 3, !.err = r.err], FileOp("close", f.n, f.h))
    \/ /\ At(p, "appendfile", 3)
       /\ Gives(p, IF f.err # "ok" THEN Result(f.err, 0, <<>>) ELSE r)

(* ReadFile opens, reads to the end and closes.                            *)
ReadFileStep(p) ==
    LET f == Top(p)  r == back[p] IN
    \/ /\ At(p, "readfile", 0)
       /\ Then(p, 1, Frame("open", f.n, f.n, 0))
    \/ /\ At(p, "readfile", 1)
       /\ IF Failed(p) THEN Gives(p, r) ELSE Call(p, [f EXCEPT !.pc = 2, !.h = r.h], FileOp("read", f.n, r.h))
    \/ /\ At(p, "readfile", 2)
       /\ Call(p, [f EXCEPT !.pc = 3, !.err = r.err], FileOp("close", f.n, f.h))
    \/ /\ At(p, "readfile", 3)
       /\ Gives(p, Result(IF f.err = "eof" THEN "ok" ELSE f.err, 0, <<>>))

(***************************************************************************)
(* Rename: within a file system that system's own, else copy and remove.   *)
(***************************************************************************)
RenameStep(p) ==
    LET f == Top(p)  r == back[p] IN
    \/ /\ At(p, "fsrename", 0)
       /\ IF ~Exists(f.n) THEN Fail(p, "notexist")
          ELSE IF Sys(f.n) = Sys(f.m) THEN Then(p, 3, Frame("rename", f.n, f.m, 0))
          ELSE Then(p, 1, Frame("copyfs", f.n, f.m, 0))
    \/ /\ At(p, "fsrename", 1)
       /\ IF Failed(p) THEN Gives(p, r) ELSE Then(p, 2, Frame("removeall", f.n, f.n, 0))
    \/ /\ At(p, "fsrename", 2)
       /\ Gives(p, r)
    \/ /\ At(p, "fsrename", 3)
       /\ Gives(p, r)

HelperStep(p) ==
    \/ OpenFileStep(p) \/ WriteFileStep(p) \/ AppendFileStep(p) \/ ReadFileStep(p)
    \/ MkdirAllStep(p) \/ RemoveAllStep(p)
    \/ CopyStep(p) \/ CopyLinkStep(p) \/ CopyDirStep(p) \/ CopyFileStep(p) \/ RenameStep(p)

(***************************************************************************)
(* What a Rename across file systems is to carry over, for MovedWhole.     *)
(***************************************************************************)
Looks(k) ==
    LET v == node[nodes[k]] IN [kind |-> v.kind, mode |-> v.mode, cells |-> buf[v.buf],
                              to |-> IF v.kind = "link" THEN v.to ELSE <<>>]
IsAs(k, look) == k \in DOMAIN nodes /\ Looks(k) = look

(* A node put below a file or a link is in the map, but no listing has it. *)
Visible(k) == \A l \in 1..Len(k) - 1 : IsDir(SubSeq(k, 1, l))

TripOf(f) ==
    IF f.op = "fsrename" /\ Sys(f.n) # Sys(f.m)
    THEN [old |-> f.n, new |-> f.m, alone |-> Kind(f.m) \in {"none", Kind(f.n)}, cut |-> FALSE,
          held |-> [k \in {k \in DOMAIN nodes : IsPrefix(f.n, k) /\ Visible(k)} |-> Looks(k)]]
    ELSE NoTrip

(* What another changes at the names of a Rename is its own doing.         *)
Near(k, t) == t.old # <<>> /\ (IsPrefix(t.old, k) \/ IsPrefix(t.new, k))
Disturbed(p) ==
    {q \in Procs \ {p} : \E k \in Paths :
        /\ Near(k, trip[q])
        /\ ~(k \notin DOMAIN nodes /\ k \notin DOMAIN nodes')
        /\ ~(k \in DOMAIN nodes /\ k \in DOMAIN nodes' /\ nodes'[k] = nodes[k] /\ Looks(k)' = Looks(k))}
Watch(p, cut) ==
    trip' = [q \in Procs |-> [trip[q] EXCEPT !.alone = @ /\ q \notin Disturbed(p), !.cut = @ \/ q \in cut]]

Step(p) ==
    /\ MemStep(p) \/ HelperStep(p)
    /\ Watch(p, {})
    /\ UNCHANGED faults

(* A call that fails has done nothing.                                     *)
Fails(p) ==
    /\ faults < MaxFaults /\ stack[p] # <<>>
    /\ Top(p).pc = 0 /\ Top(p).n # <<>> /\ Sys(Top(p).n) \in Faulty
    /\ Top(p).op \in {"open", "create", "mkdir", "symlink", "chmod", "truncate", "remove", "rename", "close", "copyfs"}
    /\ Fail(p, "io")
    /\ faults' = faults + 1
    /\ Watch(p, {})

(* A read or a write fails in the middle of a copy, which is cut short;    *)
(* copyFile does not look at this error.                                   *)
CopyIsCut(p) ==
    /\ faults < MaxFaults
    /\ At(p, "copyfile", 3) /\ {Sys(Top(p).n), Sys(Top(p).m)} \cap Faulty # {}
    /\ \E l \in 0..Len(SourceCells(p)) - 1 : Copies(p, SubSeq(SourceCells(p), 1, l))
    /\ faults' = faults + 1
    /\ Watch(p, {p})

(* A cycle of links ends with the stack of the program, and the program.   *)
Crashed == \E p \in Procs : At(p, "open", 2)

HelperInit ==
    /\ MemInit
    /\ faults = 0
    /\ trip = [p \in Procs |-> NoTrip]

(***************************************************************************)
(* Properties.                                                             *)
(***************************************************************************)

(* A Rename across file systems does not lose anything: at every moment,   *)
(* and after a failed part, each file, link and directory of the tree is   *)
(* at its old or at its new name as it was, mode and bytes, and when the   *)
(* call has succeeded all are at the new names and none at the old ones -  *)
(* unless somebody else changes the same names, or a read failed.          *)
(* (rename.go: copy, then remove.)                                         *)
MovedWhole ==
    \A p \in Procs : LET t == trip[p] IN
        t.old # <<>> /\ t.alone /\ ~t.cut =>
            /\ \A k \in DOMAIN t.held : IsAs(k, t.held[k]) \/ IsAs(Moved(k, t.old, t.new), t.held[k])
            /\ stack[p] = <<>> /\ back[p].err = "ok" =>
                \A k \in DOMAIN t.held : IsAs(Moved(k, t.old, t.new), t.held[k]) /\ k \notin DOMAIN nodes

=============================================================================
