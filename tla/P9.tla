---------------------------------- MODULE P9 ----------------------------------
(***************************************************************************)
(* p9kit: a file system served over 9P.                                    *)
(*                                                                         *)
(* The server keeps fids.  A fid stands for a name, and for a file once it *)
(* is opened; a request by name goes to what the name of its fid is now.   *)
(* Each request is a call of package fs, or several, on the same file      *)
(* systems that the system calls of workers use (module Syscalls).         *)
(*                                                                         *)
(* External: the 9P library carries requests, numbers fids, lets a         *)
(* RenameAt run by itself, and then tells every fid at or below the old    *)
(* name its new one (Renamed).                                             *)
(*                                                                         *)
(* Walks start at the root.  Attributes are one mode, and the owner that   *)
(* the server keeps itself.  Extended attributes are left out, as none of  *)
(* these file systems has them.                                            *)
(***************************************************************************)
EXTENDS Syscalls

VARIABLES
    fids,    \* fids[i]: the name and the file of fid i
    owner    \* owner[n]: the owner set for a name; partial

p9vars == <<fids, owner>>

(***************************************************************************)
(* Requests.  h is the fid; off a second one, a size or an offset.         *)
(***************************************************************************)
Request(op, fid, n) == [Frame(op, n, n, 0) EXCEPT !.h = fid]
Requests == {"walk", "lopen", "lcreate", "getattr", "setattr", "tmkdir", "tsymlink", "treaddir",
             "renameat", "unlinkat", "tread", "twrite", "clunk"}
fid(p) == fids[Top(p).h]

Running(q) == \E f \in {stack[q][k] : k \in DOMAIN stack[q]} : f.op \in Requests /\ f.pc > 0
Renaming(q) == \E f \in {stack[q][k] : k \in DOMAIN stack[q]} : f.op = "renameat" /\ f.pc > 0
Served(p, op) ==
    /\ At(p, op, 0)
    /\ \A q \in Procs \ {p} : IF op = "renameat" THEN ~Running(q) ELSE ~Renaming(q)

NewFid(n, h, opened) ==
    [path |-> n, file |-> h, opened |-> opened, append |-> FALSE, live |-> TRUE, on |-> IF n \in DOMAIN nodes THEN nodes[n] ELSE 0]

(* info: the file of the fid, or what has its name.                        *)
info(i) == fids[i].opened \/ Exists(fids[i].path)

(* Walk looks at every name on the way; the fid is that of the last.       *)
Walk(p) ==
    LET f == Top(p)  next == SubSeq(f.n, 1, f.pc + 1) IN
    /\ f.op = "walk" /\ (f.pc = 0 => Served(p, "walk"))
    /\ IF ~Exists(next) THEN Fail(p, "notexist") /\ UNCHANGED fids
       ELSE IF next # f.n THEN GoesOn(p, [f EXCEPT !.pc = @ + 1]) /\ UNCHANGED fids
       ELSE fids' = Append(fids, NewFid(f.n, 0, FALSE)) /\ Gives(p, Result("ok", Len(fids) + 1, <<>>))
    /\ UNCHANGED owner

(* Open: for writing, with the mode for new files.                         *)
NewMode == 6
OpenWith(n, flags) == [Frame("openfile", n, n, NewMode) EXCEPT !.flags = flags]

Open(p) ==
    LET f == Top(p)  r == back[p] IN
    \/ /\ Served(p, "lopen")
       /\ IF ~info(f.h) THEN Fail(p, "notexist")
          ELSE Then(p, 1, IF "rdonly" \in f.flags THEN open(fid(p).path) ELSE OpenWith(fid(p).path, f.flags))
       /\ UNCHANGED p9vars
    \/ /\ At(p, "lopen", 1)
       /\ Gives(p, IF Failed(p) THEN r ELSE Ok)
       /\ fids' = IF Failed(p) THEN fids
                  ELSE [fids EXCEPT ![f.h].file = r.h, ![f.h].opened = TRUE, ![f.h].append = "append" \in f.flags]
       /\ UNCHANGED owner

(* Create: the fid of the directory becomes that of the file.              *)
Create(p) ==
    LET f == Top(p)  r == back[p]  n == Append(fid(p).path, Last(f.n)) IN
    \/ /\ Served(p, "lcreate")
       /\ Then(p, 1, [OpenWith(n, f.flags \cup {"create"}) EXCEPT !.mode = f.mode])
       /\ UNCHANGED p9vars
    \/ /\ At(p, "lcreate", 1)
       /\ Gives(p, IF Failed(p) THEN r ELSE Ok)
       /\ fids' = IF Failed(p) THEN fids
                  ELSE [fids EXCEPT ![f.h] = [NewFid(n, r.h, TRUE) EXCEPT !.append = "append" \in f.flags]]
       /\ UNCHANGED owner

SetOwner(n, who) == owner' = [k \in DOMAIN owner \cup {n} |-> IF k = n THEN who ELSE owner[k]]

(* SetAttr knows these attributes and no other one.  It sets one after the *)
(* other, and stops at an error.  Without a store for owners the server    *)
(* asks the file system (Chown).                                           *)
Settable == {"size", "times", "mode", "owner"}
SetAttr(p) ==
    LET f == Top(p)  n == fid(p).path
        Sets(a, g) == Call(p, [f EXCEPT !.pc = 1, !.flags = @ \ {a}], g) /\ UNCHANGED p9vars IN
    \/ /\ f.op = "setattr" /\ f.pc \in {0, 2} /\ (f.pc = 0 => Served(p, "setattr"))
       /\ IF ~(f.flags \subseteq Settable) THEN Fail(p, "nosys") /\ UNCHANGED p9vars
          ELSE IF "size" \in f.flags THEN Sets("size", truncate(n, f.off))
          ELSE IF "times" \in f.flags THEN Sets("times", chtimes(n))
          ELSE IF "mode" \in f.flags THEN Sets("mode", chmod(n))
          ELSE IF "owner" \in f.flags
          THEN \/ SetOwner(n, p) /\ Gives(p, Ok) /\ UNCHANGED fids
               \/ Sets("owner", chown(n))
          ELSE Gives(p, Ok) /\ UNCHANGED p9vars
    \/ /\ At(p, "setattr", 1)
       /\ IF Failed(p) THEN Gives(p, back[p]) ELSE Goto(p, 2) /\ UNCHANGED <<tree, data>>
       /\ UNCHANGED p9vars

(* Nothing changes; the answer tells whether there is a directory.         *)
GetAttr(p) ==
    /\ Served(p, "getattr")
    /\ IF info(Top(p).h)
       THEN Gives(p, Result("ok", IF IsDir(fid(p).path) THEN 1 ELSE 0, <<>>)) ELSE Fail(p, "notexist")
    /\ UNCHANGED p9vars

(* Readdir lists what has the name of the fid now.                         *)
Readdir(p) ==
    /\ \/ Served(p, "treaddir") /\ Then(p, 1, open(fid(p).path))
       \/ At(p, "treaddir", 1) /\ Gives(p, back[p])
    /\ UNCHANGED p9vars

(* Mkdir and Symlink: a call with a name in the directory of the fid.      *)
MakeEntry(p) ==
    LET f == Top(p)  n == Append(fid(p).path, Last(f.n)) IN
    \/ /\ Served(p, "tmkdir") \/ Served(p, "tsymlink")
       /\ Then(p, 1, IF f.op = "tmkdir" THEN mkdir(n) ELSE symlink(f.m, n))
       /\ UNCHANGED p9vars
    \/ /\ At(p, "tmkdir", 1) \/ At(p, "tsymlink", 1)
       /\ Gives(p, back[p])
       /\ UNCHANGED p9vars

(* The directory of a fid has moved, or what the fid stands for.           *)
RenamedByParent(path, old, new) == IF path = old THEN new ELSE path
NewPath(path, old, new) == IF IsPrefix(old, path) THEN Moved(path, old, new) ELSE path

RenameAt(p) ==
    LET f == Top(p)
        old == Append(fid(p).path, Last(f.n))
        new == Append(fids[f.off].path, Last(f.m)) IN
    \/ /\ Served(p, "renameat")
       /\ Then(p, 1, rename(old, new))
       /\ UNCHANGED p9vars
    \/ /\ At(p, "renameat", 1)
       /\ Gives(p, back[p])
       /\ fids' = IF Failed(p) THEN fids ELSE [i \in DOMAIN fids |-> [fids[i] EXCEPT !.path = NewPath(@, old, new)]]
       /\ UNCHANGED owner

(* UnlinkAt: the kind must be what the request says, a directory empty.    *)
UnlinkAt(p) ==
    LET f == Top(p)  r == back[p]  n == Append(fid(p).path, Last(f.n)) IN
    /\ \/ /\ Served(p, "unlinkat")
          /\ IF ~Exists(n) THEN Fail(p, "notexist")
             ELSE IF IsDir(n) /\ "dir" \notin f.flags THEN Fail(p, "isdir")
             ELSE IF ~IsDir(n) /\ "dir" \in f.flags THEN Fail(p, "notdir")
             ELSE IF IsDir(n) THEN Then(p, 1, open(n)) ELSE Then(p, 3, remove(n))
       \/ /\ At(p, "unlinkat", 1)
          /\ IF Failed(p) THEN Gives(p, r)
             ELSE IF r.kids # <<>> THEN Fail(p, "notempty") ELSE Then(p, 3, remove(n))
       \/ /\ At(p, "unlinkat", 3)
          /\ Gives(p, r)
    /\ UNCHANGED p9vars

(* ReadAt and WriteAt; a file opened for appending ignores the offset.     *)
ReadWrite(p) ==
    LET f == Top(p) IN
    /\ \/ /\ Served(p, "tread")
          /\ Then(p, 1, [FileOp("readat", <<>>, fid(p).file) EXCEPT !.off = f.off])
       \/ /\ Served(p, "twrite")
          /\ Then(p, 1, [FileOp(IF fid(p).append THEN "write" ELSE "writeat", <<>>, fid(p).file)
                         EXCEPT !.off = f.off, !.cells = f.cells])
       \/ /\ At(p, "tread", 1) \/ At(p, "twrite", 1)
          /\ Gives(p, back[p])
    /\ UNCHANGED p9vars

Clunk(p) ==
    \/ /\ Served(p, "clunk")
       /\ Then(p, 1, FileOp("close", <<>>, fid(p).file))
       /\ UNCHANGED p9vars
    \/ /\ At(p, "clunk", 1)
       /\ Gives(p, back[p])
       /\ fids' = [fids EXCEPT ![Top(p).h].live = FALSE]
       /\ UNCHANGED owner

ServerStep(p) ==
    /\ stack[p] # <<>>
    /\ \/ Walk(p) \/ Open(p) \/ Create(p) \/ SetAttr(p) \/ GetAttr(p) \/ Readdir(p) \/ MakeEntry(p)
       \/ RenameAt(p) \/ UnlinkAt(p) \/ ReadWrite(p) \/ Clunk(p)

P9Init ==
    /\ SysInit
    /\ fids = <<>> /\ owner = [n \in {} |-> 0]

=============================================================================
