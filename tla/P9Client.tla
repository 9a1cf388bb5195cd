------------------------------- MODULE P9Client -------------------------------
(***************************************************************************)
(* The file system of a 9P client: each call walks to a fid, makes its     *)
(* request and gives the fid back; an open file keeps its fid, and the     *)
(* client keeps the offset.                                                *)
(*                                                                         *)
(* Other clients, such as the kernel of a virtual machine, make requests   *)
(* of their own on fids that they keep (Guest).                            *)
(***************************************************************************)
EXTENDS P9

VARIABLES
    remote,  \* remote[r]: a file of the client: its fid and its offset
    kept,    \* the fids of a guest
    strays,  \* history: fids that the client has lost
    astray   \* history: fids whose name was given to something else

clientvars == <<remote, kept, strays>>
vars == <<sysvars, p9vars, clientvars, astray>>

(***************************************************************************)
(* The calls.                                                              *)
(***************************************************************************)
Remote(op, n, m, flags) == [Frame(op, n, m, 0) EXCEPT !.flags = flags]
rOpen(n) == Remote("ropen", n, n, {})
rCreate(n) == Remote("rcreate", n, n, {})
rStat(n) == Remote("rget", n, n, {})
rReadlink(n) == Remote("rget", n, n, {})
rReadDir(n) == Remote("rreaddir", n, n, {})
rMkdir(n) == Remote("rmkdir", n, n, {})
rSymlink(to, n) == Remote("rsymlink", n, to, {})
rRemove(n) == Remote("rremove", n, n, {})
rRename(n, m) == Remote("rrename", n, m, {})
rChmod(n) == Remote("rsetattr", n, n, {"mode"})
rChown(n) == Remote("rsetattr", n, n, {"owner"})
rChtimes(n) == Remote("rsetattr", n, n, {"times"})
rTruncate(n, size) == [Remote("rsetattr", n, n, {"size"}) EXCEPT !.off = size]

walk(n) == Frame("walk", n, n, 0)
clunk(i) == Request("clunk", i, <<>>)

(***************************************************************************)
(* Calls of one request, between a walk and a clunk.                       *)
(***************************************************************************)
OneRequest == {"rget", "rmkdir", "rsymlink", "rsetattr"}
Target9(f) == IF f.op \in {"rmkdir", "rsymlink"} THEN Parent(f.n) ELSE f.n
RequestOf(f, i) ==
    CASE f.op = "rget" -> Request("getattr", i, <<>>)
      [] f.op = "rmkdir" -> Request("tmkdir", i, f.n)
      [] f.op = "rsymlink" -> [Request("tsymlink", i, f.n) EXCEPT !.m = f.m]
      [] f.op = "rsetattr" -> [Request("setattr", i, <<>>) EXCEPT !.flags = f.flags, !.off = f.off]

(* The error of a call is that of the request, not that of the clunk.      *)
ClunksNot(p, pc) == GoesOn(p, [Top(p) EXCEPT !.pc = pc, !.err = back[p].err])
Clunks(p, pc) == Call(p, [Top(p) EXCEPT !.pc = pc, !.err = back[p].err], clunk(Top(p).h))

ViaFid(p) ==
    LET f == Top(p)  r == back[p] IN
    /\ f.op \in OneRequest
    /\ \/ f.pc = 0 /\ Then(p, 1, walk(Target9(f)))
       \/ f.pc = 1 /\ IF Failed(p) THEN Gives(p, r)
                      ELSE Call(p, [f EXCEPT !.pc = 2, !.h = r.h], RequestOf(f, r.h))
       \/ f.pc = 2 /\ Clunks(p, 3)
       \/ f.pc = 3 /\ Gives(p, Result(f.err, 0, <<>>))
    /\ UNCHANGED clientvars

(* OpenContext: for writing, and if that fails for reading.  When that     *)
(* fails too, the fid is not given back.                                   *)
NewRemote(i) == remote' = Append(remote, [fid |-> i, off |-> 0, open |-> TRUE])
OpenRemote(p) ==
    LET f == Top(p)  r == back[p] IN
    /\ f.op = "ropen"
    /\ \/ f.pc = 0 /\ Then(p, 1, walk(f.n)) /\ UNCHANGED clientvars
       \/ f.pc = 1 /\ (IF Failed(p) THEN Gives(p, r)
                       ELSE Call(p, [f EXCEPT !.pc = 2, !.h = r.h], Request("lopen", r.h, <<>>)))
                   /\ UNCHANGED clientvars
       \/ /\ f.pc = 2 /\ Failed(p)
          /\ Then(p, 3, [Request("lopen", f.h, <<>>) EXCEPT !.flags = {"rdonly"}])
          /\ UNCHANGED clientvars
       \/ f.pc \in {2, 3} /\ ~Failed(p) /\ NewRemote(f.h) /\ Gives(p, Ok) /\ UNCHANGED <<kept, strays>>
       \/ f.pc = 3 /\ Failed(p) /\ Gives(p, r) /\ strays' = strays \cup {f.h} /\ UNCHANGED <<remote, kept>>

(* The mode the client asks for.                                           *)
CreateMode == 7

(* Create: create in the directory, then walk to the file, cut it to       *)
(* nothing and open it, whether it was created now or before.              *)
CreateRemote(p) ==
    LET f == Top(p)  r == back[p] IN
    /\ f.op = "rcreate"
    /\ \/ f.pc = 0 /\ Then(p, 1, walk(Parent(f.n))) /\ UNCHANGED clientvars
       \/ f.pc = 1 /\ (IF Failed(p) THEN Gives(p, r)
                       ELSE Call(p, [f EXCEPT !.pc = 2, !.h = r.h], [Request("lcreate", r.h, f.n) EXCEPT !.mode = CreateMode]))
                   /\ UNCHANGED clientvars
       \/ f.pc = 2 /\ Clunks(p, 3) /\ UNCHANGED clientvars
       \/ f.pc = 3 /\ Then(p, 4, walk(f.n)) /\ UNCHANGED clientvars
       \/ f.pc = 4 /\ (IF Failed(p) THEN Gives(p, r)
                       ELSE Call(p, [f EXCEPT !.pc = 5, !.h = r.h], [Request("setattr", r.h, <<>>) EXCEPT !.flags = {"size"}]))
                   /\ UNCHANGED clientvars
       \/ f.pc = 5 /\ (IF Failed(p) THEN Clunks(p, 7) ELSE Then(p, 6, Request("lopen", f.h, <<>>))) /\ UNCHANGED clientvars
       \/ f.pc = 6 /\ Failed(p) /\ Clunks(p, 7) /\ UNCHANGED clientvars
       \/ f.pc = 6 /\ ~Failed(p) /\ NewRemote(f.h) /\ Gives(p, Ok) /\ UNCHANGED <<kept, strays>>
       \/ f.pc = 7 /\ Gives(p, Result(f.err, 0, <<>>)) /\ UNCHANGED clientvars

(* Remove asks what there is, and tells the server.                        *)
RemoveRemote(p) ==
    LET f == Top(p)  r == back[p] IN
    /\ f.op = "rremove"
    /\ \/ f.pc = 0 /\ Then(p, 1, walk(f.n))
       \/ f.pc = 1 /\ IF Failed(p) THEN Gives(p, r)
                      ELSE Call(p, [f EXCEPT !.pc = 2, !.h = r.h], Request("getattr", r.h, <<>>))
       \/ f.pc = 2 /\ Call(p, [f EXCEPT !.pc = 3, !.err = r.err, !.flags = IF r.h = 1 THEN {"dir"} ELSE {}], clunk(f.h))
       \/ f.pc = 3 /\ IF f.err # "ok" THEN Gives(p, Result(f.err, 0, <<>>)) ELSE Then(p, 4, walk(Parent(f.n)))
       \/ f.pc = 4 /\ IF Failed(p) THEN Gives(p, r)
                      ELSE Call(p, [f EXCEPT !.pc = 5, !.h = r.h], [Request("unlinkat", r.h, f.n) EXCEPT !.flags = f.flags])
       \/ f.pc = 5 /\ Clunks(p, 6)
       \/ f.pc = 6 /\ Gives(p, Result(f.err, 0, <<>>))
    /\ UNCHANGED clientvars

(* Rename has two fids, and gives both back.                               *)
RenameRemote(p) ==
    LET f == Top(p)  r == back[p] IN
    /\ f.op = "rrename"
    /\ \/ f.pc = 0 /\ Then(p, 1, walk(Parent(f.n)))
       \/ f.pc = 1 /\ IF Failed(p) THEN Gives(p, r)
                      ELSE Call(p, [f EXCEPT !.pc = 2, !.h = r.h], walk(Parent(f.m)))
       \/ f.pc = 2 /\ IF Failed(p) THEN Clunks(p, 5)
                      ELSE Call(p, [f EXCEPT !.pc = 3, !.off = r.h], [Request("renameat", f.h, f.n) EXCEPT !.m = f.m, !.off = r.h])
       \/ f.pc = 3 /\ Call(p, [f EXCEPT !.pc = 4, !.err = r.err], clunk(f.off))
       \/ f.pc = 4 /\ Call(p, [f EXCEPT !.pc = 5], clunk(f.h))
       \/ f.pc = 5 /\ Gives(p, Result(f.err, 0, <<>>))
    /\ UNCHANGED clientvars

(* ReadDir: with an open fid; each entry is asked for its attributes.      *)
ReadDirRemote(p) ==
    LET f == Top(p)  r == back[p] IN
    /\ f.op = "rreaddir"
    /\ \/ f.pc = 0 /\ Then(p, 1, walk(f.n))
       \/ f.pc = 1 /\ IF Failed(p) THEN Gives(p, r)
                      ELSE Call(p, [f EXCEPT !.pc = 2, !.h = r.h], [Request("lopen", r.h, <<>>) EXCEPT !.flags = {"rdonly"}])
       \/ f.pc = 2 /\ IF Failed(p) THEN Clunks(p, 4) ELSE Then(p, 3, Request("treaddir", f.h, <<>>))
       \/ f.pc = 3 /\ Clunks(p, 4)
       \/ f.pc = 4 /\ Gives(p, Result(f.err, 0, <<>>))
    /\ UNCHANGED clientvars

(***************************************************************************)
(* The files of the client: Read and Write go to the offset, which moves   *)
(* when they have succeeded.  m names the file: its number.                *)
(***************************************************************************)
rRead == Remote("rread", <<>>, <<>>, {})
rWrite(cells) == [Remote("rwrite", <<>>, <<>>, {}) EXCEPT !.cells = cells]
rSeek(off) == [Remote("rseek", <<>>, <<>>, {}) EXCEPT !.off = off]
rClose == Remote("rclose", <<>>, <<>>, {})
RemoteOps == {"rread", "rwrite", "rseek", "rclose"}

ReadRemote(p) ==
    LET f == Top(p)  h == remote[f.h] IN
    /\ f.op = "rread"
    /\ \/ f.pc = 0 /\ Then(p, 1, [Request("tread", h.fid, <<>>) EXCEPT !.off = h.off]) /\ UNCHANGED clientvars
       \/ /\ f.pc = 1 /\ Gives(p, back[p])
          /\ remote' = IF Failed(p) THEN remote ELSE [remote EXCEPT ![f.h].off = @ + Len(back[p].kids)]
          /\ UNCHANGED <<kept, strays>>

WriteRemote(p) ==
    LET f == Top(p)  h == remote[f.h] IN
    /\ f.op = "rwrite"
    /\ \/ f.pc = 0 /\ Then(p, 1, [Request("twrite", h.fid, <<>>) EXCEPT !.off = h.off, !.cells = f.cells]) /\ UNCHANGED clientvars
       \/ /\ f.pc = 1 /\ Gives(p, back[p])
          /\ remote' = IF Failed(p) THEN remote ELSE [remote EXCEPT ![f.h].off = @ + Len(f.cells)]
          /\ UNCHANGED <<kept, strays>>

SeekRemote(p) ==
    /\ Top(p).op = "rseek"
    /\ Gives(p, Ok)
    /\ remote' = [remote EXCEPT ![Top(p).h].off = Top(p).off]
    /\ UNCHANGED <<kept, strays>>

(* Close syncs, which no file here can do and the server passes over.      *)
CloseRemote(p) ==
    LET f == Top(p) IN
    /\ f.op = "rclose"
    /\ \/ /\ f.pc = 0 /\ Then(p, 1, clunk(remote[f.h].fid))
          /\ remote' = [remote EXCEPT ![f.h].open = FALSE]
       \/ f.pc = 1 /\ Gives(p, back[p]) /\ UNCHANGED remote
    /\ UNCHANGED <<kept, strays>>

ClientStep(p) ==
    /\ stack[p] # <<>>
    /\ \/ ViaFid(p) \/ OpenRemote(p) \/ CreateRemote(p) \/ RemoveRemote(p) \/ RenameRemote(p) \/ ReadDirRemote(p)
       \/ ReadRemote(p) \/ WriteRemote(p) \/ SeekRemote(p) \/ CloseRemote(p)

(***************************************************************************)
(* Calls of the client, by name and on its files, and requests of a guest. *)
(***************************************************************************)
RemoteCalls == OneRequest \cup {"ropen", "rcreate", "rremove", "rrename", "rreaddir"}
Remotely(p) ==
    \E f \in Wanted(p) :
        /\ Comes(p, f)
        /\ \/ f.op \in RemoteCalls /\ Begins(p, <<f>>)
           \/ f.op \in RemoteOps /\ \E r \in DOMAIN remote : remote[r].open /\ Begins(p, <<[f EXCEPT !.h = r]>>)

Guest(p) ==
    \E f \in Wanted(p) :
        /\ Comes(p, f)
        /\ \/ f.op = "walk" /\ Begins(p, <<f>>)
           \/ f.op \in Requests \ {"walk"} /\ \E i \in kept : fids[i].live /\ Begins(p, <<[f EXCEPT !.h = i, !.off = IF @ = 0 THEN i ELSE @]>>)

(* The guest keeps the fid that its walk has led to.                       *)
Keeps(p) ==
    /\ kept' = IF stack'[p] = <<>> /\ stack[p][1].op = "walk" /\ back'[p].err = "ok" THEN kept \cup {back'[p].h} ELSE kept
    /\ UNCHANGED <<remote, strays>>

SameAt(k) == (k \in DOMAIN nodes <=> k \in DOMAIN nodes') /\ (k \in DOMAIN nodes => nodes[k] = nodes'[k])

(* What others do at the name of a fid, or what a RenameAt puts there.     *)
Leads(p) ==
    LET renames == {f \in {stack[p][k] : k \in DOMAIN stack[p]} : f.op = "fsrename"} IN
    astray' = astray \cup
        {i \in DOMAIN fids :
            IF Renaming(p) THEN \E f \in renames : fids[i].path = f.m \/ Sys(f.n) # Sys(f.m)
            ELSE ~SameAt(fids[i].path)}

Next ==
    /\ ~Crashed
    /\ \E p \in Procs :
        /\ \/ (CallStep(p) \/ FsStep(p)) /\ UNCHANGED <<p9vars, clientvars>>
           \/ ServerStep(p) /\ Keeps(p) /\ UNCHANGED <<faults, trip, plan, table>>
           \/ ClientStep(p) /\ UNCHANGED <<faults, trip, plan, table, p9vars>>
           \/ (Remotely(p) \/ Guest(p)) /\ UNCHANGED <<p9vars, clientvars>>
        /\ Leads(p)

Init ==
    /\ P9Init
    /\ remote = <<>> /\ kept = {} /\ strays = {} /\ astray = {}

Spec == Init /\ [][Next]_vars

(* A fid stands for the file or directory it was walked to, also when a    *)
(* RenameAt has moved that, or a directory above it: requests on a fid     *)
(* that a guest keeps do not go to whatever has the old name now.  Not so  *)
(* when others, or a file put over it, take the name.  (p9file.Renamed.)   *)
FidsFollow ==
    (\A p \in Procs : ~Renaming(p)) =>
        \A i \in DOMAIN fids \ astray :
            fids[i].live /\ fids[i].on # 0 => fids[i].path \in DOMAIN nodes /\ nodes[fids[i].path] = fids[i].on

(* The client gives every fid back, also when a request has failed: when   *)
(* no call runs, the server has the fids of the client's open files and    *)
(* those of guests - and those of the calls of OpenContext that failed     *)
(* after their walk, which the client loses.  (client.go, OpenContext.)    *)
FidsReturned ==
    (\A p \in Procs : stack[p] = <<>>) =>
        {i \in DOMAIN fids : fids[i].live} \ (kept \cup strays) = {remote[r].fid : r \in {r \in DOMAIN remote : remote[r].open}}
=============================================================================
