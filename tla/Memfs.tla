-------------------------------- MODULE Memfs --------------------------------
(***************************************************************************)
(* memfs: a file system in memory, and the files of its nodes.             *)
(*                                                                         *)
(* A map takes names to nodes.  A node is a file, a directory or a         *)
(* symbolic link; a file has its bytes in a buffer, and an open file works *)
(* on a copy of it, which Close puts into the node.  The calls are cut     *)
(* where the code leaves the lock of the map or of the node: what was      *)
(* checked may have changed when it is used.                               *)
(*                                                                         *)
(* Goroutines run calls made of calls, so each has a stack of frames, and  *)
(* the result of the call that came back last.  The helpers that are built *)
(* on these calls are in FSHelpers.                                        *)
(*                                                                         *)
(* A name is a sequence, with the file system it belongs to in front.      *)
(* Paths in links begin there, too.  A buffer is a sequence of cells.      *)
(* Attributes are one mode; times, sizes of directories, invalid names and *)
(* the readers and writers that stand in for a file's bytes are left out.  *)
(*                                                                         *)
(* Bound: MaxLen cells in a buffer.                                        *)
(***************************************************************************)
EXTENDS Integers, FiniteSets, Sequences, SequencesExt

CONSTANTS
    Procs,    \* goroutines
    Paths,    \* names that occur
    Stored,   \* Stored[n]: what is there at first: the kind, and the bytes
    MaxLen

VARIABLES
    nodes,  \* nodes[n]: the node at name n; partial
    node,   \* node[i]: its kind, mode, buffer and target
    buf,    \* buf[b]: the cells of a buffer
    file,   \* file[h]: an open file
    stack,  \* stack[p]: the calls that p is in
    back,   \* back[p]: the result of the call that came back last
    wrote,  \* wrote[h]: history: what the file should hold
    saved   \* saved[i]: history: what the node should hold

tree == <<nodes, node>>
data == <<buf, file, wrote, saved>>
memvars == <<nodes, node, buf, file, stack, back, wrote, saved>>

Kinds == {"file", "dir", "link"}

ASSUME NamesAssumption ==
    \A n \in Paths : Len(n) > 0 /\ (Len(n) > 1 => Front(n) \in Paths)
ASSUME StoredAssumption ==
    /\ IsFiniteSet({n \in Paths : Stored[n].kind # "none"})
    /\ Stored \in [Paths -> [kind : Kinds \cup {"none"}, cells : Seq(Nat), to : Paths]]
    /\ \A n \in Paths : IF Len(n) = 1 THEN Stored[n].kind = "dir"
                        ELSE Stored[n].kind # "none" => Stored[Front(n)].kind = "dir"

Top(p) == stack[p][Len(stack[p])]
Below(n, d) == IsStrictPrefix(d, n)
Moved(n, d, e) == e \o SubSeq(n, Len(d) + 1, Len(n))

(***************************************************************************)
(* The stack.  A call has names n and m, a mode, an open file h, and an    *)
(* offset or a size, cells, flags; todo is what it has still to go         *)
(* through and err an error it keeps.  Until it is open, h is a node.      *)
(***************************************************************************)
Frame(op, n, m, mode) ==
    [op |-> op, pc |-> 0, n |-> n, m |-> m, mode |-> mode, h |-> 0, off |-> 0,
     cells |-> <<>>, flags |-> {}, todo |-> <<>>, err |-> "ok"]
At(p, op, pc) == stack[p] # <<>> /\ Top(p).op = op /\ Top(p).pc = pc
Become(p, f) == stack' = [stack EXCEPT ![p] = Front(@) \o <<f>>] /\ UNCHANGED back
Goto(p, pc) == Become(p, [Top(p) EXCEPT !.pc = pc])
Returns(p, r) == stack' = [stack EXCEPT ![p] = Front(@)] /\ back' = [back EXCEPT ![p] = r]
Result(err, h, kids) == [err |-> err, h |-> h, kids |-> kids]
Ok == Result("ok", 0, <<>>)
Fail(p, err) == Returns(p, Result(err, 0, <<>>)) /\ UNCHANGED <<tree, data>>

(***************************************************************************)
(* What a name is.  A directory may have no node of its own: it is there   *)
(* as long as something is below it.                                       *)
(***************************************************************************)
Kind(n) ==
    IF n \in DOMAIN nodes THEN node[nodes[n]].kind
    ELSE IF \E k \in DOMAIN nodes : Below(k, n) THEN "dir" ELSE "none"
Exists(n) == Kind(n) # "none"
IsDir(n) == Kind(n) = "dir"
Children(n) == {SubSeq(k, 1, Len(n) + 1) : k \in {k \in DOMAIN nodes : Below(k, n)}}
IsEmpty(n) == Children(n) = {}

(* Links are followed one by one, and nothing ends a cycle of them.        *)
To(n) == IF node[nodes[n]].to = <<>> THEN Front(n) ELSE node[nodes[n]].to
Follow(n) ==
    LET hop[k \in 0 .. Cardinality(Paths)] ==
            IF k = 0 THEN n
            ELSE LET d == hop[k - 1] IN IF Kind(d) = "link" THEN To(d) ELSE d
        end == hop[Cardinality(Paths)]
    IN  IF Kind(end) = "link" THEN <<>> ELSE end

(***************************************************************************)
(* Nodes and their files.                                                  *)
(***************************************************************************)
NewNode(kind, mode, b, to) == [kind |-> kind, mode |-> mode, buf |-> b, to |-> to]
NewFile(i, b) == [node |-> i, buf |-> b, off |-> 0, dirty |-> FALSE, closed |-> FALSE]

(* A fresh node, with nothing in it, takes the name.                       *)
PutNode(n, kind, mode, to) ==
    /\ node' = Append(node, NewNode(kind, mode, Len(buf) + 1, to))
    /\ nodes' = [k \in DOMAIN nodes \cup {n} |-> IF k = n THEN Len(node) + 1 ELSE nodes[k]]
    /\ buf' = Append(buf, <<>>)
    /\ saved' = Append(saved, <<>>)
    /\ UNCHANGED <<file, wrote>>

(* A file is opened on a copy of the bytes.                                *)
OpenNodeShared(i) ==
    /\ file' = Append(file, NewFile(i, node[i].buf))
    /\ wrote' = Append(wrote, buf[node[i].buf])
    /\ UNCHANGED <<tree, buf, saved>>

OpenNode(i) ==
    /\ buf' = Append(buf, buf[node[i].buf])
    /\ file' = Append(file, NewFile(i, Len(buf) + 1))
    /\ wrote' = Append(wrote, buf[node[i].buf])
    /\ UNCHANGED <<tree, saved>>

(* Cells put over others from an offset on; what lies between is zero.     *)
Put(cells, off, new) ==
    [k \in 1..(IF off + Len(new) > Len(cells) THEN off + Len(new) ELSE Len(cells)) |->
        IF k \in off + 1..off + Len(new) THEN new[k - off]
        ELSE IF k <= Len(cells) THEN cells[k] ELSE 0]

(* Within the bytes a write is made in place; beyond, into a new buffer.   *)
WriteFile(h, new) ==
    LET f == file[h]
        cells == Put(buf[f.buf], f.off, new)
        grows == Len(cells) > Len(buf[f.buf]) IN
    /\ buf' = IF grows THEN Append(buf, cells) ELSE [buf EXCEPT ![f.buf] = cells]
    /\ file' = [file EXCEPT ![h].buf = IF grows THEN Len(buf) + 1 ELSE @,
                            ![h].off = @ + Len(new), ![h].dirty = TRUE]
    /\ wrote' = [wrote EXCEPT ![h] = Put(@, f.off, new)]
    /\ UNCHANGED saved

(* The node gets the buffer of the file, if something was written.         *)
CloseFile(h) ==
    LET f == file[h] IN
    /\ file' = [file EXCEPT ![h].closed = TRUE]
    /\ node' = IF f.dirty THEN [node EXCEPT ![f.node].buf = f.buf] ELSE node
    /\ saved' = IF f.dirty THEN [saved EXCEPT ![f.node] = wrote[h]] ELSE saved
    /\ UNCHANGED <<nodes, buf, wrote>>

Closed(p) == Top(p).h = 0 \/ file[Top(p).h].closed

Read(p) ==
    /\ At(p, "read", 0)
    /\ IF Closed(p) THEN Fail(p, "closed")
       ELSE LET f == file[Top(p).h] IN
            IF f.off >= Len(buf[f.buf]) THEN Fail(p, "eof")
            ELSE /\ file' = [file EXCEPT ![Top(p).h].off = Len(buf[f.buf])]
                 /\ Returns(p, Result("ok", 0, SubSeq(buf[f.buf], f.off + 1, Len(buf[f.buf]))))
                 /\ UNCHANGED <<tree, buf, wrote, saved>>

ReadAt(p) ==
    /\ At(p, "readat", 0)
    /\ IF Closed(p) THEN Fail(p, "closed")
       ELSE LET cells == buf[file[Top(p).h].buf] IN
            IF Top(p).off > Len(cells) THEN Fail(p, "invalid")
            ELSE /\ Returns(p, Result("ok", 0, SubSeq(cells, Top(p).off + 1, Len(cells))))
                 /\ UNCHANGED <<tree, data>>

Seek(p) ==
    /\ At(p, "seek", 0)
    /\ IF Closed(p) THEN Fail(p, "closed")
       ELSE IF Top(p).off > Len(buf[file[Top(p).h].buf]) THEN Fail(p, "invalid")
       ELSE /\ file' = [file EXCEPT ![Top(p).h].off = Top(p).off]
            /\ Returns(p, Ok)
            /\ UNCHANGED <<tree, buf, wrote, saved>>

Write(p) ==
    /\ At(p, "write", 0)
    /\ IF Closed(p) THEN Fail(p, "closed")
       ELSE /\ file[Top(p).h].off + Len(Top(p).cells) <= MaxLen
            /\ WriteFile(Top(p).h, Top(p).cells)
            /\ Returns(p, Ok)
            /\ UNCHANGED tree

(* WriteAt sets the offset, lets go of the lock and calls Write.           *)
WriteAt(p) ==
    /\ At(p, "writeat", 0)
    /\ IF Closed(p) THEN Fail(p, "closed")
       ELSE IF Top(p).off > Len(buf[file[Top(p).h].buf]) THEN Fail(p, "invalid")
       ELSE /\ file' = [file EXCEPT ![Top(p).h].off = Top(p).off, ![Top(p).h].dirty = TRUE]
            /\ Become(p, [Top(p) EXCEPT !.op = "write"])
            /\ UNCHANGED <<tree, buf, wrote, saved>>

Close(p) ==
    /\ At(p, "close", 0)
    /\ IF Top(p).h # 0 /\ file[Top(p).h].closed THEN Fail(p, "closed")
       ELSE IF Top(p).h = 0 THEN Returns(p, Ok) /\ UNCHANGED <<tree, data>>
       ELSE CloseFile(Top(p).h) /\ Returns(p, Ok)

(***************************************************************************)
(* Opening a name, and the listing of a directory.                         *)
(***************************************************************************)
OpenLooks(p) ==
    /\ At(p, "open", 0)
    /\ LET t == Follow(Top(p).n) IN
       \/ /\ t = <<>>
          /\ Goto(p, 2)
          /\ UNCHANGED <<tree, data>>
       \/ /\ t # <<>> /\ Kind(t) = "none"
          /\ Fail(p, "notexist")
       \/ /\ t # <<>> /\ Kind(t) = "dir"
          /\ Returns(p, Result("ok", 0, SetToSeq(Children(t))))
          /\ UNCHANGED <<tree, data>>
       \/ /\ t # <<>> /\ Kind(t) = "file"
          /\ Become(p, [Top(p) EXCEPT !.pc = 1, !.h = nodes[t]])
          /\ UNCHANGED <<tree, data>>

OpensNode(p) ==
    /\ At(p, "open", 1)
    /\ OpenNode(Top(p).h)
    /\ Returns(p, Result("ok", Len(file) + 1, <<>>))

(***************************************************************************)
(* The calls that change the tree.  Each checks first and then takes the   *)
(* lock again, except Rename, which holds it all the time.                 *)
(***************************************************************************)
Parent(n) == Front(n)
IsRoot(n) == Len(n) = 1
NoParent(n) == ~IsRoot(Parent(n)) /\ ~Exists(Parent(n))

CreateChecks(p) ==
    /\ At(p, "create", 0)
    /\ IF NoParent(Top(p).n) THEN Fail(p, "notexist")
       ELSE Goto(p, 1) /\ UNCHANGED <<tree, data>>

CreatePuts(p) ==
    /\ At(p, "create", 1)
    /\ PutNode(Top(p).n, "file", 1, <<>>)
    /\ Become(p, [Top(p) EXCEPT !.op = "open", !.pc = 1, !.h = Len(node) + 1])

MkdirChecks(p) ==
    /\ At(p, "mkdir", 0)
    /\ IF Exists(Top(p).n) THEN Fail(p, "exist")
       ELSE Goto(p, 1) /\ UNCHANGED <<tree, data>>

MkdirChecksParent(p) ==
    /\ At(p, "mkdir", 1)
    /\ IF NoParent(Top(p).n) THEN Fail(p, "notexist")
       ELSE Goto(p, 2) /\ UNCHANGED <<tree, data>>

MkdirPuts(p) ==
    /\ At(p, "mkdir", 2)
    /\ PutNode(Top(p).n, "dir", Top(p).mode, <<>>)
    /\ Returns(p, Ok)

SymlinkChecks(p) ==
    /\ At(p, "symlink", 0)
    /\ IF NoParent(Top(p).n) THEN Fail(p, "notexist")
       ELSE Goto(p, 1) /\ UNCHANGED <<tree, data>>

SymlinkPuts(p) ==
    /\ At(p, "symlink", 1)
    /\ PutNode(Top(p).n, "link", 1, Top(p).m)
    /\ Returns(p, Ok)

(* Chmod, Chown and Chtimes: a directory without a node has no attributes. *)
ChmodChecks(p) ==
    /\ At(p, "chmod", 0)
    /\ IF ~Exists(Top(p).n) THEN Fail(p, "notexist")
       ELSE Goto(p, 1) /\ UNCHANGED <<tree, data>>

ChmodLooks(p) ==
    /\ At(p, "chmod", 1)
    /\ IF Top(p).n \notin DOMAIN nodes THEN Fail(p, "notexist")
       ELSE Become(p, [Top(p) EXCEPT !.pc = 2, !.h = nodes[Top(p).n]]) /\ UNCHANGED <<tree, data>>

ChmodSets(p) ==
    /\ At(p, "chmod", 2)
    /\ node' = [node EXCEPT ![Top(p).h].mode = Top(p).mode]
    /\ Returns(p, Ok)
    /\ UNCHANGED <<nodes, data>>

TruncateLooks(p) ==
    /\ At(p, "truncate", 0)
    /\ IF Top(p).n \notin DOMAIN nodes THEN Fail(p, "notexist")
       ELSE Become(p, [Top(p) EXCEPT !.pc = 1, !.h = nodes[Top(p).n]]) /\ UNCHANGED <<tree, data>>

(* The bytes are read, cut or filled up, and put back in two steps.        *)
Resized(cells, size) == [k \in 1..size |-> IF k <= Len(cells) THEN cells[k] ELSE 0]

TruncateReads(p) ==
    /\ At(p, "truncate", 1)
    /\ LET cells == buf[node[Top(p).h].buf] IN
       IF Len(cells) = Top(p).off /\ node[Top(p).h].kind # "link" THEN Returns(p, Ok)
       ELSE Become(p, [Top(p) EXCEPT !.pc = 2, !.cells = Resized(cells, Top(p).off)])
    /\ UNCHANGED <<tree, data>>

(* The bytes of a link are its target: cut to nothing, it is the directory *)
(* of the link.                                                            *)
TruncateSets(p) ==
    /\ At(p, "truncate", 2)
    /\ buf' = Append(buf, Top(p).cells)
    /\ node' = [node EXCEPT ![Top(p).h].buf = Len(buf) + 1, ![Top(p).h].to = <<>>]
    /\ saved' = [saved EXCEPT ![Top(p).h] = Top(p).cells]
    /\ Returns(p, Ok)
    /\ UNCHANGED <<nodes, file, wrote>>

RemoveChecks(p) ==
    /\ At(p, "remove", 0)
    /\ IF IsRoot(Top(p).n) THEN Fail(p, "invalid")
       ELSE IF ~Exists(Top(p).n) THEN Fail(p, "notexist")
       ELSE Goto(p, 1) /\ UNCHANGED <<tree, data>>

RemoveChecksDir(p) ==
    /\ At(p, "remove", 1)
    /\ IF ~Exists(Top(p).n) THEN Fail(p, "notexist")
       ELSE Goto(p, IF IsDir(Top(p).n) THEN 2 ELSE 3) /\ UNCHANGED <<tree, data>>

RemoveChecksEmpty(p) ==
    /\ At(p, "remove", 2)
    /\ IF ~Exists(Top(p).n) THEN Fail(p, "other")
       ELSE IF IsDir(Top(p).n) /\ ~IsEmpty(Top(p).n) THEN Fail(p, "notempty")
       ELSE Goto(p, 3) /\ UNCHANGED <<tree, data>>

RemoveDeletes(p) ==
    /\ At(p, "remove", 3)
    /\ nodes' = [k \in DOMAIN nodes \ {Top(p).n} |-> nodes[k]]
    /\ Returns(p, Ok)
    /\ UNCHANGED <<node, data>>

AtOrBelow(k, n) == IsPrefix(n, k)

RenameError(n, m) ==
    IF n \notin DOMAIN nodes THEN "notexist"
    ELSE IF ~IsRoot(Parent(m)) /\ (Parent(m) \notin DOMAIN nodes \/ ~IsDir(Parent(m))) THEN "notexist"
    ELSE IF m \in DOMAIN nodes /\ IsDir(m) /\ ~IsEmpty(m) THEN "exist" ELSE "ok"

(* What was at the new name goes; what is below the old one moves along.   *)
Renamed(n, m) ==
    LET left == DOMAIN nodes \ {m}
        moves == IF node[nodes[n]].kind = "dir" THEN {k \in left : AtOrBelow(k, n)} ELSE {n}
        to == [k \in moves |-> Moved(k, n, m)]
        news == {to[k] : k \in moves} IN
    [j \in (left \ moves) \cup news |->
        IF j \in news THEN nodes[CHOOSE k \in moves : to[k] = j] ELSE nodes[j]]

Rename(p) ==
    LET n == Top(p).n  m == Top(p).m IN
    /\ At(p, "rename", 0)
    /\ IF n = m THEN Returns(p, Ok) /\ UNCHANGED <<tree, data>>
       ELSE IF RenameError(n, m) # "ok" THEN Fail(p, RenameError(n, m))
       ELSE nodes' = Renamed(n, m) /\ Returns(p, Ok) /\ UNCHANGED <<node, data>>

(***************************************************************************)
(* One step of a call of the file system.                                  *)
(***************************************************************************)
MemStep(p) ==
    \/ Read(p) \/ ReadAt(p) \/ Seek(p) \/ Write(p) \/ WriteAt(p) \/ Close(p)
    \/ OpenLooks(p) \/ OpensNode(p)
    \/ CreateChecks(p) \/ CreatePuts(p)
    \/ MkdirChecks(p) \/ MkdirChecksParent(p) \/ MkdirPuts(p)
    \/ SymlinkChecks(p) \/ SymlinkPuts(p)
    \/ ChmodChecks(p) \/ ChmodLooks(p) \/ ChmodSets(p)
    \/ TruncateLooks(p) \/ TruncateReads(p) \/ TruncateSets(p)
    \/ RemoveChecks(p) \/ RemoveChecksDir(p) \/ RemoveChecksEmpty(p) \/ RemoveDeletes(p)
    \/ Rename(p)

(* From and New: the root is always there.                                 *)
MemInit ==
    LET first == SetToSeq({n \in Paths : Stored[n].kind # "none"}) IN
    /\ nodes = [n \in {n \in Paths : Stored[n].kind # "none"} |-> CHOOSE i \in DOMAIN first : first[i] = n]
    /\ node = [i \in DOMAIN first |-> NewNode(Stored[first[i]].kind, 1, i, Stored[first[i]].to)]
    /\ buf = [i \in DOMAIN first |-> Stored[first[i]].cells]
    /\ saved = buf
    /\ file = <<>> /\ wrote = <<>>
    /\ stack = [p \in Procs |-> <<>>]
    /\ back = [p \in Procs |-> Ok]

(***************************************************************************)
(* Whoever calls memfs: any call of a name, and any on a file that was     *)
(* ever opened, or on none.  FSHelpers, Syscalls and P9 say who calls what,*)
(* one call within another, and FSHelpers writes a copy of a file at once. *)
(***************************************************************************)
FileCalls == {"read", "readat", "seek", "write", "writeat", "close"}
NameCalls == {"open", "create", "mkdir", "symlink", "chmod", "truncate", "remove", "rename"}
CallOnPath(op, n, m, mode, off) == [Frame(op, n, m, mode) EXCEPT !.off = off]
CallOnFile(op, h, off, cells) == [Frame(op, <<>>, <<>>, 0) EXCEPT !.h = h, !.off = off, !.cells = cells]
Called(p) ==
    /\ stack[p] = <<>>
    /\ \/ \E op \in NameCalls, n, m \in Paths, mode, off \in Nat :
              stack' = [stack EXCEPT ![p] = <<CallOnPath(op, n, m, mode, off)>>]
       \/ \E op \in FileCalls, h \in 0 .. Len(file), off \in Nat, cells \in Seq(Nat) :
              stack' = [stack EXCEPT ![p] = <<CallOnFile(op, h, off, cells)>>]
    /\ UNCHANGED <<tree, data, back>>

MemNext == \E p \in Procs : Called(p) \/ MemStep(p)
MemSpec == MemInit /\ [][MemNext]_memvars

(***************************************************************************)
(* An open file holds what was there when it was opened and what has been  *)
(* written through it, whoever writes the same file meanwhile; and a node  *)
(* holds what the last Close or Truncate put there, whatever is written    *)
(* through files that are open or have been closed.  (Node.Data,           *)
(* nodeFile.Write and nodeFile.Close hand buffers to one another.)         *)
(***************************************************************************)
Private ==
    /\ \A h \in DOMAIN file : buf[file[h].buf] = wrote[h]
    /\ \A i \in DOMAIN node : buf[node[i].buf] = saved[i]
=============================================================================
