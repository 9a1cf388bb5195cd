-------------------------------- MODULE Idbfs --------------------------------
(***************************************************************************)
(* idbfs: a file system in a database of the browser.  A record for each   *)
(* name is in one store, with the data of small files in it; the data of   *)
(* large files are in a second store.  In front of each is a cache, which  *)
(* hands out its own objects: an open file works on the object and on the  *)
(* array that the cache has, and both change under the other holders.      *)
(*                                                                         *)
(* A transaction of the database is one step, with what is done when it is *)
(* complete.  It may fail; then nothing of it is done.  What is read is a  *)
(* copy.  Times and modes are one attribute, and offsets of a directory's  *)
(* listing are left out.                                                   *)
(*                                                                         *)
(* A name is a sequence, the root <<>>, whose parent is itself.            *)
(* Bounds: MaxLen cells in a file; one entry is dropped from a full cache. *)
(***************************************************************************)
EXTENDS Async

CONSTANTS
    Inline,  \* INLINE_DATA_THRESHOLD: from this length on, data are external
    MaxLen,
    Stored   \* Stored[n]: the records there are at first

VARIABLES
    store,   \* the metadata store: from names to records
    blobs,   \* the data store: from names to cells
    mcache,  \* metadataCache: from names to objects
    dcache,  \* dataCache: from names to arrays
    obj,     \* the objects in memory
    bytes,   \* the arrays in memory
    files,   \* the open files; wrote: the arrays one has written (history)
    evicted, \* whether an entry has been dropped
    spoiled, \* history: objects and arrays of a transaction that failed
    moved    \* history: names whose directory was renamed

db == <<store, blobs>>
mem == <<mcache, dcache, obj, bytes>>
hist == <<evicted, spoiled, moved>>

Parent(n) == IF n = <<>> THEN n ELSE Front(n)
With(f, k, v) == [j \in DOMAIN f \cup {k} |-> IF j = k THEN v ELSE f[j]]
Without(f, ks) == [j \in DOMAIN f \ ks |-> f[j]]

(***************************************************************************)
(* A record, and the object it is in memory.                               *)
(***************************************************************************)
Object(n, type, attr, size, ext, b, to) ==
    [n |-> n, type |-> type, attr |-> attr, size |-> size, ext |-> ext, b |-> b, to |-> to]
Cloned(o) == [type |-> o.type, attr |-> o.attr, size |-> o.size, ext |-> o.ext, to |-> o.to,
              cells |-> IF o.b = 0 THEN <<>> ELSE bytes[o.b]]
Loaded(n, r, b) == Object(n, r.type, r.attr, r.size, r.ext, b, r.to)

(* A fresh object with a fresh array.                                      *)
Makes(ob, cells) ==
    /\ bytes' = Append(bytes, cells)
    /\ obj' = Append(obj, [ob EXCEPT !.b = Len(bytes) + 1])

(* The object of a name: that of the cache, or a copy of the record.       *)
Found(n) == IF n \in DOMAIN mcache THEN mcache[n] ELSE IF n \in DOMAIN store THEN Len(obj) + 1 ELSE 0
GetMetadata(n) ==
    IF n \in DOMAIN mcache \/ n \notin DOMAIN store THEN UNCHANGED <<mcache, obj, bytes>>
    ELSE /\ Makes(Loaded(n, store[n], 0), store[n].cells)
         /\ mcache' = With(mcache, n, Len(obj) + 1)
TypeOf(n) == IF Found(n) = 0 THEN "none" ELSE IF n \in DOMAIN mcache THEN obj[mcache[n]].type ELSE store[n].type

(* The array of a name, likewise; an empty one, if there is no blob.       *)
FoundBlob(n) == IF n \in DOMAIN dcache THEN dcache[n] ELSE Len(bytes) + 1
GetDataBlob(n) ==
    IF n \in DOMAIN dcache THEN UNCHANGED <<dcache, bytes>>
    ELSE IF n \in DOMAIN blobs
    THEN bytes' = Append(bytes, blobs[n]) /\ dcache' = With(dcache, n, Len(bytes) + 1)
    ELSE bytes' = Append(bytes, <<>>) /\ UNCHANGED dcache
DataOf(o, n) ==
    IF obj[o].ext THEN GetDataBlob(n)
    ELSE bytes' = (IF obj[o].b = 0 THEN Append(bytes, <<>>) ELSE bytes) /\ UNCHANGED dcache
ArrayOf(o, n) == IF obj[o].ext THEN FoundBlob(n) ELSE IF obj[o].b = 0 THEN Len(bytes) + 1 ELSE obj[o].b

InvalidateByParent(ds) == mcache' = Without(mcache, {n \in DOMAIN mcache : Parent(n) \in ds})

(***************************************************************************)
(* Putting an entry.  Without data, only the record.  With data, the old   *)
(* object says whether there is a blob to delete, and the object gets its  *)
(* data before the transaction is made.                                    *)
(***************************************************************************)
PutMeta(o) == [Frame("putmeta", <<>>, <<>>) EXCEPT !.o = o]
PutEntry(o, b) == [Frame("put", <<>>, <<>>) EXCEPT !.o = o, !.b = b]

PutMetadata(p) ==
    LET o == Top(p).o  n == obj[o].n IN
    /\ At(p, "putmeta", 0)
    /\ \/ /\ store' = With(store, n, Cloned(obj[o]))
          /\ mcache' = With(mcache, n, o)
          /\ Returns(p, Ok)
          /\ UNCHANGED <<spoiled, faults>>
       \/ /\ Faulty
          /\ spoiled' = spoiled \cup {o}
          /\ Throws(p, "EIO")
          /\ UNCHANGED <<store, mcache>>
    /\ UNCHANGED <<blobs, dcache, obj, bytes, files, evicted, moved, plan, trip, last>>

PutLooks(p) ==
    /\ At(p, "put", 0)
    /\ GetMetadata(obj[Top(p).o].n)
    /\ Becomes(p, [Top(p) EXCEPT !.pc = 1, !.x = Found(obj[Top(p).o].n)])
    /\ UNCHANGED <<db, dcache, files, hist, plan, trip, last, faults>>

(* A cached array stays when the entry is put again. *)
CachesBlobOnce(n, b) == IF n \in DOMAIN dcache THEN UNCHANGED dcache ELSE dcache' = With(dcache, n, b)
CachesBlob(n, b) == dcache' = With(dcache, n, b)

Large(b) == b # 0 /\ Len(bytes[b]) >= Inline
HadData(x) == x # 0 /\ obj[x].ext

PutCommits(p) ==
    LET f == Top(p)  o == f.o  n == obj[o].n
        new == [obj[o] EXCEPT !.ext = Large(f.b), !.b = IF Large(f.b) THEN 0 ELSE f.b] IN
    /\ At(p, "put", 1)
    /\ obj' = [obj EXCEPT ![o] = new]
    /\ \/ /\ store' = With(store, n, Cloned(new))
          /\ mcache' = With(mcache, n, o)
          /\ IF Large(f.b) THEN blobs' = With(blobs, n, bytes[f.b]) /\ CachesBlob(n, f.b)
             ELSE IF HadData(f.x) THEN blobs' = Without(blobs, {n}) /\ dcache' = Without(dcache, {n})
             ELSE UNCHANGED <<blobs, dcache>>
          /\ Returns(p, Ok)
          /\ UNCHANGED <<spoiled, faults>>
       \/ /\ Faulty
          /\ spoiled' = spoiled \cup {o}
          /\ Throws(p, "EIO")
          /\ UNCHANGED <<db, mcache, dcache>>
    /\ UNCHANGED <<bytes, files, evicted, moved, plan, trip, last>>

(* Deleting one.                                                           *)
DeleteLooks(p) ==
    /\ At(p, "delete", 0)
    /\ GetMetadata(Top(p).n)
    /\ Becomes(p, [Top(p) EXCEPT !.pc = 1, !.x = Found(Top(p).n)])
    /\ UNCHANGED <<db, dcache, files, hist, plan, trip, last, faults>>

DeleteCommits(p) ==
    LET f == Top(p)  ext == IF HadData(f.x) THEN {f.n} ELSE {} IN
    /\ At(p, "delete", 1)
    /\ \/ /\ store' = Without(store, {f.n}) /\ mcache' = Without(mcache, {f.n})
          /\ blobs' = Without(blobs, ext) /\ dcache' = Without(dcache, ext)
          /\ Returns(p, Ok)
          /\ UNCHANGED faults
       \/ Faulty /\ Throws(p, "EIO") /\ UNCHANGED <<db, mcache, dcache>>
    /\ UNCHANGED <<obj, bytes, files, hist, plan, trip, last>>

HasChildren(d) == \E n \in DOMAIN store : Parent(n) = d

(* The parent of a new name, if that is not in the root, is a directory.   *)
NoParent(n) ==
    IF n = <<>> \/ Parent(n) = <<>> \/ TypeOf(Parent(n)) = "dir" THEN "ok"
    ELSE IF TypeOf(Parent(n)) = "none" THEN "ENOENT" ELSE "ENOTDIR"
EnsureParentExists(p, n, A) ==
    /\ IF n = <<>> \/ Parent(n) = <<>> THEN UNCHANGED <<mcache, obj, bytes>> ELSE GetMetadata(Parent(n))
    /\ IF NoParent(n) = "ok" THEN A ELSE Throws(p, NoParent(n))
    /\ UNCHANGED <<db, dcache, files, hist, plan, trip, last, faults>>

(* Links are followed to the end; a name seen before is a loop.            *)
Resolve(n) == Frame("resolve", n, <<>>)
ResolveSymlink(p) ==
    LET f == Top(p) IN
    /\ At(p, "resolve", 0)
    /\ IF f.n \in f.seen THEN Throws(p, "ELOOP") /\ UNCHANGED <<mcache, obj, bytes>>
       ELSE /\ GetMetadata(f.n)
            /\ IF TypeOf(f.n) = "symlink"
               THEN Becomes(p, [f EXCEPT !.seen = @ \cup {f.n}, !.n = obj'[Found(f.n)].to])
               ELSE Returns(p, Result("ok", Found(f.n)))
    /\ UNCHANGED <<db, dcache, files, hist, plan, trip, last, faults>>

(***************************************************************************)
(* Opening.  The file has the path it was opened by and the object that    *)
(* this led to.                                                            *)
(***************************************************************************)
Rest == UNCHANGED <<db, hist, plan, trip, faults>>
NewFile(n, o, flags) == [n |-> n, o |-> o, flags |-> flags, pos |-> 0, closed |-> FALSE, dirty |-> FALSE, b |-> 0, wrote |-> {}]
OpensOn(p, n, o, flags) == files' = Append(files, NewFile(n, o, flags)) /\ Opens(p, Len(files) + 1)
Waits == UNCHANGED <<mem, files, last>> /\ Rest

Open(p) ==
    \/ At(p, "open", 0) /\ Calls(p, 1, Resolve(Top(p).n)) /\ Waits
    \/ /\ At(p, "open", 1)
       /\ IF back[p].err = "ok" /\ back[p].o # 0
          THEN OpensOn(p, Top(p).n, back[p].o, {"read", "write"})
          ELSE Throws(p, IF back[p].err = "ok" THEN "ENOENT" ELSE back[p].err) /\ UNCHANGED <<files, last>>
       /\ UNCHANGED mem /\ Rest

(* Create puts an empty file, whatever was there.                          *)
Create(p) ==
    \/ At(p, "create", 0) /\ EnsureParentExists(p, Top(p).n, Goto(p, 1))
    \/ /\ At(p, "create", 1)
       /\ Makes(Object(Top(p).n, "file", 1, 0, FALSE, 0, <<>>), <<>>)
       /\ Suspends(p, [Top(p) EXCEPT !.pc = 2, !.o = Len(obj) + 1], PutEntry(Len(obj) + 1, Len(bytes) + 1))
       /\ UNCHANGED <<mcache, dcache, files, last>> /\ Rest
    \/ /\ At(p, "create", 2)
       /\ IF back[p].err = "ok"
          THEN /\ InvalidateByParent({Parent(Top(p).n)})
               /\ OpensOn(p, Top(p).n, Top(p).o, Top(p).flags)
          ELSE Throws(p, back[p].err) /\ UNCHANGED <<mcache, files, last>>
       /\ UNCHANGED <<dcache, obj, bytes>> /\ Rest

OpenfileLooks(p) ==
    LET f == Top(p) IN
    /\ At(p, "openfile", 0)
    /\ GetMetadata(f.n)
    /\ IF TypeOf(f.n) = "symlink" THEN Calls(p, 1, Resolve(f.n))
       ELSE Becomes(p, [f EXCEPT !.pc = 2, !.o = Found(f.n)])
    /\ UNCHANGED <<dcache, files, last>> /\ Rest

OpenfileResolved(p) ==
    /\ At(p, "openfile", 1)
    /\ IF back[p].err = "ok" THEN Becomes(p, [Top(p) EXCEPT !.pc = 2, !.o = back[p].o]) ELSE Throws(p, back[p].err)
    /\ Waits

(* What is missing is created; truncating empties the object first.        *)
Truncating(p) == "trunc" \in Top(p).flags /\ obj[Top(p).o].type # "dir"
Openfile(p) ==
    LET f == Top(p) IN
    /\ At(p, "openfile", 2)
    /\ \/ /\ f.o = 0
          /\ IF "create" \in f.flags THEN Becomes(p, [f EXCEPT !.op = "create", !.pc = 0]) ELSE Throws(p, "ENOENT")
          /\ UNCHANGED <<mem, files, last>>
       \/ /\ f.o # 0 /\ {"create", "excl"} \subseteq f.flags
          /\ Throws(p, "EEXIST")
          /\ UNCHANGED <<mem, files, last>>
       \/ /\ f.o # 0 /\ ~({"create", "excl"} \subseteq f.flags) /\ ~Truncating(p)
          /\ OpensOn(p, f.n, f.o, f.flags)
          /\ UNCHANGED mem
       \/ /\ f.o # 0 /\ ~({"create", "excl"} \subseteq f.flags) /\ Truncating(p)
          /\ obj' = [obj EXCEPT ![f.o].size = 0, ![f.o].ext = FALSE, ![f.o].b = Len(bytes) + 1]
          /\ bytes' = Append(bytes, <<>>)
          /\ Calls(p, 3, PutEntry(f.o, Len(bytes) + 1))
          /\ UNCHANGED <<mcache, dcache, files, last>>
    /\ Rest

OpenfileTruncated(p) ==
    /\ At(p, "openfile", 3)
    /\ IF back[p].err = "ok" THEN OpensOn(p, Top(p).n, Top(p).o, Top(p).flags)
       ELSE Throws(p, back[p].err) /\ UNCHANGED <<files, last>>
    /\ UNCHANGED mem /\ Rest

(***************************************************************************)
(* Mkdir and Symlink.                                                      *)
(***************************************************************************)
NewEntry(f) ==
    IF f.op = "mkdir" THEN Object(f.n, "dir", 1, 0, FALSE, 0, <<>>)
    ELSE Object(f.n, "symlink", 1, Len(f.m), FALSE, 0, f.m)

MakeEntry(p, op) ==
    \/ At(p, op, 0) /\ EnsureParentExists(p, Top(p).n, Goto(p, 1))
    \/ /\ At(p, op, 1)
       /\ GetMetadata(Top(p).n)
       /\ IF Found(Top(p).n) # 0 THEN Throws(p, "EEXIST") ELSE Goto(p, 2)
       /\ UNCHANGED <<dcache, files, last>> /\ Rest
    \/ /\ At(p, op, 2)
       /\ obj' = Append(obj, NewEntry(Top(p)))
       /\ Calls(p, 3, PutEntry(Len(obj) + 1, 0))
       /\ UNCHANGED <<mcache, dcache, bytes, files, last>> /\ Rest
    \/ /\ At(p, op, 3)
       /\ IF back[p].err = "ok" THEN InvalidateByParent({Parent(Top(p).n)}) ELSE UNCHANGED mcache
       /\ Returns(p, back[p])
       /\ UNCHANGED <<dcache, obj, bytes, files, last>> /\ Rest
Mkdir(p) == MakeEntry(p, "mkdir")
Symlink(p) == MakeEntry(p, "symlink")

(***************************************************************************)
(* Chtimes, Chmod, Truncate, Stat, Readlink and Readdir.                   *)
(***************************************************************************)
Chmod(p) ==
    \/ /\ At(p, "chmod", 0)
       /\ GetMetadata(Top(p).n)
       /\ IF Found(Top(p).n) = 0 THEN Throws(p, "ENOENT")
          ELSE Becomes(p, [Top(p) EXCEPT !.pc = 1, !.o = Found(Top(p).n)])
       /\ UNCHANGED <<dcache, files, last>> /\ Rest
    \/ /\ At(p, "chmod", 1)
       /\ obj' = [obj EXCEPT ![Top(p).o].attr = Top(p).size]
       /\ Becomes(p, PutMeta(Top(p).o))
       /\ UNCHANGED <<mcache, dcache, bytes, files, last>> /\ Rest

TruncateReads(p) ==
    LET o == back[p].o  n == Top(p).n IN
    \/ At(p, "truncate", 0) /\ Calls(p, 1, Resolve(n)) /\ Waits
    \/ /\ At(p, "truncate", 1)
       /\ IF back[p].err # "ok" THEN Throws(p, back[p].err) /\ UNCHANGED <<dcache, bytes>>
          ELSE IF o = 0 THEN Throws(p, "ENOENT") /\ UNCHANGED <<dcache, bytes>>
          ELSE IF obj[o].type = "dir" THEN Throws(p, "EISDIR") /\ UNCHANGED <<dcache, bytes>>
          ELSE /\ DataOf(o, n)
               /\ Becomes(p, [Top(p) EXCEPT !.pc = 2, !.o = o, !.b = ArrayOf(o, n)])
       /\ UNCHANGED <<mcache, obj, files, last>> /\ Rest

Resized(cells, size) == [k \in 1..size |-> IF k <= Len(cells) THEN cells[k] ELSE 0]
TruncatePuts(p) ==
    LET f == Top(p)
        cells == IF f.b = 0 THEN <<>> ELSE bytes[f.b]
        b == IF f.size = Len(cells) THEN f.b ELSE Len(bytes) + 1 IN
    /\ At(p, "truncate", 2)
    /\ obj' = [obj EXCEPT ![f.o].size = f.size]
    /\ bytes' = IF b = f.b THEN bytes ELSE Append(bytes, Resized(cells, f.size))
    /\ Becomes(p, PutEntry(f.o, b))
    /\ UNCHANGED <<mcache, dcache, files, last>> /\ Rest

Stat(p) ==
    /\ At(p, "stat", 0)
    /\ GetMetadata(Top(p).n)
    /\ Returns(p, Result(IF Found(Top(p).n) = 0 THEN "ENOENT" ELSE "ok", Found(Top(p).n)))
    /\ UNCHANGED <<dcache, files, last>> /\ Rest

Readlink(p) ==
    LET type == TypeOf(Top(p).n) IN
    /\ At(p, "readlink", 0)
    /\ GetMetadata(Top(p).n)
    /\ Throws(p, CASE type = "none" -> "ENOENT" [] type = "symlink" -> "ok" [] OTHER -> "EINVAL")
    /\ UNCHANGED <<dcache, files, last>> /\ Rest

Readdir(p) ==
    LET type == TypeOf(Top(p).n) IN
    /\ At(p, "readdir", 0)
    /\ GetMetadata(Top(p).n)
    /\ Throws(p, CASE type = "none" -> "ENOENT" [] type = "dir" -> "ok" [] OTHER -> "ENOTDIR")
    /\ UNCHANGED <<dcache, files, last>> /\ Rest

(***************************************************************************)
(* Remove.                                                                 *)
(***************************************************************************)
RemoveChecks(p) ==
    LET n == Top(p).n IN
    \/ /\ At(p, "remove", 0)
       /\ GetMetadata(n)
       /\ IF Found(n) = 0 THEN Throws(p, "ENOENT") ELSE Goto(p, IF TypeOf(n) = "dir" THEN 1 ELSE 2)
       /\ UNCHANGED <<dcache, files, last>> /\ Rest
    \/ /\ At(p, "remove", 1)
       /\ IF HasChildren(n) THEN Throws(p, "ENOTEMPTY") ELSE Goto(p, 2)
       /\ Waits

RemoveDeletes(p) ==
    LET n == Top(p).n IN
    \/ At(p, "remove", 2) /\ Calls(p, 3, Frame("delete", n, n)) /\ Waits
    \/ /\ At(p, "remove", 3)
       /\ IF back[p].err = "ok" THEN InvalidateByParent({Parent(n)}) ELSE UNCHANGED mcache
       /\ Returns(p, back[p])
       /\ UNCHANGED <<dcache, obj, bytes, files, last>> /\ Rest

(***************************************************************************)
(* Rename.  What has the new name is removed.  A file is put under the new *)
(* name and deleted under the old one.  For a directory, the records at    *)
(* and below the old name are copied, put under the new names, and those   *)
(* of the old names deleted; the blobs of those that have data there are   *)
(* then moved.                                                             *)
(***************************************************************************)
RenameChecks(p) ==
    LET f == Top(p) IN
    \/ /\ At(p, "rename", 0)
       /\ GetMetadata(f.n)
       /\ IF Found(f.n) = 0 THEN Throws(p, "ENOENT") ELSE Becomes(p, [f EXCEPT !.pc = 1, !.o = Found(f.n)])
       /\ UNCHANGED <<dcache, files, last>> /\ Rest
    \/ At(p, "rename", 1) /\ EnsureParentExists(p, f.m, Goto(p, 2))
    \/ /\ At(p, "rename", 2)
       /\ GetMetadata(f.m)
       /\ Becomes(p, [f EXCEPT !.pc = IF Found(f.m) = 0 THEN 4 ELSE 3, !.x = Found(f.m)])
       /\ UNCHANGED <<dcache, files, last>> /\ Rest
    \/ /\ At(p, "rename", 3)
       /\ IF obj[f.x].type = "dir" /\ HasChildren(f.m) THEN Throws(p, "ENOTEMPTY") ELSE Calls(p, 4, Frame("remove", f.m, f.m))
       /\ Waits

GetAllDescendants(p) ==
    LET f == Top(p)  ns == SetToSeq({k \in DOMAIN store : Under(k, f.n)}) IN
    /\ At(p, "rename", 4)
    /\ IF back[p].err # "ok" THEN Throws(p, back[p].err) /\ UNCHANGED <<obj, bytes>>
       ELSE IF obj[f.o].type # "dir" THEN Goto(p, 10) /\ UNCHANGED <<obj, bytes>>
       ELSE /\ bytes' = bytes \o [k \in DOMAIN ns |-> store[ns[k]].cells]
            /\ obj' = obj \o [k \in DOMAIN ns |-> Loaded(Moved(ns[k], f.n, f.m), store[ns[k]], Len(bytes) + k)]
            /\ Becomes(p, [f EXCEPT !.pc = 5, !.moves = [k \in DOMAIN ns |-> [from |-> ns[k], o |-> Len(obj) + k, x |-> 0]]])
    /\ UNCHANGED <<mcache, dcache, files, last>> /\ Rest

BatchUpdateMetadata(p) ==
    LET f == Top(p)
        at == [n \in {obj[f.moves[k].o].n : k \in DOMAIN f.moves} |->
                  CHOOSE o \in {f.moves[k].o : k \in DOMAIN f.moves} : obj[o].n = n] IN
    /\ At(p, "rename", 5)
    /\ \/ /\ store' = [n \in DOMAIN at |-> Cloned(obj[at[n]])] @@ store
          /\ mcache' = at @@ mcache
          /\ Becomes(p, [f EXCEPT !.pc = IF f.moves = <<>> THEN 9 ELSE 6, !.size = 1])
          /\ UNCHANGED faults
       \/ Faulty /\ Throws(p, "EIO") /\ UNCHANGED <<store, mcache>>
    /\ UNCHANGED <<blobs, dcache, obj, bytes, files, hist, plan, trip, last>>

BatchDeleteLooks(p) ==
    LET f == Top(p)  n == f.moves[f.size].from IN
    /\ At(p, "rename", 6)
    /\ GetMetadata(n)
    /\ Becomes(p, [f EXCEPT !.moves[f.size].x = Found(n), !.size = @ + 1, !.pc = IF f.size = Len(f.moves) THEN 7 ELSE 6])
    /\ UNCHANGED <<dcache, files, last>> /\ Rest

BatchDelete(p) ==
    LET f == Top(p)
        olds == {f.moves[k].from : k \in DOMAIN f.moves}
        exts == {f.moves[k].from : k \in {k \in DOMAIN f.moves : HadData(f.moves[k].x)}} IN
    /\ At(p, "rename", 7)
    /\ \/ /\ store' = Without(store, olds) /\ blobs' = Without(blobs, exts)
          /\ mcache' = Without(mcache, olds) /\ dcache' = Without(dcache, olds)
          /\ moved' = moved \cup {Moved(n, f.n, f.m) : n \in olds}
          /\ Goto(p, 8)
          /\ UNCHANGED faults
       \/ Faulty /\ Throws(p, "EIO") /\ UNCHANGED <<db, mcache, dcache, moved>>
    /\ UNCHANGED <<obj, bytes, files, evicted, spoiled, plan, trip, last>>

MoveBlobs(p) ==
    LET f == Top(p)
        exts == {k \in DOMAIN f.moves : obj[f.moves[k].o].ext}
        from == {f.moves[k].from : k \in exts} \cap DOMAIN blobs IN
    /\ At(p, "rename", 8)
    /\ \/ /\ IF exts = {} THEN UNCHANGED <<blobs, dcache>>
             ELSE /\ blobs' = [m \in {Moved(n, f.n, f.m) : n \in from} |-> blobs[Moved(m, f.m, f.n)]] @@ Without(blobs, from)
                  /\ dcache' = Without(dcache, {f.moves[k].from : k \in DOMAIN f.moves})
          /\ Goto(p, 9)
          /\ UNCHANGED faults
       \/ exts # {} /\ Faulty /\ Throws(p, "EIO") /\ UNCHANGED <<blobs, dcache>>
    /\ UNCHANGED <<store, mcache, obj, bytes, files, hist, plan, trip, last>>

(* A failure to put the new entry goes unnoticed. *)
PutIgnored(p) == FALSE
PutFailed(p) == back[p].err # "ok"

RenameFile(p) ==
    LET f == Top(p)  o == f.o IN
    \/ /\ At(p, "rename", 10)
       /\ DataOf(o, f.n)
       /\ Becomes(p, [f EXCEPT !.pc = 11, !.b = ArrayOf(o, f.n)])
       /\ UNCHANGED <<mcache, obj, files, last>> /\ Rest
    \/ /\ At(p, "rename", 11)
       /\ obj' = Append(obj, [obj[o] EXCEPT !.n = f.m])
       /\ Calls(p, 12, PutEntry(Len(obj) + 1, f.b))
       /\ UNCHANGED <<mcache, dcache, bytes, files, last>> /\ Rest
    \/ /\ At(p, "rename", 12)
       /\ IF PutFailed(p) THEN Throws(p, back[p].err) ELSE Calls(p, 13, Frame("delete", f.n, f.n))
       /\ Waits
    \/ /\ At(p, "rename", 13)
       /\ IF back[p].err = "ok" THEN Goto(p, 9) ELSE Throws(p, back[p].err)
       /\ Waits

RenameDone(p) ==
    /\ At(p, "rename", 9)
    /\ InvalidateByParent({Parent(Top(p).n), Parent(Top(p).m)})
    /\ Returns(p, Ok)
    /\ UNCHANGED <<dcache, obj, bytes, files, last>> /\ Rest

(***************************************************************************)
(* Open files.  The data are fetched at the first use, by the path that    *)
(* the file was opened by.  Reading marks the file as dirty, too.          *)
(***************************************************************************)
Kept == UNCHANGED <<mcache, obj, files, last>>
EnsureData(p, op, mode) ==
    LET f == Top(p)  file == files[f.h]  o == file.o IN
    /\ At(p, op, 0)
    /\ IF file.closed \/ mode \notin file.flags THEN Throws(p, "EBADF") /\ UNCHANGED <<dcache, bytes>>
       ELSE IF file.b # 0 THEN Becomes(p, [f EXCEPT !.pc = 1, !.b = file.b]) /\ UNCHANGED <<dcache, bytes>>
       ELSE DataOf(o, file.n) /\ Becomes(p, [f EXCEPT !.pc = 1, !.b = ArrayOf(o, file.n)])
    /\ Kept /\ Rest

FileRead(p) ==
    LET f == Top(p)  file == files[f.h]  size == obj[file.o].size IN
    \/ EnsureData(p, "fread", "read")
    \/ /\ At(p, "fread", 1)
       /\ files' = [files EXCEPT ![f.h].b = f.b, ![f.h].pos = IF size > @ THEN size ELSE @,
                                 ![f.h].dirty = @ \/ size > file.pos]
       /\ Returns(p, Ok)
       /\ UNCHANGED <<mem, last>> /\ Rest

FileWrite(p) ==
    LET f == Top(p)  file == files[f.h]  o == file.o
        pos == IF "append" \in file.flags THEN obj[o].size ELSE file.pos
        end == pos + Len(f.cells)
        size == IF end > obj[o].size THEN end ELSE obj[o].size
        grows == size > Len(bytes[f.b])
        b == IF grows THEN Len(bytes) + 1 ELSE f.b
        cells == [k \in 1..(IF grows THEN size ELSE Len(bytes[f.b])) |->
                    IF k \in pos + 1..end THEN f.cells[k - pos] ELSE IF k <= Len(bytes[f.b]) THEN bytes[f.b][k] ELSE 0] IN
    \/ EnsureData(p, "fwrite", "write")
    \/ /\ At(p, "fwrite", 1)
       /\ size <= MaxLen
       /\ bytes' = IF grows THEN Append(bytes, cells) ELSE [bytes EXCEPT ![b] = cells]
       /\ obj' = [obj EXCEPT ![o].size = size]
       /\ files' = [files EXCEPT ![f.h].b = b, ![f.h].pos = end, ![f.h].dirty = TRUE, ![f.h].wrote = @ \cup {f.b, b}]
       /\ Returns(p, Ok)
       /\ UNCHANGED <<mcache, dcache, last>> /\ Rest

FileSeek(p) ==
    /\ At(p, "fseek", 0)
    /\ IF files[Top(p).h].closed THEN Throws(p, "EBADF") /\ UNCHANGED files
       ELSE files' = [files EXCEPT ![Top(p).h].pos = Top(p).size] /\ Returns(p, Ok)
    /\ UNCHANGED <<mem, last>> /\ Rest

FileClose(p) ==
    LET file == files[Top(p).h] IN
    /\ At(p, "fclose", 0)
    /\ IF file.closed THEN Throws(p, "EBADF") /\ UNCHANGED files
       ELSE /\ files' = [files EXCEPT ![Top(p).h].closed = TRUE]
            /\ IF file.dirty THEN Becomes(p, PutEntry(file.o, file.b)) ELSE Returns(p, Ok)
    /\ UNCHANGED <<mem, last>> /\ Rest

(***************************************************************************)
(* A full cache drops an entry.  A page that is loaded again has nothing   *)
(* in memory.                                                              *)
(***************************************************************************)
Evict ==
    /\ ~evicted /\ evicted' = TRUE
    /\ \/ \E n \in DOMAIN mcache : mcache' = Without(mcache, {n}) /\ UNCHANGED dcache
       \/ \E n \in DOMAIN dcache : dcache' = Without(dcache, {n}) /\ UNCHANGED mcache
    /\ UNCHANGED <<db, obj, bytes, files, spoiled, moved, asyncvars>>

Reload ==
    /\ Restarts
    /\ mcache' = <<>> /\ dcache' = <<>> /\ obj' = <<>> /\ bytes' = <<>> /\ files' = <<>> /\ spoiled' = {}
    /\ UNCHANGED <<db, evicted, moved>>

IdbStep(p) ==
    \/ PutMetadata(p) \/ PutLooks(p) \/ PutCommits(p) \/ DeleteLooks(p) \/ DeleteCommits(p)
    \/ ResolveSymlink(p) \/ Open(p) \/ Create(p)
    \/ OpenfileLooks(p) \/ OpenfileResolved(p) \/ Openfile(p) \/ OpenfileTruncated(p)
    \/ Mkdir(p) \/ Symlink(p) \/ Chmod(p) \/ TruncateReads(p) \/ TruncatePuts(p)
    \/ Stat(p) \/ Readlink(p) \/ Readdir(p) \/ RemoveChecks(p) \/ RemoveDeletes(p)
    \/ RenameChecks(p) \/ GetAllDescendants(p) \/ BatchUpdateMetadata(p) \/ BatchDeleteLooks(p)
    \/ BatchDelete(p) \/ MoveBlobs(p) \/ RenameFile(p) \/ RenameDone(p)
    \/ FileRead(p) \/ FileWrite(p) \/ FileSeek(p) \/ FileClose(p)

(* The stores as they are made from what an older version had stored, with *)
(* a root.                                                                 *)
Migrated(r) == [type |-> r.type, attr |-> 1, size |-> Len(r.cells), ext |-> Len(r.cells) >= Inline, to |-> r.to,
                cells |-> IF Len(r.cells) >= Inline THEN <<>> ELSE r.cells]
IdbInit ==
    /\ store = [n \in DOMAIN Stored \cup {<<>>} |->
                  IF n = <<>> THEN Migrated([type |-> "dir", cells |-> <<>>, to |-> <<>>]) ELSE Migrated(Stored[n])]
    /\ blobs = [n \in {n \in DOMAIN Stored : Len(Stored[n].cells) >= Inline} |-> Stored[n].cells]
    /\ mcache = <<>> /\ dcache = <<>> /\ obj = <<>> /\ bytes = <<>> /\ files = <<>>
    /\ evicted = FALSE /\ spoiled = {} /\ moved = {}

(***************************************************************************)
(* When no call runs, what a cache has for a name is what the database     *)
(* has: a call that finds a name in the cache would find the same in the   *)
(* store.  Not so for what an open file has changed and not yet put there, *)
(* for an object whose transaction has failed, or for an array that a file *)
(* of another name has written (one renamed while it was open).            *)
(***************************************************************************)
Writers == {h \in DOMAIN files : files[h].dirty}
Unsaved(o) == o \in spoiled \/ \E h \in Writers : files[h].o = o /\ ~files[h].closed
UnsavedArray(n, b) ==
    \E h \in Writers : b \in files[h].wrote /\ (~files[h].closed \/ files[h].o \in spoiled \/ obj[files[h].o].n # n)
CacheAgrees ==
    Quiet => /\ \A n \in DOMAIN mcache : Unsaved(mcache[n]) \/ (n \in DOMAIN store /\ store[n] = Cloned(obj[mcache[n]]))
             /\ \A n \in DOMAIN dcache : UnsavedArray(n, dcache[n]) \/ (n \in DOMAIN blobs /\ blobs[n] = bytes[dcache[n]])

(* A rename that runs alone, also one that fails or that a reload of the   *)
(* page cuts off, leaves what each file held under its old or its new      *)
(* name.  Not so for a file renamed to its own name, and the large files   *)
(* of a directory.  (rename, 871-964.)                                     *)
Held ==
    [n \in {n \in DOMAIN store : store[n].type = "file"} |->
        IF ~store[n].ext THEN store[n].cells ELSE IF n \in DOMAIN blobs THEN blobs[n] ELSE <<>>]
AllSaved == files = <<>> /\ spoiled = {}
LargeBelow(k) == k # trip.n /\ Len(trip.was[k]) >= Inline
RenameKeeps == trip.n # trip.m => \A k \in DOMAIN trip.was : LargeBelow(k) \/ StillHeld(k, Held)

(* A record that says that its data are in the data store finds them       *)
(* there.  (DESIGN.txt, "dataExternal".)                                   *)
ExternalIsThere == Quiet => \A n \in DOMAIN store : store[n].ext => n \in DOMAIN blobs
=============================================================================
