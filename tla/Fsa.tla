--------------------------------- MODULE Fsa ---------------------------------
(***************************************************************************)
(* fsa: the browser's private file system as a file system.  The browser   *)
(* has neither modes nor links: those are in a metadata store in memory,   *)
(* which a timer writes to a file, each time as a whole.  What Stat finds  *)
(* is cached for half a second.  What is written to a file is in a copy    *)
(* until Close, and a rename copies and removes.                           *)
(*                                                                         *)
(* Go code runs undisturbed until it waits for the browser.  Links have    *)
(* their target beside their cells.  Times are left out, except that       *)
(* setting them makes metadata and has the store written again.            *)
(*                                                                         *)
(* Bounds: MaxSize cells in a file; the timer fires MaxFlushes times.      *)
(***************************************************************************)
EXTENDS Async

CONSTANTS
    TreeThere,   \* the files at first
    MaxSize,
    MaxFlushes

VARIABLES
    opfs,     \* the files and directories: kind, cells, target
    disk,     \* the metadata in the file #stat
    meta,     \* the metadata store: from names to attributes
    dirty,
    pending,  \* writePending
    timers,   \* how many timers are set
    flushers, \* the snapshots that goroutines have still to write
    writing,  \* the one that holds fileMu
    flushed,  \* how many times a timer has fired
    scache,   \* statCache: from names to what Stat found
    handles,  \* the open files
    panicked,
    lost,     \* history: a write of #stat has failed
    cut,      \* history: names whose copy was cut short
    swept     \* history: names below a directory that was moved

unsaved == <<meta, dirty, pending, timers>>
savers == <<disk, flushers, writing, flushed, lost>>
fsavars == <<opfs, unsaved, savers, scache, handles, panicked, cut, swept>>

Stat_ == <<"#stat">>
With(f, k, v) == [j \in DOMAIN f \cup {k} |-> IF j = k THEN v ELSE f[j]]
Without(f, ks) == [j \in DOMAIN f \ ks |-> f[j]]
Node(kind, cells, to) == [kind |-> kind, cells |-> cells, to |-> to]
Exists(n) == n \in DOMAIN opfs
IsDir(n) == n = <<>> \/ (Exists(n) /\ opfs[n].kind = "dir")
WalkDir(n) == IsDir(Front(n))
Children(n) == {k \in DOMAIN opfs : k # <<>> /\ Front(k) = n}

(***************************************************************************)
(* The metadata store.  Each change sets a timer, unless one is set.       *)
(***************************************************************************)
ScheduleWrite ==
    /\ dirty' = TRUE /\ pending' = TRUE
    /\ timers' = IF pending THEN timers ELSE timers + 1
SetMetadata(n, attr) == meta' = With(meta, n, attr) /\ ScheduleWrite
SetTimes(n) == SetMetadata(n, IF n \in DOMAIN meta THEN meta[n] ELSE "file")
DeleteMetadata(ns) == meta' = Without(meta, ns) /\ ScheduleWrite
IsLink(n) == n \in DOMAIN meta /\ meta[n] = "link"

(* The flag of the timer is not taken back when it has fired. *)
FlushToDiskStillPending ==
    /\ timers > 0 /\ flushed < MaxFlushes
    /\ timers' = timers - 1 /\ flushed' = flushed + 1
    /\ dirty' = FALSE
    /\ flushers' = IF dirty THEN Append(flushers, meta) ELSE flushers
    /\ UNCHANGED <<pending, meta, disk, writing, lost, opfs, scache, handles, panicked, cut, swept, asyncvars>>

FlushToDisk ==
    /\ timers > 0 /\ flushed < MaxFlushes
    /\ timers' = timers - 1 /\ flushed' = flushed + 1
    /\ dirty' = FALSE /\ pending' = FALSE
    /\ flushers' = IF dirty THEN Append(flushers, meta) ELSE flushers
    /\ UNCHANGED <<meta, disk, writing, lost, opfs, scache, handles, panicked, cut, swept, asyncvars>>

(* A goroutine takes the lock, in any order, and writes the file: its      *)
(* times are set while it writes.                                          *)
FlushWrites ==
    /\ writing = <<>>
    /\ \E k \in DOMAIN flushers :
        /\ writing' = <<flushers[k]>>
        /\ flushers' = RemoveAt(flushers, k)
    /\ SetTimes(Stat_)
    /\ UNCHANGED <<disk, flushed, lost, opfs, scache, handles, panicked, cut, swept, asyncvars>>

FlushDone ==
    /\ writing # <<>> /\ writing' = <<>>
    /\ \/ disk' = writing[1] /\ UNCHANGED <<lost, faults>>
       \/ Faulty /\ lost' = TRUE /\ UNCHANGED disk
    /\ UNCHANGED <<flushers, flushed, unsaved, opfs, scache, handles, panicked, cut, swept, stack, back, plan, trip, last>>

(***************************************************************************)
(* Stat, with its cache.  An entry may expire at any time.                 *)
(***************************************************************************)
Entry(err, attr, size) == [err |-> err, attr |-> attr, size |-> size]
Forgets(n) == scache' = Without(scache, {n})
Idle == UNCHANGED <<savers, panicked, plan, trip, faults>>
Quietly == UNCHANGED <<opfs, unsaved, handles, cut, swept, last>> /\ Idle

ExpireStat ==
    /\ \E n \in DOMAIN scache : Forgets(n)
    /\ UNCHANGED <<opfs, unsaved, savers, handles, panicked, cut, swept, asyncvars>>

StatLooks(p) ==
    LET n == Top(p).n IN
    /\ At(p, "fstat", 0)
    /\ IF n \in DOMAIN scache
       THEN Throws(p, scache[n].err) /\ UNCHANGED scache
       ELSE IF n # <<>> /\ (~WalkDir(n) \/ ~Exists(n))
       THEN Throws(p, "notexist") /\ scache' = With(scache, n, Entry("notexist", "none", 0))
       ELSE IF IsDir(n) THEN Throws(p, "ok") /\ UNCHANGED scache
       ELSE Goto(p, 1) /\ UNCHANGED scache
    /\ Quietly

(* getFile gives the size; then the metadata, which are made if need be.   *)
StatSizes(p) ==
    LET n == Top(p).n IN
    /\ At(p, "fstat", 1)
    /\ IF Exists(n) THEN Becomes(p, [Top(p) EXCEPT !.pc = 2, !.size = Len(opfs[n].cells)]) /\ UNCHANGED scache
       ELSE Throws(p, "other") /\ scache' = With(scache, n, Entry("other", "none", 0))
    /\ Quietly

BuildFileInfo(p) ==
    LET n == Top(p).n  attr == IF n \in DOMAIN meta THEN meta[n] ELSE "file" IN
    /\ At(p, "fstat", 2)
    /\ IF n \in DOMAIN meta THEN UNCHANGED unsaved ELSE SetMetadata(n, attr)
    /\ scache' = With(scache, n, Entry("ok", attr, Top(p).size))
    /\ Throws(p, "ok")
    /\ UNCHANGED <<opfs, handles, cut, swept, last>> /\ Idle

(***************************************************************************)
(* Chmod and Chtimes leave links alone.                                    *)
(***************************************************************************)
Chmod(p) ==
    LET n == Top(p).n IN
    /\ At(p, "fchmod", 0)
    /\ IF IsLink(n) THEN UNCHANGED <<unsaved, scache>> ELSE SetMetadata(n, "mode") /\ Forgets(n)
    /\ Returns(p, Ok)
    /\ UNCHANGED <<opfs, handles, cut, swept, last>> /\ Idle

Chtimes(p) ==
    LET n == Top(p).n IN
    /\ At(p, "fchtimes", 0)
    /\ IF IsLink(n) THEN UNCHANGED <<unsaved, scache>> ELSE SetTimes(n) /\ Forgets(n)
    /\ Returns(p, Ok)
    /\ UNCHANGED <<opfs, handles, cut, swept, last>> /\ Idle

(***************************************************************************)
(* Opening.  A file that Stat has just found to be a link is followed; if  *)
(* Stat has just found that there is none, looking at its mode panics.     *)
(***************************************************************************)
NewHandle(n, keep) == [n |-> n, keep |-> keep, w |-> <<>>, off |-> 0, closed |-> FALSE]
OpensFile(p, n, keep) == handles' = Append(handles, NewHandle(n, keep)) /\ Opens(p, Len(handles) + 1)

Open(p) ==
    LET n == Top(p).n IN
    /\ At(p, "fopen", 0)
    /\ \/ /\ n # <<>> /\ (~WalkDir(n) \/ ~Exists(n))
          /\ Throws(p, "notexist") /\ UNCHANGED <<handles, last, panicked>>
       \/ /\ IsDir(n)
          /\ Returns(p, Ok) /\ UNCHANGED <<handles, last, panicked>>
       \/ /\ Exists(n) /\ WalkDir(n) /\ ~IsDir(n)
          /\ IF n \notin DOMAIN scache \/ scache[n].attr \notin {"none", "link"}
             THEN OpensFile(p, n, TRUE) /\ UNCHANGED panicked
             ELSE IF scache[n].attr = "link"
             THEN Becomes(p, [Top(p) EXCEPT !.n = opfs[n].to]) /\ UNCHANGED <<handles, last, panicked>>
             ELSE panicked' = TRUE /\ Throws(p, "panic") /\ UNCHANGED <<handles, last>>
    /\ UNCHANGED <<opfs, unsaved, savers, scache, cut, swept, plan, trip, faults>>

(* Create makes an empty file, but leaves what is there: the first write   *)
(* to the handle begins with nothing.                                      *)
CreateFile(n) == opfs' = IF Exists(n) THEN opfs ELSE With(opfs, n, Node("file", <<>>, <<>>))
Create(p) ==
    LET n == Top(p).n IN
    /\ At(p, "fcreate", 0)
    /\ IF ~WalkDir(n) THEN Throws(p, "notexist") /\ UNCHANGED <<opfs, scache, handles, last>>
       ELSE IF IsDir(n) THEN Throws(p, "other") /\ UNCHANGED <<opfs, scache, handles, last>>
       ELSE CreateFile(n) /\ Forgets(n) /\ OpensFile(p, n, FALSE)
    /\ UNCHANGED <<unsaved, cut, swept>> /\ Idle

(* Symlink writes a file and then says that it is a link.                  *)
Symlink(p) ==
    LET n == Top(p).n IN
    \/ /\ At(p, "fsymlink", 0)
       /\ IF ~WalkDir(n) THEN Throws(p, "notexist") /\ UNCHANGED opfs
          ELSE IF IsDir(n) THEN Throws(p, "other") /\ UNCHANGED opfs
          ELSE CreateFile(n) /\ Goto(p, 1)
       /\ UNCHANGED <<unsaved, scache, handles, cut, swept, last>> /\ Idle
    \/ /\ At(p, "fsymlink", 1)
       /\ SetTimes(n)
       /\ opfs' = IF Exists(n) THEN With(opfs, n, Node("file", <<>>, Top(p).m)) ELSE opfs
       /\ IF Exists(n) THEN Goto(p, 2) ELSE Throws(p, "other")
       /\ UNCHANGED <<scache, handles, cut, swept, last>> /\ Idle
    \/ /\ At(p, "fsymlink", 2)
       /\ SetMetadata(n, "link") /\ Forgets(n)
       /\ Returns(p, Ok)
       /\ UNCHANGED <<opfs, handles, cut, swept, last>> /\ Idle

(***************************************************************************)
(* Mkdir, Remove, Truncate.                                                *)
(***************************************************************************)
Mkdir(p) ==
    LET n == Top(p).n IN
    \/ At(p, "fmkdir", 0) /\ Calls(p, 1, Frame("fstat", n, n)) /\ UNCHANGED scache /\ Quietly
    \/ /\ At(p, "fmkdir", 1)
       /\ IF back[p].err = "notexist" /\ WalkDir(n) /\ (~Exists(n) \/ IsDir(n))
          THEN /\ opfs' = With(opfs, n, Node("dir", <<>>, <<>>))
               /\ SetMetadata(n, "dir") /\ Forgets(n) /\ Returns(p, Ok)
          ELSE Throws(p, IF back[p].err = "ok" THEN "exist" ELSE back[p].err) /\ UNCHANGED <<opfs, unsaved, scache>>
       /\ UNCHANGED <<handles, cut, swept, last>> /\ Idle

Removes(n) == opfs' = Without(opfs, {k \in DOMAIN opfs : Under(k, n)})
RemoveChecked(p) ==
    LET n == Top(p).n IN
    \/ At(p, "fremove", 0) /\ Calls(p, 1, Frame("fstat", n, n)) /\ UNCHANGED scache /\ Quietly
    \/ /\ At(p, "fremove", 1)
       /\ IF back[p].err # "ok" THEN Throws(p, back[p].err)
          ELSE IF IsDir(n) /\ Children(n) # {} THEN Throws(p, "notempty") ELSE Goto(p, 2)
       /\ UNCHANGED scache /\ Quietly
    \/ /\ At(p, "fremove", 2)
       /\ IF Exists(n) /\ Children(n) = {}
          THEN Removes(n) /\ DeleteMetadata({n}) /\ Forgets(n) /\ Returns(p, Ok)
          ELSE Throws(p, "other") /\ UNCHANGED <<opfs, unsaved, scache>>
       /\ UNCHANGED <<handles, cut, swept, last>> /\ Idle

Resized(cells, size) == [k \in 1..size |-> IF k <= Len(cells) THEN cells[k] ELSE 0]
Truncate(p) ==
    LET n == Top(p).n IN
    \/ /\ At(p, "ftruncate", 0)
       /\ IF n = <<>> \/ ~WalkDir(n) \/ ~Exists(n) \/ IsDir(n) THEN Throws(p, "notexist")
          ELSE Becomes(p, [Top(p) EXCEPT !.pc = 1, !.cells = Resized(opfs[n].cells, Top(p).size)])
       /\ UNCHANGED <<opfs, scache>>
       /\ UNCHANGED <<unsaved, handles, cut, swept, last>> /\ Idle
    \/ /\ At(p, "ftruncate", 1)
       /\ IF Exists(n) THEN opfs' = [opfs EXCEPT ![n].cells = Top(p).cells] /\ Forgets(n) /\ Returns(p, Ok)
          ELSE Throws(p, "other") /\ UNCHANGED <<opfs, scache>>
       /\ UNCHANGED <<unsaved, handles, cut, swept, last>> /\ Idle

(***************************************************************************)
(* Rename: what is at or below the name is copied, one after another, and  *)
(* then removed.  A read that fails ends the copy of a file, which is      *)
(* taken for done; a write that fails ends the rename.                     *)
(***************************************************************************)
Deeper(a, b) == Len(a) < Len(b)
RenameStarts(p) ==
    LET f == Top(p) IN
    \/ At(p, "rename", 0) /\ Calls(p, 1, Frame("fstat", f.n, f.n)) /\ UNCHANGED scache /\ Quietly
    \/ /\ At(p, "rename", 1)
       /\ IF back[p].err # "ok" THEN Throws(p, back[p].err)
          ELSE IF ~WalkDir(f.n) \/ ~WalkDir(f.m) THEN Throws(p, "notexist")
          ELSE Becomes(p, [f EXCEPT !.pc = 2, !.moves = SetToSortSeq({k \in DOMAIN opfs : Under(k, f.n)}, Deeper)])
       /\ UNCHANGED scache /\ Quietly

CopiesEntry(p) ==
    LET f == Top(p)  k == f.moves[1]  j == Moved(k, f.n, f.m) IN
    /\ At(p, "rename", 2) /\ f.moves # <<>>
    /\ \/ /\ ~Exists(k) \/ (Exists(j) /\ IsDir(j) # IsDir(k))
          /\ Throws(p, "other") /\ UNCHANGED <<opfs, unsaved, scache, cut, faults>>
       \/ /\ Exists(k) /\ IsDir(k) /\ (Exists(j) => IsDir(j))
          /\ opfs' = With(opfs, j, Node("dir", <<>>, <<>>))
          /\ SetMetadata(j, "dir") /\ Forgets(j)
          /\ Becomes(p, [f EXCEPT !.moves = Tail(@)])
          /\ UNCHANGED <<cut, faults>>
       \/ /\ Exists(k) /\ ~IsDir(k) /\ (Exists(j) => ~IsDir(j))
          /\ CreateFile(j) /\ Forgets(j) /\ Goto(p, 3)
          /\ UNCHANGED <<unsaved, cut, faults>>
    /\ UNCHANGED <<handles, last, swept, savers, panicked, plan, trip>>

CopiesCells(p) ==
    LET f == Top(p)  k == f.moves[1]  j == Moved(k, f.n, f.m) IN
    /\ At(p, "rename", 3)
    /\ \/ /\ Exists(j) /\ Exists(k)
          /\ opfs' = With(opfs, j, opfs[k])
          /\ SetMetadata(j, IF IsLink(k) THEN "link" ELSE "mode") /\ Forgets(j)
          /\ Becomes(p, [f EXCEPT !.pc = 2, !.moves = Tail(@)])
          /\ UNCHANGED <<cut, faults>>
       \/ /\ Exists(j) /\ Faulty
          /\ cut' = cut \cup {k}
          /\ SetMetadata(j, "mode") /\ Forgets(j)
          /\ Becomes(p, [f EXCEPT !.pc = 2, !.moves = Tail(@)])
          /\ UNCHANGED opfs
       \/ /\ \/ Faulty
             \/ (~(Exists(j) /\ Exists(k)) /\ UNCHANGED faults)
          /\ Throws(p, "other")
          /\ UNCHANGED <<opfs, unsaved, scache, cut>>
    /\ UNCHANGED <<handles, last, swept, savers, panicked, plan, trip>>

(* If the old name cannot be removed, the copy is.                         *)
RenameRemoves(p) ==
    LET f == Top(p) IN
    \/ /\ At(p, "rename", 2) /\ f.moves = <<>>
       /\ \/ Exists(f.n) /\ Removes(f.n) /\ Goto(p, 4) /\ UNCHANGED faults
          \/ /\ Faulty \/ (~Exists(f.n) /\ UNCHANGED faults)
             /\ Removes(f.m) /\ Throws(p, "other")
       /\ UNCHANGED <<unsaved, scache, handles, cut, last, swept, savers, panicked, plan, trip>>
    \/ /\ At(p, "rename", 4)
       /\ meta' = Without(IF f.n \in DOMAIN meta THEN With(meta, f.m, meta[f.n]) ELSE meta, {f.n})
       /\ ScheduleWrite
       /\ scache' = Without(scache, {f.n, f.m})
       /\ swept' = swept \cup {k \in DOMAIN scache : IsStrictPrefix(f.n, k) \/ IsStrictPrefix(f.m, k)}
       /\ Returns(p, Ok)
       /\ UNCHANGED <<opfs, handles, cut, last>> /\ Idle

(***************************************************************************)
(* Open files.  The first write makes the copy that is written to.         *)
(***************************************************************************)
Write(p) ==
    LET f == Top(p)  h == handles[f.h]
        from == IF h.w # <<>> THEN h.w[1] ELSE IF h.keep /\ Exists(h.n) THEN opfs[h.n].cells ELSE <<>>
        end == h.off + Len(f.cells) IN
    /\ At(p, "fwrite", 0) /\ end <= MaxSize
    /\ IF h.closed \/ (h.w = <<>> /\ ~Exists(h.n)) THEN Throws(p, "closed") /\ UNCHANGED <<handles, unsaved, scache>>
       ELSE /\ handles' = [handles EXCEPT
                  ![f.h].w = <<[k \in 1..(IF end > Len(from) THEN end ELSE Len(from)) |->
                                  IF k \in h.off + 1..end THEN f.cells[k - h.off] ELSE IF k <= Len(from) THEN from[k] ELSE 0]>>,
                  ![f.h].off = end]
            /\ SetTimes(h.n) /\ Forgets(h.n) /\ Returns(p, Ok)
    /\ UNCHANGED <<opfs, cut, swept, last>> /\ Idle

Read(p) ==
    LET f == Top(p)  h == handles[f.h] IN
    /\ At(p, "fread", 0)
    /\ IF h.closed \/ ~Exists(h.n) THEN Throws(p, "closed") /\ UNCHANGED handles
       ELSE /\ handles' = [handles EXCEPT ![f.h].off = IF Len(opfs[h.n].cells) > @ THEN Len(opfs[h.n].cells) ELSE @]
            /\ Returns(p, Ok)
    /\ UNCHANGED <<opfs, unsaved, scache, cut, swept, last>> /\ Idle

Seek(p) ==
    LET f == Top(p)  h == handles[f.h]
        size == IF Exists(h.n) THEN Len(opfs[h.n].cells) ELSE 0
        end == IF h.off > size THEN h.off ELSE size IN
    /\ At(p, "fseek", 0)
    /\ IF h.closed THEN Throws(p, "closed") /\ UNCHANGED handles
       ELSE handles' = [handles EXCEPT ![f.h].off = IF f.size > end THEN end ELSE f.size] /\ Returns(p, Ok)
    /\ UNCHANGED <<opfs, unsaved, scache, cut, swept, last>> /\ Idle

Close(p) ==
    LET f == Top(p)  h == handles[f.h] IN
    /\ At(p, "fclose", 0)
    /\ IF h.closed THEN Throws(p, "closed") /\ UNCHANGED <<handles, opfs, scache>>
       ELSE /\ handles' = [handles EXCEPT ![f.h].closed = TRUE]
            /\ IF h.w = <<>> THEN Returns(p, Ok) /\ UNCHANGED <<opfs, scache>>
               ELSE IF ~Exists(h.n) THEN Throws(p, "other") /\ UNCHANGED <<opfs, scache>>
               ELSE opfs' = [opfs EXCEPT ![h.n].cells = h.w[1]] /\ Forgets(h.n) /\ Returns(p, Ok)
    /\ UNCHANGED <<unsaved, cut, swept, last>> /\ Idle

FsaStep(p) ==
    /\ ~panicked
    /\ \/ StatLooks(p) \/ StatSizes(p) \/ BuildFileInfo(p) \/ Chmod(p) \/ Chtimes(p) \/ Open(p) \/ Create(p) \/ Symlink(p)
       \/ Mkdir(p) \/ RemoveChecked(p) \/ Truncate(p) \/ RenameStarts(p) \/ CopiesEntry(p) \/ CopiesCells(p) \/ RenameRemoves(p)
       \/ Write(p) \/ Read(p) \/ Seek(p) \/ Close(p)

(* Between calls: timers, the goroutines that write, and time.             *)
FsaElse == ~panicked /\ (FlushToDisk \/ FlushWrites \/ FlushDone \/ ExpireStat)

(* OPFS and loadFromDisk: a page begins with what is on disk.              *)
FsaReload ==
    /\ Restarts
    /\ meta' = disk /\ dirty' = FALSE /\ pending' = FALSE /\ timers' = 0
    /\ flushers' = <<>> /\ writing' = <<>> /\ scache' = <<>> /\ handles' = <<>> /\ panicked' = FALSE /\ lost' = FALSE
    /\ UNCHANGED <<opfs, disk, flushed, cut, swept>>

FsaInit ==
    /\ opfs = TreeThere
    /\ disk = <<>> /\ meta = disk /\ dirty = FALSE /\ pending = FALSE /\ timers = 0
    /\ flushers = <<>> /\ writing = <<>> /\ flushed = 0
    /\ scache = <<>> /\ handles = <<>> /\ panicked = FALSE /\ lost = FALSE /\ cut = {} /\ swept = {}

(* What files hold.                                                        *)
InFiles == [n \in {n \in DOMAIN opfs : opfs[n].kind = "file"} |-> opfs[n].cells]

(* Any tasks with any plans.                                               *)
FsaNext ==
    \/ \E p \in Tasks : FsaStep(p) \/ (~panicked /\ Begins(p, InFiles) /\ UNCHANGED fsavars)
    \/ FsaElse \/ FsaReload
FsaSpec == AsyncInit /\ FsaInit /\ [][FsaNext]_<<fsavars, asyncvars>>

(* Whenever the file #stat does not have what the metadata store has, a    *)
(* timer is set or a goroutine is about to write, unless a write has       *)
(* failed: no change waits for another change to be saved.                 *)
(* (scheduleWrite, flushToDisk.)                                           *)
SaveIsDue == disk # meta => timers > 0 \/ flushers # <<>> \/ writing # <<>> \/ lost

(* A rename that runs alone leaves what each file held under its old or    *)
(* its new name, also one that fails or that a reload of the page cuts     *)
(* off.  Not so for a name renamed to itself, and for a file of which a    *)
(* read has failed: the copy is taken for done.  (copyFile, copy.go:157.)  *)
MovesKeep == trip.n # trip.m => \A k \in DOMAIN trip.was : k \in cut \/ StillHeld(k, InFiles)

(* What Stat has in its cache is what it would find, as long as one task   *)
(* runs at a time and no transfer fails; not so for what is below a        *)
(* directory that was moved.  (getCachedStat, fs.go:51.)                   *)
WouldFind(n) ==
    IF Exists(n) /\ WalkDir(n) THEN Entry("ok", IF n \in DOMAIN meta THEN meta[n] ELSE "file", Len(opfs[n].cells))
    ELSE Entry("notexist", "none", 0)
StatTells == Quiet /\ faults = 0 => \A n \in DOMAIN scache \ swept : scache[n] = WouldFind(n)
=============================================================================
