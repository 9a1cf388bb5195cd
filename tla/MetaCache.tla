----------------------------- MODULE MetaCache -----------------------------
(***************************************************************************)
(* metacache.FS: a cache of Stat, Lstat and ReadDir answers in front of a  *)
(* file system that a guest changes too.  A missing or expired answer is   *)
(* fetched and stored; an answer past half its time is served and          *)
(* refreshed in the background; an operation that changes the file system  *)
(* removes the answers it makes wrong, after the fact and one critical     *)
(* section at a time, while other clients fetch and store.                 *)
(*                                                                         *)
(* The file system below is a tree of a few paths whose files have one of  *)
(* two versions (size, mode and times are what changes).  Its operations   *)
(* are atomic.  Time is a number of ticks, and an entry keeps the ticks    *)
(* left until it is renewed and until it expires.  A fetch takes less than *)
(* a tick.  Directories with entries are not renamed, and InvalidateDir    *)
(* and InvalidateAll are not called from outside.                          *)
(*                                                                         *)
(* Bounds: calls and changes by the guest are at most MaxChanges, these    *)
(* and ticks at most MaxEvents together, and a background refresh needs    *)
(* one of Refreshers.                                                      *)
(***************************************************************************)
EXTENDS Integers, Sequences, FiniteSets

CONSTANTS
  Paths,        \* the paths, as sequences of names; <<>> is the root
  Kinds,        \* the kinds of answers: some of "stat", "lstat", "readdir"
  Clients,      \* threads that call the cache
  Refreshers,   \* background refreshes there can be at a time
  InitialTrees, \* what the file system may have when the cache is made
  TTL,          \* ticks an answer is kept
  MaxChanges,   \* bound: calls and changes by the guest
  MaxEvents     \* bound: calls, changes by the guest and ticks

None == "none"
Dir == "dir"
Parent(p) == SubSeq(p, 1, Len(p) - 1)

Versions == {"v1", "v2"}
Contents == {None, Dir} \cup Versions

ASSUME PathsAssumption ==
  /\ <<>> \in Paths /\ Paths \subseteq Seq(STRING)
  /\ \A p \in Paths : \A n \in 0 .. Len(p) : SubSeq(p, 1, n) \in Paths
ASSUME KindsAssumption == "stat" \in Kinds /\ Kinds \subseteq {"stat", "lstat", "readdir"}
ASSUME TreesAssumption ==
  \A t \in InitialTrees :
    /\ t \in [Paths -> Contents]
    /\ t[<<>>] = Dir /\ \A p \in Paths : p # <<>> /\ t[p] # None => t[Parent(p)] = Dir
ASSUME BoundsAssumption == TTL \in Nat \ {0} /\ MaxChanges \in Nat /\ MaxEvents \in Nat

VARIABLES
  fsys,   \* what is at each path
  cache,  \* the entries, by key
  call,   \* the call of each client, and each background refresh
  file,   \* a wrapped open file
  served, \* history: the last answer given from the cache, and for how long it had been wrong
  events, \* how many calls, changes by the guest and ticks there have been
  ticks   \* how many of them were ticks

vars == <<fsys, cache, call, file, served, events, ticks>>

Other(v) == IF v = "v1" THEN "v2" ELSE "v1"
Threads == Clients \cup Refreshers
Keys == Kinds \X Paths
Never == -2

Children(p) == {q \in Paths : q # <<>> /\ Parent(q) = p}
Below(p) == {q \in Paths : Len(q) > Len(p) /\ SubSeq(q, 1, Len(p)) = p}

-----------------------------------------------------------------------------
(* Answers and entries *)

Info(v) == [err |-> None, info |-> v, entries |-> {}]
Error(e) == [err |-> e, info |-> None, entries |-> {}]

\* What the file system t answers to the key k
Answer(t, k) ==
  LET p == k[2]
  IN IF t[p] = None THEN Error("notexist")
     ELSE IF k[1] # "readdir" THEN Info(t[p])
     ELSE IF t[p] = Dir THEN [Info(None) EXCEPT !.entries = {q \in Children(p) : t[q] # None}]
     ELSE Error("notdir")

(***************************************************************************)
(* excused, wrongFor and extended are history: whether the entry is known  *)
(* to be unreliable (see Touched), for how many ticks it has been wrong,   *)
(* and whether a failed refresh has extended it.                           *)
(***************************************************************************)
Half == TTL \div 2

Entry(res, excused) ==
  [res |-> res, excused |-> excused, wrongFor |-> 0, extended |-> FALSE,
   renews |-> IF res.err # None THEN Never ELSE Half,
   expires |-> IF res.err # None THEN Half ELSE TTL]

Present(k) == k \in DOMAIN cache

\* Of errors only ErrNotExist is cached, and that of the root only for Lstat:
\* fetchAndCacheLstat compares its key with ".", and the key has a suffix
Cacheable(k, res) == res.err = None \/ (res.err = "notexist" /\ (k[2] # <<>> \/ k[1] = "lstat"))
RootMissed(k, res) == res.err = "notexist" /\ k = <<"lstat", <<>>>>

-----------------------------------------------------------------------------
NoCall == [pc |-> "idle", key |-> <<>>, res |-> Info(None), excused |-> FALSE, todo |-> <<>>, changed |-> {}]
NoFile == [name |-> <<>>, at |-> <<>>, info |-> None, written |-> FALSE, changed |-> {}]

Init ==
  /\ fsys \in InitialTrees
  /\ cache = <<>>
  /\ call = [t \in Threads |-> NoCall]
  /\ file = NoFile
  /\ served = [wrongFor |-> 0, extended |-> FALSE]
  /\ events = 0
  /\ ticks = 0

At(t, pc) == call[t].pc = pc
GoTo(t, pc) == [call EXCEPT ![t].pc = pc]
Event ==
  /\ events < MaxEvents /\ events - ticks < MaxChanges
  /\ events' = events + 1 /\ UNCHANGED ticks
Calls(t) == At(t, "idle") /\ t \in Clients /\ Event

Drop(keys) == [k \in DOMAIN cache \ keys |-> cache[k]]

(***************************************************************************)
(* History: what a change of the tree to t, made with reason to expect the *)
(* answers in expected to be removed, does to the answers it makes wrong.  *)
(* A fetched answer not stored yet may be stored although it is wrong, and *)
(* one that nobody is going to remove stays.                               *)
(***************************************************************************)
Wrong(t) == {k \in Keys : Answer(t, k) # Answer(fsys, k)}
TouchedCalls(t, c) == [u \in Threads |-> IF c[u].pc = "store" /\ c[u].key \in Wrong(t) THEN [c[u] EXCEPT !.excused = TRUE] ELSE c[u]]
TouchedCache(t, expected) == [k \in DOMAIN cache |-> IF k \in Wrong(t) \ expected THEN [cache[k] EXCEPT !.excused = TRUE] ELSE cache[k]]

-----------------------------------------------------------------------------
(* Stat, Lstat, ReadDir *)

\* getCached found an entry: it is the answer, and is refreshed if it is time
Hit(k, hit) ==
  /\ IF hit.renews = -1
     THEN \E r \in Refreshers : At(r, "idle") /\ call' = [call EXCEPT ![r] = [NoCall EXCEPT !.pc = "refresh", !.key = k]]
     ELSE UNCHANGED call
  /\ served' = [wrongFor |-> hit.wrongFor, extended |-> hit.extended]

\* Mutant of Expired: an answer past its time is served if it can be refreshed.
ExpiredError(k) == cache[k].expires = -1 /\ cache[k].renews = Never

Expired(k) == cache[k].expires = -1

Lookup(t) ==
  /\ Calls(t)
  /\ \E k \in Keys :
       IF Present(k) /\ ~Expired(k)
       THEN Hit(k, cache[k])
       ELSE /\ call' = [call EXCEPT ![t] = [NoCall EXCEPT !.pc = IF Present(k) THEN "expired" ELSE "fetch", !.key = k]]
            /\ UNCHANGED served
  /\ UNCHANGED <<fsys, cache, file>>

\* The expired entry is deleted under a lock taken anew, whatever is there by now
DropExpired(t) ==
  /\ At(t, "expired")
  /\ cache' = Drop({call[t].key})
  /\ call' = GoTo(t, "fetch")
  /\ UNCHANGED <<fsys, file, served, events, ticks>>

\* The answer of the file system, or an error that has nothing to do with what is there
Fetched(k) == {Answer(fsys, k), Error("other")} \cup {Error("notexist") : p \in {k[2]} \cap {<<>>}}

Fetch(t) ==
  /\ At(t, "fetch")
  /\ \E res \in Fetched(call[t].key) :
       call' = IF Cacheable(call[t].key, res)
               THEN [call EXCEPT ![t].pc = "store", ![t].res = res, ![t].excused = RootMissed(call[t].key, res)]
               ELSE [call EXCEPT ![t] = NoCall]
  /\ UNCHANGED <<fsys, cache, file, served, events, ticks>>

\* setCached
Store(t) ==
  /\ At(t, "store")
  /\ cache' = [k \in DOMAIN cache \cup {call[t].key} |->
                 IF k = call[t].key THEN Entry(call[t].res, call[t].excused) ELSE cache[k]]
  /\ call' = [call EXCEPT ![t] = NoCall]
  /\ UNCHANGED <<fsys, file, served, events, ticks>>

\* refreshStat, refreshLstat, refreshReadDir: an error extends what is cached
Refresh(t) ==
  LET k == call[t].key
  IN /\ At(t, "refresh")
     /\ \E res \in Fetched(k) :
          call' = IF res.err = None
                  THEN [call EXCEPT ![t].pc = "store", ![t].res = res]
                  ELSE GoTo(t, "extend")
     /\ UNCHANGED <<fsys, cache, file, served, events, ticks>>

ExtendExpiry(t) ==
  LET k == call[t].key
  IN /\ At(t, "extend")
     /\ cache' = IF Present(k)
                 THEN [cache EXCEPT ![k].renews = Half, ![k].expires = TTL, ![k].extended = TRUE]
                 ELSE cache
     /\ call' = [call EXCEPT ![t] = NoCall]
     /\ UNCHANGED <<fsys, file, served, events, ticks>>

Read(t) == Lookup(t) \/ DropExpired(t) \/ Fetch(t) \/ Store(t) \/ Refresh(t) \/ ExtendExpiry(t)

-----------------------------------------------------------------------------
(* Operations that change the file system *)

Path(p) == [what |-> "path", path |-> p]
Dirs(p) == [what |-> "dir", path |-> p]
Listing(p) == [what |-> "parent", path |-> p]

\* Invalidate, InvalidateDir, invalidateParent: the keys removed
Invalidated(i) ==
  CASE i.what = "path" -> Kinds \X {i.path}
    [] i.what = "dir" -> Kinds \X ({i.path} \cup IF i.path = <<>> THEN {} ELSE Below(i.path))
    [] i.what = "parent" -> {k \in Keys : k = <<"readdir", Parent(i.path)>>}

\* The open file that was at o is at n, or at no path any more
Moved(o, n) == IF file.name # <<>> /\ file.at = o THEN [file EXCEPT !.at = n] ELSE file

(***************************************************************************)
(* The operation has changed the tree to t; todo is what it will remove    *)
(* from the cache.  expected: the answers that must be right once it has   *)
(* returned.                                                               *)
(***************************************************************************)
Perform(c, t, todo, expected) ==
  /\ fsys' = t
  /\ cache' = TouchedCache(t, expected)
  /\ call' = TouchedCalls(t, [call EXCEPT ![c] = [NoCall EXCEPT !.pc = "invalidate", !.todo = todo, !.changed = Wrong(t)]])
  /\ UNCHANGED served

IsDir(p) == fsys[p] = Dir
Empty(p) == \A q \in Children(p) : fsys[q] = None
Ancestors(p) == {q \in Paths : q = p \/ p \in Below(q)}

\* A directory that was looked for before it was made is not expected to be found
Mkdir(c, p) ==
  /\ IsDir(Parent(p)) /\ fsys[p] = None
  /\ Perform(c, [fsys EXCEPT ![p] = Dir], <<Listing(p)>>, Keys \ (Kinds \X {p}))
  /\ UNCHANGED file

\* p and the directories above it, the listing of its parent after each
Climb(p) ==
  [i \in 1 .. 2 * Len(p) |->
    LET q == SubSeq(p, 1, Len(p) - (i - 1) \div 2) IN IF i % 2 = 1 THEN Path(q) ELSE Listing(q)]

MkdirAll(c, p) ==
  /\ \A q \in Ancestors(p) : fsys[q] \in {None, Dir}
  /\ Perform(c, [q \in Paths |-> IF q \in Ancestors(p) THEN Dir ELSE fsys[q]],
             Climb(p), Keys)
  /\ UNCHANGED file

Remove(c, p) ==
  /\ fsys[p] # None /\ Empty(p)
  /\ Perform(c, [fsys EXCEPT ![p] = None], <<Path(p), Listing(p)>>, Keys)
  /\ file' = Moved(p, <<>>)

\* Mutant of RemoveAll: only the path itself is invalidated.
RemoveAllPath(c, p) ==
  /\ Perform(c, [q \in Paths |-> IF q = p \/ q \in Below(p) THEN None ELSE fsys[q]], <<Path(p), Listing(p)>>, Keys)
  /\ file' = IF file.name # <<>> /\ (file.at = p \/ file.at \in Below(p)) THEN [file EXCEPT !.at = <<>>] ELSE file

RemoveAll(c, p) ==
  /\ Perform(c, [q \in Paths |-> IF q = p \/ q \in Below(p) THEN None ELSE fsys[q]], <<Dirs(p), Listing(p)>>, Keys)
  /\ file' = IF file.name # <<>> /\ (file.at = p \/ file.at \in Below(p)) THEN [file EXCEPT !.at = <<>>] ELSE file

Rename(c, o, n) ==
  /\ fsys[o] # None /\ Empty(o) /\ o # n
  /\ IsDir(Parent(n)) /\ Parent(n) # o /\ fsys[n] # Dir
  /\ fsys[n] = None \/ fsys[o] # Dir
  /\ Perform(c, [fsys EXCEPT ![o] = None, ![n] = fsys[o]], <<Path(o), Path(n), Listing(o), Listing(n)>>, Keys)
  /\ file' = IF file.name # <<>> /\ file.at = n THEN [file EXCEPT !.at = <<>>] ELSE Moved(o, n)

\* Truncate, Chmod, Chown, Chtimes
Alter(c, p) ==
  /\ fsys[p] \in Versions
  /\ Perform(c, [fsys EXCEPT ![p] = Other(@)], <<Path(p)>>, Keys)
  /\ UNCHANGED file

\* Create, OpenFile with O_CREATE or O_TRUNC, and Symlink, which opens no file
Create(c, p) ==
  /\ IsDir(Parent(p)) /\ ~IsDir(p)
  /\ Perform(c, [fsys EXCEPT ![p] = IF @ = None THEN "v1" ELSE Other(@)], <<Path(p), Listing(p)>>, Keys)
  /\ file' = IF file.name = <<>> THEN [NoFile EXCEPT !.name = p, !.at = p, !.info = fsys'[p]] ELSE file

Change(c) ==
  /\ Calls(c)
  /\ \E p \in Paths \ {<<>>} :
       \/ Mkdir(c, p) \/ MkdirAll(c, p) \/ Remove(c, p) \/ RemoveAll(c, p)
       \/ Alter(c, p) \/ Create(c, p)
       \/ \E n \in Paths \ {<<>>} : Rename(c, p, n)

\* The next of the invalidations, each under the lock
Invalidate(c) ==
  LET rest == Tail(call[c].todo)
  IN /\ At(c, "invalidate")
     /\ cache' = Drop(Invalidated(Head(call[c].todo)))
     /\ call' = [call EXCEPT ![c] = IF rest = <<>> THEN NoCall ELSE [@ EXCEPT !.todo = rest]]
     /\ UNCHANGED <<fsys, file, served, events, ticks>>

-----------------------------------------------------------------------------
(* The wrapped file *)

Open(c) ==
  /\ Calls(c) /\ file.name = <<>>
  /\ \E p \in Paths : fsys[p] \in Versions /\ file' = [NoFile EXCEPT !.name = p, !.at = p, !.info = fsys[p]]
  /\ UNCHANGED <<fsys, cache, call, served>>

\* The file was written: its answers are wrong until Close, or for good if it was renamed
FileWrite(c) ==
  LET t == [fsys EXCEPT ![file.at] = Other(@)]
  IN /\ Calls(c) /\ file.name # <<>> /\ file.at # <<>>
     /\ fsys' = t
     /\ cache' = TouchedCache(t, IF file.at = file.name THEN Keys ELSE {})
     /\ call' = TouchedCalls(t, call)
     /\ file' = [file EXCEPT !.written = TRUE, !.changed = Wrong(t)]
     /\ UNCHANGED served

\* File.Stat: the cached info of the name, or that of the file, which is then cached under the name
FileStat(c) ==
  LET k == <<"stat", file.name>>
      info == IF file.at = <<>> THEN file.info ELSE fsys[file.at]
  IN /\ Calls(c) /\ file.name # <<>>
     /\ IF Present(k) /\ ~Expired(k) /\ cache[k].res.err = None
        THEN /\ served' = [wrongFor |-> cache[k].wrongFor, extended |-> cache[k].extended]
             /\ UNCHANGED call
        ELSE /\ call' = [call EXCEPT ![c] = [NoCall EXCEPT !.pc = "store", !.key = k, !.res = Info(info), !.excused = file.at # file.name]]
             /\ UNCHANGED served
     /\ UNCHANGED <<fsys, cache, file>>

FileClose(c) ==
  /\ Calls(c) /\ file.name # <<>>
  /\ call' = IF file.written
             THEN [call EXCEPT ![c] = [NoCall EXCEPT !.pc = "invalidate", !.todo = <<Path(file.name), Listing(file.name)>>, !.changed = file.changed]]
             ELSE call
  /\ file' = NoFile
  /\ UNCHANGED <<fsys, cache, served>>

-----------------------------------------------------------------------------
(* The guest and time *)

\* The guest alters, makes or removes something without the cache; what it writes is v2
Guest ==
  /\ Event
  /\ \E p \in Paths \ {<<>>} : \E v \in {None, "v2"} \ {fsys[p]} :
       LET t == [fsys EXCEPT ![p] = v]
       IN /\ IsDir(Parent(p)) /\ Empty(p)
          /\ fsys' = t
          /\ cache' = TouchedCache(t, {})
          /\ call' = TouchedCalls(t, call)
          /\ file' = IF v = None THEN Moved(p, <<>>) ELSE file
  /\ UNCHANGED served

Less(n) == IF n <= -1 THEN n ELSE n - 1

Tick ==
  /\ events < MaxEvents /\ events' = events + 1 /\ ticks' = ticks + 1
  /\ \A t \in Threads : call[t].pc \notin {"store", "extend"}
  /\ cache' = [k \in DOMAIN cache |->
       [cache[k] EXCEPT !.renews = Less(@), !.expires = Less(@),
                        !.wrongFor = IF cache[k].res = Answer(fsys, k) THEN 0 ELSE @ + 1]]
  /\ UNCHANGED <<fsys, call, file, served>>

Next ==
  \/ \E t \in Threads : Read(t)
  \/ \E c \in Clients : Change(c) \/ Invalidate(c) \/ Open(c) \/ FileWrite(c) \/ FileStat(c) \/ FileClose(c)
  \/ Guest \/ Tick

Spec == Init /\ [][Next]_vars

-----------------------------------------------------------------------------
(***************************************************************************)
(* Clients see what clients have done: once the operations that changed a  *)
(* path have returned, and the files written are closed, an answer that is *)
(* cached is the answer of the file system.  Excused are what the guest    *)
(* did, an answer fetched before an operation and stored after it, a       *)
(* directory made where it had been looked for, a file that is used after  *)
(* it was renamed or removed, and a passing ErrNotExist of the root, which *)
(* Lstat caches although Stat and ReadDir do not (metacache.go:490).       *)
(***************************************************************************)
SeesOwnChanges ==
  \A k \in DOMAIN cache :
    /\ cache[k].res # Answer(fsys, k)
    /\ ~cache[k].excused
    => (\E c \in Clients : k \in call[c].changed) \/ k \in file.changed

(***************************************************************************)
(* Whatever made a cached answer wrong, it is served for no longer than    *)
(* the TTL after, unless a refresh has failed.                             *)
(***************************************************************************)
WrongForAtMostTTL == served.extended \/ served.wrongFor <= TTL

=============================================================================
