------------------------------- MODULE CacheFS -------------------------------
(***************************************************************************)
(* caches: the caches of the browser as a file system.  A cache has an     *)
(* entry for each URL; the name of a file is the name of the cache and the *)
(* URL without its scheme.  Which URL a name stands for is looked up each  *)
(* time, and only a name that has none gets a URL with the scheme that the *)
(* device takes for its host.                                              *)
(*                                                                         *)
(* Opening a cache, which makes one that is not there, and what is then    *)
(* asked of it is one step.  A name is a sequence: cache, host, path.      *)
(* Bound: MaxLen cells in a file.                                          *)
(***************************************************************************)
EXTENDS Async

CONSTANTS
    CachesThere,  \* the caches at first: for each, its entries
    LocalHosts,   \* localhost and its addresses
    MaxFile

(* A URL has a scheme, and a path that begins with its host.               *)
ASSUME CachesAssumption ==
    \A c \in DOMAIN CachesThere : \A u \in DOMAIN CachesThere[c] : u = [scheme |-> u.scheme, path |-> u.path]

VARIABLES
    caches,   \* the caches: for each, a function from URLs to cells
    wfile,    \* the writable files
    loose     \* history: names of which something was removed, or missed

cachevars == <<caches, wfile, loose>>

Names(c) == IF c \in DOMAIN caches THEN DOMAIN caches[c] ELSE {}
FirstNames(c) == IF c \in DOMAIN CachesThere THEN DOMAIN CachesThere[c] ELSE {}
Entries(c) == IF c \in DOMAIN caches THEN caches[c] ELSE <<>>
PutIn(c, f) == [d \in DOMAIN caches \cup {c} |-> IF d = c THEN f ELSE caches[d]]

(* caches.open makes the cache.                                            *)
CacheOpened(c) == caches' = PutIn(c, Entries(c))

Url(scheme, path) == [scheme |-> scheme, path |-> path]
UrlToPath(u) == u.path
PathToUrl(path) == Url(IF path[1] \in LocalHosts THEN "http" ELSE "https", path)

Cache(p) == Top(p).n[1]
Path(p) == Tail(Top(p).n)
Found(p) == {u \in Names(Cache(p)) : UrlToPath(u) = Path(p)}
Below(c, path) == {u \in Names(c) : IsStrictPrefix(path, UrlToPath(u))}

(* Only URLs that the device would make itself are looked for. *)
FindOwnURL(p, pc) ==
    /\ CacheOpened(Cache(p))
    /\ LET u == PathToUrl(Path(p)) IN Becomes(p, [Top(p) EXCEPT !.m = IF u \in Found(p) THEN <<u.scheme>> ELSE <<>>, !.pc = pc])

(* findURLForPath: the scheme found, or none, goes into the frame.  What   *)
(* fails may have made the cache.                                          *)
FindURLForPath(p, pc) ==
    /\ CacheOpened(Cache(p))
    /\ \E s \in IF Found(p) = {} THEN {<<>>} ELSE {<<u.scheme>> : u \in Found(p)} :
          Becomes(p, [Top(p) EXCEPT !.m = s, !.pc = pc])
UrlOf(p) == Url(Top(p).m[1], Path(p))
MayOpen(p) == UNCHANGED caches \/ CacheOpened(Cache(p))

StaysAs == UNCHANGED <<wfile, plan, trip, last>>
Rests == StaysAs /\ UNCHANGED <<loose, faults>>

CacheExists(p, op) ==
    /\ At(p, op, 0)
    /\ IF Cache(p) \notin DOMAIN caches THEN Throws(p, "notexist") ELSE Goto(p, 1)
    /\ UNCHANGED caches /\ Rests

(* What is neither an entry nor above one is there, if it is a host.       *)
ListEntriesAt(p) ==
    Returns(p, Result(IF (Below(Cache(p), Path(p)) # {} /\ Found(p) = {}) \/ Len(Path(p)) <= 1 THEN "ok" ELSE "notexist", 0))

(* Opening for reading, and Stat: an entry, or else a directory.           *)
OpenPath(p, op) ==
    \/ CacheExists(p, op)
    \/ At(p, op, 1) /\ FindURLForPath(p, 2) /\ Rests
    \/ /\ At(p, op, 2)
       /\ IF Top(p).m # <<>> /\ UrlOf(p) \in Names(Cache(p)) THEN Returns(p, Ok) ELSE ListEntriesAt(p)
       /\ CacheOpened(Cache(p)) /\ Rests
OpenRead(p) == OpenPath(p, "copen")
StatPath(p) == OpenPath(p, "cstat")
ReadDir(p) ==
    \/ CacheExists(p, "creaddir")
    \/ At(p, "creaddir", 1) /\ CacheOpened(Cache(p)) /\ Returns(p, Ok) /\ Rests

(* Opening for writing puts what it has read at once, so that the name is  *)
(* there.                                                                  *)
OpenFind(p) ==
    /\ At(p, "copenfile", 0)
    /\ IF Len(Path(p)) < 2 THEN Throws(p, "invalid") /\ UNCHANGED caches ELSE FindURLForPath(p, 1)
    /\ Rests

(* OpenFile does not ask whether the look-up has failed, nor whether the   *)
(* load has: it goes on as if there were nothing.                          *)
OpenMisses(p) ==
    /\ At(p, "copenfile", 0) /\ Len(Path(p)) >= 2 /\ Faulty /\ MayOpen(p)
    /\ Becomes(p, [Top(p) EXCEPT !.m = <<>>, !.pc = 1])
    /\ loose' = IF Found(p) \subseteq {PathToUrl(Path(p))} THEN loose ELSE loose \cup {Top(p).n}
    /\ StaysAs

LoadFails(p) ==
    LET f == Top(p) IN
    /\ At(p, "copenfile", 1) /\ f.m # <<>> /\ f.flags \cap {"excl", "trunc"} = {}
    /\ Faulty /\ MayOpen(p) /\ Goto(p, 2)
    /\ StaysAs /\ UNCHANGED loose

OpenLoad(p) ==
    LET f == Top(p) IN
    /\ At(p, "copenfile", 1)
    /\ IF "excl" \in f.flags /\ f.m # <<>> THEN Throws(p, "exist") /\ UNCHANGED caches
       ELSE IF f.m = <<>> THEN Becomes(p, [f EXCEPT !.pc = 2, !.m = <<PathToUrl(Path(p)).scheme>>]) /\ UNCHANGED caches
       ELSE IF "trunc" \in f.flags THEN Goto(p, 2) /\ UNCHANGED caches
       ELSE /\ CacheOpened(Cache(p))
            /\ Becomes(p, [f EXCEPT !.pc = 2, !.cells = IF UrlOf(p) \in Names(Cache(p)) THEN caches[Cache(p)][UrlOf(p)] ELSE <<>>])
    /\ Rests

Put(c, u, cells) == caches' = PutIn(c, [v \in Names(c) \cup {u} |-> IF v = u THEN cells ELSE caches[c][v]])

OpenPut(p) ==
    LET f == Top(p) IN
    /\ At(p, "copenfile", 2)
    /\ \/ /\ Put(Cache(p), UrlOf(p), f.cells)
          /\ wfile' = Append(wfile, [cache |-> Cache(p), url |-> UrlOf(p), data |-> f.cells, off |-> 0, dirty |-> FALSE,
                                     append |-> "append" \in f.flags])
          /\ Opens(p, Len(wfile) + 1)
          /\ UNCHANGED faults
       \/ Faulty /\ Throws(p, "other") /\ MayOpen(p) /\ UNCHANGED <<wfile, last>>
    /\ UNCHANGED <<loose, plan, trip>>

(* Remove takes a cache, or the entry it has found.                        *)
RemoveEntry(p) ==
    LET f == Top(p)  c == Cache(p)  whole == Len(f.n) = 1 IN
    \/ At(p, "cremove", 0) /\ ~whole /\ FindURLForPath(p, 1) /\ Rests
    \/ /\ At(p, "cremove", 0) /\ whole
       /\ caches' = [d \in DOMAIN caches \ {c} |-> caches[d]]
       /\ loose' = loose \cup {<<c>> \o UrlToPath(u) : u \in Names(c)}
       /\ Throws(p, IF c \in DOMAIN caches THEN "ok" ELSE "notexist")
       /\ UNCHANGED <<wfile, plan, trip, last, faults>>
    \/ /\ At(p, "cremove", 1)
       /\ IF f.m = <<>> THEN Throws(p, "notexist") /\ UNCHANGED <<caches, loose>>
          ELSE /\ caches' = PutIn(c, [u \in Names(c) \ {UrlOf(p)} |-> caches[c][u]])
               /\ Throws(p, IF UrlOf(p) \in Names(c) THEN "ok" ELSE "notexist")
               /\ loose' = loose \cup {f.n}
       /\ UNCHANGED <<wfile, plan, trip, last, faults>>

(* The other calls say what fails.                                         *)
CallFails(p) ==
    LET f == Top(p) IN
    /\ stack[p] # <<>> /\ f.op \in {"copen", "cstat", "creaddir", "cremove"}
    /\ Faulty /\ Throws(p, "other")
    /\ IF f.pc > 0 \/ (f.op = "cremove" /\ Len(f.n) > 1) THEN MayOpen(p) ELSE UNCHANGED caches
    /\ StaysAs /\ UNCHANGED loose

(* The writable file: its data are its own until Close puts them.          *)
NamesStay == UNCHANGED <<caches, loose, plan, trip, last>>
WRead(p) ==
    LET h == Top(p).h  w == wfile[h] IN
    /\ At(p, "cread", 0)
    /\ IF w.off >= Len(w.data) THEN Throws(p, "closed") /\ UNCHANGED wfile
       ELSE wfile' = [wfile EXCEPT ![h].off = Len(w.data)] /\ Returns(p, Ok)
    /\ NamesStay /\ UNCHANGED faults

WWrite(p) ==
    LET h == Top(p).h  w == wfile[h]  new == Top(p).cells
        at == IF w.append THEN Len(w.data) ELSE w.off
        end == at + Len(new) IN
    /\ At(p, "cwrite", 0) /\ end <= MaxFile
    /\ wfile' = [wfile EXCEPT
          ![h].data = [k \in 1..(IF end > Len(w.data) THEN end ELSE Len(w.data)) |->
                          IF k \in at + 1..end THEN new[k - at] ELSE IF k <= Len(w.data) THEN w.data[k] ELSE 0],
          ![h].off = IF w.append THEN @ ELSE end, ![h].dirty = TRUE]
    /\ Returns(p, Ok)
    /\ NamesStay /\ UNCHANGED faults

WSeek(p) ==
    /\ At(p, "cseek", 0)
    /\ wfile' = [wfile EXCEPT ![Top(p).h].off = Top(p).size]
    /\ Returns(p, Ok)
    /\ NamesStay /\ UNCHANGED faults

WClose(p) ==
    LET w == wfile[Top(p).h] IN
    /\ At(p, "cclose", 0)
    /\ IF ~w.dirty THEN Returns(p, Ok) /\ UNCHANGED <<caches, faults>>
       ELSE \/ Put(w.cache, w.url, w.data) /\ Returns(p, Ok) /\ UNCHANGED faults
            \/ Faulty /\ Throws(p, "other") /\ (UNCHANGED caches \/ CacheOpened(w.cache))
    /\ UNCHANGED <<wfile, loose, plan, trip, last>>

CacheStep(p) ==
    \/ OpenRead(p) \/ StatPath(p) \/ ReadDir(p) \/ OpenFind(p) \/ OpenMisses(p) \/ OpenLoad(p) \/ LoadFails(p) \/ OpenPut(p)
    \/ RemoveEntry(p) \/ CallFails(p)
    \/ WRead(p) \/ WWrite(p) \/ WSeek(p) \/ WClose(p)

CacheReload == Restarts /\ wfile' = <<>> /\ UNCHANGED <<caches, loose>>

(* Any calls: on a name, or on an open file.                               *)
NameCalls == {"copen", "cstat", "creaddir", "copenfile", "cremove"}
FileCalls == {"cread", "cwrite", "cseek", "cclose"}
CacheCalled(p) ==
    /\ stack[p] = <<>>
    /\ \/ \E op \in NameCalls, n \in Seq(STRING) \ {<<>>}, flags \in SUBSET STRING :
              stack' = [stack EXCEPT ![p] = <<[Frame(op, n, <<>>) EXCEPT !.flags = flags]>>]
       \/ \E op \in FileCalls, h \in DOMAIN wfile, cells \in Seq(Nat), size \in Nat :
              stack' = [stack EXCEPT ![p] = <<[Frame(op, <<"file">>, <<>>) EXCEPT !.h = h, !.cells = cells, !.size = size]>>]
    /\ UNCHANGED <<cachevars, back, plan, last, faults, trip>>

CacheInit == caches = CachesThere /\ wfile = <<>> /\ loose = {}

CacheNext == (\E p \in Tasks : CacheCalled(p) \/ CacheStep(p)) \/ CacheReload
CacheSpec == AsyncInit /\ CacheInit /\ [][CacheNext]_<<cachevars, asyncvars>>

(* A name stands for one URL: an entry that a page has put there under     *)
(* another scheme is written to, however many calls look for it and write  *)
(* at the same time, and none appears beside it, unless both were there at *)
(* first.  Not so once the name has been removed, when a file may still be *)
(* open with the old URL, or once OpenFile has missed an entry under       *)
(* another scheme because its look-up failed (caches.go:121).              *)
OnePathOneURL ==
    \A c \in DOMAIN caches : \A u, v \in DOMAIN caches[c] :
        u # v /\ UrlToPath(u) = UrlToPath(v) =>
            <<c>> \o UrlToPath(u) \in loose \/ {u, v} \subseteq FirstNames(c)
=============================================================================
