------------------------------- MODULE Httpfs -------------------------------
(***************************************************************************)
(* httpfs: a file system behind HTTP.  Server translates requests into     *)
(* calls of the file system it serves, FS calls into requests, and Cacher  *)
(* keeps, per path, what the last response said of it, or that it is not   *)
(* there.  Renewals and the fetch of subtrees run in the background.       *)
(*                                                                         *)
(* A request is served at one moment and its response arrives at a later   *)
(* one; between the two, others are served and arrive.  A request may fail *)
(* before it is served or after.  An entry that is looked up may have      *)
(* expired, or be due for renewal.  Other clients are left out.            *)
(*                                                                         *)
(* A node is its kind and its mode, which stands for all attributes; what  *)
(* is in a file is left out.  asof counts the changes of the server that a *)
(* response knows of.  The server is one whose file system has no SetNode. *)
(*                                                                         *)
(* An entry is late when its response was served before a change of its    *)
(* path and arrived when the change had already been invalidated, or when  *)
(* it lies below a name of a Rename and the invalidation does not reach    *)
(* it: below the new name, or below a directory that is itself not cached. *)
(*                                                                         *)
(* Bounds: MaxCalls[c] calls of c, MaxFaults requests that fail, one       *)
(* renewal and one prefetch at a time.                                     *)
(***************************************************************************)
EXTENDS Integers, FiniteSets, Sequences, SequencesExt

CONSTANTS
    Clients,   \* goroutines that call the Cacher
    Paths,     \* sequences of names
    Names,     \* the names in Paths
    Ops,       \* Ops[c]: the operations that c calls
    Stored,    \* Stored[p]: what is on the server at first
    Modes,
    Background, \* the agents of requests in the background
    MaxCalls,  \* MaxCalls[c]: how many
    MaxFaults

Root == <<>>
None == [kind |-> "none", mode |-> 0]

ASSUME PathsAssumption == Root \in Paths /\ Paths \subseteq Seq(Names) /\ \A p \in Paths \ {Root} : Front(p) \in Paths
ASSUME StoredAssumption ==
    /\ Stored \in [Paths -> [kind : {"none", "dir", "file", "link"}, mode : Modes \cup {0}]]
    /\ Stored[Root].kind = "dir"
    /\ \A p \in Paths \ {Root} : Stored[p].kind # "none" => Stored[Front(p)].kind = "dir"

Agents == Clients \cup Background

ASSUME AgentsAssumption == Clients \cap Background = {}
ASSUME OpsAssumption ==
    \A c \in Clients : Ops[c] \subseteq {"stat", "readdir", "open", "create", "write", "mkdir", "symlink",
                                        "remove", "rename", "chmod", "patch"}

VARIABLES
    tree,   \* the file system that is served
    asof,   \* changes served
    cache,  \* cache[p]: what is cached of p
    call,   \* call[c]: the call that c is in
    req,    \* req[a]: the request of a that is under way
    handle, \* handle[c]: the file that c has open
    calls, faults,
    inval, own, want

bounds == <<calls, faults>>
history == <<inval, own, want>>
vars == <<tree, asof, cache, call, req, handle, calls, faults, inval, own, want>>

Under(p, q) == IsPrefix(p, q)
Exists(p) == tree[p].kind # "none"
Kids(t, p) == {q \in Paths \ {Root} : Front(q) = p /\ t[q].kind # "none"}

NotCached == [kind |-> "no", mode |-> 0, kids |-> {}, dirs |-> {}, asof |-> 0, late |-> FALSE]
NoReq == [kind |-> "no", p |-> Root, q |-> Root, mode |-> 0, state |-> "no", seen |-> {}, at |-> 0]
NoCall == [op |-> "no", p |-> Root, q |-> Root, mode |-> 0, pc |-> "idle", at |-> 0]
NoHandle == [p |-> Root, mode |-> 0, cached |-> FALSE, dirty |-> FALSE, open |-> FALSE]

NoMode == -1 \* no mode is asked for

-----------------------------------------------------------------------------
(* The requests of the FS, and of the Cacher for a directory with what is in it *)

Request(kind, p) == [NoReq EXCEPT !.kind = kind, !.p = p, !.state = "sent"]

Get(p) == Request("get", p)
Meta(p) == Request("head", p)
Tree(p) == Request("tree", p)
Dir(p) == Request("dir", p)
PutFile(p, mode) == [Request("put", p) EXCEPT !.mode = mode]
PutDir(p, mode) == [Request("mkdir", p) EXCEPT !.mode = mode]
PutLink(p) == [Request("symlink", p) EXCEPT !.mode = 1]
Delete(p) == Request("delete", p)
Move(p, q) == [Request("move", p) EXCEPT !.q = q]
PatchMode(p, mode) == [Request("chmod", p) EXCEPT !.mode = mode]
PatchTar(p) == [Request("patch", p) EXCEPT !.mode = NoMode]

RequestOf(op, p, q, mode) ==
    CASE op \in {"write", "create"} -> PutFile(p, mode)
      [] op = "mkdir"   -> PutDir(p, mode)
      [] op = "symlink" -> PutLink(p)
      [] op = "remove"  -> Delete(p)
      [] op = "rename"  -> Move(p, q)
      [] op = "chmod"   -> PatchMode(p, mode)
      [] op = "patch"   -> PatchTar(p)

-----------------------------------------------------------------------------
(* The server *)

\* What the server says of p in the headers of an answer or of a part
Headers(p) == [kind |-> tree[p].kind, mode |-> tree[p].mode]

\* What ParseNode makes of a part of a response; without its listing a directory has no entries
NodeOf(p, listed) ==
    LET said == Headers(p)
        kids == IF listed /\ said.kind = "dir" THEN Kids(tree, p) ELSE {}
    IN  <<p, [kind |-> said.kind, mode |-> said.mode, kids |-> kids,
              dirs |-> {q \in kids : tree[q].kind = "dir"}, asof |-> asof, late |-> FALSE]>>

HandleHead(p) == IF Exists(p) THEN {NodeOf(p, FALSE)} ELSE {}

HandleGet(p) == IF Exists(p) THEN {NodeOf(p, TRUE)} ELSE {}

\* The directory and everything in it, the listings of directories in it included
HandleDirStream(p) ==
    IF tree[p].kind = "dir" THEN {NodeOf(q, TRUE) : q \in {p} \cup Kids(tree, p)} ELSE {}

\* The directories below
HandleRecursiveStream(p) ==
    IF tree[p].kind = "dir" THEN {NodeOf(q, TRUE) : q \in {x \in Paths : Under(p, x) /\ tree[x].kind = "dir"}}
    ELSE {}

ParentIsDir(p) == p # Root /\ tree[Front(p)].kind = "dir"

\* A body is put in the file that Create makes or empties; a directory may exist
CanPut(p, kind) ==
    /\ ParentIsDir(p)
    /\ IF kind = "mkdir" THEN tree[p].kind \in {"none", "dir"}
       ELSE IF kind = "symlink" THEN ~Exists(p) ELSE tree[p].kind # "dir"

HandlePut(p, kind, mode) ==
    [tree EXCEPT ![p] = [kind |-> CASE kind = "mkdir" -> "dir" [] kind = "symlink" -> "link" [] OTHER -> "file",
                         mode |-> mode]]

CanDelete(p) == p # Root /\ Exists(p) /\ Kids(tree, p) = {}

HandleDelete(p) == [tree EXCEPT ![p] = None]

CanMove(p, q) ==
    /\ p # Root /\ Exists(p) /\ ParentIsDir(q) /\ ~Under(p, q)
    /\ Kids(tree, q) = {}
    /\ tree[q].kind # "none" => (tree[q].kind = "dir") = (tree[p].kind = "dir")
    /\ \A x \in Paths : Under(p, x) /\ Exists(x) => q \o SubSeq(x, Len(p) + 1, Len(x)) \in Paths

HandleMove(p, q) ==
    [x \in Paths |->
        LET from == p \o SubSeq(x, Len(q) + 1, Len(x))
        IN  IF Under(q, x) THEN (IF from \in Paths THEN tree[from] ELSE None)
        ELSE IF Under(p, x) THEN None ELSE tree[x]]

\* A PATCH: attributes that the headers name; a body is not looked at
UpdateMetadata(p, mode) == IF mode = NoMode THEN tree ELSE [tree EXCEPT ![p].mode = mode]

Changes == {"put", "mkdir", "symlink", "delete", "move", "chmod", "patch"}

\* Whether the server can do what r asks, and what it does
Can(r) ==
    CASE r.kind \in {"put", "mkdir", "symlink"} -> CanPut(r.p, r.kind)
      [] r.kind = "delete" -> CanDelete(r.p)
      [] r.kind = "move" -> CanMove(r.p, r.q)
      [] OTHER -> Exists(r.p)

Made(r) ==
    CASE r.kind \in {"put", "mkdir", "symlink"} -> HandlePut(r.p, r.kind, r.mode)
      [] r.kind = "delete" -> HandleDelete(r.p)
      [] r.kind = "move" -> HandleMove(r.p, r.q)
      [] OTHER -> UpdateMetadata(r.p, r.mode)

Seen(r) ==
    CASE r.kind = "head" -> HandleHead(r.p)
      [] r.kind = "get"  -> HandleGet(r.p)
      [] r.kind = "dir"  -> HandleDirStream(r.p)
      [] r.kind = "tree" -> HandleRecursiveStream(r.p)

\* A close of p has read, or is reading, the mode it will put back
Closing(p) == \E c \in Clients : call[c].op = "close" /\ call[c].p = p /\ (call[c].pc = "put" \/ req[c].state # "no")

\* The mode that is asked for: a close is to keep it, whatever else changes the node ends it
Asked(by, r) ==
    [p \in Paths |-> IF tree'[p] # tree[p] /\ ~(by \in Clients /\ call[by].op = "close") THEN NoMode
                     ELSE IF r.kind = "chmod" /\ p = r.p THEN NoMode ELSE want[p]]

Serve(a) ==
    LET r == req[a]
    IN  /\ r.state = "sent"
        /\ IF r.kind \in Changes
           THEN /\ IF Can(r) THEN tree' = Made(r) /\ asof' = asof + 1 ELSE UNCHANGED <<tree, asof>>
                /\ req' = [req EXCEPT ![a].state = IF Can(r) THEN "ok" ELSE "refused"]
                /\ want' = Asked(a, r)
                /\ call' = [call EXCEPT ![a].at = asof']
           ELSE /\ req' = [req EXCEPT ![a].seen = Seen(r), ![a].at = asof, ![a].state = IF Seen(r) = {} THEN "refused" ELSE "ok"]
                /\ UNCHANGED <<tree, asof, want, call>>
        /\ UNCHANGED <<cache, handle, bounds, inval, own>>

\* A request fails: it never arrives, it is served and the response is lost, or a PUT stops before the metadata
Fail(a) ==
    LET r == req[a]
    IN  /\ r.state = "sent" /\ faults < MaxFaults
        /\ faults' = faults + 1
        /\ req' = [req EXCEPT ![a].state = "failed"]
        /\ \/ UNCHANGED <<tree, asof, want>>
           \/ /\ r.kind \in Changes /\ Can(r)
              /\ \/ tree' = Made(r)
                 \/ r.kind \in {"put", "mkdir"} /\ tree' = HandlePut(r.p, r.kind, IF Exists(r.p) THEN tree[r.p].mode ELSE 0)
              /\ asof' = asof + 1
              /\ want' = [p \in Paths |-> IF tree'[p] # tree[p] THEN NoMode ELSE want[p]]
        /\ UNCHANGED <<cache, call, handle, calls, inval, own>>

-----------------------------------------------------------------------------
(* The cache *)

\* CacheNode, for all parts of a response
Cached(seen) ==
    [p \in Paths |-> IF \E x \in seen : x[1] = p
                     THEN LET e == (CHOOSE x \in seen : x[1] = p)[2] IN [e EXCEPT !.late = e.asof < inval[p]]
                     ELSE cache[p]]

\* CacheNodeError: a response that there is nothing
CachedError(r) == [cache EXCEPT ![r.p] = [NotCached EXCEPT !.kind = "none", !.asof = r.at, !.late = r.at < inval[r.p]]]

\* CachedNode removes an entry that has expired, which one that is looked up may have
Kept(ps) == {ex \in SUBSET ps : \A p \in ex : cache[p] # NotCached}
Expired(ex) == [p \in Paths |-> IF p \in ex THEN NotCached ELSE cache[p]]

\* q is listed, from p on, by what is cached
Listed(p, q) == \A n \in Len(p)..(Len(q) - 1) : SubSeq(q, 1, n + 1) \in cache[SubSeq(q, 1, n)].kids

\* Mutant: what is listed is left
ReachedAlone(p, recursive) == {p}

\* InvalidateNode, recursively or not
Reached(p, recursive) == {q \in Paths : Under(p, q) /\ (q # p => recursive /\ Listed(p, q))}

Invalidated(p, recursive) == [q \in Paths |-> IF q \in Reached(p, recursive) THEN NotCached ELSE cache[q]]

InvalidatedAll(p) == [q \in Paths |-> IF Under(p, q) THEN NotCached ELSE cache[q]]

\* What a Rename leaves cached below a name
Missed(c, p, all) ==
    [q \in Paths |-> IF Under(p, q) /\ q # p /\ c[q] # NotCached /\ (all \/ ~Listed(p, q))
                     THEN [c[q] EXCEPT !.late = TRUE] ELSE c[q]]

Send(a, r) == req' = [req EXCEPT ![a] = r]

Ends(c) == call' = [call EXCEPT ![c] = NoCall]

-----------------------------------------------------------------------------
(* Reads *)

\* An entry that is used may be due for renewal
Renews(p) ==
    \/ UNCHANGED req
    \/ /\ "renew" \in Background /\ req["renew"] = NoReq
       /\ cache[p].kind # "none"
       /\ Send("renew", IF cache[p].kind = "dir" THEN Dir(p) ELSE Meta(p))

\* Mutant: a close puts back the mode that the file had when it was opened
TakesOpened(c, e) ==
    /\ call' = [call EXCEPT ![c] = IF call[c].op = "close" THEN [call[c] EXCEPT !.pc = "put", !.mode = handle[c].mode] ELSE NoCall]
    /\ want' = IF call[c].op = "close" /\ e.late THEN [want EXCEPT ![call[c].p] = NoMode] ELSE want

\* The mode that a close takes from an entry is an old one when the entry is late
Takes(c, e) ==
    /\ call' = [call EXCEPT ![c] = IF call[c].op = "close" THEN [call[c] EXCEPT !.pc = "put", !.mode = e.mode] ELSE NoCall]
    /\ want' = IF call[c].op = "close" /\ e.late THEN [want EXCEPT ![call[c].p] = NoMode] ELSE want

\* A close falls back on the mode that the file had when it was opened
StatFails(c) ==
    /\ call' = [call EXCEPT ![c] = IF call[c].op = "close" THEN [call[c] EXCEPT !.pc = "put", !.mode = handle[c].mode] ELSE NoCall]
    /\ want' = IF call[c].op = "close" THEN [want EXCEPT ![call[c].p] = NoMode] ELSE want

\* Stat: a cached entry, or a request for a directory if its parent says that it is one, else for the metadata
StatHit(c) ==
    LET p == call[c].p
    IN  /\ call[c].pc = "stat" /\ req[c] = NoReq
        /\ cache[p] # NotCached
        /\ IF cache[p].kind = "none"
           THEN StatFails(c) /\ UNCHANGED req
           ELSE Takes(c, cache[p]) /\ Renews(p)
        /\ UNCHANGED <<tree, asof, cache, handle, bounds, inval, own>>

StatMiss(c) ==
    LET p == call[c].p
        parents == IF p = Root THEN {} ELSE {Front(p)}
    IN  /\ call[c].pc = "stat" /\ req[c] = NoReq
        /\ \E ex \in Kept({p} \cup parents) :
            /\ cache' = Expired(ex)
            /\ cache'[p] = NotCached
            /\ \A d \in parents : cache'[d].kind # "none"
            /\ Send(c, IF p = Root \/ \E d \in parents : p \in cache'[d].dirs THEN Dir(p) ELSE Meta(p))
        /\ UNCHANGED <<tree, asof, call, handle, bounds, history>>

\* A parent that is cached as not there has no node to list: the program ends
StatPanics(c) ==
    LET p == call[c].p
    IN  /\ call[c].pc = "stat" /\ req[c] = NoReq
        /\ cache[p] = NotCached /\ p # Root /\ cache[Front(p)].kind = "none"
        /\ call' = [call EXCEPT ![c].pc = "panic"]
        /\ UNCHANGED <<tree, asof, cache, req, handle, bounds, history>>

\* The response to the request of a Stat; metadata of a directory asks for the directory
StatArrives(c) ==
    LET r == req[c]
        p == r.p
    IN  /\ call[c].pc = "stat" /\ r.state \in {"ok", "refused", "failed"}
        /\ CASE r.state = "ok" /\ r.kind = "head" /\ (CHOOSE x \in r.seen : TRUE)[2].kind = "dir" ->
                  cache' = Cached(r.seen) /\ Send(c, Dir(p)) /\ UNCHANGED <<call, want>>
             [] r.state = "ok" /\ ~(r.kind = "head" /\ (CHOOSE x \in r.seen : TRUE)[2].kind = "dir") ->
                  /\ cache' = Cached(r.seen)
                  /\ Takes(c, (CHOOSE x \in r.seen : x[1] = p)[2]) /\ req' = [req EXCEPT ![c] = NoReq]
             [] r.state # "ok" ->
                  /\ cache' = IF r.state = "refused" /\ r.kind = "head" THEN CachedError(r) ELSE cache
                  /\ StatFails(c) /\ req' = [req EXCEPT ![c] = NoReq]
        /\ UNCHANGED <<tree, asof, handle, bounds, inval, own>>

\* ReadDir: a cached entry, or a request; the directories in it are then fetched in the background
ReadDir(c) ==
    LET p == call[c].p
    IN  /\ call[c].pc = "readdir" /\ req[c] = NoReq
        /\ \/ cache[p] # NotCached /\ Ends(c) /\ Renews(p) /\ UNCHANGED cache
           \/ /\ cache' = Expired({p})
              /\ Send(c, Get(p)) /\ UNCHANGED call
        /\ UNCHANGED <<tree, asof, handle, bounds, history>>

\* The response to a ReadDir or an Open
Opens(c) ==
    LET r == req[c]
        e == (CHOOSE x \in r.seen : TRUE)[2]
    IN  /\ call[c].pc \in {"readdir", "open"} /\ r.state \in {"ok", "refused", "failed"}
        /\ cache' = CASE r.state = "ok" -> Cached(r.seen) [] r.state = "refused" -> CachedError(r) [] OTHER -> cache
        /\ handle' = IF r.state = "ok" /\ call[c].pc = "open"
                     THEN [handle EXCEPT ![c] = [p |-> r.p, mode |-> e.mode, cached |-> TRUE, dirty |-> FALSE, open |-> TRUE]]
                     ELSE handle
        /\ \/ req' = [req EXCEPT ![c] = NoReq]
           \/ /\ "prefetch" \in Background /\ req["prefetch"] = NoReq
              /\ call[c].pc = "readdir" /\ r.state = "ok"
              /\ \E d \in e.dirs :
                    req' = [req EXCEPT ![c] = NoReq,
                                       !["prefetch"] = Tree(d)]
        /\ Ends(c)
        /\ UNCHANGED <<tree, asof, bounds, history>>

\* A renewal or a prefetch ends: what it brings is cached
Arrives(a) ==
    LET r == req[a]
    IN  /\ r.state \in {"ok", "refused", "failed"}
        /\ cache' = CASE r.state = "ok" -> Cached(r.seen)
                      [] r.state = "refused" /\ r.kind = "head" -> CachedError(r)
                      [] OTHER -> cache
        /\ req' = [req EXCEPT ![a] = NoReq]
        /\ UNCHANGED <<tree, asof, call, handle, bounds, history>>

-----------------------------------------------------------------------------
(* Calls that change something: the request, the invalidation, the fetch of the parent *)

Reads == {"stat", "readdir", "open"}

Begin(c, op, p, q, mode) ==
    /\ call[c] = NoCall /\ calls[c] < MaxCalls[c]
    /\ calls' = [calls EXCEPT ![c] = @ + 1]
    /\ \/ /\ op \in Reads
          /\ call' = [call EXCEPT ![c] = [NoCall EXCEPT !.op = op, !.p = p, !.pc = op]]
          /\ IF op = "open" THEN Send(c, Get(p)) ELSE UNCHANGED req
       \/ /\ op \notin Reads
          /\ call' = [call EXCEPT ![c] = [NoCall EXCEPT !.op = op, !.p = p, !.q = q, !.mode = mode, !.pc = "change"]]
          /\ Send(c, RequestOf(op, p, q, mode))
    /\ UNCHANGED <<tree, asof, cache, handle, faults, history>>

Resyncs(op) == op \notin {"chmod", "patch"}
Recursive(op) == op = "remove"

\* The paths that a change is about
About(k) == CASE k.op = "rename" -> {p \in Paths : Under(k.p, p) \/ Under(k.q, p)} \cup {Front(k.p), Front(k.q)}
              [] k.op \in {"chmod", "patch"} -> {k.p}
              [] OTHER -> {k.p, Front(k.p)}

Noted(of, ps, at) == [p \in Paths |-> IF p \in ps /\ of[p] < at THEN at ELSE of[p]]

\* A call has returned: from now on it must be seen
Returns(c, k) ==
    /\ call' = [call EXCEPT ![c] = NoCall]
    /\ own' = Noted(own, About(k), k.at)
    /\ handle' = IF k.op = "create"
                 THEN [handle EXCEPT ![c] = [p |-> k.p, mode |-> k.mode, cached |-> FALSE, dirty |-> FALSE, open |-> TRUE]]
                 ELSE handle
    /\ want' = IF k.op = "chmod" /\ want[k.p] = NoMode /\ k.at = asof /\ ~Closing(k.p) THEN [want EXCEPT ![k.p] = k.mode] ELSE want

ChangeArrives(c) ==
    LET k == call[c]
        name == IF k.op = "rename" THEN k.q ELSE k.p
        gone == Invalidated(name, Recursive(k.op))
    IN  /\ k.pc = "change" /\ req[c].state \in {"ok", "refused", "failed"}
        /\ IF req[c].state # "ok"
           THEN Ends(c) /\ req' = [req EXCEPT ![c] = NoReq] /\ UNCHANGED <<cache, handle, history>>
           ELSE /\ cache' = CASE k.op = "patch" -> InvalidatedAll(k.p) [] k.op = "rename" -> Missed(gone, k.q, TRUE) [] OTHER -> gone
                /\ inval' = Noted(inval, IF k.op = "rename" THEN {p \in Paths : Under(k.q, p)} ELSE {k.p}, k.at)
                /\ IF Resyncs(k.op)
                   THEN /\ call' = [call EXCEPT ![c].pc = "resync"]
                        /\ Send(c, Dir(Front(name)))
                        /\ UNCHANGED <<handle, own, want>>
                   ELSE Returns(c, k) /\ req' = [req EXCEPT ![c] = NoReq]
        /\ UNCHANGED <<tree, asof, bounds>>

\* The parent has come: a Rename goes on with its old name; a resync that fails fails the call
ResyncArrives(c) ==
    LET k == call[c]
        fresh == Cached(req[c].seen)
    IN  /\ k.pc \in {"resync", "resync old"} /\ req[c].state \in {"ok", "refused", "failed"}
        /\ IF req[c].state # "ok"
           THEN Ends(c) /\ req' = [req EXCEPT ![c] = NoReq] /\ UNCHANGED <<cache, handle, history>>
           ELSE IF k.op = "rename" /\ k.pc = "resync"
           THEN /\ cache' = fresh /\ req' = [req EXCEPT ![c] = NoReq]
                /\ call' = [call EXCEPT ![c].pc = "old name"]
                /\ inval' = Noted(inval, {req[c].p}, k.at)
                /\ UNCHANGED <<handle, own, want>>
           ELSE /\ cache' = fresh /\ req' = [req EXCEPT ![c] = NoReq] /\ Returns(c, k)
                /\ inval' = Noted(inval, {req[c].p}, k.at)
        /\ UNCHANGED <<tree, asof, bounds>>

OldName(c) ==
    LET k == call[c]
    IN  /\ k.pc = "old name"
        /\ cache' = Missed(Invalidated(k.p, TRUE), k.p, FALSE)
        /\ inval' = Noted(inval, {p \in Paths : Under(k.p, p)}, k.at)
        /\ call' = [call EXCEPT ![c].pc = "resync old"]
        /\ Send(c, Dir(Front(k.p)))
        /\ UNCHANGED <<tree, asof, handle, bounds, own, want>>

-----------------------------------------------------------------------------
(* Open files: all of a file is put when it is closed *)

Write(c) ==
    /\ handle[c].open /\ ~handle[c].dirty
    /\ handle' = [handle EXCEPT ![c].dirty = TRUE]
    /\ UNCHANGED <<tree, asof, cache, call, req, bounds, history>>

\* Close looks at the file's present mode: by the Cacher, or by the FS for a file of Create
Close(c) ==
    LET h == handle[c]
        k == [NoCall EXCEPT !.op = "close", !.p = h.p]
    IN  /\ h.dirty /\ call[c] = NoCall /\ calls[c] < MaxCalls[c]
        /\ calls' = [calls EXCEPT ![c] = @ + 1]
        /\ handle' = [handle EXCEPT ![c].open = FALSE]
        /\ IF h.cached THEN call' = [call EXCEPT ![c] = [k EXCEPT !.pc = "stat"]] /\ UNCHANGED req
           ELSE call' = [call EXCEPT ![c] = [k EXCEPT !.pc = "fs stat"]] /\ Send(c, Meta(h.p))
        /\ UNCHANGED <<tree, asof, cache, faults, history>>

FSStatArrives(c) ==
    /\ call[c].pc = "fs stat" /\ req[c].state \in {"ok", "refused", "failed"}
    /\ IF req[c].state = "ok" THEN Takes(c, (CHOOSE x \in req[c].seen : TRUE)[2]) ELSE StatFails(c)
    /\ req' = [req EXCEPT ![c] = NoReq]
    /\ UNCHANGED <<tree, asof, cache, handle, bounds, inval, own>>

Put(c) ==
    /\ call[c].pc = "put" /\ req[c] = NoReq
    /\ Send(c, PutFile(call[c].p, call[c].mode))
    /\ UNCHANGED <<tree, asof, cache, call, handle, bounds, history>>

\* What was put is not invalidated
PutArrives(c) ==
    /\ call[c].pc = "put" /\ req[c].state \in {"ok", "refused", "failed"}
    /\ req' = [req EXCEPT ![c] = NoReq]
    /\ Ends(c)
    /\ UNCHANGED <<tree, asof, cache, handle, bounds, history>>

-----------------------------------------------------------------------------
Init ==
    /\ tree = Stored /\ asof = 0
    /\ cache = [p \in Paths |-> NotCached]
    /\ call = [a \in Agents |-> NoCall]
    /\ req = [a \in Agents |-> NoReq]
    /\ handle = [c \in Clients |-> NoHandle]
    /\ calls = [c \in Clients |-> 0] /\ faults = 0
    /\ inval = [p \in Paths |-> 0] /\ own = [p \in Paths |-> 0]
    /\ want = [p \in Paths |-> NoMode]

Calls(c) ==
    /\ call[c] = NoCall /\ calls[c] < MaxCalls[c]
    /\ \E op \in Ops[c], p \in Paths, q \in Paths, mode \in Modes :
        /\ op # "rename" => q = Root
        /\ op \notin {"stat", "readdir"} => p # Root
        /\ Begin(c, op, p, q, mode)

Next ==
    \/ \E c \in Clients :
        \/ Calls(c) \/ StatHit(c) \/ StatMiss(c) \/ StatPanics(c) \/ StatArrives(c) \/ ReadDir(c) \/ Opens(c)
        \/ ChangeArrives(c) \/ ResyncArrives(c) \/ OldName(c)
        \/ Write(c) \/ Close(c) \/ FSStatArrives(c) \/ Put(c) \/ PutArrives(c)
    \/ \E a \in Agents : Serve(a) \/ Fail(a)
    \/ \E a \in Background : Arrives(a)

Spec == Init /\ [][Next]_vars

-----------------------------------------------------------------------------
(* Properties *)

(***************************************************************************)
(* A call that has returned is seen: nothing is cached of a path that the  *)
(* call changed, or of its directory, that is older than the change, and   *)
(* no request on its way will bring such an entry unmarked.                *)
(***************************************************************************)
SeesOwnChanges == \A p \in Paths : cache[p] # NotCached /\ ~cache[p].late => cache[p].asof >= own[p]

(***************************************************************************)
(* The mode that a Chmod gave a file stays: a file that was opened before  *)
(* and is closed after does not put its own mode back, unless the close    *)
(* had begun, or found a late entry.                                       *)
(***************************************************************************)
KeepsMode == \A p \in Paths : want[p] # NoMode => tree[p].mode = want[p]
=============================================================================
