---------------------------- MODULE HttpfsProofs ----------------------------
(***************************************************************************)
(* Theorems about the cached client of httpfs, for any tree, any number of *)
(* goroutines and calls, and any order in which requests are served and    *)
(* arrive: what a call changed is not answered from before it, and a close *)
(* keeps the mode that was set since the open.                             *)
(***************************************************************************)
EXTENDS Httpfs, TLAPS

-----------------------------------------------------------------------------
(* Types.                                                                  *)

ModesOf == Modes \cup {0, 1, NoMode}
Nodes == [kind : {"none", "dir", "file", "link"}, mode : ModesOf]
CacheEntries ==
  [kind : {"no", "none", "dir", "file", "link"}, mode : ModesOf, kids : SUBSET Paths, dirs : SUBSET Paths,
   asof : Nat, late : BOOLEAN]
Requests ==
  [kind : {"no", "get", "head", "tree", "dir"} \cup Changes, p : Paths, q : Paths, mode : ModesOf,
   state : {"no", "sent", "ok", "refused", "failed"}, seen : SUBSET (Paths \X CacheEntries), at : Nat]
CallRecords ==
  [op : {"no", "close", "stat", "readdir", "open", "create", "write", "mkdir", "symlink", "remove", "rename",
         "chmod", "patch"},
   p : Paths, q : Paths, mode : ModesOf,
   pc : {"idle", "stat", "readdir", "open", "change", "resync", "old name", "resync old", "put", "fs stat", "panic"},
   at : Nat]
Handles == [p : Paths, mode : ModesOf, cached : BOOLEAN, dirty : BOOLEAN, open : BOOLEAN]

TypeOK ==
  /\ tree \in [Paths -> Nodes] /\ asof \in Nat
  /\ cache \in [Paths -> CacheEntries]
  /\ call \in [Agents -> CallRecords] /\ req \in [Agents -> Requests]
  /\ handle \in [Clients -> Handles]
  /\ inval \in [Paths -> Nat] /\ own \in [Paths -> Nat] /\ want \in [Paths -> ModesOf]

-----------------------------------------------------------------------------
\* What an answer brings is what was so when it was served
SeenOK(r) ==
  /\ r.at <= asof
  /\ r.state # "no" => r.kind # "no"
  /\ r.state # "ok" => r.seen = {}
  /\ \A x \in r.seen : x[2].asof = r.at /\ (r.at = asof => x[2].mode = tree[x[1]].mode)
  /\ r.kind \in {"head", "get"} => \A x \in r.seen : x[1] = r.p
  /\ r.state = "ok" /\ r.kind \notin Changes => r.seen # {}
  /\ r.state = "ok" /\ r.kind = "dir" => \E x \in r.seen : x[1] = r.p

\* The request of a call, by where the call is
Asks(k, r) ==
  /\ k.pc \in {"idle", "old name", "panic"} => r.state = "no"
  /\ k.pc = "stat" => r.state = "no" \/ (r.kind \in {"head", "dir"} /\ r.p = k.p)
  /\ k.pc = "fs stat" => r.kind = "head" /\ r.p = k.p
  /\ k.pc \in {"readdir", "open"} => r.state = "no" \/ r.kind = "get"
  /\ k.pc = "put" => r.state = "no" \/ (r.kind = "put" /\ r.p = k.p /\ r.mode = k.mode)
  /\ k.pc = "change" =>
       /\ k.p # Root
       /\ k.op = "rename" => r.kind = "move" /\ r.q = k.q /\ (r.state = "ok" => k.q # Root)
       /\ k.op = "chmod" => r.kind = "chmod" /\ r.p = k.p /\ r.mode = k.mode
  /\ k.pc = "resync" => r.kind = "dir" /\ k.p # Root /\ r.p = Front(IF k.op = "rename" THEN k.q ELSE k.p)
  /\ k.pc \in {"old name", "resync old"} => k.op = "rename" /\ k.p # Root
  /\ k.pc = "resync old" => r.kind = "dir" /\ r.p = Front(k.p)
  /\ k.op = "close" => k.pc \in {"stat", "fs stat", "put", "panic"}
  /\ k.pc = "put" => k.op = "close"
  /\ k.pc \in {"resync", "resync old"} => k.op \notin {"chmod", "patch"}
  /\ k.pc \in {"resync", "old name", "resync old"} /\ k.op = "rename" => k.q # Root

\* How far a call has come with its invalidation
Drops(k, r) ==
  /\ k.at <= asof
  /\ k.pc = "resync" /\ k.op # "rename" => inval[k.p] >= k.at
  /\ k.pc \in {"resync", "old name", "resync old"} /\ k.op = "rename" => \A x \in Paths : Under(k.q, x) => inval[x] >= k.at
  /\ k.pc \in {"old name", "resync old"} => inval[Front(k.q)] >= k.at
  /\ k.pc = "resync old" => \A x \in Paths : Under(k.p, x) => inval[x] >= k.at
  /\ k.pc \in {"resync", "resync old"} /\ r.state = "ok" => r.at >= k.at

CallsOK == \A c \in Clients : Asks(call[c], req[c]) /\ Drops(call[c], req[c])

Answers == \A a \in Agents : SeenOK(req[a])

Known == \A p \in Paths : own[p] <= inval[p] /\ (cache[p] # NotCached /\ ~cache[p].late => cache[p].asof >= inval[p])

\* Of a path whose mode is to be kept: what is cached, on its way, or put back
CachedMode ==
  \A p \in Paths : want[p] # NoMode /\ cache[p] # NotCached /\ cache[p].kind # "none" /\ ~cache[p].late =>
                     cache[p].mode = want[p]
SeenMode ==
  \A a \in Agents : \A x \in req[a].seen :
    want[x[1]] # NoMode /\ x[2].asof >= inval[x[1]] => x[2].mode = want[x[1]]
ClosingMode ==
  \A c \in Clients : call[c].op = "close" /\ call[c].pc \in {"stat", "fs stat"} =>
    \A x \in req[c].seen : x[1] = call[c].p /\ want[x[1]] # NoMode => x[2].mode = want[x[1]]
PutMode ==
  \A c \in Clients : call[c].pc = "put" /\ want[call[c].p] # NoMode => call[c].mode = want[call[c].p]

\* A Chmod that was served last is what the mode is
ChmodMode ==
  \A c \in Clients :
    call[c].op = "chmod" /\ call[c].pc = "change" /\ req[c].state = "ok" /\ call[c].at = asof /\ call[c].mode # NoMode =>
      tree[call[c].p].mode = call[c].mode

ModesKept == KeepsMode /\ CachedMode /\ SeenMode /\ ClosingMode /\ PutMode /\ ChmodMode

IInv == TypeOK /\ CallsOK /\ Answers /\ Known /\ ModesKept

-----------------------------------------------------------------------------
(* Paths, requests and entries.                                            *)

LEMMA PathFacts ==
  /\ Root \in Paths
  /\ \A p \in Paths : p # Root => Front(p) \in Paths
  /\ \A p \in Paths : Under(p, p)
<1>1. ASSUME NEW p \in Paths PROVE Under(p, p)
  <2>1. p \in Seq(Names)
    BY PathsAssumption
  <2>2. Len(p) <= Len(p)
    BY <2>1
  <2>3. QED
    BY <2>2 DEF Under, IsPrefix
<1>2. QED
  BY <1>1, PathsAssumption

LEMMA Constants ==
  /\ NoReq \in Requests /\ NoCall \in CallRecords /\ NotCached \in CacheEntries /\ NoHandle \in Handles
  /\ NoReq.state = "no" /\ NoReq.seen = {} /\ NoReq.at = 0 /\ NoReq.kind = "no"
  /\ NoCall.pc = "idle" /\ NoCall.op = "no" /\ NoCall.at = 0
<1>1. Root \in Paths /\ 0 \in ModesOf
  BY PathFacts DEF ModesOf
<1>2. QED
  BY <1>1 DEF NoReq, NoCall, NotCached, NoHandle, Requests, CallRecords, CacheEntries, Handles, Changes

\* A request that is about to be served
Fresh(r) == r.seen = {} /\ r.at = 0 /\ r.state \in {"no", "sent"} /\ (r.state = "sent" => r.kind # "no")

LEMMA RequestIs ==
  ASSUME NEW kind \in {"get", "head", "tree", "dir"} \cup Changes, NEW p \in Paths
  PROVE  LET r == Request(kind, p)
         IN  /\ r \in Requests /\ Fresh(r)
             /\ r.kind = kind /\ r.p = p /\ r.state = "sent"
<1>1. NoReq \in Requests /\ NoReq.seen = {} /\ NoReq.at = 0
  BY Constants
<1>2. Request(kind, p) = [NoReq EXCEPT !.kind = kind, !.p = p, !.state = "sent"]
  BY DEF Request
<1>3. QED
  BY <1>1, <1>2 DEF Requests, Fresh, Changes

\* A request with a mode, or with another name
LEMMA RequestWithMode ==
  ASSUME NEW kind \in Changes, NEW p \in Paths, NEW mode \in ModesOf
  PROVE  LET a == [Request(kind, p) EXCEPT !.mode = mode]
         IN  a \in Requests /\ Fresh(a) /\ a.kind = kind /\ a.p = p /\ a.state = "sent" /\ a.mode = mode
<1> DEFINE r == Request(kind, p)
<1>1. r \in Requests /\ Fresh(r) /\ r.kind = kind /\ r.p = p /\ r.state = "sent"
  BY RequestIs
<1> HIDE DEF r
<1>2. [r EXCEPT !.mode = mode] \in Requests
  BY <1>1 DEF Requests
<1>3. LET a == [r EXCEPT !.mode = mode]
      IN  a \in Requests /\ Fresh(a) /\ a.kind = kind /\ a.p = p /\ a.state = "sent" /\ a.mode = mode
  BY <1>1, <1>2 DEF Requests, Fresh, Changes
<1>4. QED
  BY <1>3 DEF r

LEMMA RequestWithName ==
  ASSUME NEW kind \in Changes, NEW p \in Paths, NEW q \in Paths
  PROVE  LET a == [Request(kind, p) EXCEPT !.q = q]
         IN  a \in Requests /\ Fresh(a) /\ a.kind = kind /\ a.p = p /\ a.state = "sent" /\ a.q = q
<1> DEFINE r == Request(kind, p)
<1>1. r \in Requests /\ Fresh(r) /\ r.kind = kind /\ r.p = p /\ r.state = "sent"
  BY RequestIs
<1> HIDE DEF r
<1>2. [r EXCEPT !.q = q] \in Requests
  BY <1>1 DEF Requests
<1>3. LET a == [r EXCEPT !.q = q]
      IN  a \in Requests /\ Fresh(a) /\ a.kind = kind /\ a.p = p /\ a.state = "sent" /\ a.q = q
  BY <1>1, <1>2 DEF Requests, Fresh, Changes
<1>4. QED
  BY <1>3 DEF r

LEMMA ReadsAsk ==
  ASSUME NEW p \in Paths
  PROVE  /\ {Get(p), Meta(p), Tree(p), Dir(p)} \subseteq Requests
         /\ Fresh(Get(p)) /\ Fresh(Meta(p)) /\ Fresh(Tree(p)) /\ Fresh(Dir(p))
         /\ Get(p).kind = "get" /\ Get(p).p = p /\ Get(p).state = "sent"
         /\ Meta(p).kind = "head" /\ Meta(p).p = p /\ Meta(p).state = "sent"
         /\ Tree(p).kind = "tree" /\ Tree(p).state = "sent"
         /\ Dir(p).kind = "dir" /\ Dir(p).p = p /\ Dir(p).state = "sent"
BY RequestIs DEF Get, Meta, Tree, Dir, Fresh

LEMMA PutAsks ==
  ASSUME NEW p \in Paths, NEW mode \in ModesOf
  PROVE  LET r == PutFile(p, mode)
         IN  r \in Requests /\ Fresh(r) /\ r.state = "sent" /\ r.kind = "put" /\ r.p = p /\ r.mode = mode
<1>1. "put" \in Changes /\ Root \in Paths
  BY PathFacts DEF Changes
<1>2. PutFile(p, mode) = [Request("put", p) EXCEPT !.mode = mode]
  BY DEF PutFile
<1>3. QED
  BY <1>1, <1>2, RequestWithMode

ChangeOps == {"create", "write", "mkdir", "symlink", "remove", "rename", "chmod", "patch"}

LEMMA ChangesAsk ==
  ASSUME NEW op \in ChangeOps, NEW p \in Paths, NEW q \in Paths, NEW mode \in ModesOf
  PROVE  LET r == RequestOf(op, p, q, mode)
         IN  /\ r \in Requests /\ Fresh(r) /\ r.state = "sent" /\ r.kind \in Changes /\ r.p = p
             /\ op = "rename" => r.kind = "move" /\ r.q = q
             /\ op = "chmod" => r.kind = "chmod" /\ r.mode = mode
<1>1. Root \in Paths /\ {0, 1, NoMode} \subseteq ModesOf
  BY PathFacts DEF ModesOf
<1>2. {"put", "mkdir", "symlink", "delete", "move", "chmod", "patch"} \subseteq Changes
  BY DEF Changes
<1>3. CASE op \in {"write", "create"}
  <2>1. RequestOf(op, p, q, mode) = [Request("put", p) EXCEPT !.mode = mode]
    BY <1>3 DEF RequestOf, PutFile
  <2>2. "put" \in Changes
    BY <1>2
  <2>3. LET a == [Request("put", p) EXCEPT !.mode = mode]
        IN  a \in Requests /\ Fresh(a) /\ a.kind = "put" /\ a.p = p /\ a.state = "sent" /\ a.mode = mode
    BY <1>1, <2>2, RequestWithMode
  <2>4. QED
    BY <1>3, <2>1, <2>2, <2>3
<1>4. CASE op = "mkdir"
  <2>1. RequestOf(op, p, q, mode) = [Request("mkdir", p) EXCEPT !.mode = mode]
    BY <1>4 DEF RequestOf, PutDir
  <2>2. "mkdir" \in Changes
    BY <1>2
  <2>3. LET a == [Request("mkdir", p) EXCEPT !.mode = mode]
        IN  a \in Requests /\ Fresh(a) /\ a.kind = "mkdir" /\ a.p = p /\ a.state = "sent" /\ a.mode = mode
    BY <1>1, <2>2, RequestWithMode
  <2>4. QED
    BY <1>4, <2>1, <2>2, <2>3
<1>5. CASE op = "symlink"
  <2>1. RequestOf(op, p, q, mode) = [Request("symlink", p) EXCEPT !.mode = 1]
    BY <1>5 DEF RequestOf, PutLink
  <2>2. "symlink" \in Changes
    BY <1>2
  <2>3. LET a == [Request("symlink", p) EXCEPT !.mode = 1]
        IN  a \in Requests /\ Fresh(a) /\ a.kind = "symlink" /\ a.p = p /\ a.state = "sent" /\ a.mode = 1
    BY <1>1, <2>2, RequestWithMode
  <2>4. QED
    BY <1>5, <2>1, <2>2, <2>3
<1>6. CASE op = "remove"
  <2>1. RequestOf(op, p, q, mode) = Request("delete", p)
    BY <1>6 DEF RequestOf, Delete
  <2>2. QED
    BY <1>1, <1>2, <1>6, <2>1, RequestIs
<1>7. CASE op = "rename"
  <2>1. RequestOf(op, p, q, mode) = [Request("move", p) EXCEPT !.q = q]
    BY <1>7 DEF RequestOf, Move
  <2>2. "move" \in Changes
    BY <1>2
  <2>3. LET a == [Request("move", p) EXCEPT !.q = q]
        IN  a \in Requests /\ Fresh(a) /\ a.kind = "move" /\ a.p = p /\ a.state = "sent" /\ a.q = q
    BY <1>1, <2>2, RequestWithName
  <2>4. QED
    BY <1>7, <2>1, <2>2, <2>3
<1>8. CASE op = "chmod"
  <2>1. RequestOf(op, p, q, mode) = [Request("chmod", p) EXCEPT !.mode = mode]
    BY <1>8 DEF RequestOf, PatchMode
  <2>2. "chmod" \in Changes
    BY <1>2
  <2>3. LET a == [Request("chmod", p) EXCEPT !.mode = mode]
        IN  a \in Requests /\ Fresh(a) /\ a.kind = "chmod" /\ a.p = p /\ a.state = "sent" /\ a.mode = mode
    BY <1>1, <2>2, RequestWithMode
  <2>4. QED
    BY <1>8, <2>1, <2>2, <2>3
<1>9. CASE op = "patch"
  <2>1. RequestOf(op, p, q, mode) = [Request("patch", p) EXCEPT !.mode = NoMode]
    BY <1>9 DEF RequestOf, PatchTar
  <2>2. "patch" \in Changes
    BY <1>2
  <2>3. LET a == [Request("patch", p) EXCEPT !.mode = NoMode]
        IN  a \in Requests /\ Fresh(a) /\ a.kind = "patch" /\ a.p = p /\ a.state = "sent" /\ a.mode = NoMode
    BY <1>1, <2>2, RequestWithMode
  <2>4. QED
    BY <1>9, <2>1, <2>2, <2>3
<1>10. QED
  BY <1>3, <1>4, <1>5, <1>6, <1>7, <1>8, <1>9 DEF ChangeOps

\* What a response puts into the cache.
LEMMA Dated ==
  ASSUME NEW e \in CacheEntries, NEW n \in Nat
  PROVE  LET f == [e EXCEPT !.late = e.asof < n]
         IN  f \in CacheEntries /\ f.kind = e.kind /\ f.mode = e.mode /\ f.asof = e.asof /\ (f.late <=> e.asof < n)
<1>1. CASE e.asof < n
  <2>1. [e EXCEPT !.late = e.asof < n] = [e EXCEPT !.late = TRUE]
    BY <1>1
  <2>2. QED
    BY <1>1, <2>1 DEF CacheEntries
<1>2. CASE ~(e.asof < n)
  <2>1. (e.asof < n) = FALSE
    BY <1>2
  <2>2. [e EXCEPT !.late = e.asof < n] = [e EXCEPT !.late = FALSE]
    BY <2>1
  <2>3. QED
    BY <1>2, <2>2 DEF CacheEntries
<1>3. QED
  BY <1>1, <1>2

LEMMA CachedIs ==
  ASSUME cache \in [Paths -> CacheEntries], inval \in [Paths -> Nat],
         NEW seen \in SUBSET (Paths \X CacheEntries)
  PROVE  /\ Cached(seen) \in [Paths -> CacheEntries]
         /\ \A p \in Paths :
              \/ Cached(seen)[p] = cache[p] /\ \A x \in seen : x[1] # p
              \/ \E x \in seen : /\ x[1] = p
                                 /\ Cached(seen)[p].kind = x[2].kind /\ Cached(seen)[p].mode = x[2].mode
                                 /\ Cached(seen)[p].asof = x[2].asof
                                 /\ Cached(seen)[p].late <=> x[2].asof < inval[p]
<1>1. ASSUME NEW p \in Paths, NEW x \in seen, x[1] = p
      PROVE  LET e == (CHOOSE y \in seen : y[1] = p)[2] IN
             /\ e \in CacheEntries
             /\ \E y \in seen : y[1] = p /\ e = y[2]
  BY <1>1
<1>2. \A p \in Paths : inval[p] \in Nat
  OBVIOUS
<1>3. ASSUME NEW p \in Paths
      PROVE  /\ Cached(seen)[p] \in CacheEntries
             /\ \/ Cached(seen)[p] = cache[p] /\ \A x \in seen : x[1] # p
                \/ \E x \in seen : /\ x[1] = p
                                   /\ Cached(seen)[p].kind = x[2].kind /\ Cached(seen)[p].mode = x[2].mode
                                   /\ Cached(seen)[p].asof = x[2].asof
                                   /\ Cached(seen)[p].late <=> x[2].asof < inval[p]
  <2>1. CASE \A x \in seen : x[1] # p
    BY <2>1 DEF Cached
  <2>2. CASE \E x \in seen : x[1] = p
    <3> DEFINE e == (CHOOSE y \in seen : y[1] = p)[2]
    <3>1. e \in CacheEntries /\ \E y \in seen : y[1] = p /\ e = y[2]
      BY <1>1, <2>2
    <3>2. Cached(seen)[p] = [e EXCEPT !.late = e.asof < inval[p]]
      BY <2>2 DEF Cached
    <3> HIDE DEF e
    <3>3. QED
      BY <3>1, <3>2, <1>2, Dated
  <2>3. QED
    BY <2>1, <2>2
<1>4. Cached(seen) = [p \in Paths |-> Cached(seen)[p]]
  BY DEF Cached
<1>5. Cached(seen) \in [Paths -> CacheEntries]
  BY <1>3, <1>4
<1>6. QED
  BY <1>3, <1>5

\* That there is nothing is cached too.
LEMMA CachedErrorIs ==
  ASSUME cache \in [Paths -> CacheEntries], inval \in [Paths -> Nat], NEW r \in Requests
  PROVE  /\ CachedError(r) \in [Paths -> CacheEntries]
         /\ \A p \in Paths : p # r.p => CachedError(r)[p] = cache[p]
         /\ CachedError(r)[r.p].kind = "none" /\ CachedError(r)[r.p].asof = r.at
         /\ CachedError(r)[r.p].late <=> r.at < inval[r.p]
<1>1. r.p \in Paths /\ r.at \in Nat
  BY DEF Requests
<1>2. inval[r.p] \in Nat /\ NotCached \in CacheEntries
  BY <1>1, Constants
<1> DEFINE f == [NotCached EXCEPT !.kind = "none", !.asof = r.at]
<1> DEFINE e == [f EXCEPT !.late = f.asof < inval[r.p]]
<1>3. f \in CacheEntries /\ f.kind = "none" /\ f.asof = r.at
  BY <1>1, <1>2 DEF CacheEntries
<1>4. [NotCached EXCEPT !.kind = "none", !.asof = r.at, !.late = r.at < inval[r.p]] = e
  BY <1>1, <1>2 DEF CacheEntries
<1> HIDE DEF f
<1>5. e \in CacheEntries /\ e.kind = "none" /\ e.asof = r.at /\ (e.late <=> r.at < inval[r.p])
  BY <1>2, <1>3, Dated
<1>6. CachedError(r) = [cache EXCEPT ![r.p] = e]
  BY <1>4 DEF CachedError
<1> HIDE DEF e
<1>7. QED
  BY <1>1, <1>5, <1>6

-----------------------------------------------------------------------------
(* What the server answers and makes.                                      *)

LEMMA NodeIs ==
  ASSUME TypeOK, NEW p \in Paths, NEW listed
  PROVE  /\ NodeOf(p, listed) \in Paths \X CacheEntries
         /\ NodeOf(p, listed)[1] = p /\ NodeOf(p, listed)[2].asof = asof /\ NodeOf(p, listed)[2].mode = tree[p].mode
<1> DEFINE kids == IF listed /\ tree[p].kind = "dir" THEN Kids(tree, p) ELSE {}
<1> DEFINE dirs == {q \in kids : tree[q].kind = "dir"}
<1> DEFINE e == [kind |-> tree[p].kind, mode |-> tree[p].mode, kids |-> kids, dirs |-> dirs, asof |-> asof, late |-> FALSE]
<1>1. kids \in SUBSET Paths /\ dirs \in SUBSET Paths
  BY DEF Kids
<1>2. tree[p] \in Nodes /\ asof \in Nat
  BY DEF TypeOK
<1>3. NodeOf(p, listed) = <<p, e>>
  BY DEF NodeOf, Headers
<1> HIDE DEF kids, dirs
<1>4. e \in CacheEntries
  BY <1>1, <1>2 DEF CacheEntries, Nodes
<1>5. e.asof = asof /\ e.mode = tree[p].mode
  OBVIOUS
<1> HIDE DEF e
<1>6. QED
  BY <1>3, <1>4, <1>5

\* A node for p, with its listing or without
IsNode(x, p) == x \in Paths \X CacheEntries /\ x[1] = p /\ x[2].asof = asof /\ x[2].mode = tree[p].mode

LEMMA NodesAre ==
  ASSUME TypeOK, NEW p \in Paths
  PROVE  IsNode(NodeOf(p, TRUE), p) /\ IsNode(NodeOf(p, FALSE), p)
<1>1. IsNode(NodeOf(p, TRUE), p)
  BY NodeIs DEF IsNode
<1>2. IsNode(NodeOf(p, FALSE), p)
  BY NodeIs DEF IsNode
<1>3. QED
  BY <1>1, <1>2

LEMMA SeenIs ==
  ASSUME TypeOK, NEW r \in Requests, r.kind \in {"get", "head", "tree", "dir"}
  PROVE  /\ Seen(r) \in SUBSET (Paths \X CacheEntries)
         /\ \A x \in Seen(r) : x[2].asof = asof /\ x[2].mode = tree[x[1]].mode
         /\ r.kind \in {"head", "get"} => \A x \in Seen(r) : x[1] = r.p
         /\ r.kind = "dir" /\ Seen(r) # {} => \E x \in Seen(r) : x[1] = r.p
<1> DEFINE below == {x \in Paths : Under(r.p, x) /\ tree[x].kind = "dir"}
<1>1. r.p \in Paths
  BY DEF Requests
<1>2. Kids(tree, r.p) \subseteq Paths
  BY DEF Kids
<1>3. CASE r.kind = "head"
  <2>1. \A x \in Seen(r) : x = NodeOf(r.p, FALSE)
    BY <1>3 DEF Seen, HandleHead
  <2>2. \A x \in Seen(r) : IsNode(x, r.p)
    BY <1>1, <2>1, NodesAre
  <2>3. QED
    BY <1>3, <2>2 DEF IsNode
<1>4. CASE r.kind = "get"
  <2>1. \A x \in Seen(r) : x = NodeOf(r.p, TRUE)
    BY <1>4 DEF Seen, HandleGet
  <2>2. \A x \in Seen(r) : IsNode(x, r.p)
    BY <1>1, <2>1, NodesAre
  <2>3. QED
    BY <1>4, <2>2 DEF IsNode
<1>5. CASE r.kind = "dir"
  <2>1. \A x \in Seen(r) : \E q \in {r.p} \cup Kids(tree, r.p) : x = NodeOf(q, TRUE)
    BY <1>5 DEF Seen, HandleDirStream
  <2>2. \A x \in Seen(r) : \E q \in Paths : x = NodeOf(q, TRUE)
    BY <1>1, <1>2, <2>1
  <2>3. Seen(r) # {} => NodeOf(r.p, TRUE) \in Seen(r)
    BY <1>5 DEF Seen, HandleDirStream
  <2>4. \A x \in Seen(r) : x \in Paths \X CacheEntries /\ x[2].asof = asof /\ x[2].mode = tree[x[1]].mode
    <3>1. \A x \in Seen(r) : \E q \in Paths : IsNode(x, q)
      BY <2>2, NodesAre
    <3>2. QED
      BY <3>1 DEF IsNode
  <2>5. Seen(r) # {} => \E x \in Seen(r) : x[1] = r.p
    BY <1>1, <2>3, NodesAre DEF IsNode
  <2>6. QED
    BY <1>5, <2>4, <2>5
<1>6. CASE r.kind = "tree"
  <2>1. \A x \in Seen(r) : \E q \in below : x = NodeOf(q, TRUE)
    BY <1>6 DEF Seen, HandleRecursiveStream
  <2>2. \A x \in Seen(r) : \E q \in Paths : x = NodeOf(q, TRUE)
    BY <2>1
  <2>3. \A x \in Seen(r) : x \in Paths \X CacheEntries /\ x[2].asof = asof /\ x[2].mode = tree[x[1]].mode
    <3>1. \A x \in Seen(r) : \E q \in Paths : IsNode(x, q)
      BY <2>2, NodesAre
    <3>2. QED
      BY <3>1 DEF IsNode
  <2>4. QED
    BY <1>6, <2>3
<1>7. QED
  BY <1>3, <1>4, <1>5, <1>6

LEMMA PutTypes ==
  ASSUME TypeOK, NEW p \in Paths, NEW kind \in {"put", "mkdir", "symlink"}, NEW mode \in ModesOf
  PROVE  HandlePut(p, kind, mode) \in [Paths -> Nodes]
<1> DEFINE n == [kind |-> CASE kind = "mkdir" -> "dir" [] kind = "symlink" -> "link" [] OTHER -> "file", mode |-> mode]
<1>1. n \in Nodes
  BY DEF Nodes
<1>2. HandlePut(p, kind, mode) = [tree EXCEPT ![p] = n]
  BY DEF HandlePut
<1> HIDE DEF n
<1>3. QED
  BY <1>1, <1>2 DEF TypeOK

LEMMA MoveTypes ==
  ASSUME TypeOK, NEW p, NEW q
  PROVE  HandleMove(p, q) \in [Paths -> Nodes]
<1>1. None \in Nodes
  BY DEF None, Nodes, ModesOf
<1>2. \A x \in Paths : tree[x] \in Nodes
  BY DEF TypeOK
<1>3. \A x \in Paths : LET from == p \o SubSeq(x, Len(q) + 1, Len(x))
                       IN  (IF Under(q, x) THEN (IF from \in Paths THEN tree[from] ELSE None)
                            ELSE IF Under(p, x) THEN None ELSE tree[x]) \in Nodes
  BY <1>1, <1>2
<1>4. QED
  BY <1>3 DEF HandleMove

LEMMA MadeTypes ==
  ASSUME TypeOK, NEW r \in Requests, r.kind \in Changes
  PROVE  Made(r) \in [Paths -> Nodes]
<1>1. r.p \in Paths /\ r.mode \in ModesOf
  BY DEF Requests
<1>2. CASE r.kind \in {"put", "mkdir", "symlink"}
  <2>1. Made(r) = HandlePut(r.p, r.kind, r.mode)
    BY <1>2 DEF Made
  <2>2. QED
    BY <1>1, <1>2, <2>1, PutTypes
<1>3. CASE r.kind = "delete"
  <2>1. Made(r) = [tree EXCEPT ![r.p] = None]
    BY <1>3 DEF Made, HandleDelete
  <2>2. None \in Nodes
    BY DEF None, Nodes, ModesOf
  <2>3. QED
    BY <2>1, <2>2 DEF TypeOK
<1>4. CASE r.kind = "move"
  <2>1. Made(r) = HandleMove(r.p, r.q)
    BY <1>4 DEF Made
  <2>2. QED
    BY <2>1, MoveTypes
<1>5. CASE r.kind \in {"chmod", "patch"}
  <2>1. Made(r) = IF r.mode = NoMode THEN tree ELSE [tree EXCEPT ![r.p].mode = r.mode]
    BY <1>5 DEF Made, UpdateMetadata
  <2>2. [tree[r.p] EXCEPT !.mode = r.mode] \in Nodes
    BY <1>1 DEF TypeOK, Nodes
  <2>3. QED
    BY <1>1, <2>1, <2>2 DEF TypeOK
<1>6. QED
  BY <1>2, <1>3, <1>4, <1>5 DEF Changes

-----------------------------------------------------------------------------
(***************************************************************************)
(* Steps of an agent: nothing is served, and the agent goes on with its    *)
(* own call and request, or sends one in the background.                   *)
(***************************************************************************)
Others(c) == \A d \in Clients : d # c => call'[d] = call[d] /\ req'[d] = req[d]

NoneServed == tree' = tree /\ asof' = asof /\ \A a \in Agents : req'[a] = req[a] \/ Fresh(req'[a])

Later == \A p \in Paths : inval'[p] >= inval[p]

\* What becomes of the entry of p
Refreshed(p) ==
  \E a \in Agents : \E x \in req[a].seen : x[1] = p /\ cache'[p].mode = x[2].mode /\ x[2].asof >= inval[p]
EntryStep(p) ==
  \/ cache'[p] = cache[p]
  \/ cache'[p] = NotCached
  \/ cache'[p].late
  \/ cache'[p].asof >= inval[p] /\ (cache'[p].kind = "none" \/ Refreshed(p))

LEMMA LocalCalls ==
  ASSUME TypeOK, TypeOK', CallsOK, NEW c \in Agents, Others(c), asof' = asof, Later,
         c \in Clients => Asks(call[c], req[c])' /\ Drops(call[c], req[c])'
  PROVE  CallsOK'
<1>1. ASSUME NEW d \in Clients, d # c
      PROVE  Asks(call[d], req[d])'
  <2>1. call'[d] = call[d] /\ req'[d] = req[d]
    BY <1>1 DEF Others
  <2>2. Asks(call[d], req[d])
    BY DEF CallsOK
  <2>3. QED
    BY <2>1, <2>2, ZenonT(60) DEF Asks
<1>2. ASSUME NEW d \in Clients, d # c
      PROVE  Drops(call[d], req[d])'
  <2>1. call'[d] = call[d] /\ req'[d] = req[d]
    BY <1>2 DEF Others
  <2>2. Drops(call[d], req[d]) /\ Asks(call[d], req[d])
    BY DEF CallsOK
  <2>3. call[d] \in CallRecords
    BY DEF TypeOK, Agents
  <2> DEFINE k == call[d]
  <2>4. k.p \in Paths /\ k.q \in Paths /\ k.at \in Nat
    BY <2>3 DEF CallRecords
  <2>5. \A p \in Paths : inval[p] \in Nat /\ inval'[p] \in Nat /\ inval'[p] >= inval[p]
    BY DEF TypeOK, Later
  <2>6. k.pc \in {"old name", "resync old"} => Front(k.q) \in Paths
    BY <2>2, <2>4, PathFacts DEF Asks
  <2>7. \A p \in Paths : inval[p] >= k.at => inval'[p] >= k.at
    BY <2>4, <2>5
  <2> HIDE DEF k
  <2>8. Drops(k, req[d])'
    <3>1. k' = k /\ req'[d] = req[d] /\ Drops(k, req[d])
      BY <2>1, <2>2 DEF k
    <3>2. QED
      BY <3>1, <2>4, <2>6, <2>7 DEF Drops
  <2>9. QED
    BY <2>8 DEF k
<1>3. QED
  BY <1>1, <1>2 DEF CallsOK

LEMMA LocalAnswers ==
  ASSUME TypeOK, Answers, NoneServed
  PROVE  Answers'
<1>1. ASSUME NEW a \in Agents PROVE SeenOK(req[a])'
  <2>1. CASE req'[a] = req[a]
    <3>1. SeenOK(req[a])
      BY DEF Answers
    <3>2. QED
      BY <2>1, <3>1 DEF SeenOK, NoneServed
  <2>2. CASE Fresh(req'[a])
    <3>1. asof \in Nat /\ asof' = asof
      BY DEF TypeOK, NoneServed
    <3>2. QED
      BY <2>2, <3>1 DEF SeenOK, Fresh
  <2>3. QED
    BY <2>1, <2>2 DEF NoneServed
<1>2. QED
  BY <1>1 DEF Answers

LEMMA LocalKnown ==
  ASSUME TypeOK, Known, UNCHANGED <<inval, own>>, \A p \in Paths : EntryStep(p)
  PROVE  Known'
<1>1. ASSUME NEW p \in Paths
      PROVE  own'[p] <= inval'[p] /\ (cache'[p] # NotCached /\ ~cache'[p].late => cache'[p].asof >= inval'[p])
  <2>1. own[p] <= inval[p] /\ (cache[p] # NotCached /\ ~cache[p].late => cache[p].asof >= inval[p])
    BY DEF Known
  <2>2. cache'[p] = cache[p] \/ cache'[p] = NotCached \/ cache'[p].late \/ cache'[p].asof >= inval[p]
    BY DEF EntryStep
  <2>3. QED
    BY <2>1, <2>2
<1>2. QED
  BY <1>1 DEF Known

\* What a call in c may come to, as far as modes are concerned
ModeStep(c) ==
  /\ call'[c].op = "close" /\ call'[c].pc \in {"stat", "fs stat"} => req'[c].seen = {}
  /\ call'[c].pc = "put" =>
       \/ call[c].pc = "put" /\ call'[c].p = call[c].p /\ call'[c].mode = call[c].mode
       \/ want'[call'[c].p] = NoMode
       \/ call'[c].mode = want[call'[c].p]
  /\ call'[c].pc = "change" => req'[c].state # "ok"

LEMMA LocalModes ==
  ASSUME TypeOK, TypeOK', ModesKept, NoneServed, Later, NEW c \in Agents, Others(c),
         \A p \in Paths : EntryStep(p),
         \A p \in Paths : want'[p] = want[p] \/ want'[p] = NoMode,
         c \in Clients => ModeStep(c)
  PROVE  ModesKept'
<1>1. tree' = tree /\ asof' = asof
  BY DEF NoneServed
<1>2. KeepsMode'
  BY <1>1 DEF ModesKept, KeepsMode
<1>3. CachedMode'
  <2>1. ASSUME NEW p \in Paths, want'[p] # NoMode, cache'[p] # NotCached, cache'[p].kind # "none", ~cache'[p].late
        PROVE  cache'[p].mode = want'[p]
    <3>1. want'[p] = want[p]
      BY <2>1
    <3>2. CASE cache'[p] = cache[p]
      BY <2>1, <3>1, <3>2 DEF ModesKept, CachedMode
    <3>3. CASE Refreshed(p)
      BY <2>1, <3>1, <3>3 DEF ModesKept, SeenMode, Refreshed
    <3>4. QED
      BY <2>1, <3>2, <3>3 DEF EntryStep
  <2>2. QED
    BY <2>1 DEF CachedMode
<1>4. SeenMode'
  <2>1. ASSUME NEW a \in Agents, NEW x \in req'[a].seen, want'[x[1]] # NoMode, x[2].asof >= inval'[x[1]]
        PROVE  x[2].mode = want'[x[1]]
    <3>1. req'[a] = req[a]
      BY <2>1 DEF NoneServed, Fresh
    <3>2. x \in Paths \X CacheEntries
      BY <3>1 DEF TypeOK, Requests
    <3>3. x[1] \in Paths /\ x[2].asof \in Nat
      BY <3>2 DEF CacheEntries
    <3>4. inval[x[1]] \in Nat /\ inval'[x[1]] \in Nat /\ inval'[x[1]] >= inval[x[1]]
      BY <3>3 DEF TypeOK, Later
    <3>5. x[2].asof >= inval[x[1]] /\ want'[x[1]] = want[x[1]]
      BY <2>1, <3>3, <3>4
    <3>6. QED
      BY <2>1, <3>1, <3>5 DEF ModesKept, SeenMode
  <2>2. QED
    BY <2>1 DEF SeenMode
<1>5. ClosingMode'
  <2>1. ASSUME NEW d \in Clients, call'[d].op = "close", call'[d].pc \in {"stat", "fs stat"},
               NEW x \in req'[d].seen, x[1] = call'[d].p, want'[x[1]] # NoMode
        PROVE  x[2].mode = want'[x[1]]
    <3>1. d # c
      BY <2>1 DEF ModeStep
    <3>2. call'[d] = call[d] /\ req'[d] = req[d]
      BY <3>1 DEF Others
    <3>3. call[d].p \in Paths
      BY DEF TypeOK, Agents, CallRecords
    <3>4. want'[x[1]] = want[x[1]]
      BY <2>1, <3>2, <3>3
    <3>5. QED
      BY <2>1, <3>2, <3>4 DEF ModesKept, ClosingMode
  <2>2. QED
    BY <2>1 DEF ClosingMode
<1>6. PutMode'
  <2>1. ASSUME NEW d \in Clients, call'[d].pc = "put", want'[call'[d].p] # NoMode
        PROVE  call'[d].mode = want'[call'[d].p]
    <3>1. call'[d].p \in Paths
      BY DEF TypeOK, Agents, CallRecords
    <3>2. want'[call'[d].p] = want[call'[d].p]
      BY <2>1, <3>1
    <3>3. \/ call[d].pc = "put" /\ call'[d].p = call[d].p /\ call'[d].mode = call[d].mode
          \/ call'[d].mode = want[call'[d].p]
      BY <2>1 DEF Others, ModeStep
    <3>4. QED
      BY <2>1, <3>2, <3>3 DEF ModesKept, PutMode
  <2>2. QED
    BY <2>1 DEF PutMode
<1>7. ChmodMode'
  <2>1. ASSUME NEW d \in Clients, call'[d].op = "chmod", call'[d].pc = "change", req'[d].state = "ok",
               call'[d].at = asof', call'[d].mode # NoMode
        PROVE  tree'[call'[d].p].mode = call'[d].mode
    <3>1. d # c
      BY <2>1 DEF ModeStep
    <3>2. call'[d] = call[d] /\ req'[d] = req[d]
      BY <3>1 DEF Others
    <3>3. QED
      BY <1>1, <2>1, <3>2 DEF ModesKept, ChmodMode
  <2>2. QED
    BY <2>1 DEF ChmodMode
<1>8. QED
  BY <1>2, <1>3, <1>4, <1>5, <1>6, <1>7 DEF ModesKept

LEMMA Local ==
  ASSUME IInv, TypeOK', NEW c \in Agents, Others(c), NoneServed, UNCHANGED <<inval, own>>,
         \A p \in Paths : EntryStep(p),
         \A p \in Paths : want'[p] = want[p] \/ want'[p] = NoMode,
         c \in Clients => Asks(call[c], req[c])' /\ Drops(call[c], req[c])' /\ ModeStep(c)
  PROVE  IInv'
<1>1. Later
  BY DEF Later, IInv, TypeOK
<1>2. TypeOK /\ CallsOK /\ Answers /\ Known /\ ModesKept
  BY DEF IInv
<1>3. asof' = asof
  BY DEF NoneServed
<1>4. CallsOK'
  BY <1>1, <1>2, <1>3, LocalCalls
<1>5. Answers'
  BY <1>2, LocalAnswers
<1>6. Known'
  BY <1>2, LocalKnown
<1>7. ModesKept'
  BY <1>1, <1>2, LocalModes
<1>8. QED
  BY <1>4, <1>5, <1>6, <1>7 DEF IInv

\* A call's request is replaced by one that is not served, another's is not touched
LEMMA SendsOne ==
  ASSUME TypeOK, NEW a \in Agents, NEW r, Fresh(r), req' = [req EXCEPT ![a] = r], tree' = tree, asof' = asof
  PROVE  NoneServed /\ \A b \in Agents : b # a => req'[b] = req[b]
BY DEF NoneServed, TypeOK

-----------------------------------------------------------------------------
(* Calls begin.                                                            *)

LEMMA BeginsWell ==
  ASSUME IInv, NEW c \in Clients, Calls(c)
  PROVE  IInv'
<1>1. PICK op \in Ops[c], p \in Paths, q \in Paths, mode \in Modes :
        (op \notin {"stat", "readdir"} => p # Root) /\ Begin(c, op, p, q, mode)
  BY DEF Calls
<1>2. TypeOK /\ c \in Agents /\ mode \in ModesOf /\ 0 \in ModesOf /\ Root \in Paths
  BY PathFacts DEF IInv, Agents, ModesOf
<1>3. op \in Reads \/ op \in ChangeOps
  BY OpsAssumption DEF Reads, ChangeOps
<1>4. UNCHANGED <<tree, asof, cache, handle, inval, own, want>>
  BY <1>1 DEF Begin, history
<1>5. asof \in Nat
  BY <1>2 DEF TypeOK
<1>6. call[c] = NoCall /\ Asks(call[c], req[c])
  BY <1>1 DEF Begin, IInv, CallsOK
<1>7. req[c].state = "no"
  BY <1>6, Constants DEF Asks
<1>8. SeenOK(req[c]) /\ req[c] \in Requests
  BY <1>2 DEF IInv, Answers, TypeOK
<1>9. req[c].seen = {}
  BY <1>7, <1>8 DEF SeenOK
<1>10. \A x \in Paths : EntryStep(x) /\ want'[x] = want[x]
  BY <1>4 DEF EntryStep
<1>11. CASE op \in Reads
  <2>1. call' = [call EXCEPT ![c] = [NoCall EXCEPT !.op = op, !.p = p, !.pc = op]]
    BY <1>1, <1>11 DEF Begin
  <2>2. [NoCall EXCEPT !.op = op, !.p = p, !.pc = op] \in CallRecords
    BY <1>11, Constants DEF CallRecords, Reads
  <2>3. /\ call'[c].op = op /\ call'[c].p = p /\ call'[c].pc = op /\ call'[c].at = 0
        /\ \A d \in Clients : d # c => call'[d] = call[d]
        /\ call' \in [Agents -> CallRecords]
    BY <1>2, <2>1, <2>2, Constants DEF TypeOK, CallRecords, Agents
  <2>4. CASE op = "open"
    <3>1. req' = [req EXCEPT ![c] = Get(p)]
      BY <1>1, <1>11, <2>4 DEF Begin, Send, Reads
    <3>2. Get(p) \in Requests /\ Fresh(Get(p)) /\ Get(p).kind = "get"
      BY ReadsAsk
    <3>3. req' \in [Agents -> Requests] /\ req'[c] = Get(p)
      BY <1>2, <3>1, <3>2 DEF TypeOK
    <3>4. NoneServed /\ Others(c)
      BY <1>2, <1>4, <2>3, <3>1, <3>2, SendsOne DEF Others, Agents
    <3>5. TypeOK'
      BY <1>2, <1>4, <2>3, <3>3 DEF TypeOK
    <3>6. Asks(call[c], req[c])'
      BY <2>3, <2>4, <3>2, <3>3 DEF Asks
    <3>7. Drops(call[c], req[c])'
      BY <1>4, <1>5, <2>3, <2>4 DEF Drops
    <3>8. ModeStep(c)
      BY <2>3, <2>4 DEF ModeStep
    <3>9. QED
      BY <1>2, <1>4, <1>10, <3>4, <3>5, <3>6, <3>7, <3>8, Local
  <2>5. CASE op # "open"
    <3>1. req' = req
      BY <1>1, <1>11, <2>5 DEF Begin, Reads, ChangeOps
    <3>2. NoneServed /\ Others(c)
      BY <1>4, <2>3, <3>1 DEF NoneServed, Others
    <3>3. TypeOK'
      BY <1>2, <1>4, <2>3, <3>1 DEF TypeOK
    <3>4. op \in {"stat", "readdir"}
      BY <1>11, <2>5 DEF Reads
    <3>5. Asks(call[c], req[c])'
      BY <2>3, <3>4, <3>1, <1>7 DEF Asks
    <3>6. Drops(call[c], req[c])'
      <4>1. call'[c].pc # "resync" /\ call'[c].pc # "old name" /\ call'[c].pc # "resync old"
        BY <2>3, <3>4
      <4>2. call'[c].at <= asof'
        BY <1>4, <1>5, <2>3
      <4>3. QED
        BY <4>1, <4>2 DEF Drops
    <3>7. ModeStep(c)
      BY <2>3, <3>4 DEF ModeStep
    <3>8. QED
      BY <1>2, <1>4, <1>10, <3>2, <3>3, <3>5, <3>6, <3>7, Local
  <2>6. QED
    BY <2>4, <2>5
<1>12. CASE op \in ChangeOps
  <2>1. /\ call' = [call EXCEPT ![c] = [NoCall EXCEPT !.op = op, !.p = p, !.q = q, !.mode = mode, !.pc = "change"]]
        /\ req' = [req EXCEPT ![c] = RequestOf(op, p, q, mode)]
    BY <1>1, <1>12 DEF Begin, Send, Reads, ChangeOps
  <2>2. [NoCall EXCEPT !.op = op, !.p = p, !.q = q, !.mode = mode, !.pc = "change"] \in CallRecords
    BY <1>2, <1>12, Constants DEF CallRecords, ChangeOps
  <2>3. /\ call'[c].op = op /\ call'[c].p = p /\ call'[c].q = q /\ call'[c].mode = mode
        /\ call'[c].pc = "change" /\ call'[c].at = 0
        /\ \A d \in Clients : d # c => call'[d] = call[d]
        /\ call' \in [Agents -> CallRecords]
    BY <1>2, <2>1, <2>2, Constants DEF TypeOK, CallRecords, Agents
  <2> DEFINE r == RequestOf(op, p, q, mode)
  <2>4. /\ r \in Requests /\ Fresh(r) /\ r.state = "sent" /\ r.p = p
        /\ op = "rename" => r.kind = "move" /\ r.q = q
        /\ op = "chmod" => r.kind = "chmod" /\ r.mode = mode
    BY <1>2, <1>12, ChangesAsk
  <2>5. req' = [req EXCEPT ![c] = r]
    BY <2>1
  <2> HIDE DEF r
  <2>6. req' \in [Agents -> Requests] /\ req'[c] = r
    BY <1>2, <2>4, <2>5 DEF TypeOK
  <2>7. NoneServed /\ Others(c)
    BY <1>2, <1>4, <2>3, <2>4, <2>5, SendsOne DEF Others, Agents
  <2>8. TypeOK'
    BY <1>2, <1>4, <2>3, <2>6 DEF TypeOK
  <2>9. p # Root /\ op # "close"
    BY <1>1, <1>12 DEF ChangeOps
  <2>10. Asks(call[c], req[c])'
    BY <2>3, <2>4, <2>6, <2>9 DEF Asks
  <2>11. Drops(call[c], req[c])'
    BY <1>4, <1>5, <2>3 DEF Drops
  <2>12. ModeStep(c)
    BY <2>3, <2>4, <2>6 DEF ModeStep
  <2>13. QED
    BY <1>2, <1>4, <1>10, <2>7, <2>8, <2>10, <2>11, <2>12, Local
<1>13. QED
  BY <1>3, <1>11, <1>12

-----------------------------------------------------------------------------
(* Answers arrive.                                                         *)

LEMMA StoresWell ==
  ASSUME IInv, NEW a \in Agents, cache' = Cached(req[a].seen)
  PROVE  cache' \in [Paths -> CacheEntries] /\ \A p \in Paths : EntryStep(p)
<1>1. req[a].seen \in SUBSET (Paths \X CacheEntries) /\ inval \in [Paths -> Nat] /\ cache \in [Paths -> CacheEntries]
  BY DEF IInv, TypeOK, Requests
<1>2. cache' \in [Paths -> CacheEntries]
  BY <1>1, CachedIs
<1>3. ASSUME NEW p \in Paths PROVE EntryStep(p)
  <2>1. CASE cache'[p] = cache[p]
    BY <2>1 DEF EntryStep
  <2>2. CASE \E x \in req[a].seen : /\ x[1] = p
                                    /\ cache'[p].kind = x[2].kind /\ cache'[p].mode = x[2].mode
                                    /\ cache'[p].asof = x[2].asof
                                    /\ cache'[p].late <=> x[2].asof < inval[p]
    <3>1. PICK x \in req[a].seen : /\ x[1] = p
                                   /\ cache'[p].mode = x[2].mode
                                   /\ cache'[p].asof = x[2].asof
                                   /\ cache'[p].late <=> x[2].asof < inval[p]
      BY <2>2
    <3>2. x[2].asof \in Nat /\ inval[p] \in Nat
      BY <1>1 DEF CacheEntries
    <3>3. CASE x[2].asof < inval[p]
      BY <3>1, <3>3 DEF EntryStep
    <3>4. CASE x[2].asof >= inval[p]
      <4>1. Refreshed(p)
        BY <3>1, <3>4 DEF Refreshed
      <4>2. QED
        BY <3>1, <3>4, <4>1 DEF EntryStep
    <3>5. QED
      BY <3>2, <3>3, <3>4
  <2>3. QED
    BY <1>1, <2>1, <2>2, CachedIs
<1>4. QED
  BY <1>2, <1>3

LEMMA ErrorStored ==
  ASSUME IInv, NEW a \in Agents, cache' = CachedError(req[a])
  PROVE  cache' \in [Paths -> CacheEntries] /\ \A p \in Paths : EntryStep(p)
<1>1. req[a] \in Requests /\ inval \in [Paths -> Nat] /\ cache \in [Paths -> CacheEntries]
  BY DEF IInv, TypeOK
<1> DEFINE r == req[a]
<1>2. /\ cache' \in [Paths -> CacheEntries]
      /\ \A p \in Paths : p # r.p => cache'[p] = cache[p]
      /\ cache'[r.p].kind = "none" /\ cache'[r.p].asof = r.at
      /\ cache'[r.p].late <=> r.at < inval[r.p]
  BY <1>1, CachedErrorIs
<1>3. r.p \in Paths /\ r.at \in Nat /\ inval[r.p] \in Nat
  BY <1>1 DEF Requests
<1> HIDE DEF r
<1>4. EntryStep(r.p)
  BY <1>2, <1>3 DEF EntryStep
<1>5. \A p \in Paths : p # r.p => EntryStep(p)
  BY <1>2 DEF EntryStep
<1>6. QED
  BY <1>2, <1>4, <1>5

LEMMA NotNegative == \A n \in Nat : 0 <= n
OBVIOUS

\* A Stat has its answer: it ends, or a close has the mode that it puts back
LEMMA Answered ==
  ASSUME IInv, NEW c \in Clients, call[c].pc \in {"stat", "fs stat"}, NEW m \in ModesOf,
         call' = [call EXCEPT ![c] = IF call[c].op = "close" THEN [call[c] EXCEPT !.pc = "put", !.mode = m] ELSE NoCall],
         want' = want \/ want' = [want EXCEPT ![call[c].p] = NoMode],
         call[c].op = "close" => want'[call[c].p] = NoMode \/ m = want[call[c].p],
         asof' = asof, inval' = inval, req'[c].state = "no"
  PROVE  /\ call' \in [Agents -> CallRecords] /\ want' \in [Paths -> ModesOf]
         /\ \A d \in Clients : d # c => call'[d] = call[d]
         /\ \A p \in Paths : want'[p] = want[p] \/ want'[p] = NoMode
         /\ Asks(call[c], req[c])' /\ Drops(call[c], req[c])' /\ ModeStep(c)
<1>1. c \in Agents /\ call[c] \in CallRecords /\ call \in [Agents -> CallRecords] /\ want \in [Paths -> ModesOf] /\ asof \in Nat
  BY DEF IInv, TypeOK, Agents
<1>2. want' \in [Paths -> ModesOf] /\ \A p \in Paths : want'[p] = want[p] \/ want'[p] = NoMode
  BY <1>1 DEF ModesOf
<1>3. call[c].at <= asof
  BY DEF IInv, CallsOK, Drops
<1>7. asof' \in Nat
  BY <1>1
<1>8. 0 <= asof'
  BY <1>7, NotNegative, Zenon
<1>4. CASE call[c].op = "close"
  <2> DEFINE k == [call[c] EXCEPT !.pc = "put", !.mode = m]
  <2>1. call' = [call EXCEPT ![c] = k]
    BY <1>4
  <2>2. k \in CallRecords /\ k.pc = "put" /\ k.op = call[c].op /\ k.p = call[c].p /\ k.mode = m /\ k.at = call[c].at
    BY <1>1 DEF CallRecords
  <2> HIDE DEF k
  <2>3. /\ call'[c].pc = "put" /\ call'[c].op = "close" /\ call'[c].p = call[c].p /\ call'[c].mode = m
        /\ call'[c].at = call[c].at
    BY <1>1, <1>4, <2>1, <2>2
  <2>4. call' \in [Agents -> CallRecords] /\ \A d \in Clients : d # c => call'[d] = call[d]
    BY <1>1, <2>1, <2>2 DEF Agents
  <2>5. Asks(call[c], req[c])'
    BY <2>3 DEF Asks
  <2>6. Drops(call[c], req[c])'
    BY <1>3, <2>3 DEF Drops
  <2>7. ModeStep(c)
    BY <1>4, <2>3 DEF ModeStep
  <2>8. QED
    BY <1>2, <2>4, <2>5, <2>6, <2>7
<1>5. CASE call[c].op # "close"
  <2>1. call' = [call EXCEPT ![c] = NoCall]
    BY <1>5
  <2>2. /\ call' \in [Agents -> CallRecords] /\ \A d \in Clients : d # c => call'[d] = call[d]
        /\ call'[c].pc = "idle" /\ call'[c].op = "no" /\ call'[c].at = 0
    BY <1>1, <2>1, Constants DEF Agents
  <2>3. Asks(call[c], req[c])'
    BY <2>2 DEF Asks
  <2>4. Drops(call[c], req[c])'
    <3>1. call'[c].at <= asof'
      BY <1>8, <2>2, Zenon
    <3>2. QED
      BY <2>2, <3>1 DEF Drops
  <2>5. ModeStep(c)
    BY <2>2 DEF ModeStep
  <2>6. QED
    BY <1>2, <2>2, <2>3, <2>4, <2>5
<1>6. QED
  BY <1>4, <1>5

LEMMA TakesWell ==
  ASSUME IInv, NEW c \in Clients, call[c].pc \in {"stat", "fs stat"}, NEW e \in CacheEntries, Takes(c, e),
         call[c].op = "close" /\ ~e.late => want[call[c].p] = NoMode \/ e.mode = want[call[c].p],
         asof' = asof, inval' = inval, req'[c].state = "no"
  PROVE  /\ call' \in [Agents -> CallRecords] /\ want' \in [Paths -> ModesOf]
         /\ \A d \in Clients : d # c => call'[d] = call[d]
         /\ \A p \in Paths : want'[p] = want[p] \/ want'[p] = NoMode
         /\ Asks(call[c], req[c])' /\ Drops(call[c], req[c])' /\ ModeStep(c)
<1>1. e.mode \in ModesOf
  BY DEF CacheEntries
<1>2. call' = [call EXCEPT ![c] = IF call[c].op = "close" THEN [call[c] EXCEPT !.pc = "put", !.mode = e.mode] ELSE NoCall]
  BY DEF Takes
<1>3. call[c].p \in Paths /\ want \in [Paths -> ModesOf]
  BY DEF IInv, TypeOK, Agents, CallRecords
<1>4. want' = want \/ want' = [want EXCEPT ![call[c].p] = NoMode]
  BY DEF Takes
<1>5. call[c].op = "close" => want'[call[c].p] = NoMode \/ e.mode = want[call[c].p]
  BY <1>3 DEF Takes
<1>6. QED
  BY <1>1, <1>2, <1>4, <1>5, Answered

LEMMA StatFailsWell ==
  ASSUME IInv, NEW c \in Clients, call[c].pc \in {"stat", "fs stat"}, StatFails(c),
         asof' = asof, inval' = inval, req'[c].state = "no"
  PROVE  /\ call' \in [Agents -> CallRecords] /\ want' \in [Paths -> ModesOf]
         /\ \A d \in Clients : d # c => call'[d] = call[d]
         /\ \A p \in Paths : want'[p] = want[p] \/ want'[p] = NoMode
         /\ Asks(call[c], req[c])' /\ Drops(call[c], req[c])' /\ ModeStep(c)
<1>1. handle[c].mode \in ModesOf
  BY DEF IInv, TypeOK, Handles
<1>2. call' = [call EXCEPT ![c] = IF call[c].op = "close" THEN [call[c] EXCEPT !.pc = "put", !.mode = handle[c].mode] ELSE NoCall]
  BY DEF StatFails
<1>3. call[c].p \in Paths /\ want \in [Paths -> ModesOf]
  BY DEF IInv, TypeOK, Agents, CallRecords
<1>4. want' = want \/ want' = [want EXCEPT ![call[c].p] = NoMode]
  BY DEF StatFails
<1>5. call[c].op = "close" => want'[call[c].p] = NoMode
  BY <1>3 DEF StatFails
<1>6. QED
  BY <1>1, <1>2, <1>4, <1>5, Answered

\* An entry that is used: a renewal may be sent
LEMMA RenewsWell ==
  ASSUME IInv, NEW p \in Paths, Renews(p), tree' = tree, asof' = asof
  PROVE  /\ req' \in [Agents -> Requests] /\ NoneServed
         /\ \A d \in Clients : req'[d] = req[d]
<1>1. TypeOK
  BY DEF IInv
<1>2. CASE UNCHANGED req
  BY <1>1, <1>2 DEF TypeOK, NoneServed
<1>3. CASE ~UNCHANGED req
  <2>1. PICK r \in {Dir(p), Meta(p)} : "renew" \in Background /\ req' = [req EXCEPT !["renew"] = r]
    BY <1>3 DEF Renews, Send
  <2>2. "renew" \in Agents /\ \A d \in Clients : d # "renew" /\ d \in Agents
    BY <2>1, AgentsAssumption DEF Agents
  <2>3. r \in Requests /\ Fresh(r)
    BY ReadsAsk
  <2>4. NoneServed /\ \A b \in Agents : b # "renew" => req'[b] = req[b]
    BY <1>1, <2>1, <2>2, <2>3, SendsOne
  <2>5. req' \in [Agents -> Requests]
    BY <1>1, <2>1, <2>3 DEF TypeOK
  <2>6. QED
    BY <2>2, <2>4, <2>5
<1>4. QED
  BY <1>2, <1>3

-----------------------------------------------------------------------------
(* Stat.                                                                   *)

LEMMA Context ==
  ASSUME IInv, NEW c \in Clients
  PROVE  /\ TypeOK /\ c \in Agents /\ call[c] \in CallRecords /\ req[c] \in Requests
         /\ call[c].p \in Paths /\ call[c].q \in Paths /\ req[c].p \in Paths
         /\ Asks(call[c], req[c]) /\ Drops(call[c], req[c]) /\ SeenOK(req[c])
BY DEF IInv, TypeOK, Agents, CallRecords, Requests, CallsOK, Answers

LEMMA StatHitStep ==
  ASSUME IInv, NEW c \in Clients, StatHit(c)
  PROVE  IInv'
<1> DEFINE p == call[c].p
<1>1. TypeOK /\ c \in Agents /\ p \in Paths
  BY Context
<1>2. call[c].pc = "stat" /\ req[c] = NoReq /\ cache[p] # NotCached /\ UNCHANGED <<tree, asof, cache, handle, inval, own>>
  BY DEF StatHit
<1>3. \A x \in Paths : EntryStep(x)
  BY <1>2 DEF EntryStep
<1>4. req[c].state = "no"
  BY <1>2, Constants
<1>5. /\ req' \in [Agents -> Requests] /\ NoneServed /\ \A d \in Clients : req'[d] = req[d]
  <2>1. CASE cache[p].kind = "none"
    <3>1. req' = req
      BY <2>1 DEF StatHit
    <3>2. QED
      BY <1>1, <1>2, <3>1 DEF TypeOK, NoneServed
  <2>2. CASE cache[p].kind # "none"
    <3>1. Renews(p)
      BY <2>2 DEF StatHit
    <3>2. QED
      BY <1>1, <1>2, <3>1, RenewsWell
  <2>3. QED
    BY <2>1, <2>2
<1>6. req'[c].state = "no"
  BY <1>4, <1>5
<1>7. /\ call' \in [Agents -> CallRecords] /\ want' \in [Paths -> ModesOf]
      /\ \A d \in Clients : d # c => call'[d] = call[d]
      /\ \A x \in Paths : want'[x] = want[x] \/ want'[x] = NoMode
      /\ Asks(call[c], req[c])' /\ Drops(call[c], req[c])' /\ ModeStep(c)
  <2>1. CASE cache[p].kind = "none"
    <3>1. StatFails(c)
      BY <2>1 DEF StatHit
    <3>2. QED
      BY <1>2, <1>6, <3>1, StatFailsWell
  <2>2. CASE cache[p].kind # "none"
    <3>1. Takes(c, cache[p])
      BY <2>2 DEF StatHit
    <3>2. cache[p] \in CacheEntries
      BY <1>1 DEF TypeOK
    <3>3. ~cache[p].late => want[p] = NoMode \/ cache[p].mode = want[p]
      BY <1>1, <1>2, <2>2 DEF IInv, ModesKept, CachedMode
    <3>4. QED
      BY <1>2, <1>6, <3>1, <3>2, <3>3, TakesWell
  <2>3. QED
    BY <2>1, <2>2
<1>8. TypeOK'
  BY <1>1, <1>2, <1>5, <1>7 DEF TypeOK
<1>9. Others(c)
  BY <1>5, <1>7 DEF Others
<1>10. UNCHANGED <<inval, own>>
  BY <1>2
<1>11. QED
  BY <1>1, <1>3, <1>5, <1>7, <1>8, <1>9, <1>10, Local

\* The entries that have expired
LEMMA ExpiredWell ==
  ASSUME TypeOK, NEW ex, cache' = Expired(ex)
  PROVE  cache' \in [Paths -> CacheEntries] /\ \A p \in Paths : EntryStep(p)
<1>1. \A p \in Paths : cache'[p] \in {cache[p], NotCached}
  BY DEF Expired
<1>2. cache' \in [Paths -> CacheEntries]
  BY Constants DEF Expired, TypeOK
<1>3. QED
  BY <1>1, <1>2 DEF EntryStep

\* A call sends a request and stays where it is
LEMMA SendsOn ==
  ASSUME IInv, NEW c \in Clients, NEW r \in Requests, Fresh(r), req' = [req EXCEPT ![c] = r],
         UNCHANGED <<tree, asof, call, handle, inval, own, want>>,
         cache' \in [Paths -> CacheEntries], \A p \in Paths : EntryStep(p),
         call[c].pc \notin {"change", "resync", "old name", "resync old"}, Asks(call[c], r)
  PROVE  IInv'
<1>1. TypeOK /\ c \in Agents /\ call[c] \in CallRecords /\ Drops(call[c], req[c])
  BY Context
<1>2. req' \in [Agents -> Requests] /\ req'[c] = r
  BY <1>1 DEF TypeOK
<1>3. TypeOK'
  BY <1>1, <1>2 DEF TypeOK
<1>4. NoneServed /\ Others(c)
  BY <1>1, SendsOne DEF Others, Agents
<1>5. Asks(call[c], req[c])'
  BY <1>2 DEF Asks
<1>6. Drops(call[c], req[c])'
  BY <1>1 DEF Drops
<1>7. ModeStep(c)
  BY <1>2 DEF ModeStep, Fresh
<1>8. \A p \in Paths : want'[p] = want[p]
  OBVIOUS
<1>9. UNCHANGED <<inval, own>>
  OBVIOUS
<1>10. QED
  BY <1>1, <1>3, <1>4, <1>5, <1>6, <1>7, <1>8, <1>9, Local

LEMMA StatMissStep ==
  ASSUME IInv, NEW c \in Clients, StatMiss(c)
  PROVE  IInv'
<1>1. TypeOK /\ call[c].p \in Paths /\ Asks(call[c], req[c])
  BY Context
<1>2. call[c].pc = "stat" /\ UNCHANGED <<tree, asof, call, handle, inval, own, want>>
  BY DEF StatMiss, history
<1>3. PICK ex : cache' = Expired(ex)
  BY DEF StatMiss
<1>4. PICK r \in {Dir(call[c].p), Meta(call[c].p)} : req' = [req EXCEPT ![c] = r]
  BY DEF StatMiss, Send
<1>5. r \in Requests /\ Fresh(r) /\ r.kind \in {"head", "dir"} /\ r.p = call[c].p
  BY <1>1, ReadsAsk
<1>6. Asks(call[c], r)
  BY <1>1, <1>2, <1>5 DEF Asks
<1>7. cache' \in [Paths -> CacheEntries] /\ \A p \in Paths : EntryStep(p)
  BY <1>1, <1>3, ExpiredWell
<1>8. QED
  BY <1>2, <1>4, <1>5, <1>6, <1>7, SendsOn

\* A call goes on without a request
LEMMA Moves ==
  ASSUME IInv, NEW c \in Clients, NEW k \in CallRecords, call' = [call EXCEPT ![c] = k],
         NEW r \in Requests, Fresh(r), req' = [req EXCEPT ![c] = r],
         UNCHANGED <<tree, asof, inval, own, want>>,
         handle' \in [Clients -> Handles],
         cache' \in [Paths -> CacheEntries], \A p \in Paths : EntryStep(p),
         Asks(k, r), k.at <= asof, k.pc \in {"idle", "stat", "fs stat", "panic"}
  PROVE  IInv'
<1>1. TypeOK /\ c \in Agents
  BY Context
<1>2. req' \in [Agents -> Requests] /\ req'[c] = r /\ call' \in [Agents -> CallRecords] /\ call'[c] = k
  BY <1>1 DEF TypeOK
<1>3. TypeOK'
  BY <1>1, <1>2 DEF TypeOK
<1>4. NoneServed
  BY <1>1, SendsOne
<1>5. \A d \in Clients : d # c => req'[d] = req[d] /\ call'[d] = call[d]
  BY <1>1 DEF TypeOK, Agents
<1>6. Others(c)
  BY <1>5 DEF Others
<1>7. Asks(call[c], req[c])'
  BY <1>2 DEF Asks
<1>8. Drops(call[c], req[c])'
  BY <1>2 DEF Drops
<1>9. ModeStep(c)
  BY <1>2 DEF ModeStep, Fresh
<1>10. \A p \in Paths : want'[p] = want[p]
  OBVIOUS
<1>11. UNCHANGED <<inval, own>>
  OBVIOUS
<1>12. QED
  BY <1>1, <1>3, <1>4, <1>6, <1>7, <1>8, <1>9, <1>10, <1>11, Local

LEMMA SameEntries ==
  ASSUME TypeOK, cache' = cache
  PROVE  cache' \in [Paths -> CacheEntries] /\ \A p \in Paths : EntryStep(p)
BY DEF TypeOK, EntryStep

LEMMA StatPanicsStep ==
  ASSUME IInv, NEW c \in Clients, StatPanics(c)
  PROVE  IInv'
<1>1. TypeOK /\ call[c] \in CallRecords /\ Asks(call[c], req[c]) /\ Drops(call[c], req[c]) /\ c \in Agents
  BY Context
<1>2. /\ call[c].pc = "stat" /\ req[c] = NoReq /\ UNCHANGED <<tree, asof, cache, req, handle, inval, own, want>>
      /\ call' = [call EXCEPT ![c] = [call[c] EXCEPT !.pc = "panic"]]
  BY DEF StatPanics, history
<1> DEFINE k == [call[c] EXCEPT !.pc = "panic"]
<1>3. k \in CallRecords /\ k.pc = "panic" /\ k.at = call[c].at /\ k.op = call[c].op
  BY <1>1 DEF CallRecords
<1> HIDE DEF k
<1>4. Asks(k, NoReq)
  BY <1>1, <1>2, <1>3, Constants DEF Asks
<1>5. Fresh(NoReq) /\ NoReq \in Requests
  BY Constants DEF Fresh
<1>6. req' = [req EXCEPT ![c] = NoReq]
  BY <1>1, <1>2 DEF TypeOK
<1>7. cache' \in [Paths -> CacheEntries] /\ \A p \in Paths : EntryStep(p)
  BY <1>1, <1>2, SameEntries
<1>8. k.at <= asof
  BY <1>1, <1>3 DEF Drops
<1>9. handle' \in [Clients -> Handles]
  BY <1>1, <1>2 DEF TypeOK
<1>10. call' = [call EXCEPT ![c] = k]
  BY <1>2 DEF k
<1>11. UNCHANGED <<tree, asof, inval, own, want>>
  BY <1>2
<1>12. QED
  BY <1>3, <1>4, <1>5, <1>6, <1>7, <1>8, <1>9, <1>10, <1>11, Moves

LEMMA AtRest ==
  /\ NoCall \in CallRecords /\ NoReq \in Requests /\ Fresh(NoReq) /\ Asks(NoCall, NoReq)
  /\ NoCall.pc = "idle" /\ NoCall.at = 0
<1>1. Fresh(NoReq)
  BY Constants DEF Fresh
<1>2. Asks(NoCall, NoReq)
  BY Constants DEF Asks
<1>3. QED
  BY <1>1, <1>2, Constants

\* The response to a Stat: the call has its answer
LEMMA StatAnswered ==
  ASSUME IInv, NEW c \in Clients, call[c].pc \in {"stat", "fs stat"},
         req' = [req EXCEPT ![c] = NoReq], UNCHANGED <<tree, asof, handle, inval, own>>,
         cache' \in [Paths -> CacheEntries], \A p \in Paths : EntryStep(p),
         \/ StatFails(c)
         \/ \E e \in CacheEntries : /\ Takes(c, e)
                                    /\ call[c].op = "close" /\ ~e.late => want[call[c].p] = NoMode \/ e.mode = want[call[c].p]
  PROVE  IInv'
<1>1. TypeOK /\ c \in Agents
  BY Context
<1>2. req' \in [Agents -> Requests] /\ req'[c].state = "no" /\ \A d \in Clients : d # c => req'[d] = req[d]
  BY <1>1, Constants DEF TypeOK, Agents
<1>3. NoneServed
  BY <1>1, AtRest, SendsOne
<1>4. /\ call' \in [Agents -> CallRecords] /\ want' \in [Paths -> ModesOf]
      /\ \A d \in Clients : d # c => call'[d] = call[d]
      /\ \A x \in Paths : want'[x] = want[x] \/ want'[x] = NoMode
      /\ Asks(call[c], req[c])' /\ Drops(call[c], req[c])' /\ ModeStep(c)
  <2>1. asof' = asof /\ inval' = inval
    OBVIOUS
  <2>2. CASE StatFails(c)
    BY <1>2, <2>1, <2>2, StatFailsWell
  <2>3. CASE ~StatFails(c)
    <3>1. PICK e \in CacheEntries :
            /\ Takes(c, e)
            /\ call[c].op = "close" /\ ~e.late => want[call[c].p] = NoMode \/ e.mode = want[call[c].p]
      BY <2>3
    <3>2. QED
      BY <1>2, <2>1, <3>1, TakesWell
  <2>4. QED
    BY <2>2, <2>3
<1>5. TypeOK'
  BY <1>1, <1>2, <1>4 DEF TypeOK
<1>6. Others(c)
  BY <1>2, <1>4 DEF Others
<1>7. UNCHANGED <<inval, own>>
  OBVIOUS
<1>8. QED
  BY <1>1, <1>3, <1>4, <1>5, <1>6, <1>7, Local

LEMMA StatArrivesStep ==
  ASSUME IInv, NEW c \in Clients, StatArrives(c)
  PROVE  IInv'
<1> DEFINE r == req[c]
<1>1. TypeOK /\ c \in Agents /\ Asks(call[c], r) /\ SeenOK(r) /\ r \in Requests /\ call[c].p \in Paths
  BY Context
<1>2. call[c].pc = "stat" /\ r.state \in {"ok", "refused", "failed"} /\ UNCHANGED <<tree, asof, handle, inval, own>>
  BY DEF StatArrives
<1>3. r.kind \in {"head", "dir"} /\ r.p = call[c].p
  BY <1>1, <1>2 DEF Asks
<1> DEFINE again == r.kind = "head" /\ (CHOOSE x \in r.seen : TRUE)[2].kind = "dir"
<1>4. CASE r.state = "ok" /\ again
  <2>1. cache' = Cached(r.seen) /\ req' = [req EXCEPT ![c] = Dir(r.p)] /\ UNCHANGED <<call, want>>
    BY <1>4 DEF StatArrives, Send
  <2>2. cache' \in [Paths -> CacheEntries] /\ \A p \in Paths : EntryStep(p)
    BY <1>1, <2>1, StoresWell
  <2>3. Dir(r.p) \in Requests /\ Fresh(Dir(r.p)) /\ Dir(r.p).kind = "dir" /\ Dir(r.p).p = r.p
    BY <1>1, <1>3, ReadsAsk
  <2>4. Asks(call[c], Dir(r.p))
    BY <1>1, <1>2, <1>3, <2>3 DEF Asks
  <2>5. UNCHANGED <<tree, asof, call, handle, inval, own, want>>
    BY <1>2, <2>1
  <2> HIDE DEF r
  <2>6. QED
    BY <1>2, <2>1, <2>2, <2>3, <2>4, <2>5, SendsOn
<1>5. CASE r.state = "ok" /\ ~again
  <2>1. /\ cache' = Cached(r.seen) /\ req' = [req EXCEPT ![c] = NoReq]
        /\ Takes(c, (CHOOSE x \in r.seen : x[1] = r.p)[2])
    BY <1>5 DEF StatArrives
  <2>2. cache' \in [Paths -> CacheEntries] /\ \A p \in Paths : EntryStep(p)
    BY <1>1, <2>1, StoresWell
  <2>3. r.kind \notin Changes
    BY <1>3 DEF Changes
  <2>4. \E x \in r.seen : x[1] = r.p
    BY <1>1, <1>3, <1>5, <2>3 DEF SeenOK
  <2>5. PICK x \in r.seen : x[1] = r.p /\ (CHOOSE y \in r.seen : y[1] = r.p) = x
    BY <2>4
  <2>6. x[2] \in CacheEntries
    BY <1>1 DEF Requests
  <2>7. call[c].op = "close" => want[call[c].p] = NoMode \/ x[2].mode = want[call[c].p]
    BY <1>2, <1>3, <2>5 DEF IInv, ModesKept, ClosingMode
  <2>8. Takes(c, x[2])
    BY <2>1, <2>5
  <2> HIDE DEF r
  <2>9. QED
    BY <1>2, <2>1, <2>2, <2>6, <2>7, <2>8, StatAnswered
<1>6. CASE r.state # "ok"
  <2>1. /\ cache' = IF r.state = "refused" /\ r.kind = "head" THEN CachedError(r) ELSE cache
        /\ req' = [req EXCEPT ![c] = NoReq] /\ StatFails(c)
    BY <1>2, <1>6 DEF StatArrives
  <2>2. cache' \in [Paths -> CacheEntries] /\ \A p \in Paths : EntryStep(p)
    BY <1>1, <2>1, ErrorStored, SameEntries
  <2> HIDE DEF r
  <2>3. QED
    BY <1>2, <2>1, <2>2, StatAnswered
<1>7. QED
  BY <1>4, <1>5, <1>6

LEMMA FSStatArrivesStep ==
  ASSUME IInv, NEW c \in Clients, FSStatArrives(c)
  PROVE  IInv'
<1> DEFINE r == req[c]
<1>1. TypeOK /\ Asks(call[c], r) /\ SeenOK(r) /\ r \in Requests
  BY Context
<1>2. /\ call[c].pc = "fs stat" /\ r.state \in {"ok", "refused", "failed"}
      /\ req' = [req EXCEPT ![c] = NoReq] /\ UNCHANGED <<tree, asof, cache, handle, inval, own>>
  BY DEF FSStatArrives
<1>3. r.kind = "head" /\ r.p = call[c].p
  BY <1>1, <1>2 DEF Asks
<1>4. cache' \in [Paths -> CacheEntries] /\ \A p \in Paths : EntryStep(p)
  BY <1>1, <1>2, SameEntries
<1>5. UNCHANGED <<tree, asof, handle, inval, own>>
  BY <1>2
<1>6. CASE r.state = "ok"
  <2>1. Takes(c, (CHOOSE x \in r.seen : TRUE)[2])
    BY <1>6 DEF FSStatArrives
  <2>2. r.kind \notin Changes
    BY <1>3 DEF Changes
  <2>3. r.seen # {}
    BY <1>1, <1>6, <2>2 DEF SeenOK
  <2>4. PICK x \in r.seen : (CHOOSE y \in r.seen : TRUE) = x
    BY <2>3
  <2>5. x[2] \in CacheEntries /\ x[1] = call[c].p
    BY <1>1, <1>3 DEF Requests, SeenOK
  <2>6. call[c].op = "close" => want[call[c].p] = NoMode \/ x[2].mode = want[call[c].p]
    BY <1>2, <2>5 DEF IInv, ModesKept, ClosingMode
  <2>7. Takes(c, x[2])
    BY <2>1, <2>4
  <2> HIDE DEF r
  <2>8. QED
    BY <1>2, <1>4, <1>5, <2>5, <2>6, <2>7, StatAnswered
<1>7. CASE r.state # "ok"
  <2>1. StatFails(c)
    BY <1>7 DEF FSStatArrives
  <2> HIDE DEF r
  <2>2. QED
    BY <1>2, <1>4, <1>5, <2>1, StatAnswered
<1>8. QED
  BY <1>6, <1>7

-----------------------------------------------------------------------------
(* ReadDir, Open, and what arrives in the background.                      *)

LEMMA ReadDirStep ==
  ASSUME IInv, NEW c \in Clients, ReadDir(c)
  PROVE  IInv'
<1> DEFINE p == call[c].p
<1>1. TypeOK /\ c \in Agents /\ p \in Paths /\ Asks(call[c], req[c]) /\ Drops(call[c], req[c])
  BY Context
<1>2. call[c].pc = "readdir" /\ req[c] = NoReq /\ UNCHANGED <<tree, asof, handle, inval, own, want>>
  BY DEF ReadDir, history
<1>3. CASE Ends(c) /\ Renews(p) /\ UNCHANGED cache
  <2>1. call' = [call EXCEPT ![c] = NoCall]
    BY <1>3 DEF Ends
  <2>2. call' \in [Agents -> CallRecords] /\ call'[c] = NoCall /\ \A d \in Clients : d # c => call'[d] = call[d]
    BY <1>1, <2>1, AtRest DEF TypeOK, Agents
  <2>3. req' \in [Agents -> Requests] /\ NoneServed /\ \A d \in Clients : req'[d] = req[d]
    BY <1>1, <1>2, <1>3, RenewsWell
  <2>4. cache' \in [Paths -> CacheEntries] /\ \A x \in Paths : EntryStep(x)
    BY <1>1, <1>3, SameEntries
  <2>5. TypeOK'
    BY <1>1, <1>2, <2>2, <2>3, <2>4 DEF TypeOK
  <2>6. Others(c)
    BY <2>2, <2>3 DEF Others
  <2>7. Asks(call[c], req[c])'
    <3>1. Asks(NoCall, NoReq) /\ call'[c] = NoCall /\ req'[c] = NoReq
      BY <1>2, <2>2, <2>3, AtRest
    <3>2. QED
      BY <3>1 DEF Asks
  <2>8. Drops(call[c], req[c])'
    <3>1. call'[c].pc = "idle" /\ call'[c].at = 0 /\ asof' \in Nat
      BY <2>2, <2>5, AtRest DEF TypeOK
    <3>2. call'[c].at <= asof'
      BY <3>1
    <3>3. QED
      BY <3>1, <3>2 DEF Drops
  <2>9. ModeStep(c)
    <3>1. call'[c].pc = "idle"
      BY <2>2, AtRest
    <3>2. QED
      BY <3>1 DEF ModeStep
  <2>10. \A x \in Paths : want'[x] = want[x]
    BY <1>2
  <2>11. UNCHANGED <<inval, own>>
    BY <1>2
  <2>12. QED
    BY <1>1, <2>3, <2>4, <2>5, <2>6, <2>7, <2>8, <2>9, <2>10, <2>11, Local
<1>4. CASE cache' = Expired({p}) /\ Send(c, Get(p)) /\ UNCHANGED call
  <2>1. req' = [req EXCEPT ![c] = Get(p)]
    BY <1>4 DEF Send
  <2>2. Get(p) \in Requests /\ Fresh(Get(p)) /\ Get(p).kind = "get"
    BY <1>1, ReadsAsk
  <2>3. Asks(call[c], Get(p))
    BY <1>1, <1>2, <2>2 DEF Asks
  <2>4. cache' \in [Paths -> CacheEntries] /\ \A x \in Paths : EntryStep(x)
    BY <1>1, <1>4, ExpiredWell
  <2>5. UNCHANGED <<tree, asof, call, handle, inval, own, want>>
    BY <1>2, <1>4
  <2>6. QED
    BY <1>2, <2>1, <2>2, <2>3, <2>4, <2>5, SendsOn
<1>5. QED
  BY <1>3, <1>4 DEF ReadDir

\* What an answer puts into the cache, or that there is none
LEMMA Keeps ==
  ASSUME IInv, NEW a \in Agents, cache' \in {cache, Cached(req[a].seen), CachedError(req[a])}
  PROVE  cache' \in [Paths -> CacheEntries] /\ \A p \in Paths : EntryStep(p)
<1>1. TypeOK
  BY DEF IInv
<1>2. QED
  BY <1>1, SameEntries, StoresWell, ErrorStored

LEMMA OpensStep ==
  ASSUME IInv, NEW c \in Clients, Opens(c)
  PROVE  IInv'
<1> DEFINE r == req[c]
<1> DEFINE e == (CHOOSE x \in r.seen : TRUE)[2]
<1>1. TypeOK /\ c \in Agents /\ Asks(call[c], r) /\ SeenOK(r) /\ r \in Requests /\ r.p \in Paths
  BY Context
<1>2. /\ call[c].pc \in {"readdir", "open"} /\ r.state \in {"ok", "refused", "failed"}
      /\ call' = [call EXCEPT ![c] = NoCall]
      /\ UNCHANGED <<tree, asof, inval, own, want>>
  BY DEF Opens, Ends, history
<1>3. cache' \in {cache, Cached(r.seen), CachedError(r)}
  BY DEF Opens
<1>4. cache' \in [Paths -> CacheEntries] /\ \A p \in Paths : EntryStep(p)
  BY <1>1, <1>3, Keeps
<1>5. r.state = "ok" => e \in CacheEntries
  <2>1. r.kind = "get"
    BY <1>1, <1>2 DEF Asks
  <2>2. r.state = "ok" => r.seen # {}
    BY <1>1, <2>1 DEF SeenOK, Changes
  <2>3. r.state = "ok" => (CHOOSE x \in r.seen : TRUE) \in r.seen
    BY <2>2
  <2>4. QED
    BY <1>1, <2>3 DEF Requests
<1>6. handle' \in [Clients -> Handles]
  <2> DEFINE h == [p |-> r.p, mode |-> e.mode, cached |-> TRUE, dirty |-> FALSE, open |-> TRUE]
  <2>1. handle \in [Clients -> Handles]
    BY <1>1 DEF TypeOK
  <2>2. CASE handle' = handle
    BY <2>1, <2>2
  <2>3. CASE handle' # handle
    <3>1. r.state = "ok" /\ handle' = [handle EXCEPT ![c] = h]
      BY <2>3 DEF Opens
    <3>2. h \in Handles
      BY <1>1, <1>5, <3>1 DEF Handles, CacheEntries
    <3> HIDE DEF h
    <3>3. QED
      BY <2>1, <3>1, <3>2
  <2>4. QED
    BY <2>2, <2>3
<1>7. CASE req' = [req EXCEPT ![c] = NoReq]
  <2>1. NoCall.at <= asof
    BY <1>1, AtRest DEF TypeOK
  <2>2. UNCHANGED <<tree, asof, inval, own, want>>
    BY <1>2
  <2>3. QED
    BY <1>2, <1>4, <1>6, <1>7, <2>1, <2>2, AtRest, Moves
<1>8. CASE req' # [req EXCEPT ![c] = NoReq]
  <2>1. PICK d \in e.dirs : /\ "prefetch" \in Background /\ r.state = "ok"
                            /\ req' = [req EXCEPT ![c] = NoReq, !["prefetch"] = Tree(d)]
    BY <1>8 DEF Opens
  <2>2. d \in Paths
    BY <1>5, <2>1 DEF CacheEntries
  <2>3. Tree(d) \in Requests /\ Fresh(Tree(d))
    BY <2>2, ReadsAsk
  <2>4. "prefetch" \in Agents /\ \A x \in Clients : x # "prefetch" /\ x \in Agents
    BY <2>1, AgentsAssumption DEF Agents
  <2>5. /\ req' \in [Agents -> Requests] /\ req'[c] = NoReq /\ req'["prefetch"] = Tree(d)
        /\ \A a \in Agents : a # c /\ a # "prefetch" => req'[a] = req[a]
    BY <1>1, <2>1, <2>3, <2>4, AtRest DEF TypeOK
  <2>6. NoneServed
    BY <1>2, <2>3, <2>5, AtRest DEF NoneServed
  <2>7. call' \in [Agents -> CallRecords] /\ call'[c] = NoCall /\ \A x \in Clients : x # c => call'[x] = call[x]
    BY <1>1, <1>2, AtRest DEF TypeOK, Agents
  <2>8. TypeOK'
    BY <1>1, <1>2, <1>4, <1>6, <2>5, <2>7 DEF TypeOK
  <2>9. Others(c)
    BY <2>4, <2>5, <2>7 DEF Others
  <2>10. Asks(call[c], req[c])'
    <3>1. Asks(NoCall, NoReq) /\ call'[c] = NoCall /\ req'[c] = NoReq
      BY <2>5, <2>7, AtRest
    <3>2. QED
      BY <3>1 DEF Asks
  <2>11. Drops(call[c], req[c])'
    <3>1. call'[c].pc = "idle" /\ call'[c].at = 0 /\ asof' \in Nat
      BY <2>7, <2>8, AtRest DEF TypeOK
    <3>2. call'[c].at <= asof'
      BY <3>1
    <3>3. QED
      BY <3>1, <3>2 DEF Drops
  <2>12. ModeStep(c)
    <3>1. call'[c].pc = "idle"
      BY <2>7, AtRest
    <3>2. QED
      BY <3>1 DEF ModeStep
  <2>13. \A x \in Paths : want'[x] = want[x]
    BY <1>2
  <2>14. UNCHANGED <<inval, own>>
    BY <1>2
  <2>15. QED
    BY <1>1, <1>4, <2>6, <2>8, <2>9, <2>10, <2>11, <2>12, <2>13, <2>14, Local
<1>9. QED
  BY <1>7, <1>8

LEMMA ArrivesStep ==
  ASSUME IInv, NEW a \in Background, Arrives(a)
  PROVE  IInv'
<1>1. TypeOK /\ a \in Agents /\ a \notin Clients
  BY AgentsAssumption DEF IInv, Agents
<1>2. req' = [req EXCEPT ![a] = NoReq] /\ UNCHANGED <<tree, asof, call, handle, inval, own, want>>
  BY DEF Arrives, history
<1>3. cache' \in {cache, Cached(req[a].seen), CachedError(req[a])}
  BY DEF Arrives
<1>4. cache' \in [Paths -> CacheEntries] /\ \A p \in Paths : EntryStep(p)
  BY <1>1, <1>3, Keeps
<1>5. TypeOK'
  BY <1>1, <1>2, <1>4, AtRest DEF TypeOK
<1>6. NoneServed /\ \A b \in Agents : b # a => req'[b] = req[b]
  BY <1>1, <1>2, AtRest, SendsOne
<1>7. Others(a)
  BY <1>1, <1>2, <1>6 DEF Others, Agents
<1>8. \A x \in Paths : want'[x] = want[x]
  BY <1>2
<1>9. UNCHANGED <<inval, own>>
  BY <1>2
<1>10. QED
  BY <1>1, <1>4, <1>5, <1>6, <1>7, <1>8, <1>9, Local

-----------------------------------------------------------------------------
(* Open files.                                                             *)

LEMMA Unmoved ==
  ASSUME IInv, UNCHANGED <<tree, asof, cache, call, req, inval, own, want>>, handle' \in [Clients -> Handles]
  PROVE  IInv'
<1>1. TypeOK'
  BY DEF IInv, TypeOK
<1>2. ASSUME NEW c \in Clients PROVE Asks(call[c], req[c])' /\ Drops(call[c], req[c])'
  <2>1. Asks(call[c], req[c]) /\ Drops(call[c], req[c])
    BY DEF IInv, CallsOK
  <2>2. Asks(call[c], req[c])'
    BY <2>1 DEF Asks
  <2>3. Drops(call[c], req[c])'
    BY <2>1 DEF Drops
  <2>4. QED
    BY <2>2, <2>3
<1>3. CallsOK'
  BY <1>2 DEF CallsOK
<1>4. Answers'
  BY DEF IInv, Answers, SeenOK
<1>5. Known'
  BY DEF IInv, Known
<1>6. KeepsMode' /\ CachedMode'
  BY DEF IInv, ModesKept, KeepsMode, CachedMode
<1>7. SeenMode' /\ ClosingMode'
  BY DEF IInv, ModesKept, SeenMode, ClosingMode
<1>8. PutMode' /\ ChmodMode'
  BY DEF IInv, ModesKept, PutMode, ChmodMode
<1>9. QED
  BY <1>1, <1>3, <1>4, <1>5, <1>6, <1>7, <1>8 DEF IInv, ModesKept

LEMMA WriteStep ==
  ASSUME IInv, NEW c \in Clients, Write(c)
  PROVE  IInv'
<1>1. /\ handle' = [handle EXCEPT ![c].dirty = TRUE]
      /\ UNCHANGED <<tree, asof, cache, call, req, inval, own, want>>
  BY DEF Write, history
<1>2. handle' \in [Clients -> Handles]
  BY <1>1 DEF IInv, TypeOK, Handles
<1>3. QED
  BY <1>1, <1>2, Unmoved

LEMMA CloseStep ==
  ASSUME IInv, NEW c \in Clients, Close(c)
  PROVE  IInv'
<1> DEFINE h == handle[c]
<1> DEFINE k(pc) == [NoCall EXCEPT !.op = "close", !.p = h.p, !.pc = pc]
<1>1. TypeOK /\ c \in Agents /\ Asks(call[c], req[c]) /\ h \in Handles /\ h.p \in Paths
  BY Context DEF TypeOK, Handles
<1>2. /\ call[c] = NoCall /\ handle' = [handle EXCEPT ![c].open = FALSE]
      /\ UNCHANGED <<tree, asof, cache, inval, own, want>>
  BY DEF Close, history
<1>3. handle' \in [Clients -> Handles]
  BY <1>1, <1>2 DEF TypeOK, Handles
<1>4. cache' \in [Paths -> CacheEntries] /\ \A p \in Paths : EntryStep(p)
  BY <1>1, <1>2, SameEntries
<1>5. UNCHANGED <<tree, asof, inval, own, want>>
  BY <1>2
<1>6. asof \in Nat
  BY <1>1 DEF TypeOK
<1>7. CASE h.cached
  <2>1. call' = [call EXCEPT ![c] = k("stat")] /\ req' = req
    BY <1>7, Constants DEF Close, CallRecords
  <2>2. /\ k("stat") \in CallRecords /\ k("stat").pc = "stat" /\ k("stat").op = "close" /\ k("stat").at = 0
    BY <1>1, Constants DEF CallRecords
  <2>3. req[c].state = "no" /\ req[c] \in Requests /\ SeenOK(req[c])
    BY <1>1, <1>2, Constants, Context DEF Asks
  <2> HIDE DEF k
  <2>4. Asks(k("stat"), req[c])
    BY <2>2, <2>3 DEF Asks
  <2>5. req[c].seen = {}
    BY <2>3 DEF SeenOK
  <2>6. /\ call' \in [Agents -> CallRecords] /\ call'[c] = k("stat") /\ req'[c] = req[c]
        /\ \A d \in Clients : d # c => call'[d] = call[d]
    BY <1>1, <2>1, <2>2 DEF TypeOK, Agents
  <2>7. TypeOK'
    BY <1>1, <1>3, <1>4, <1>5, <2>1, <2>6 DEF TypeOK
  <2>8. NoneServed /\ Others(c)
    BY <1>5, <2>1, <2>6 DEF NoneServed, Others
  <2>9. Asks(call[c], req[c])'
    BY <2>4, <2>6 DEF Asks
  <2>10. Drops(call[c], req[c])'
    <3>1. call'[c].pc = "stat" /\ call'[c].at <= asof'
      BY <1>5, <1>6, <2>2, <2>6
    <3>2. QED
      BY <3>1 DEF Drops
  <2>11. ModeStep(c)
    BY <2>2, <2>5, <2>6 DEF ModeStep
  <2>12. \A x \in Paths : want'[x] = want[x]
    BY <1>5
  <2>13. UNCHANGED <<inval, own>>
    BY <1>5
  <2>14. QED
    BY <1>1, <1>4, <2>7, <2>8, <2>9, <2>10, <2>11, <2>12, <2>13, Local
<1>8. CASE ~h.cached
  <2>1. call' = [call EXCEPT ![c] = k("fs stat")] /\ req' = [req EXCEPT ![c] = Meta(h.p)]
    BY <1>8, Constants DEF Close, CallRecords, Send
  <2>2. /\ k("fs stat") \in CallRecords /\ k("fs stat").pc = "fs stat" /\ k("fs stat").op = "close"
        /\ k("fs stat").at = 0 /\ k("fs stat").p = h.p
    BY <1>1, Constants DEF CallRecords
  <2>3. /\ Meta(h.p) \in Requests /\ Fresh(Meta(h.p)) /\ Meta(h.p).kind = "head" /\ Meta(h.p).p = h.p
    BY <1>1, ReadsAsk
  <2> HIDE DEF k
  <2>4. Asks(k("fs stat"), Meta(h.p))
    BY <2>2, <2>3 DEF Asks
  <2>5. k("fs stat").at <= asof
    <3>1. 0 <= asof
      BY <1>6, NotNegative, Zenon
    <3>2. QED
      BY <2>2, <3>1, Zenon
  <2>6. QED
    BY <1>3, <1>4, <1>5, <2>1, <2>2, <2>3, <2>4, <2>5, Moves
<1>9. QED
  BY <1>7, <1>8

LEMMA PutStep ==
  ASSUME IInv, NEW c \in Clients, Put(c)
  PROVE  IInv'
<1> DEFINE k == call[c]
<1>1. TypeOK /\ k \in CallRecords /\ Asks(k, req[c]) /\ k.p \in Paths /\ k.mode \in ModesOf
  BY Context DEF CallRecords
<1>2. /\ k.pc = "put" /\ req' = [req EXCEPT ![c] = PutFile(k.p, k.mode)]
      /\ UNCHANGED <<tree, asof, cache, call, handle, inval, own, want>>
  BY DEF Put, Send, history
<1> DEFINE r == PutFile(k.p, k.mode)
<1>3. r \in Requests /\ Fresh(r) /\ r.kind = "put" /\ r.p = k.p /\ r.mode = k.mode
  BY <1>1, PutAsks
<1> HIDE DEF r
<1>4. Asks(k, r)
  BY <1>1, <1>2, <1>3 DEF Asks
<1>5. cache' \in [Paths -> CacheEntries] /\ \A p \in Paths : EntryStep(p)
  BY <1>1, <1>2, SameEntries
<1>6. req' = [req EXCEPT ![c] = r]
  BY <1>2 DEF r
<1>7. UNCHANGED <<tree, asof, call, handle, inval, own, want>>
  BY <1>2
<1>8. QED
  BY <1>2, <1>3, <1>4, <1>5, <1>6, <1>7, SendsOn

LEMMA PutArrivesStep ==
  ASSUME IInv, NEW c \in Clients, PutArrives(c)
  PROVE  IInv'
<1>1. TypeOK
  BY Context
<1>2. /\ req' = [req EXCEPT ![c] = NoReq] /\ call' = [call EXCEPT ![c] = NoCall]
      /\ UNCHANGED <<tree, asof, cache, handle, inval, own, want>>
  BY DEF PutArrives, Ends, history
<1>3. cache' \in [Paths -> CacheEntries] /\ \A p \in Paths : EntryStep(p)
  BY <1>1, <1>2, SameEntries
<1>4. handle' \in [Clients -> Handles] /\ NoCall.at <= asof
  BY <1>1, <1>2, AtRest DEF TypeOK
<1>5. UNCHANGED <<tree, asof, inval, own, want>>
  BY <1>2
<1>6. QED
  BY <1>2, <1>3, <1>4, <1>5, AtRest, Moves

-----------------------------------------------------------------------------
(* Changes arrive, and what they change is invalidated.                    *)

LEMMA NotedIs ==
  ASSUME NEW f \in [Paths -> Nat], NEW ps, NEW n \in Nat
  PROVE  /\ Noted(f, ps, n) \in [Paths -> Nat]
         /\ \A p \in Paths : /\ Noted(f, ps, n)[p] >= f[p]
                             /\ p \in ps => Noted(f, ps, n)[p] >= n
                             /\ Noted(f, ps, n)[p] = f[p] \/ (p \in ps /\ Noted(f, ps, n)[p] = n)
<1>1. ASSUME NEW p \in Paths
      PROVE  LET m == IF p \in ps /\ f[p] < n THEN n ELSE f[p]
             IN  m \in Nat /\ m >= f[p] /\ (p \in ps => m >= n) /\ (m = f[p] \/ (p \in ps /\ m = n))
  OBVIOUS
<1>2. QED
  BY <1>1 DEF Noted

LEMMA InvalidatedIs ==
  ASSUME TypeOK, NEW name \in Paths, NEW recursive \in BOOLEAN
  PROVE  /\ Invalidated(name, recursive) \in [Paths -> CacheEntries]
         /\ \A p \in Paths : Invalidated(name, recursive)[p] \in {cache[p], NotCached}
         /\ Invalidated(name, recursive)[name] = NotCached
<1>1. name \in Reached(name, recursive)
  BY PathFacts DEF Reached
<1>2. QED
  BY <1>1, Constants DEF Invalidated, TypeOK

LEMMA MissedIs ==
  ASSUME NEW f \in [Paths -> CacheEntries], NEW name, NEW all \in BOOLEAN
  PROVE  /\ Missed(f, name, all) \in [Paths -> CacheEntries]
         /\ \A p \in Paths : /\ Missed(f, name, all)[p] = f[p] \/ Missed(f, name, all)[p].late
                             /\ Under(name, p) /\ p # name /\ (all \/ ~Listed(name, p)) =>
                                  Missed(f, name, all)[p] = NotCached \/ Missed(f, name, all)[p].late
<1>1. ASSUME NEW p \in Paths
      PROVE  [f[p] EXCEPT !.late = TRUE] \in CacheEntries /\ [f[p] EXCEPT !.late = TRUE].late
  <2>1. f[p] \in CacheEntries
    OBVIOUS
  <2>2. QED
    BY <2>1 DEF CacheEntries
<1>2. Missed(f, name, all) \in [Paths -> CacheEntries]
  BY <1>1 DEF Missed
<1>3. ASSUME NEW p \in Paths
      PROVE  /\ Missed(f, name, all)[p] = f[p] \/ Missed(f, name, all)[p].late
             /\ Under(name, p) /\ p # name /\ (all \/ ~Listed(name, p)) =>
                  Missed(f, name, all)[p] = NotCached \/ Missed(f, name, all)[p].late
  BY <1>1 DEF Missed
<1>4. QED
  BY <1>2, <1>3

\* Where what is known has become later, the entry has been dropped, or is as late
Dropped(p) ==
  inval'[p] = inval[p] \/ cache'[p] = NotCached \/ cache'[p].late \/ cache'[p].asof >= inval'[p]

LEMMA LaterKnown ==
  ASSUME TypeOK, Known, \A p \in Paths : EntryStep(p) /\ Dropped(p), \A p \in Paths : own'[p] <= inval'[p]
  PROVE  Known'
<1>1. ASSUME NEW p \in Paths, cache'[p] # NotCached, ~cache'[p].late
      PROVE  cache'[p].asof >= inval'[p]
  <2>1. cache[p] # NotCached /\ ~cache[p].late => cache[p].asof >= inval[p]
    BY DEF Known
  <2>2. cache'[p] = cache[p] \/ cache'[p].asof >= inval[p]
    BY <1>1 DEF EntryStep
  <2>3. inval'[p] = inval[p] \/ cache'[p].asof >= inval'[p]
    BY <1>1 DEF Dropped
  <2>4. QED
    BY <1>1, <2>1, <2>2, <2>3
<1>2. QED
  BY <1>1 DEF Known

LEMMA LocalLater ==
  ASSUME IInv, TypeOK', NEW c \in Agents, Others(c), NoneServed, Later,
         \A p \in Paths : EntryStep(p) /\ Dropped(p), \A p \in Paths : own'[p] <= inval'[p],
         \A p \in Paths : want'[p] = want[p],
         c \in Clients => Asks(call[c], req[c])' /\ Drops(call[c], req[c])' /\ ModeStep(c)
  PROVE  IInv'
<1>1. TypeOK /\ CallsOK /\ Answers /\ Known /\ ModesKept
  BY DEF IInv
<1>2. asof' = asof
  BY DEF NoneServed
<1>3. CallsOK'
  BY <1>1, <1>2, LocalCalls
<1>4. Answers'
  BY <1>1, LocalAnswers
<1>5. Known'
  BY <1>1, LaterKnown
<1>6. ModesKept'
  BY <1>1, LocalModes
<1>7. QED
  BY <1>3, <1>4, <1>5, <1>6 DEF IInv

\* A request that failed ends the call
LEMMA FailsWell ==
  ASSUME IInv, NEW c \in Clients, Ends(c), req' = [req EXCEPT ![c] = NoReq],
         UNCHANGED <<tree, asof, cache, handle, inval, own, want>>
  PROVE  IInv'
<1>1. TypeOK
  BY Context
<1>2. call' = [call EXCEPT ![c] = NoCall]
  BY DEF Ends
<1>3. cache' \in [Paths -> CacheEntries] /\ \A p \in Paths : EntryStep(p)
  BY <1>1, SameEntries
<1>4. handle' \in [Clients -> Handles] /\ NoCall.at <= asof
  BY <1>1, AtRest DEF TypeOK
<1>5. UNCHANGED <<tree, asof, inval, own, want>>
  OBVIOUS
<1>6. QED
  BY <1>2, <1>3, <1>4, <1>5, AtRest, Moves

\* What becomes of the entries of a change that has arrived
LEMMA ChangeDrops ==
  ASSUME IInv, NEW c \in Clients, ChangeArrives(c), req[c].state = "ok"
  PROVE  /\ cache' \in [Paths -> CacheEntries] /\ inval' \in [Paths -> Nat] /\ Later
         /\ \A p \in Paths : cache'[p] \in {cache[p], NotCached} \/ cache'[p].late
         /\ \A p \in Paths : Dropped(p)
         /\ call[c].op = "rename" => \A p \in Paths : Under(call[c].q, p) => inval'[p] >= call[c].at
         /\ call[c].op # "rename" => /\ inval'[call[c].p] >= call[c].at
                                     /\ cache'[call[c].p] = NotCached
                                     /\ \A p \in Paths : cache'[p] \in {cache[p], NotCached}
                                     /\ inval' = Noted(inval, {call[c].p}, call[c].at)
<1> DEFINE k == call[c]
<1>1. TypeOK /\ k \in CallRecords /\ k.p \in Paths /\ k.q \in Paths
  BY Context
<1>2. k.at \in Nat /\ inval \in [Paths -> Nat]
  BY <1>1 DEF CallRecords, TypeOK
<1>3. CASE k.op = "rename"
  <2> DEFINE gone == Invalidated(k.q, FALSE)
  <2> DEFINE ps == {p \in Paths : Under(k.q, p)}
  <2>1. cache' = Missed(gone, k.q, TRUE) /\ inval' = Noted(inval, ps, k.at)
    BY <1>3 DEF ChangeArrives, Recursive
  <2>2. gone \in [Paths -> CacheEntries] /\ gone[k.q] = NotCached /\ \A p \in Paths : gone[p] \in {cache[p], NotCached}
    BY <1>1, InvalidatedIs
  <2> HIDE DEF gone
  <2>3. /\ cache' \in [Paths -> CacheEntries]
        /\ \A p \in Paths : /\ cache'[p] = gone[p] \/ cache'[p].late
                            /\ Under(k.q, p) /\ p # k.q => cache'[p] = NotCached \/ cache'[p].late
    BY <2>1, <2>2, MissedIs
  <2>4. /\ inval' \in [Paths -> Nat] /\ \A p \in Paths : inval'[p] >= inval[p]
        /\ \A p \in Paths : Under(k.q, p) => inval'[p] >= k.at
        /\ \A p \in Paths : inval'[p] = inval[p] \/ Under(k.q, p)
    BY <1>2, <2>1, NotedIs
  <2>5. \A p \in Paths : Dropped(p)
    BY <2>2, <2>3, <2>4 DEF Dropped
  <2>6. QED
    BY <1>3, <2>2, <2>3, <2>4, <2>5 DEF Later
<1>4. CASE k.op # "rename"
  <2>1. inval' = Noted(inval, {k.p}, k.at)
    BY <1>4 DEF ChangeArrives
  <2>2. /\ inval' \in [Paths -> Nat] /\ \A p \in Paths : inval'[p] >= inval[p]
        /\ inval'[k.p] >= k.at
        /\ \A p \in Paths : inval'[p] = inval[p] \/ p = k.p
    BY <1>1, <1>2, <2>1, NotedIs
  <2>3. /\ cache' \in [Paths -> CacheEntries] /\ cache'[k.p] = NotCached
        /\ \A p \in Paths : cache'[p] \in {cache[p], NotCached}
    <3>1. CASE k.op = "patch"
      <4>1. cache' = InvalidatedAll(k.p)
        BY <3>1 DEF ChangeArrives
      <4>2. QED
        BY <1>1, <4>1, PathFacts, Constants DEF InvalidatedAll, TypeOK
    <3>2. CASE k.op # "patch"
      <4>1. cache' = Invalidated(k.p, Recursive(k.op)) /\ Recursive(k.op) \in BOOLEAN
        BY <1>4, <3>2 DEF ChangeArrives, Recursive
      <4>2. QED
        BY <1>1, <4>1, InvalidatedIs
    <3>3. QED
      BY <3>1, <3>2
  <2>4. \A p \in Paths : Dropped(p)
    BY <2>2, <2>3 DEF Dropped
  <2>5. QED
    BY <1>4, <2>1, <2>2, <2>3, <2>4 DEF Later
<1>5. QED
  BY <1>3, <1>4

\* The call has returned, and the mode that it set is the one to keep
LEMMA ModeReturned ==
  ASSUME IInv, NEW c \in Clients, call[c].pc = "change", call[c].op = "chmod", req[c].state = "ok", call[c].at = asof,
         ~Closing(call[c].p), want' = [want EXCEPT ![call[c].p] = call[c].mode],
         call' = [call EXCEPT ![c] = NoCall], req' = [req EXCEPT ![c] = NoReq], tree' = tree, asof' = asof,
         TypeOK', Later, inval'[call[c].p] >= call[c].at,
         cache'[call[c].p] = NotCached, \A p \in Paths : cache'[p] \in {cache[p], NotCached}
  PROVE  ModesKept'
<1> DEFINE p == call[c].p
<1> DEFINE m == call[c].mode
<1>1. TypeOK /\ c \in Agents /\ p \in Paths /\ ModesKept
  BY Context DEF IInv
<1>2. want'[p] = m /\ \A x \in Paths : x # p => want'[x] = want[x]
  BY <1>1 DEF TypeOK
<1>3. m # NoMode => tree[p].mode = m
  BY <1>1 DEF ModesKept, ChmodMode
<1>4. /\ call'[c] = NoCall /\ req'[c] = NoReq
      /\ \A d \in Clients : d # c => call'[d] = call[d] /\ req'[d] = req[d]
      /\ \A a \in Agents : a # c => req'[a] = req[a]
  BY <1>1 DEF TypeOK, Agents
<1>5. KeepsMode'
  BY <1>1, <1>2, <1>3 DEF ModesKept, KeepsMode
<1>6. CachedMode'
  <2>1. ASSUME NEW x \in Paths, want'[x] # NoMode, cache'[x] # NotCached, cache'[x].kind # "none", ~cache'[x].late
        PROVE  cache'[x].mode = want'[x]
    <3>1. x # p /\ cache'[x] = cache[x]
      BY <2>1
    <3>2. QED
      BY <1>1, <1>2, <2>1, <3>1 DEF ModesKept, CachedMode
  <2>2. QED
    BY <2>1 DEF CachedMode
<1>7. SeenMode'
  <2>1. ASSUME NEW a \in Agents, NEW x \in req'[a].seen, want'[x[1]] # NoMode, x[2].asof >= inval'[x[1]]
        PROVE  x[2].mode = want'[x[1]]
    <3>1. a # c
      BY <1>4, <2>1, Constants
    <3>2. req'[a] = req[a] /\ SeenOK(req[a]) /\ req[a] \in Requests
      BY <1>1, <1>4, <3>1 DEF IInv, Answers, TypeOK
    <3>3. x \in Paths \X CacheEntries /\ x[2].asof = req[a].at /\ req[a].at <= asof
      BY <2>1, <3>2 DEF Requests, SeenOK
    <3>4. x[1] \in Paths /\ x[2].asof \in Nat /\ asof \in Nat
      BY <1>1, <3>3 DEF CacheEntries, TypeOK
    <3>5. inval[x[1]] \in Nat /\ inval'[x[1]] \in Nat /\ inval'[x[1]] >= inval[x[1]]
      BY <1>1, <3>4 DEF TypeOK, Later
    <3>6. CASE x[1] = p
      <4>1. x[2].asof = asof
        BY <2>1, <3>3, <3>4, <3>5, <3>6
      <4>2. x[2].mode = tree[p].mode
        BY <2>1, <3>2, <3>3, <3>6, <4>1 DEF SeenOK
      <4>3. QED
        BY <1>2, <1>3, <2>1, <3>6, <4>2
    <3>7. CASE x[1] # p
      <4>1. x[2].asof >= inval[x[1]] /\ want'[x[1]] = want[x[1]]
        BY <1>2, <2>1, <3>4, <3>5, <3>7
      <4>2. QED
        BY <1>1, <2>1, <3>2, <4>1 DEF ModesKept, SeenMode
    <3>8. QED
      BY <3>6, <3>7
  <2>2. QED
    BY <2>1 DEF SeenMode
<1>8. ASSUME NEW d \in Clients, call'[d].op = "close", call'[d].p = p
      PROVE  call'[d].pc # "put" /\ req'[d].seen = {}
  <2>1. d # c
    BY <1>4, <1>8, Constants
  <2>2. call'[d] = call[d] /\ req'[d] = req[d] /\ SeenOK(req[d])
    BY <1>4, <2>1, Context
  <2>3. call[d].pc # "put" /\ req[d].state = "no"
    BY <1>8, <2>2 DEF Closing
  <2>4. QED
    BY <2>2, <2>3 DEF SeenOK
<1>9. ClosingMode'
  <2>1. ASSUME NEW d \in Clients, call'[d].op = "close", call'[d].pc \in {"stat", "fs stat"},
               NEW x \in req'[d].seen, x[1] = call'[d].p, want'[x[1]] # NoMode
        PROVE  x[2].mode = want'[x[1]]
    <3>1. d # c /\ call'[d].p # p
      BY <1>4, <1>8, <2>1, Constants
    <3>2. call'[d] = call[d] /\ req'[d] = req[d] /\ call[d].p \in Paths
      BY <1>4, <3>1, Context
    <3>3. want'[x[1]] = want[x[1]]
      BY <1>2, <2>1, <3>1, <3>2
    <3>4. QED
      BY <1>1, <2>1, <3>2, <3>3 DEF ModesKept, ClosingMode
  <2>2. QED
    BY <2>1 DEF ClosingMode
<1>10. PutMode'
  <2>1. ASSUME NEW d \in Clients, call'[d].pc = "put", want'[call'[d].p] # NoMode
        PROVE  call'[d].mode = want'[call'[d].p]
    <3>1. d # c
      BY <1>4, <2>1, Constants
    <3>2. call'[d] = call[d] /\ Asks(call[d], req[d]) /\ call[d].p \in Paths
      BY <1>4, <3>1, Context
    <3>3. call'[d].op = "close"
      BY <2>1, <3>2 DEF Asks
    <3>4. want'[call[d].p] = want[call[d].p]
      BY <1>2, <1>8, <2>1, <3>2, <3>3
    <3>5. QED
      BY <1>1, <2>1, <3>2, <3>4 DEF ModesKept, PutMode
  <2>2. QED
    BY <2>1 DEF PutMode
<1>11. ChmodMode'
  <2>1. ASSUME NEW d \in Clients, call'[d].op = "chmod", call'[d].pc = "change", req'[d].state = "ok",
               call'[d].at = asof', call'[d].mode # NoMode
        PROVE  tree'[call'[d].p].mode = call'[d].mode
    <3>1. d # c
      BY <1>4, <2>1, Constants
    <3>2. call'[d] = call[d] /\ req'[d] = req[d]
      BY <1>4, <3>1
    <3>3. QED
      BY <1>1, <2>1, <3>2 DEF ModesKept, ChmodMode
  <2>2. QED
    BY <2>1 DEF ChmodMode
<1>12. QED
  BY <1>5, <1>6, <1>7, <1>9, <1>10, <1>11 DEF ModesKept

LEMMA ChangeArrivesStep ==
  ASSUME IInv, NEW c \in Clients, ChangeArrives(c)
  PROVE  IInv'
<1> DEFINE k == call[c]
<1> DEFINE name == IF k.op = "rename" THEN k.q ELSE k.p
<1>1. /\ TypeOK /\ c \in Agents /\ k \in CallRecords /\ k.p \in Paths /\ k.q \in Paths /\ k.at \in Nat
      /\ Asks(k, req[c]) /\ Drops(k, req[c])
  BY Context DEF CallRecords
<1>2. k.pc = "change" /\ UNCHANGED <<tree, asof>>
  BY DEF ChangeArrives
<1>3. CASE req[c].state # "ok"
  <2>1. Ends(c) /\ req' = [req EXCEPT ![c] = NoReq] /\ UNCHANGED <<tree, asof, cache, handle, inval, own, want>>
    BY <1>3 DEF ChangeArrives, history
  <2>2. QED
    BY <2>1, FailsWell
<1>4. CASE req[c].state = "ok" /\ Resyncs(k.op)
  <2>1. call' = [call EXCEPT ![c] = [k EXCEPT !.pc = "resync"]] /\ req' = [req EXCEPT ![c] = Dir(Front(name))]
    BY <1>4 DEF ChangeArrives, Send
  <2>2. UNCHANGED <<handle, own, want>>
    BY <1>4 DEF ChangeArrives
  <2>3. /\ cache' \in [Paths -> CacheEntries] /\ inval' \in [Paths -> Nat] /\ Later
        /\ \A p \in Paths : EntryStep(p) /\ Dropped(p)
        /\ k.op = "rename" => \A p \in Paths : Under(k.q, p) => inval'[p] >= k.at
        /\ k.op # "rename" => inval'[k.p] >= k.at
    BY <1>4, ChangeDrops DEF EntryStep
  <2>4. k.p # Root /\ (k.op = "rename" => k.q # Root) /\ k.op # "close" /\ k.op \notin {"chmod", "patch"}
    BY <1>1, <1>2, <1>4 DEF Asks, Resyncs
  <2>5. Front(name) \in Paths
    BY <1>1, <2>4, PathFacts
  <2> DEFINE r == Dir(Front(name))
  <2>6. r \in Requests /\ Fresh(r) /\ r.kind = "dir" /\ r.p = Front(name) /\ r.state = "sent"
    BY <2>5, ReadsAsk
  <2> DEFINE n == [k EXCEPT !.pc = "resync"]
  <2>7. n \in CallRecords /\ n.pc = "resync" /\ n.op = k.op /\ n.p = k.p /\ n.q = k.q /\ n.at = k.at
    BY <1>1 DEF CallRecords
  <2>8. call' = [call EXCEPT ![c] = n] /\ req' = [req EXCEPT ![c] = r]
    BY <2>1
  <2> HIDE DEF r, n
  <2>9. /\ call' \in [Agents -> CallRecords] /\ req' \in [Agents -> Requests] /\ call'[c] = n /\ req'[c] = r
        /\ \A d \in Clients : d # c => call'[d] = call[d]
    BY <1>1, <2>6, <2>7, <2>8 DEF TypeOK, Agents
  <2>10. TypeOK'
    BY <1>1, <1>2, <2>2, <2>3, <2>9 DEF TypeOK
  <2>11. NoneServed /\ Others(c)
    BY <1>1, <1>2, <2>6, <2>8, <2>9, SendsOne DEF Others, Agents
  <2>12. Asks(n, r)
    BY <2>4, <2>6, <2>7 DEF Asks
  <2>13. Asks(call[c], req[c])'
    BY <2>9, <2>12 DEF Asks
  <2>14. Drops(call[c], req[c])'
    <3>1. n.at <= asof'
      BY <1>1, <1>2, <2>7 DEF Drops
    <3>2. QED
      BY <2>3, <2>6, <2>7, <2>9, <3>1 DEF Drops
  <2>15. ModeStep(c)
    BY <2>4, <2>7, <2>9 DEF ModeStep
  <2>16. \A p \in Paths : own'[p] <= inval'[p]
    <3>1. ASSUME NEW p \in Paths PROVE own'[p] <= inval'[p]
      <4>1. own[p] <= inval[p] /\ inval'[p] >= inval[p] /\ own'[p] = own[p]
        BY <2>2, <2>3 DEF IInv, Known, Later
      <4>2. own[p] \in Nat /\ inval[p] \in Nat /\ inval'[p] \in Nat
        BY <1>1, <2>3 DEF TypeOK
      <4>3. QED
        BY <4>1, <4>2
    <3>2. QED
      BY <3>1
  <2>17. \A p \in Paths : want'[p] = want[p]
    BY <2>2
  <2>18. QED
    BY <1>1, <2>3, <2>10, <2>11, <2>13, <2>14, <2>15, <2>16, <2>17, LocalLater
<1>5. CASE req[c].state = "ok" /\ ~Resyncs(k.op)
  <2>1. k.op \in {"chmod", "patch"}
    BY <1>5 DEF Resyncs
  <2>2. Returns(c, k) /\ req' = [req EXCEPT ![c] = NoReq]
    BY <1>5 DEF ChangeArrives
  <2>3. /\ call' = [call EXCEPT ![c] = NoCall] /\ handle' = handle /\ own' = Noted(own, {k.p}, k.at)
        /\ want' = want \/ (/\ k.op = "chmod" /\ k.at = asof /\ ~Closing(k.p)
                            /\ want' = [want EXCEPT ![k.p] = k.mode])
    BY <2>1, <2>2 DEF Returns, About
  <2>4. /\ cache' \in [Paths -> CacheEntries] /\ inval' \in [Paths -> Nat] /\ Later
        /\ \A p \in Paths : cache'[p] \in {cache[p], NotCached}
        /\ \A p \in Paths : Dropped(p)
        /\ inval'[k.p] >= k.at /\ cache'[k.p] = NotCached
    BY <1>5, <2>1, ChangeDrops
  <2>5. \A p \in Paths : EntryStep(p)
    BY <2>4 DEF EntryStep
  <2>6. k.mode \in ModesOf /\ want \in [Paths -> ModesOf] /\ own \in [Paths -> Nat]
    BY <1>1 DEF CallRecords, TypeOK
  <2>7. want' \in [Paths -> ModesOf]
    BY <2>3, <2>6
  <2>8. /\ own' \in [Paths -> Nat]
        /\ \A p \in Paths : own'[p] = own[p] \/ (p = k.p /\ own'[p] = k.at)
    BY <1>1, <2>3, <2>6, NotedIs
  <2>9. \A p \in Paths : own'[p] <= inval'[p]
    <3>1. ASSUME NEW p \in Paths PROVE own'[p] <= inval'[p]
      <4>1. own[p] <= inval[p] /\ inval'[p] >= inval[p]
        BY <2>4 DEF IInv, Known, Later
      <4>2. own[p] \in Nat /\ inval[p] \in Nat /\ inval'[p] \in Nat
        BY <1>1, <2>4 DEF TypeOK
      <4>3. QED
        BY <1>1, <2>4, <2>8, <4>1, <4>2
    <3>2. QED
      BY <3>1
  <2>10. /\ call' \in [Agents -> CallRecords] /\ req' \in [Agents -> Requests] /\ call'[c] = NoCall /\ req'[c] = NoReq
         /\ \A d \in Clients : d # c => call'[d] = call[d]
    BY <1>1, <2>2, <2>3, AtRest DEF TypeOK, Agents
  <2>11. TypeOK'
    BY <1>1, <1>2, <2>3, <2>4, <2>7, <2>8, <2>10 DEF TypeOK
  <2>12. NoneServed /\ Others(c)
    BY <1>1, <1>2, <2>2, <2>10, AtRest, SendsOne DEF Others, Agents
  <2>13. Asks(call[c], req[c])'
    BY <2>10, AtRest DEF Asks
  <2>14. Drops(call[c], req[c])'
    <3>1. call'[c].pc = "idle" /\ call'[c].at = 0 /\ asof' \in Nat
      BY <2>10, <2>11, AtRest DEF TypeOK
    <3>2. call'[c].at <= asof'
      BY <3>1, NotNegative, Zenon
    <3>3. QED
      BY <3>1, <3>2 DEF Drops
  <2>15. ModeStep(c)
    <3>1. call'[c].pc = "idle"
      BY <2>10, AtRest
    <3>2. QED
      BY <3>1 DEF ModeStep
  <2>16. CASE want' = want
    <3>1. \A p \in Paths : want'[p] = want[p]
      BY <2>16
    <3>2. QED
      BY <1>1, <2>4, <2>5, <2>9, <2>11, <2>12, <2>13, <2>14, <2>15, <3>1, LocalLater
  <2>17. CASE want' # want
    <3>1. k.op = "chmod" /\ k.at = asof /\ ~Closing(k.p) /\ want' = [want EXCEPT ![k.p] = k.mode]
      BY <2>3, <2>17
    <3>2. ModesKept'
      BY <1>2, <1>5, <2>2, <2>3, <2>4, <2>11, <3>1, ModeReturned
    <3>3. CallsOK'
      BY <1>1, <1>2, <2>4, <2>11, <2>12, <2>13, <2>14, LocalCalls DEF IInv
    <3>4. Answers' /\ Known'
      BY <1>1, <2>4, <2>5, <2>9, <2>12, LocalAnswers, LaterKnown DEF IInv
    <3>5. QED
      BY <2>11, <3>2, <3>3, <3>4 DEF IInv
  <2>18. QED
    BY <2>16, <2>17
<1>6. QED
  BY <1>3, <1>4, <1>5

LEMMA AtLeast == \A a, b, n \in Nat : a >= n /\ b >= a => b >= n
OBVIOUS

LEMMA CachedAsOf ==
  ASSUME cache \in [Paths -> CacheEntries], inval \in [Paths -> Nat],
         NEW seen \in SUBSET (Paths \X CacheEntries)
  PROVE  \A p \in Paths : \/ Cached(seen)[p] = cache[p] /\ \A x \in seen : x[1] # p
                          \/ \E x \in seen : x[1] = p /\ Cached(seen)[p].asof = x[2].asof
BY CachedIs

\* What a listing that has come makes known
LEMMA ResyncDrops ==
  ASSUME IInv, NEW c \in Clients, call[c].pc \in {"resync", "resync old"}, req[c].state = "ok",
         cache' = Cached(req[c].seen), inval' = Noted(inval, {req[c].p}, call[c].at)
  PROVE  /\ cache' \in [Paths -> CacheEntries] /\ inval' \in [Paths -> Nat] /\ Later
         /\ \A p \in Paths : EntryStep(p) /\ Dropped(p)
         /\ inval'[req[c].p] >= call[c].at
<1> DEFINE k == call[c]
<1> DEFINE r == req[c]
<1>1. /\ TypeOK /\ c \in Agents /\ k \in CallRecords /\ r \in Requests /\ r.p \in Paths
      /\ Asks(k, r) /\ Drops(k, r) /\ SeenOK(r)
  BY Context
<1>2. k.at \in Nat /\ r.at \in Nat /\ inval \in [Paths -> Nat] /\ r.seen \in SUBSET (Paths \X CacheEntries)
  BY <1>1 DEF CallRecords, Requests, TypeOK
<1>3. r.kind = "dir" /\ r.at >= k.at
  BY <1>1 DEF Asks, Drops
<1> DEFINE ps == {r.p}
<1>4. /\ inval' \in [Paths -> Nat] /\ inval'[r.p] >= k.at
      /\ \A p \in Paths : inval'[p] >= inval[p]
      /\ \A p \in Paths : inval'[p] = inval[p] \/ (p = r.p /\ inval'[p] = k.at)
  <2>1. inval' = Noted(inval, ps, k.at) /\ \A p : p \in ps <=> p = r.p
    OBVIOUS
  <2> DEFINE f == Noted(inval, ps, k.at)
  <2>2. /\ f \in [Paths -> Nat]
        /\ \A p \in Paths : f[p] >= inval[p] /\ (p \in ps => f[p] >= k.at) /\ (f[p] = inval[p] \/ (p \in ps /\ f[p] = k.at))
    <3> HIDE DEF k, r, ps
    <3>1. inval \in [Paths -> Nat] /\ k.at \in Nat
      BY <1>2
    <3>2. QED
      BY <3>1, NotedIs, ZenonT(60)
  <2>3. inval' = f
    BY <2>1
  <2> HIDE DEF k, r, ps, f
  <2>4. QED
    BY <1>1, <2>1, <2>2, <2>3, Zenon
<1>5. cache' \in [Paths -> CacheEntries] /\ \A p \in Paths : EntryStep(p)
  BY <1>1, StoresWell
<1>6. \E x \in r.seen : x[1] = r.p
  BY <1>1, <1>3 DEF SeenOK
<1>7. \E x \in r.seen : x[1] = r.p /\ cache'[r.p].asof = x[2].asof
  <2>1. cache' = Cached(r.seen) /\ cache \in [Paths -> CacheEntries]
    BY <1>1 DEF TypeOK
  <2> DEFINE f == Cached(r.seen)
  <2>2. \/ f[r.p] = cache[r.p] /\ \A x \in r.seen : x[1] # r.p
        \/ \E x \in r.seen : x[1] = r.p /\ f[r.p].asof = x[2].asof
    <3>1. \A p \in Paths : \/ Cached(r.seen)[p] = cache[p] /\ \A x \in r.seen : x[1] # p
                           \/ \E x \in r.seen : x[1] = p /\ Cached(r.seen)[p].asof = x[2].asof
      BY <1>2, <2>1, CachedAsOf, Zenon
    <3>2. QED
      BY <1>1, <3>1
  <2>3. QED
    BY <1>6, <2>1, <2>2
<1>8. cache'[r.p].asof = r.at
  BY <1>1, <1>7 DEF SeenOK
<1>9. Dropped(r.p)
  <2>1. inval[r.p] \in Nat /\ inval'[r.p] \in Nat
    BY <1>1, <1>2, <1>4
  <2>2. inval'[r.p] = inval[r.p] \/ inval'[r.p] = k.at
    BY <1>1, <1>4
  <2>3. cache'[r.p].asof >= inval'[r.p] \/ inval'[r.p] = inval[r.p]
    BY <1>2, <1>3, <1>8, <2>1, <2>2
  <2>4. QED
    BY <2>3 DEF Dropped
<1>10. \A p \in Paths : Dropped(p)
  <2>1. \A p \in Paths : p # r.p => inval'[p] = inval[p]
    BY <1>4
  <2>2. QED
    BY <1>9, <2>1 DEF Dropped
<1>11. QED
  BY <1>4, <1>5, <1>10 DEF Later

\* A call that returns has invalidated all that it is about
LEMMA AllDropped ==
  ASSUME IInv, NEW c \in Clients, call[c].pc \in {"resync", "resync old"}, ~(call[c].op = "rename" /\ call[c].pc = "resync"),
         Later, inval' \in [Paths -> Nat], inval'[req[c].p] >= call[c].at
  PROVE  \A p \in About(call[c]) : p \in Paths /\ inval'[p] >= call[c].at
<1> DEFINE k == call[c]
<1>1. /\ TypeOK /\ k \in CallRecords /\ k.p \in Paths /\ k.q \in Paths /\ req[c].p \in Paths
      /\ Asks(k, req[c]) /\ Drops(k, req[c])
  BY Context
<1>2. k.at \in Nat /\ \A p \in Paths : inval[p] \in Nat /\ inval'[p] \in Nat /\ inval'[p] >= inval[p]
  BY <1>1 DEF CallRecords, TypeOK, Later
<1>3. \A p \in Paths : inval[p] >= k.at => inval'[p] >= k.at
  <2> HIDE DEF k
  <2>1. ASSUME NEW p \in Paths, inval[p] >= k.at PROVE inval'[p] >= k.at
    BY <1>2, <2>1, AtLeast, Zenon
  <2>2. QED
    BY <2>1
<1>4. CASE k.op = "rename"
  <2>1. k.pc = "resync old" /\ k.p # Root /\ k.q # Root /\ req[c].p = Front(k.p)
    BY <1>1, <1>4 DEF Asks
  <2>2. Front(k.p) \in Paths /\ Front(k.q) \in Paths
    BY <1>1, <2>1, PathFacts
  <2>3. /\ \A p \in Paths : Under(k.p, p) \/ Under(k.q, p) => inval[p] >= k.at
        /\ inval[Front(k.q)] >= k.at
    BY <1>1, <1>4, <2>1 DEF Drops
  <2>4. About(k) = {p \in Paths : Under(k.p, p) \/ Under(k.q, p)} \cup {Front(k.p), Front(k.q)}
    BY <1>4 DEF About
  <2>5. QED
    BY <1>3, <2>1, <2>2, <2>3, <2>4
<1>5. CASE k.op # "rename"
  <2>1. k.pc = "resync" /\ k.p # Root /\ req[c].p = Front(k.p) /\ k.op \notin {"chmod", "patch"}
    BY <1>1, <1>5 DEF Asks
  <2>2. inval[k.p] >= k.at
    BY <1>1, <1>5, <2>1 DEF Drops
  <2>3. About(k) = {k.p, Front(k.p)}
    BY <1>5, <2>1 DEF About
  <2>4. QED
    BY <1>1, <1>3, <2>1, <2>2, <2>3
<1>6. QED
  BY <1>4, <1>5

LEMMA ResyncArrivesStep ==
  ASSUME IInv, NEW c \in Clients, ResyncArrives(c)
  PROVE  IInv'
<1> DEFINE k == call[c]
<1>1. /\ TypeOK /\ c \in Agents /\ k \in CallRecords /\ k.p \in Paths /\ k.q \in Paths /\ k.at \in Nat
      /\ Asks(k, req[c]) /\ Drops(k, req[c])
  BY Context DEF CallRecords
<1>2. k.pc \in {"resync", "resync old"} /\ UNCHANGED <<tree, asof>>
  BY DEF ResyncArrives
<1>3. CASE req[c].state # "ok"
  <2>1. Ends(c) /\ req' = [req EXCEPT ![c] = NoReq] /\ UNCHANGED <<tree, asof, cache, handle, inval, own, want>>
    BY <1>3 DEF ResyncArrives, history
  <2>2. QED
    BY <2>1, FailsWell
<1>4. ASSUME req[c].state = "ok"
      PROVE  /\ cache' \in [Paths -> CacheEntries] /\ inval' \in [Paths -> Nat] /\ Later
             /\ \A p \in Paths : EntryStep(p) /\ Dropped(p)
             /\ inval'[req[c].p] >= k.at
             /\ req' = [req EXCEPT ![c] = NoReq]
  <2>1. /\ cache' = Cached(req[c].seen) /\ inval' = Noted(inval, {req[c].p}, k.at)
        /\ req' = [req EXCEPT ![c] = NoReq]
    BY <1>4 DEF ResyncArrives
  <2>2. QED
    BY <1>2, <1>4, <2>1, ResyncDrops
<1>5. CASE req[c].state = "ok" /\ k.op = "rename" /\ k.pc = "resync"
  <2>1. call' = [call EXCEPT ![c] = [k EXCEPT !.pc = "old name"]] /\ UNCHANGED <<handle, own, want>>
    BY <1>5 DEF ResyncArrives
  <2>2. k.p # Root /\ k.q # Root /\ req[c].p = Front(k.q)
    BY <1>1, <1>5 DEF Asks
  <2> DEFINE n == [k EXCEPT !.pc = "old name"]
  <2>3. n \in CallRecords /\ n.pc = "old name" /\ n.op = "rename" /\ n.p = k.p /\ n.q = k.q /\ n.at = k.at
    BY <1>1, <1>5 DEF CallRecords
  <2>4. call' = [call EXCEPT ![c] = n]
    BY <2>1
  <2> HIDE DEF n
  <2>5. /\ call' \in [Agents -> CallRecords] /\ req' \in [Agents -> Requests] /\ call'[c] = n /\ req'[c] = NoReq
        /\ \A d \in Clients : d # c => call'[d] = call[d]
    BY <1>1, <1>4, <1>5, <2>3, <2>4, AtRest DEF TypeOK, Agents
  <2>6. TypeOK'
    BY <1>1, <1>2, <1>4, <1>5, <2>1, <2>5 DEF TypeOK
  <2>7. NoneServed /\ Others(c)
    BY <1>1, <1>2, <1>4, <1>5, <2>5, AtRest, SendsOne DEF Others, Agents
  <2>8. Asks(n, NoReq)
    BY <2>2, <2>3, Constants DEF Asks
  <2>9. Asks(call[c], req[c])'
    BY <2>5, <2>8 DEF Asks
  <2>10. \A p \in Paths : Under(k.q, p) => inval'[p] >= k.at
    <3>1. ASSUME NEW p \in Paths, Under(k.q, p) PROVE inval'[p] >= k.at
      <4>1. inval[p] >= k.at /\ inval'[p] >= inval[p]
        BY <1>1, <1>4, <1>5, <3>1 DEF Drops, Later
      <4>2. inval[p] \in Nat /\ inval'[p] \in Nat
        BY <1>1, <1>4, <1>5 DEF TypeOK
      <4>3. QED
        BY <1>1, <4>1, <4>2
    <3>2. QED
      BY <3>1
  <2>11. Drops(call[c], req[c])'
    <3>1. n.at <= asof' /\ inval'[Front(n.q)] >= n.at
      BY <1>1, <1>2, <1>4, <1>5, <2>2, <2>3 DEF Drops
    <3>2. QED
      BY <2>3, <2>5, <2>10, <3>1 DEF Drops
  <2>12. ModeStep(c)
    BY <2>3, <2>5 DEF ModeStep
  <2>13. \A p \in Paths : own'[p] <= inval'[p]
    <3>1. ASSUME NEW p \in Paths PROVE own'[p] <= inval'[p]
      <4>1. own[p] <= inval[p] /\ inval'[p] >= inval[p] /\ own'[p] = own[p]
        BY <1>4, <1>5, <2>1 DEF IInv, Known, Later
      <4>2. own[p] \in Nat /\ inval[p] \in Nat /\ inval'[p] \in Nat
        BY <1>1, <1>4, <1>5 DEF TypeOK
      <4>3. QED
        BY <4>1, <4>2
    <3>2. QED
      BY <3>1
  <2>14. \A p \in Paths : want'[p] = want[p]
    BY <2>1
  <2>15. QED
    BY <1>1, <1>4, <1>5, <2>6, <2>7, <2>9, <2>11, <2>12, <2>13, <2>14, LocalLater
<1>6. CASE req[c].state = "ok" /\ ~(k.op = "rename" /\ k.pc = "resync")
  <2>1. Returns(c, k)
    BY <1>6 DEF ResyncArrives
  <2>2. k.op # "chmod"
    BY <1>1, <1>2 DEF Asks
  <2>3. call' = [call EXCEPT ![c] = NoCall] /\ own' = Noted(own, About(k), k.at) /\ want' = want
    BY <2>1, <2>2 DEF Returns
  <2>4. handle' \in [Clients -> Handles]
    <3> DEFINE h == [p |-> k.p, mode |-> k.mode, cached |-> FALSE, dirty |-> FALSE, open |-> TRUE]
    <3>1. h \in Handles
      BY <1>1 DEF CallRecords, Handles
    <3>2. handle' = handle \/ handle' = [handle EXCEPT ![c] = h]
      BY <2>1 DEF Returns
    <3> HIDE DEF h
    <3>3. QED
      BY <1>1, <3>1, <3>2 DEF TypeOK
  <2>5. \A p \in About(k) : p \in Paths /\ inval'[p] >= k.at
    BY <1>2, <1>4, <1>6, AllDropped
  <2>6. own \in [Paths -> Nat]
    BY <1>1 DEF TypeOK
  <2>7. own' \in [Paths -> Nat] /\ \A p \in Paths : own'[p] = own[p] \/ (p \in About(k) /\ own'[p] = k.at)
    BY <1>1, <2>3, <2>6, NotedIs
  <2>8. \A p \in Paths : own'[p] <= inval'[p]
    <3>1. ASSUME NEW p \in Paths PROVE own'[p] <= inval'[p]
      <4>1. own[p] <= inval[p] /\ inval'[p] >= inval[p]
        BY <1>4, <1>6 DEF IInv, Known, Later
      <4>2. own[p] \in Nat /\ inval[p] \in Nat /\ inval'[p] \in Nat
        BY <1>1, <1>4, <1>6 DEF TypeOK
      <4>3. QED
        BY <1>1, <2>5, <2>7, <4>1, <4>2
    <3>2. QED
      BY <3>1
  <2>9. /\ call' \in [Agents -> CallRecords] /\ req' \in [Agents -> Requests] /\ call'[c] = NoCall /\ req'[c] = NoReq
        /\ \A d \in Clients : d # c => call'[d] = call[d]
    BY <1>1, <1>4, <1>6, <2>3, AtRest DEF TypeOK, Agents
  <2>10. TypeOK'
    BY <1>1, <1>2, <1>4, <1>6, <2>3, <2>4, <2>7, <2>9 DEF TypeOK
  <2>11. NoneServed /\ Others(c)
    BY <1>1, <1>2, <1>4, <1>6, <2>9, AtRest, SendsOne DEF Others, Agents
  <2>12. Asks(call[c], req[c])'
    BY <2>9, AtRest DEF Asks
  <2>13. Drops(call[c], req[c])'
    <3>1. call'[c].pc = "idle" /\ call'[c].at = 0 /\ asof' \in Nat
      BY <2>9, <2>10, AtRest DEF TypeOK
    <3>2. call'[c].at <= asof'
      BY <3>1, NotNegative, Zenon
    <3>3. QED
      BY <3>1, <3>2 DEF Drops
  <2>14. ModeStep(c)
    <3>1. call'[c].pc = "idle"
      BY <2>9, AtRest
    <3>2. QED
      BY <3>1 DEF ModeStep
  <2>15. \A p \in Paths : want'[p] = want[p]
    BY <2>3
  <2>16. QED
    BY <1>1, <1>4, <1>6, <2>8, <2>10, <2>11, <2>12, <2>13, <2>14, <2>15, LocalLater
<1>7. QED
  BY <1>3, <1>5, <1>6

LEMMA OldNameStep ==
  ASSUME IInv, NEW c \in Clients, OldName(c)
  PROVE  IInv'
<1> DEFINE k == call[c]
<1>1. /\ TypeOK /\ c \in Agents /\ k \in CallRecords /\ k.p \in Paths /\ k.q \in Paths /\ k.at \in Nat
      /\ Asks(k, req[c]) /\ Drops(k, req[c])
  BY Context DEF CallRecords
<1>2. /\ k.pc = "old name" /\ UNCHANGED <<tree, asof, handle, own, want>>
      /\ cache' = Missed(Invalidated(k.p, TRUE), k.p, FALSE)
      /\ inval' = Noted(inval, {p \in Paths : Under(k.p, p)}, k.at)
      /\ call' = [call EXCEPT ![c] = [k EXCEPT !.pc = "resync old"]]
      /\ req' = [req EXCEPT ![c] = Dir(Front(k.p))]
  BY DEF OldName, Send
<1>3. k.op = "rename" /\ k.p # Root /\ k.q # Root
  BY <1>1, <1>2 DEF Asks
<1>4. Front(k.p) \in Paths /\ Front(k.q) \in Paths
  BY <1>1, <1>3, PathFacts
<1>5. inval \in [Paths -> Nat]
  BY <1>1 DEF TypeOK
<1>6. /\ inval' \in [Paths -> Nat] /\ \A p \in Paths : inval'[p] >= inval[p]
      /\ \A p \in Paths : Under(k.p, p) => inval'[p] >= k.at
      /\ \A p \in Paths : inval'[p] = inval[p] \/ Under(k.p, p)
  BY <1>1, <1>2, <1>5, NotedIs
<1> DEFINE gone == Invalidated(k.p, TRUE)
<1>7. gone \in [Paths -> CacheEntries] /\ gone[k.p] = NotCached /\ \A p \in Paths : gone[p] \in {cache[p], NotCached}
  BY <1>1, InvalidatedIs
<1>8. \A p \in Paths : Under(k.p, p) /\ Listed(k.p, p) => gone[p] = NotCached
  BY DEF Invalidated, Reached
<1>9. cache' = Missed(gone, k.p, FALSE)
  BY <1>2
<1> HIDE DEF gone
<1>10. /\ cache' \in [Paths -> CacheEntries]
       /\ \A p \in Paths : /\ cache'[p] = gone[p] \/ cache'[p].late
                           /\ Under(k.p, p) /\ p # k.p /\ ~Listed(k.p, p) => cache'[p] = NotCached \/ cache'[p].late
  BY <1>7, <1>9, MissedIs
<1>11. \A p \in Paths : EntryStep(p) /\ Dropped(p)
  <2>1. ASSUME NEW p \in Paths PROVE EntryStep(p)
    BY <1>7, <1>10 DEF EntryStep
  <2>2. ASSUME NEW p \in Paths PROVE Dropped(p)
    BY <1>6, <1>7, <1>8, <1>10 DEF Dropped
  <2>3. QED
    BY <2>1, <2>2
<1> DEFINE n == [k EXCEPT !.pc = "resync old"]
<1>12. n \in CallRecords /\ n.pc = "resync old" /\ n.op = "rename" /\ n.p = k.p /\ n.q = k.q /\ n.at = k.at
  BY <1>1, <1>3 DEF CallRecords
<1> DEFINE r == Dir(Front(k.p))
<1>13. r \in Requests /\ Fresh(r) /\ r.kind = "dir" /\ r.p = Front(k.p) /\ r.state = "sent"
  BY <1>4, ReadsAsk
<1>14. call' = [call EXCEPT ![c] = n] /\ req' = [req EXCEPT ![c] = r]
  BY <1>2
<1> HIDE DEF n, r
<1>15. /\ call' \in [Agents -> CallRecords] /\ req' \in [Agents -> Requests] /\ call'[c] = n /\ req'[c] = r
       /\ \A d \in Clients : d # c => call'[d] = call[d]
  BY <1>1, <1>12, <1>13, <1>14 DEF TypeOK, Agents
<1>16. TypeOK'
  BY <1>1, <1>2, <1>6, <1>10, <1>15 DEF TypeOK
<1>17. NoneServed /\ Others(c)
  BY <1>1, <1>2, <1>13, <1>14, <1>15, SendsOne DEF Others, Agents
<1>18. Asks(n, r)
  BY <1>3, <1>12, <1>13 DEF Asks
<1>19. Asks(call[c], req[c])'
  BY <1>15, <1>18 DEF Asks
<1>20. \A p \in Paths : Under(k.q, p) => inval'[p] >= k.at
  <2>1. ASSUME NEW p \in Paths, Under(k.q, p) PROVE inval'[p] >= k.at
    <3>1. inval[p] >= k.at /\ inval'[p] >= inval[p] /\ inval[p] \in Nat /\ inval'[p] \in Nat
      BY <1>1, <1>2, <1>3, <1>5, <1>6, <2>1 DEF Drops
    <3>2. QED
      BY <1>1, <3>1
  <2>2. QED
    BY <2>1
<1>21. inval'[Front(k.q)] >= k.at
  <2>1. inval[Front(k.q)] >= k.at /\ inval'[Front(k.q)] >= inval[Front(k.q)]
    BY <1>1, <1>2, <1>4, <1>6 DEF Drops
  <2>2. inval[Front(k.q)] \in Nat /\ inval'[Front(k.q)] \in Nat
    BY <1>4, <1>5, <1>6
  <2>3. QED
    BY <1>1, <2>1, <2>2
<1>22. Drops(call[c], req[c])'
  <2>1. n.at <= asof'
    BY <1>1, <1>2, <1>12 DEF Drops
  <2>2. QED
    BY <1>6, <1>12, <1>13, <1>15, <1>20, <1>21, <2>1 DEF Drops
<1>23. ModeStep(c)
  BY <1>12, <1>15 DEF ModeStep
<1>24. \A p \in Paths : own'[p] <= inval'[p]
  <2>1. ASSUME NEW p \in Paths PROVE own'[p] <= inval'[p]
    <3>1. own[p] <= inval[p] /\ inval'[p] >= inval[p] /\ own'[p] = own[p]
      BY <1>2, <1>6 DEF IInv, Known
    <3>2. own[p] \in Nat /\ inval[p] \in Nat /\ inval'[p] \in Nat
      BY <1>1, <1>5, <1>6 DEF TypeOK
    <3>3. QED
      BY <3>1, <3>2
  <2>2. QED
    BY <2>1
<1>25. \A p \in Paths : want'[p] = want[p]
  BY <1>2
<1>26. Later
  BY <1>6 DEF Later
<1>27. QED
  BY <1>1, <1>11, <1>16, <1>17, <1>19, <1>22, <1>23, <1>24, <1>25, <1>26, LocalLater

-----------------------------------------------------------------------------
(* Requests are served, or fail.                                           *)

\* The request of a is answered with s, and what is served may have changed
SameCall(k, n) == n.op = k.op /\ n.p = k.p /\ n.q = k.q /\ n.mode = k.mode /\ n.pc = k.pc
SameReq(r, n) == n.kind = r.kind /\ n.p = r.p /\ n.q = r.q /\ n.mode = r.mode /\ n.seen = r.seen /\ n.at = r.at
Answer(a, s) ==
  /\ req[a].state = "sent" /\ s \in {"ok", "refused", "failed"} /\ (s = "ok" => req[a].kind \in Changes)
  /\ SameReq(req[a], req'[a]) /\ req'[a].state = s
  /\ \A b \in Agents : b # a => req'[b] = req[b]
  /\ \A c \in Clients : c # a => call'[c] = call[c]
  /\ a \in Clients => /\ SameCall(call[a], call'[a])
                      /\ call'[a].at = call[a].at \/ (call'[a].at = asof' /\ req[a].kind \in Changes)
  /\ UNCHANGED <<cache, inval, own>>
  /\ (tree' = tree /\ asof' = asof) \/ asof' = asof + 1
\* What the change did, for the call that asked for it
Effect(a, s) ==
  a \in Clients /\ call[a].pc = "change" /\ s = "ok" =>
    /\ call[a].op = "rename" => call[a].q # Root
    /\ call[a].op = "chmod" /\ call[a].mode # NoMode => tree'[call[a].p].mode = call[a].mode

\* Where a call is when a change of its is on the way
LEMMA WhereChanges ==
  ASSUME NEW k, NEW r, Asks(k, r), r.kind \in Changes, r.state # "no"
  PROVE  /\ k.pc \notin {"idle", "stat", "fs stat", "readdir", "open", "resync", "old name", "resync old", "panic"}
         /\ k.op = "close" => k.pc = "put"
<1>1. r.kind # "head" /\ r.kind # "dir" /\ r.kind # "get"
  BY DEF Changes
<1>2. k.pc \notin {"idle", "stat", "fs stat", "readdir", "open", "resync", "old name", "resync old", "panic"}
  BY <1>1 DEF Asks
<1>3. QED
  BY <1>2 DEF Asks

LEMMA AnswerAsks ==
  ASSUME NEW k, NEW n, NEW r, NEW t, SameCall(k, n), SameReq(r, t), Asks(k, r), r.state = "sent", t.state # "no",
         k.pc = "change" /\ k.op = "rename" /\ t.state = "ok" => k.q # Root
  PROVE  Asks(n, t)
<1>1. n.pc \notin {"idle", "old name", "panic"}
  BY DEF Asks, SameCall
<1>2. n.pc = "stat" => (t.kind \in {"head", "dir"} /\ t.p = n.p)
  BY DEF Asks, SameCall, SameReq
<1>3. (n.pc = "fs stat" => t.kind = "head" /\ t.p = n.p) /\ (n.pc \in {"readdir", "open"} => t.kind = "get")
  BY DEF Asks, SameCall, SameReq
<1>4. n.pc = "put" => (t.kind = "put" /\ t.p = n.p /\ t.mode = n.mode) /\ n.op = "close"
  BY DEF Asks, SameCall, SameReq
<1>5. n.pc = "change" =>
        /\ n.p # Root
        /\ n.op = "rename" => t.kind = "move" /\ t.q = n.q /\ (t.state = "ok" => n.q # Root)
        /\ n.op = "chmod" => t.kind = "chmod" /\ t.p = n.p /\ t.mode = n.mode
  BY DEF Asks, SameCall, SameReq
<1>6. n.pc = "resync" => t.kind = "dir" /\ n.p # Root /\ t.p = Front(IF n.op = "rename" THEN n.q ELSE n.p)
  BY DEF Asks, SameCall, SameReq
<1>7. n.pc = "resync old" => t.kind = "dir" /\ t.p = Front(n.p) /\ n.op = "rename" /\ n.p # Root
  BY DEF Asks, SameCall, SameReq
<1>8. /\ n.op = "close" => n.pc \in {"stat", "fs stat", "put", "panic"}
      /\ n.pc \in {"resync", "resync old"} => n.op \notin {"chmod", "patch"}
      /\ n.pc \in {"resync", "old name", "resync old"} /\ n.op = "rename" => n.q # Root
  BY DEF Asks, SameCall
<1>9. QED
  BY <1>1, <1>2, <1>3, <1>4, <1>5, <1>6, <1>7, <1>8 DEF Asks

LEMMA AtMost == \A a, b, n \in Nat : a <= b /\ b <= n => a <= n
OBVIOUS

LEMMA AnswerCalls ==
  ASSUME IInv, TypeOK', NEW a \in Agents, NEW s, Answer(a, s), Effect(a, s)
  PROVE  CallsOK'
<1>1. TypeOK /\ asof \in Nat /\ asof' \in Nat /\ asof <= asof'
  BY DEF IInv, TypeOK, Answer
<1>2. ASSUME NEW c \in Clients PROVE Asks(call[c], req[c])' /\ Drops(call[c], req[c])'
  <2>1. /\ c \in Agents /\ call[c] \in CallRecords /\ Asks(call[c], req[c]) /\ Drops(call[c], req[c])
        /\ inval' = inval
    BY Context DEF Answer
  <2>2. call[c].at \in Nat
    BY <2>1 DEF CallRecords
  <2>3. call[c].at <= asof'
    <3>1. call[c].at <= asof
      BY <2>1 DEF Drops
    <3>2. QED
      BY <1>1, <2>2, <3>1, AtMost, Zenon
  <2>4. CASE c # a
    <3>1. call'[c] = call[c] /\ req'[c] = req[c]
      BY <2>1, <2>4 DEF Answer
    <3>2. Asks(call[c], req[c])'
      BY <2>1, <3>1 DEF Asks
    <3>3. Drops(call[c], req[c])'
      BY <2>1, <2>3, <3>1 DEF Drops
    <3>4. QED
      BY <3>2, <3>3
  <2>5. CASE c = a
    <3>1. /\ SameCall(call[c], call'[c]) /\ SameReq(req[c], req'[c]) /\ req[c].state = "sent"
          /\ req'[c].state = s /\ s \in {"ok", "refused", "failed"} /\ (s = "ok" => req[c].kind \in Changes)
          /\ call'[c].at = call[c].at \/ (call'[c].at = asof' /\ req[c].kind \in Changes)
      BY <2>5 DEF Answer
    <3>2. call[c].pc = "change" /\ call[c].op = "rename" /\ req'[c].state = "ok" => call[c].q # Root
      BY <2>5, <3>1 DEF Effect
    <3> DEFINE n == call'[c]
    <3> DEFINE t == req'[c]
    <3>3. Asks(n, t)
      <4>1. t.state # "no"
        BY <3>1
      <4>2. QED
        BY <2>1, <3>1, <3>2, <4>1, AnswerAsks
    <3>4. Asks(call[c], req[c])'
      BY <3>3 DEF Asks
    <3>5. CASE req[c].kind \in Changes
      <4>1. call'[c].pc \notin {"resync", "old name", "resync old"}
        BY <2>1, <3>1, <3>5, WhereChanges DEF SameCall
      <4>2. call'[c].at <= asof'
        BY <1>1, <2>3, <3>1
      <4>3. Drops(call[c], req[c])'
        BY <4>1, <4>2 DEF Drops
      <4>4. QED
        BY <3>4, <4>3
    <3>6. CASE req[c].kind \notin Changes
      <4>1. call'[c].at = call[c].at /\ req'[c].state # "ok"
        BY <3>1, <3>6
      <4>2. Drops(call[c], req[c])'
        BY <2>1, <2>3, <3>1, <4>1 DEF Drops, SameCall
      <4>3. QED
        BY <3>4, <4>2
    <3>7. QED
      BY <3>5, <3>6
  <2>6. QED
    BY <2>4, <2>5
<1>3. QED
  BY <1>2 DEF CallsOK

LEMMA AnswerAnswers ==
  ASSUME IInv, NEW a \in Agents, NEW s, Answer(a, s)
  PROVE  Answers'
<1>1. TypeOK /\ asof \in Nat
  BY DEF IInv, TypeOK
<1>2. ASSUME NEW b \in Agents PROVE SeenOK(req[b])'
  <2>1. SeenOK(req[b]) /\ req[b] \in Requests
    BY <1>1 DEF IInv, Answers, TypeOK
  <2>2. req[b].at \in Nat
    BY <2>1 DEF Requests
  <2>3. req[b].at <= asof
    BY <2>1 DEF SeenOK
  <2>4. req[b].at <= asof' /\ (req[b].at = asof' => asof' = asof /\ tree' = tree)
    BY <1>1, <2>2, <2>3 DEF Answer
  <2>5. CASE b # a
    <3>1. req'[b] = req[b]
      BY <2>5 DEF Answer
    <3>2. QED
      BY <2>1, <2>4, <3>1 DEF SeenOK
  <2>6. CASE b = a
    <3>1. SameReq(req[b], req'[b]) /\ req[b].state = "sent" /\ req'[b].state = s /\ (s = "ok" => req[b].kind \in Changes)
      BY <2>6 DEF Answer
    <3>2. req'[b].at = req[b].at /\ req'[b].seen = {} /\ req'[b].kind = req[b].kind /\ req[b].kind # "no"
      BY <2>1, <3>1 DEF SeenOK, SameReq
    <3>3. req'[b].state = "ok" => req'[b].kind \in Changes /\ req'[b].kind # "dir"
      BY <3>1, <3>2 DEF Changes
    <3>4. QED
      BY <2>4, <3>2, <3>3 DEF SeenOK
  <2>7. QED
    BY <2>5, <2>6
<1>3. QED
  BY <1>2 DEF Answers

LEMMA AnswerModes ==
  ASSUME IInv, TypeOK', NEW a \in Agents, NEW s, Answer(a, s), Effect(a, s),
         \A p \in Paths : want'[p] = want[p] \/ want'[p] = NoMode, KeepsMode'
  PROVE  ModesKept'
<1>1. TypeOK /\ asof \in Nat /\ ModesKept /\ UNCHANGED <<cache, inval, own>>
  BY DEF IInv, TypeOK, Answer
<1>2. CachedMode'
  BY <1>1 DEF ModesKept, CachedMode
<1>3. \A b \in Agents : req'[b].seen = req[b].seen
  BY DEF Answer, SameReq
<1>4. \A c \in Clients : SameCall(call[c], call'[c])
  BY DEF Answer, SameCall
<1>5. SeenMode'
  <2>1. ASSUME NEW b \in Agents, NEW x \in req'[b].seen, want'[x[1]] # NoMode, x[2].asof >= inval'[x[1]]
        PROVE  x[2].mode = want'[x[1]]
    <3>1. x \in req[b].seen /\ req[b] \in Requests
      BY <1>1, <1>3, <2>1 DEF TypeOK
    <3>2. x[1] \in Paths
      BY <3>1 DEF Requests
    <3>3. QED
      BY <1>1, <2>1, <3>1, <3>2 DEF ModesKept, SeenMode
  <2>2. QED
    BY <2>1 DEF SeenMode
<1>6. ClosingMode'
  <2>1. ASSUME NEW d \in Clients, call'[d].op = "close", call'[d].pc \in {"stat", "fs stat"},
               NEW x \in req'[d].seen, x[1] = call'[d].p, want'[x[1]] # NoMode
        PROVE  x[2].mode = want'[x[1]]
    <3>1. d \in Agents /\ SameCall(call[d], call'[d]) /\ call[d].p \in Paths
      BY <1>4, Context
    <3>2. x \in req[d].seen /\ x[1] = call[d].p /\ call[d].op = "close" /\ call[d].pc \in {"stat", "fs stat"}
      BY <1>3, <2>1, <3>1 DEF SameCall
    <3>3. want'[x[1]] = want[x[1]]
      BY <2>1, <3>1, <3>2
    <3>4. QED
      BY <1>1, <2>1, <3>2, <3>3 DEF ModesKept, ClosingMode
  <2>2. QED
    BY <2>1 DEF ClosingMode
<1>7. PutMode'
  <2>1. ASSUME NEW d \in Clients, call'[d].pc = "put", want'[call'[d].p] # NoMode
        PROVE  call'[d].mode = want'[call'[d].p]
    <3>1. SameCall(call[d], call'[d]) /\ call[d].p \in Paths
      BY <1>4, Context
    <3>2. call[d].pc = "put" /\ call'[d].p = call[d].p /\ call'[d].mode = call[d].mode
      BY <2>1, <3>1 DEF SameCall
    <3>3. want'[call[d].p] = want[call[d].p]
      BY <2>1, <3>1, <3>2
    <3>4. QED
      BY <1>1, <2>1, <3>2, <3>3 DEF ModesKept, PutMode
  <2>2. QED
    BY <2>1 DEF PutMode
<1>8. ChmodMode'
  <2>1. ASSUME NEW d \in Clients, call'[d].op = "chmod", call'[d].pc = "change", req'[d].state = "ok",
               call'[d].at = asof', call'[d].mode # NoMode
        PROVE  tree'[call'[d].p].mode = call'[d].mode
    <3>1. /\ SameCall(call[d], call'[d]) /\ d \in Agents /\ Drops(call[d], req[d]) /\ call[d] \in CallRecords
      BY <1>4, Context
    <3>2. CASE d = a
      <4>1. s = "ok" /\ call[a].pc = "change" /\ call[a].op = "chmod" /\ call[a].mode # NoMode
        BY <2>1, <3>1, <3>2 DEF Answer, SameCall
      <4>2. tree'[call[a].p].mode = call[a].mode
        BY <3>2, <4>1 DEF Effect
      <4>3. QED
        BY <3>1, <3>2, <4>2 DEF SameCall
    <3>3. CASE d # a
      <4>1. call'[d] = call[d] /\ req'[d] = req[d]
        BY <3>1, <3>3 DEF Answer
      <4>2. call[d].at <= asof /\ call[d].at \in Nat
        BY <3>1 DEF Drops, CallRecords
      <4>3. asof' = asof /\ tree' = tree
        BY <1>1, <2>1, <4>1, <4>2 DEF Answer
      <4>4. QED
        BY <1>1, <2>1, <4>1, <4>3 DEF ModesKept, ChmodMode
    <3>4. QED
      BY <3>2, <3>3
  <2>2. QED
    BY <2>1 DEF ChmodMode
<1>9. QED
  BY <1>2, <1>5, <1>6, <1>7, <1>8 DEF ModesKept

LEMMA AnswerStep ==
  ASSUME IInv, TypeOK', NEW a \in Agents, NEW s, Answer(a, s), Effect(a, s),
         \A p \in Paths : want'[p] = want[p] \/ want'[p] = NoMode, KeepsMode'
  PROVE  IInv'
<1>1. CallsOK' /\ Answers' /\ ModesKept'
  BY AnswerCalls, AnswerAnswers, AnswerModes
<1>2. Known'
  BY DEF IInv, Known, Answer
<1>3. QED
  BY <1>1, <1>2 DEF IInv

\* What a read finds is what is served
LEMMA ReadStep ==
  ASSUME IInv, NEW a \in Agents, Serve(a), req[a].kind \notin Changes
  PROVE  IInv'
<1> DEFINE r == req[a]
<1> DEFINE n == [r EXCEPT !.seen = Seen(r), !.at = asof, !.state = IF Seen(r) = {} THEN "refused" ELSE "ok"]
<1>1. TypeOK /\ r \in Requests /\ SeenOK(r) /\ asof \in Nat /\ ModesKept
  BY DEF IInv, TypeOK, Answers
<1>2. /\ r.state = "sent" /\ req' = [req EXCEPT ![a] = n]
      /\ UNCHANGED <<tree, asof, cache, call, handle, inval, own, want>>
  BY DEF Serve
<1>3. r.kind \in {"get", "head", "tree", "dir"}
  BY <1>1, <1>2 DEF SeenOK, Requests
<1>4. /\ Seen(r) \in SUBSET (Paths \X CacheEntries)
      /\ \A x \in Seen(r) : x[2].asof = asof /\ x[2].mode = tree[x[1]].mode
      /\ r.kind \in {"head", "get"} => \A x \in Seen(r) : x[1] = r.p
      /\ r.kind = "dir" /\ Seen(r) # {} => \E x \in Seen(r) : x[1] = r.p
  BY <1>1, <1>3, SeenIs
<1>5. /\ n \in Requests /\ n.kind = r.kind /\ n.p = r.p /\ n.q = r.q /\ n.mode = r.mode
      /\ n.seen = Seen(r) /\ n.at = asof
      /\ n.state = IF Seen(r) = {} THEN "refused" ELSE "ok"
  BY <1>1, <1>4 DEF Requests
<1> HIDE DEF n
<1>6. req' \in [Agents -> Requests] /\ req'[a] = n /\ \A b \in Agents : b # a => req'[b] = req[b]
  BY <1>1, <1>2, <1>5 DEF TypeOK
<1>7. TypeOK'
  BY <1>1, <1>2, <1>6 DEF TypeOK
<1>8. ASSUME NEW c \in Clients PROVE Asks(call[c], req[c])' /\ Drops(call[c], req[c])'
  <2>1. c \in Agents /\ Asks(call[c], req[c]) /\ Drops(call[c], req[c]) /\ call'[c] = call[c]
    BY <1>2, Context
  <2>2. CASE c # a
    <3>1. req'[c] = req[c]
      BY <1>6, <2>1, <2>2
    <3>2. Asks(call[c], req[c])'
      BY <2>1, <3>1 DEF Asks
    <3>3. Drops(call[c], req[c])'
      BY <1>2, <2>1, <3>1 DEF Drops
    <3>4. QED
      BY <3>2, <3>3
  <2>3. CASE c = a
    <3> DEFINE k == call[c]
    <3>1. ~(k.pc = "change" /\ k.op = "rename") /\ Asks(k, r) /\ Drops(k, r)
      BY <2>1, <2>3 DEF Asks, Changes
    <3>2. SameCall(k, k)
      BY DEF SameCall
    <3>3. Asks(k, n)
      <4>1. n.state # "no" /\ k.pc \notin {"idle", "old name", "panic"}
        BY <1>2, <1>5, <3>1 DEF Asks
      <4>2. /\ k.pc = "stat" => n.kind \in {"head", "dir"} /\ n.p = k.p
            /\ k.pc = "fs stat" => n.kind = "head" /\ n.p = k.p
            /\ k.pc \in {"readdir", "open"} => n.kind = "get"
            /\ k.pc = "put" => n.kind = "put" /\ n.p = k.p /\ n.mode = k.mode
        BY <1>2, <1>5, <3>1 DEF Asks
      <4>3. /\ k.pc = "change" => k.p # Root /\ k.op # "rename"
            /\ k.pc = "change" /\ k.op = "chmod" => n.kind = "chmod" /\ n.p = k.p /\ n.mode = k.mode
        BY <1>5, <3>1 DEF Asks
      <4>4. /\ k.pc = "resync" => n.kind = "dir" /\ k.p # Root /\ n.p = Front(IF k.op = "rename" THEN k.q ELSE k.p)
            /\ k.pc = "resync old" => n.kind = "dir" /\ n.p = Front(k.p) /\ k.op = "rename" /\ k.p # Root
        BY <1>5, <3>1 DEF Asks
      <4>5. QED
        BY <3>1, <4>1, <4>2, <4>3, <4>4 DEF Asks
    <3>4. Asks(call[c], req[c])'
      BY <1>6, <2>1, <2>3, <3>3, ZenonT(60) DEF Asks
    <3>5. k.at <= asof
      BY <3>1 DEF Drops
    <3>6. Drops(call[c], req[c])'
      BY <1>1, <1>2, <1>5, <1>6, <2>1, <2>3, <3>5 DEF Drops
    <3>7. QED
      BY <3>4, <3>6
  <2>4. QED
    BY <2>2, <2>3
<1>9. CallsOK'
  BY <1>8 DEF CallsOK
<1>10. ASSUME NEW b \in Agents PROVE SeenOK(req[b])'
  <2>1. CASE b # a
    <3>1. SeenOK(req[b]) /\ req'[b] = req[b]
      BY <1>6, <2>1 DEF IInv, Answers
    <3>2. QED
      BY <1>2, <3>1 DEF SeenOK
  <2>2. CASE b = a
    <3>1. n.kind \in {"get", "head", "tree", "dir"} /\ n.kind # "no"
      BY <1>3, <1>5
    <3>2. n.at <= asof
      BY <1>1, <1>5
    <3>3. SeenOK(n)
      BY <1>4, <1>5, <3>1, <3>2 DEF SeenOK
    <3>4. QED
      BY <1>2, <1>6, <2>2, <3>3 DEF SeenOK
  <2>3. QED
    BY <2>1, <2>2
<1>11. Answers'
  BY <1>10 DEF Answers
<1>12. Known'
  BY <1>2 DEF IInv, Known
<1>13. \A x \in Seen(r) : x[1] \in Paths /\ (want[x[1]] # NoMode => x[2].mode = want[x[1]])
  BY <1>1, <1>4 DEF ModesKept, KeepsMode
<1>14. KeepsMode' /\ CachedMode'
  BY <1>1, <1>2 DEF ModesKept, KeepsMode, CachedMode
<1>15. SeenMode'
  <2>1. ASSUME NEW b \in Agents, NEW x \in req'[b].seen, want'[x[1]] # NoMode, x[2].asof >= inval'[x[1]]
        PROVE  x[2].mode = want'[x[1]]
    <3>1. CASE b = a
      <4>1. x \in Seen(r)
        BY <1>5, <1>6, <2>1, <3>1
      <4>2. QED
        BY <1>2, <1>13, <2>1, <4>1
    <3>2. CASE b # a
      <4>1. x \in req[b].seen
        BY <1>6, <2>1, <3>2
      <4>2. QED
        BY <1>1, <1>2, <2>1, <4>1 DEF ModesKept, SeenMode
    <3>3. QED
      BY <3>1, <3>2
  <2>2. QED
    BY <2>1 DEF SeenMode
<1>16. ClosingMode'
  <2>1. ASSUME NEW d \in Clients, call'[d].op = "close", call'[d].pc \in {"stat", "fs stat"},
               NEW x \in req'[d].seen, x[1] = call'[d].p, want'[x[1]] # NoMode
        PROVE  x[2].mode = want'[x[1]]
    <3>1. CASE d = a
      <4>1. x \in Seen(r)
        BY <1>5, <1>6, <2>1, <3>1
      <4>2. QED
        BY <1>2, <1>13, <2>1, <4>1
    <3>2. CASE d # a
      <4>1. x \in req[d].seen /\ call'[d] = call[d]
        BY <1>2, <1>6, <2>1, <3>2 DEF Agents
      <4>2. QED
        BY <1>1, <1>2, <2>1, <4>1 DEF ModesKept, ClosingMode
    <3>3. QED
      BY <3>1, <3>2
  <2>2. QED
    BY <2>1 DEF ClosingMode
<1>17. PutMode'
  BY <1>1, <1>2 DEF ModesKept, PutMode
<1>18. ChmodMode'
  <2>1. ASSUME NEW d \in Clients, call'[d].op = "chmod", call'[d].pc = "change", req'[d].state = "ok",
               call'[d].at = asof', call'[d].mode # NoMode
        PROVE  tree'[call'[d].p].mode = call'[d].mode
    <3>1. call'[d] = call[d] /\ Asks(call[d], req[d]) /\ d \in Agents
      BY <1>2, Context
    <3>2. req[d].kind = "chmod"
      BY <2>1, <3>1 DEF Asks
    <3>3. d # a
      BY <3>2 DEF Changes
    <3>4. req'[d] = req[d]
      BY <1>6, <3>1, <3>3
    <3>5. QED
      BY <1>1, <1>2, <2>1, <3>1, <3>4 DEF ModesKept, ChmodMode
  <2>2. QED
    BY <2>1 DEF ChmodMode
<1>19. ModesKept'
  BY <1>14, <1>15, <1>16, <1>17, <1>18 DEF ModesKept
<1>20. QED
  BY <1>7, <1>9, <1>11, <1>12, <1>19 DEF IInv

\* A request that is answered is the request it was
LEMMA AnswerTypes ==
  ASSUME TypeOK, NEW a \in Agents, NEW s \in {"ok", "refused", "failed"}, req' = [req EXCEPT ![a] = [req[a] EXCEPT !.state = s]]
  PROVE  /\ req' \in [Agents -> Requests] /\ SameReq(req[a], req'[a]) /\ req'[a].state = s
         /\ \A b \in Agents : b # a => req'[b] = req[b]
<1> DEFINE n == [req[a] EXCEPT !.state = s]
<1>1. req[a] \in Requests /\ req \in [Agents -> Requests]
  BY DEF TypeOK
<1>2. n \in Requests /\ SameReq(req[a], n) /\ n.state = s
  BY <1>1 DEF Requests, SameReq
<1>3. req' = [req EXCEPT ![a] = n]
  OBVIOUS
<1> HIDE DEF n
<1>4. QED
  BY <1>1, <1>2, <1>3

\* A close that is served keeps the mode that is asked for
LEMMA CloseKeeps ==
  ASSUME IInv, NEW a \in Clients, req[a].kind \in Changes, req[a].state = "sent", call[a].op = "close",
         tree' = Made(req[a]), NEW p \in Paths, want[p] # NoMode
  PROVE  tree'[p].mode = want[p]
<1> DEFINE k == call[a]
<1> DEFINE r == req[a]
<1>1. TypeOK /\ Asks(k, r) /\ ModesKept
  BY Context DEF IInv
<1>2. k.pc = "put"
  BY <1>1, WhereChanges
<1>3. r.kind = "put" /\ r.p = k.p /\ r.mode = k.mode
  BY <1>1, <1>2 DEF Asks
<1>4. tree' = HandlePut(k.p, "put", k.mode)
  BY <1>3 DEF Made
<1>5. p = k.p => tree'[p].mode = k.mode
  BY <1>1, <1>4 DEF HandlePut, TypeOK
<1>6. p # k.p => tree'[p] = tree[p]
  BY <1>1, <1>4 DEF HandlePut, TypeOK
<1>7. want[k.p] # NoMode => k.mode = want[k.p]
  BY <1>1, <1>2 DEF ModesKept, PutMode
<1>8. tree[p].mode = want[p]
  BY <1>1 DEF ModesKept, KeepsMode
<1>9. QED
  BY <1>5, <1>6, <1>7, <1>8

LEMMA ChangeStep ==
  ASSUME IInv, NEW a \in Agents, Serve(a), req[a].kind \in Changes
  PROVE  IInv'
<1> DEFINE r == req[a]
<1> DEFINE s == IF Can(r) THEN "ok" ELSE "refused"
<1>1. TypeOK /\ r \in Requests /\ asof \in Nat /\ call[a] \in CallRecords /\ want \in [Paths -> ModesOf] /\ ModesKept
  BY DEF IInv, TypeOK
<1>2. /\ r.state = "sent" /\ req' = [req EXCEPT ![a] = [req[a] EXCEPT !.state = s]]
      /\ (Can(r) /\ tree' = Made(r) /\ asof' = asof + 1) \/ (~Can(r) /\ tree' = tree /\ asof' = asof)
      /\ want' = Asked(a, r) /\ call' = [call EXCEPT ![a] = [call[a] EXCEPT !.at = asof']]
      /\ UNCHANGED <<cache, handle, inval, own>>
  BY DEF Serve
<1>3. s \in {"ok", "refused"} /\ (s = "ok" <=> Can(r))
  OBVIOUS
<1> HIDE DEF s
<1>4. /\ req' \in [Agents -> Requests] /\ SameReq(req[a], req'[a]) /\ req'[a].state = s
      /\ \A b \in Agents : b # a => req'[b] = req[b]
  BY <1>1, <1>2, <1>3, AnswerTypes
<1> DEFINE n == [call[a] EXCEPT !.at = asof']
<1>5. asof' \in Nat
  BY <1>1, <1>2
<1>6. n \in CallRecords /\ SameCall(call[a], n) /\ n.at = asof'
  BY <1>1, <1>5 DEF CallRecords, SameCall
<1>7. call' = [call EXCEPT ![a] = n]
  BY <1>2
<1> HIDE DEF n
<1>8. call' \in [Agents -> CallRecords] /\ call'[a] = n /\ \A c \in Clients : c # a => call'[c] = call[c]
  BY <1>1, <1>6, <1>7 DEF TypeOK, Agents
<1>9. tree' \in [Paths -> Nodes]
  BY <1>1, <1>2, MadeTypes DEF TypeOK
<1>10. /\ want' \in [Paths -> ModesOf]
       /\ \A p \in Paths : want'[p] = want[p] \/ want'[p] = NoMode
       /\ \A p \in Paths : want'[p] # NoMode => tree'[p] = tree[p] \/ (a \in Clients /\ call[a].op = "close")
  <2>1. NoMode \in ModesOf
    BY DEF ModesOf
  <2>2. QED
    BY <1>1, <1>2, <2>1 DEF Asked
<1>11. TypeOK'
  BY <1>1, <1>2, <1>4, <1>5, <1>8, <1>9, <1>10 DEF TypeOK
<1>12. KeepsMode'
  <2>1. ASSUME NEW p \in Paths, want'[p] # NoMode PROVE tree'[p].mode = want'[p]
    <3>1. want'[p] = want[p] /\ tree[p].mode = want[p]
      BY <1>1, <1>10, <2>1 DEF ModesKept, KeepsMode
    <3>2. CASE tree'[p] = tree[p]
      BY <3>1, <3>2
    <3>3. CASE tree'[p] # tree[p]
      <4>1. a \in Clients /\ call[a].op = "close" /\ tree' = Made(r)
        BY <1>2, <1>10, <2>1, <3>3
      <4>2. QED
        BY <1>2, <2>1, <3>1, <4>1, CloseKeeps
    <3>4. QED
      BY <3>2, <3>3
  <2>2. QED
    BY <2>1 DEF KeepsMode
<1>13. Answer(a, s)
  BY <1>2, <1>3, <1>4, <1>6, <1>8 DEF Answer
<1>14. Effect(a, s)
  <2>1. ASSUME a \in Clients, call[a].pc = "change", s = "ok"
        PROVE  /\ call[a].op = "rename" => call[a].q # Root
               /\ call[a].op = "chmod" /\ call[a].mode # NoMode => tree'[call[a].p].mode = call[a].mode
    <3>1. Asks(call[a], r) /\ Can(r) /\ tree' = Made(r) /\ call[a].p \in Paths
      BY <1>2, <1>3, <2>1, Context
    <3>2. ASSUME call[a].op = "rename" PROVE call[a].q # Root
      <4>1. r.kind = "move" /\ r.q = call[a].q
        BY <2>1, <3>1, <3>2 DEF Asks
      <4>2. CanMove(r.p, r.q)
        BY <3>1, <4>1 DEF Can
      <4>3. QED
        BY <4>1, <4>2 DEF CanMove, ParentIsDir
    <3>3. ASSUME call[a].op = "chmod", call[a].mode # NoMode PROVE tree'[call[a].p].mode = call[a].mode
      <4>1. r.kind = "chmod" /\ r.p = call[a].p /\ r.mode = call[a].mode
        BY <2>1, <3>1, <3>3 DEF Asks
      <4>2. tree' = [tree EXCEPT ![call[a].p].mode = call[a].mode]
        BY <3>1, <3>3, <4>1 DEF Made, UpdateMetadata
      <4>3. tree[call[a].p] \in Nodes /\ tree \in [Paths -> Nodes]
        BY <1>1, <3>1 DEF TypeOK
      <4>4. QED
        BY <3>1, <4>2, <4>3 DEF Nodes
    <3>4. QED
      BY <3>2, <3>3
  <2>2. QED
    BY <2>1 DEF Effect
<1>15. QED
  BY <1>10, <1>11, <1>12, <1>13, <1>14, AnswerStep

LEMMA FailStep ==
  ASSUME IInv, NEW a \in Agents, Fail(a)
  PROVE  IInv'
<1> DEFINE r == req[a]
<1>1. TypeOK /\ r \in Requests /\ r.p \in Paths /\ asof \in Nat /\ want \in [Paths -> ModesOf] /\ ModesKept
  BY DEF IInv, TypeOK, Requests
<1>2. /\ r.state = "sent" /\ req' = [req EXCEPT ![a] = [req[a] EXCEPT !.state = "failed"]]
      /\ UNCHANGED <<cache, call, handle, inval, own>>
  BY DEF Fail
<1>3. /\ req' \in [Agents -> Requests] /\ SameReq(req[a], req'[a]) /\ req'[a].state = "failed"
      /\ \A b \in Agents : b # a => req'[b] = req[b]
  BY <1>1, <1>2, AnswerTypes
<1>4. /\ tree' \in [Paths -> Nodes] /\ asof' \in Nat
      /\ (tree' = tree /\ asof' = asof) \/ asof' = asof + 1
      /\ want' \in [Paths -> ModesOf]
      /\ \A p \in Paths : want'[p] = want[p] \/ want'[p] = NoMode
      /\ \A p \in Paths : want'[p] # NoMode => tree'[p] = tree[p]
  <2>1. CASE UNCHANGED <<tree, asof, want>>
    BY <1>1, <2>1 DEF TypeOK
  <2>2. CASE ~UNCHANGED <<tree, asof, want>>
    <3> DEFINE mode == IF Exists(r.p) THEN tree[r.p].mode ELSE 0
    <3>1. /\ r.kind \in Changes /\ asof' = asof + 1
          /\ tree' = Made(r) \/ (r.kind \in {"put", "mkdir"} /\ tree' = HandlePut(r.p, r.kind, mode))
          /\ want' = [p \in Paths |-> IF tree'[p] # tree[p] THEN NoMode ELSE want[p]]
      BY <2>2 DEF Fail
    <3>2. mode \in ModesOf
      BY <1>1 DEF TypeOK, Nodes, ModesOf
    <3> HIDE DEF mode
    <3>3. tree' \in [Paths -> Nodes]
      BY <1>1, <3>1, <3>2, MadeTypes, PutTypes
    <3>4. NoMode \in ModesOf
      BY DEF ModesOf
    <3>5. /\ want' \in [Paths -> ModesOf]
          /\ \A p \in Paths : want'[p] = want[p] \/ want'[p] = NoMode
          /\ \A p \in Paths : want'[p] # NoMode => tree'[p] = tree[p]
      BY <1>1, <3>1, <3>4
    <3>6. QED
      BY <1>1, <3>1, <3>3, <3>5
  <2>3. QED
    BY <2>1, <2>2
<1>5. TypeOK'
  BY <1>1, <1>2, <1>3, <1>4 DEF TypeOK
<1>6. KeepsMode'
  BY <1>1, <1>4 DEF ModesKept, KeepsMode
<1>7. SameCall(call[a], call'[a]) /\ call'[a].at = call[a].at
  BY <1>2 DEF SameCall
<1>8. Answer(a, "failed")
  BY <1>2, <1>3, <1>4, <1>7 DEF Answer
<1>9. Effect(a, "failed")
  BY DEF Effect
<1>10. QED
  BY <1>4, <1>5, <1>6, <1>8, <1>9, AnswerStep

-----------------------------------------------------------------------------
(* The theorems.                                                           *)

LEMMA Starts == Init => IInv
<1> SUFFICES ASSUME Init PROVE IInv
  OBVIOUS
<1>1. Modes \cup {0} \subseteq ModesOf /\ NoMode \in ModesOf
  BY DEF ModesOf
<1>2. /\ tree = Stored /\ asof = 0 /\ cache = [p \in Paths |-> NotCached]
      /\ call = [a \in Agents |-> NoCall] /\ req = [a \in Agents |-> NoReq]
      /\ handle = [c \in Clients |-> NoHandle]
      /\ inval = [p \in Paths |-> 0] /\ own = [p \in Paths |-> 0] /\ want = [p \in Paths |-> NoMode]
  BY DEF Init
<1>3. Stored \in [Paths -> Nodes]
  BY <1>1, StoredAssumption DEF Nodes
<1>4. TypeOK
  BY <1>1, <1>2, <1>3, Constants DEF TypeOK
<1>5. \A c \in Clients : call[c] = NoCall /\ req[c] = NoReq
  BY <1>2 DEF Agents
<1>6. ASSUME NEW c \in Clients PROVE Drops(call[c], req[c])
  <2>1. call[c].pc = "idle" /\ call[c].at = 0
    BY <1>5, Constants
  <2>2. call[c].at <= asof
    BY <1>2, <2>1
  <2>3. QED
    BY <2>1, <2>2 DEF Drops
<1>7. CallsOK
  BY <1>5, <1>6, AtRest DEF CallsOK
<1>8. SeenOK(NoReq)
  BY <1>2, Constants DEF SeenOK
<1>9. Answers
  BY <1>2, <1>8 DEF Answers
<1>10. Known
  BY <1>2 DEF Known
<1>11. \A p \in Paths : want[p] = NoMode
  BY <1>2
<1>12. KeepsMode /\ CachedMode
  BY <1>11 DEF KeepsMode, CachedMode
<1>13. SeenMode /\ ClosingMode
  BY <1>2, <1>5, Constants DEF SeenMode, ClosingMode
<1>14. PutMode /\ ChmodMode
  BY <1>5, Constants DEF PutMode, ChmodMode
<1>15. QED
  BY <1>4, <1>7, <1>9, <1>10, <1>12, <1>13, <1>14 DEF IInv, ModesKept

LEMMA Steps == IInv /\ [Next]_vars => IInv'
<1> SUFFICES ASSUME IInv, [Next]_vars PROVE IInv'
  OBVIOUS
<1>1. ASSUME NEW c \in Clients,
             \/ Calls(c) \/ StatHit(c) \/ StatMiss(c) \/ StatPanics(c) \/ StatArrives(c) \/ ReadDir(c) \/ Opens(c)
      PROVE  IInv'
  BY <1>1, BeginsWell, StatHitStep, StatMissStep, StatPanicsStep, StatArrivesStep, ReadDirStep, OpensStep
<1>2. ASSUME NEW c \in Clients, ChangeArrives(c) \/ ResyncArrives(c) \/ OldName(c)
      PROVE  IInv'
  BY <1>2, ChangeArrivesStep, ResyncArrivesStep, OldNameStep
<1>3. ASSUME NEW c \in Clients, Write(c) \/ Close(c) \/ FSStatArrives(c) \/ Put(c) \/ PutArrives(c)
      PROVE  IInv'
  BY <1>3, WriteStep, CloseStep, FSStatArrivesStep, PutStep, PutArrivesStep
<1>4. ASSUME NEW a \in Agents, Serve(a)
      PROVE  IInv'
  BY <1>4, ReadStep, ChangeStep
<1>5. ASSUME NEW a \in Agents, Fail(a)
      PROVE  IInv'
  BY <1>5, FailStep
<1>6. ASSUME NEW a \in Background, Arrives(a)
      PROVE  IInv'
  BY <1>6, ArrivesStep
<1>7. CASE UNCHANGED vars
  <2>1. UNCHANGED <<tree, asof, cache, call, req, inval, own, want>> /\ handle' \in [Clients -> Handles]
    BY <1>7 DEF vars, IInv, TypeOK
  <2>2. QED
    BY <2>1, Unmoved
<1>8. QED
  BY <1>1, <1>2, <1>3, <1>4, <1>5, <1>6, <1>7 DEF Next

(***************************************************************************)
(* What has been invalidated is known of all entries, of all calls and of  *)
(* all that is on its way, whatever is served, fails or arrives when.      *)
(***************************************************************************)
THEOREM HttpfsInvariance == Spec => []IInv
<1>1. QED
  BY Starts, Steps, PTL DEF Spec

(***************************************************************************)
(* What a call of the cached client has changed is not answered from       *)
(* before it (httpfs Cacher: the invalidation, then the resync).           *)
(***************************************************************************)
THEOREM OwnChangesAreSeen == Spec => []SeesOwnChanges
<1>1. IInv => SeesOwnChanges
  <2> SUFFICES ASSUME IInv, NEW p \in Paths, cache[p] # NotCached, ~cache[p].late PROVE cache[p].asof >= own[p]
    BY DEF SeesOwnChanges
  <2>1. own[p] <= inval[p] /\ cache[p].asof >= inval[p]
    BY DEF IInv, Known
  <2>2. own[p] \in Nat /\ inval[p] \in Nat /\ cache[p].asof \in Nat
    BY DEF IInv, TypeOK, CacheEntries
  <2>3. QED
    BY <2>1, <2>2
<1>2. QED
  BY <1>1, HttpfsInvariance, PTL

(***************************************************************************)
(* A mode that a Chmod set stays when a file that was opened before it is  *)
(* closed (httpfs Close: Stat before the put).                             *)
(***************************************************************************)
THEOREM ModesAreKept == Spec => []KeepsMode
<1>1. IInv => KeepsMode
  BY DEF IInv, ModesKept
<1>2. QED
  BY <1>1, HttpfsInvariance, PTL
=============================================================================
