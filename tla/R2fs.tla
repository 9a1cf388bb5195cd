-------------------------------- MODULE R2fs --------------------------------
(***************************************************************************)
(* r2fs.FS: a file system kept in an object store.  Every path is the key  *)
(* of one object, and the object of a directory holds the names that are   *)
(* in it.  The store has atomic requests and no transactions: an operation *)
(* is a sequence of requests, one for the object and at least two (a read  *)
(* and a conditional write, tried MaxRetries times) for the listing of its *)
(* directory; operations on directories do this for everything below.      *)
(*                                                                         *)
(* A call is a stack of frames, one for each function that is running      *)
(* (remove, rename and copy call themselves, and all call compareAndSwap). *)
(* A step is one request, or work on the cache of heads; what is done      *)
(* between two requests is done with the first of them.  A request may     *)
(* fail, when it has been carried out or when it has not, and the client   *)
(* may crash.                                                              *)
(*                                                                         *)
(* The store is modelled from its use: an etag stands for the content of   *)
(* an object.  The mode of an object is one bit.  Left out are the modes   *)
(* in listings, the base path, and the times: as calls on one object do    *)
(* not overlap (Apart), the time that create brings is always newer.       *)
(* The root is not removed, renamed or made.                               *)
(*                                                                         *)
(* plain is the tree that the calls that returned have made one after the  *)
(* other, and a path is rough when a call that was to change it failed or  *)
(* was cut off after it had changed something.  The code checks little and *)
(* locks nothing, so the callers must: a call is one that a file system    *)
(* would carry out (Proper), and changes no path that is rough or that     *)
(* another call is changing (Apart); listings are shared.                  *)
(*                                                                         *)
(* Bounds: MaxCalls calls, MaxFaults failed requests and crashes.          *)
(***************************************************************************)
EXTENDS Integers, SequencesExt

CONSTANTS
    Threads,     \* goroutines that share the FS
    Paths,       \* sequences of names; <<>> is the root
    Names,       \* the names in Paths
    Stored,      \* what the bucket has at first, by path
    Ops,         \* Ops[t]: the operations that t calls
    MaxRetries,  \* maxRetries of compareAndSwap (3 in the code)
    MaxCalls,
    MaxFaults

Parent(p) == Front(p)
Name(p) == Last(p)
Below(p) == {q \in Paths : IsPrefix(p, q)}
Rebased(q, o, n) == n \o SubSeq(q, Len(o) + 1, Len(q))

None == [type |-> "none", body |-> {}, mode |-> 0]
Object(type, body, mode) == [type |-> type, body |-> body, mode |-> mode]

\* parseDirectoryEntries
Entries(body) == body \cap Names

\* What a directory lists has a place in Paths
ListsPaths(p, o) == o.type = "dir" => \A e \in Entries(o.body) : Append(p, e) \in Paths

ASSUME PathsAssumption ==
    /\ <<>> \in Paths /\ Paths \subseteq Seq(Names)
    /\ \A p \in Paths \ {<<>>} : Parent(p) \in Paths
ASSUME StoredAssumption ==
    /\ Stored \in [Paths -> {None} \cup [type : {"dir", "file", "link"}, body : SUBSET (Names \cup {"old"}), mode : {0}]]
    /\ \A p \in Paths : ListsPaths(p, Stored[p])
ASSUME BoundsAssumption == MaxRetries \in Nat \ {0} /\ MaxCalls \in Nat /\ MaxFaults \in Nat

VARIABLES
    bucket,  \* the object at each path
    call,    \* call[t]: the frames of t's call, and what the last one returned
    handle,  \* handle[t]: the r2File t has open
    heads,   \* FS.headCache: the answers it has
    clock,   \* how many calls have begun
    faults,  \* how many requests have failed
    plain,   \* history: the tree the calls have asked for
    rough    \* history: paths of which nothing is claimed

vars == <<bucket, call, handle, heads, clock, faults, plain, rough>>

-----------------------------------------------------------------------------
(***************************************************************************)
(* Frames: the function op, at pc, for the object at name; to is the other *)
(* name of rename and copy, and the path whose entry "add" and "del" (the  *)
(* functions that updateParentDirectoryListing gives compareAndSwap)       *)
(* change in the listing at name.                                          *)
(***************************************************************************)
Frame(op, pc, name, to) ==
    [op |-> op, pc |-> pc, name |-> name, to |-> to, obj |-> None, left |-> {}, tries |-> 0]

Idle == [stack |-> <<>>, foot |-> {}, wrote |-> FALSE]
Closed == [path |-> <<>>, body |-> {}, mode |-> 0, dirty |-> FALSE]

\* What a function does after pc when that was done, and when it failed
Then(f, pc) ==
    LET moves == f.op \in {"rename", "copy"}
    IN  CASE pc = "get" /\ f.op = "remove" -> "children"
          [] pc = "get" /\ f.op = "chmod"  -> "put"
          [] pc = "get" /\ moves           -> "list"
          [] pc = "touch"                  -> "list"
          [] pc = "put" /\ f.op \in {"create", "mkdir", "link"} -> "list"
          [] pc = "put" /\ f.op \in {"chmod", "save"}           -> "done"
          [] pc = "put" /\ moves           -> "children"
          [] pc = "list" /\ moves          -> "put"
          [] pc = "list" /\ f.op = "patch" -> "write"
          [] pc = "list" /\ f.op \in {"create", "mkdir", "link"} -> "done"
          [] pc = "children"               -> IF f.op = "copy" THEN "done" ELSE "unlist"
          [] pc = "unlist"                 -> "delete"
          [] pc = "delete"                 -> "done"
          [] pc = "clean" /\ f.op = "rename" -> "retract"
          [] OTHER                         -> "err"

(* Mutant: a rename whose old object could not be deleted takes the new one back *)
ElseTakesBack(f) ==
    CASE f.pc = "touch" -> "put"
      [] f.pc = "put" /\ f.op \in {"rename", "copy"} -> "retract"
      [] f.pc = "list" /\ f.op \in {"create", "mkdir", "link"} -> "clean"
      [] f.pc \in {"unlist", "delete"} /\ f.op = "rename" -> "clean"
      [] f.pc \in {"clean", "retract"} -> Then(f, f.pc)
      [] OTHER -> "err"

Else(f) ==
    CASE f.pc = "touch" -> "put"
      [] f.pc = "put" /\ f.op \in {"rename", "copy"} -> "retract"
      [] f.pc = "list" /\ f.op \in {"create", "mkdir", "link"} -> "clean"
      [] f.pc = "unlist" /\ f.op = "rename" -> "clean"
      [] f.pc \in {"clean", "retract"} -> Then(f, f.pc)
      [] OTHER -> "err"

Child(f, e) ==
    Frame(f.op, "get", Append(f.name, e), IF f.op = "remove" THEN <<>> ELSE Append(f.to, e))

\* The function that f calls at its pc
Swap(f) ==
    CASE f.pc = "touch" -> Frame("touch", "read", f.to, f.to)
      [] f.pc = "list" -> Frame("add", "read", Parent(f.to), f.to)
      [] f.pc = "unlist" -> Frame("del", "read", Parent(f.name), f.name)
      [] f.pc = "retract" -> Frame("del", "read", Parent(f.to), f.to)

(***************************************************************************)
(* f goes on at pc: the stacks that it may then have on top of below.  The *)
(* entries of a directory are taken in any order (range over a map).       *)
(***************************************************************************)
Goes(below, f, pc) ==
    LET next == IF pc = "children" /\ f.left = {} THEN Then(f, pc) ELSE pc
        g == [f EXCEPT !.pc = next]
    IN  CASE next = "children" -> {below \o <<[g EXCEPT !.left = @ \ {e}], Child(f, e)>> : e \in f.left}
          [] next \in {"touch", "list", "unlist", "retract"} -> {below \o <<g, Swap(g)>>}
          [] OTHER -> {Append(below, g)}

Goto(t, f, pc, wrote) ==
    /\ \E s \in Goes(Front(call[t].stack), f, pc) :
          call' = [call EXCEPT ![t].stack = s, ![t].wrote = @ \/ wrote]
    /\ UNCHANGED <<plain, rough>>

(***************************************************************************)
(* The tree when the call f has returned without an error.                 *)
(***************************************************************************)
Moved(f) ==
    [q \in Paths |->
        IF q \in Below(f.to) /\ Rebased(q, f.to, f.name) \in Paths THEN plain[Rebased(q, f.to, f.name)]
        ELSE IF f.op = "rename" /\ q \in Below(f.name) THEN None ELSE plain[q]]

Effect(f) ==
    CASE f.op = "create" -> [plain EXCEPT ![f.to] = Object("file", {}, 0)]
      [] f.op = "mkdir"  -> [plain EXCEPT ![f.to] = Object("dir", {}, 0)]
      [] f.op = "link"   -> [plain EXCEPT ![f.to] = Object("link", {"old"}, 0)]
      [] f.op = "save"   -> [plain EXCEPT ![f.to] = f.obj]
      [] f.op \in {"chmod", "patch"} -> [plain EXCEPT ![f.name].mode = 1]
      [] f.op = "remove" -> [q \in Paths |-> IF q \in Below(f.name) THEN None ELSE plain[q]]
      [] OTHER -> Moved(f)

\* The top frame returns without an error, to the caller or to the frame that called it
Returns(t, wrote) ==
    LET stack == call[t].stack
        below == Front(stack)
    IN  IF below = <<>>
        THEN call' = [call EXCEPT ![t] = Idle] /\ plain' = Effect(Last(stack)) /\ UNCHANGED rough
        ELSE LET f == Last(below)
             IN  IF Then(f, f.pc) = "err"
                 THEN \* what was to be cleaned up is: its own error is returned
                      call' = [call EXCEPT ![t] = Idle] /\ rough' = rough \cup call[t].foot /\ UNCHANGED plain
                 ELSE /\ \E s \in Goes(Front(below), f, IF f.pc = "children" THEN "children" ELSE Then(f, f.pc)) :
                            call' = [call EXCEPT ![t].stack = s, ![t].wrote = @ \/ wrote]
                      /\ UNCHANGED <<plain, rough>>

(***************************************************************************)
(* The top frame fails: the error is returned through the functions that   *)
(* only return it, to the first that cleans up or tries something else.    *)
(***************************************************************************)
Fails(t, wrote) ==
    LET stack == call[t].stack
        able == {i \in DOMAIN stack : Else(stack[i]) # "err"}
    IN  IF able = {}
        THEN /\ call' = [call EXCEPT ![t] = Idle]
             /\ rough' = IF call[t].wrote \/ wrote THEN rough \cup call[t].foot ELSE rough
             /\ UNCHANGED plain
        ELSE /\ \E i \in able :
                   /\ \A j \in able : j <= i
                   /\ \E s \in Goes(SubSeq(stack, 1, i - 1), stack[i], Else(stack[i])) :
                          call' = [call EXCEPT ![t].stack = s, ![t].wrote = @ \/ wrote]
             /\ UNCHANGED <<plain, rough>>

Busy(t) == call[t].stack # <<>>
Top(t) == Last(call[t].stack)
At(t, pc) == Busy(t) /\ Top(t).pc = pc

-----------------------------------------------------------------------------
(* Requests *)

\* The request makes the bucket new and ok follows, or it fails and the call goes on with the error
Request(t, new, ok) ==
    \/ bucket' = new /\ ok /\ UNCHANGED faults
    \/ /\ faults < MaxFaults
       /\ faults' = faults + 1
       /\ bucket' \in {bucket, new}
       /\ Fails(t, bucket' # bucket)

Refused(t) == Fails(t, FALSE) /\ UNCHANGED <<bucket, faults>>

\* GetObject at the head of remove, rename, copy and chmod
Get(t) ==
    /\ At(t, "get")
    /\ LET f == Top(t)
           o == bucket[f.name]
           left == IF o.type = "dir" /\ f.op # "chmod" THEN Entries(o.body) ELSE {}
       IN  IF o = None THEN Refused(t)
           ELSE Request(t, bucket, Goto(t, [f EXCEPT !.obj = o, !.left = left], Then(f, "get"), FALSE))
    /\ UNCHANGED <<handle, heads, clock>>

\* The HeadObject of a copy that is not to overwrite
Check(t) ==
    /\ At(t, "check")
    /\ IF bucket[Top(t).to] # None THEN Refused(t)
       ELSE Goto(t, Top(t), "get", FALSE) /\ UNCHANGED <<bucket, faults>>
    /\ UNCHANGED <<handle, heads, clock>>

\* PutObject without a condition
PutOf(f) ==
    CASE f.op = "create" -> <<f.to, Object("file", {}, 0)>>
      [] f.op = "mkdir"  -> <<f.to, Object("dir", {}, 0)>>
      [] f.op = "link"   -> <<f.to, Object("link", {"old"}, 0)>>
      [] f.op \in {"rename", "copy", "save"} -> <<f.to, f.obj>>
      [] f.op = "chmod"  -> <<f.name, [f.obj EXCEPT !.mode = 1]>>

Put(t) ==
    /\ At(t, "put")
    /\ LET f == Top(t) IN Request(t, [bucket EXCEPT ![PutOf(f)[1]] = PutOf(f)[2]], Goto(t, f, Then(f, "put"), TRUE))
    /\ UNCHANGED <<handle, heads, clock>>

Delete(t) ==
    /\ At(t, "delete")
    /\ LET f == Top(t) IN Request(t, [bucket EXCEPT ![f.name] = None], Goto(t, f, Then(f, "delete"), TRUE))
    /\ UNCHANGED <<handle, heads, clock>>

\* After a listing that could not be written: the new object is deleted, whatever comes of it
Clean(t) ==
    /\ At(t, "clean")
    /\ LET f == Top(t)
           goes == IF f.op = "rename" THEN Goto(t, f, "retract", TRUE) ELSE Fails(t, TRUE)
       IN  Request(t, [bucket EXCEPT ![f.to] = None], goes)
    /\ UNCHANGED <<handle, heads, clock>>

-----------------------------------------------------------------------------
(* compareAndSwap *)

Read(t) ==
    /\ At(t, "read")
    /\ LET f == Top(t)
           o == bucket[f.name]
       IN  IF o = None THEN Refused(t)
           ELSE Request(t, bucket, Goto(t, [f EXCEPT !.obj = o], IF f.op = "patch" THEN "list" ELSE "write", FALSE))
    /\ UNCHANGED <<handle, heads, clock>>

\* What the update function of the caller makes of the object
Updated(f) ==
    CASE f.op = "add" -> [f.obj EXCEPT !.body = Entries(@) \cup {Name(f.to)}]
      [] f.op = "del" -> [f.obj EXCEPT !.body = Entries(@) \ {Name(f.to)}]
      [] f.op = "touch" -> Object(f.obj.type, {}, 0)
      [] f.op = "patch" -> [f.obj EXCEPT !.mode = 1]

(* Mutant: IfMatch is not given *)
MatchesAny(f) == bucket[f.name] # None

\* The conditional PutObject: IfMatch is the etag of what was read
Matches(f) == bucket[f.name] # None /\ bucket[f.name].body = f.obj.body

Retries(f) == f.tries < MaxRetries - 1

Write(t) ==
    /\ At(t, "write")
    /\ LET f == Top(t)
       IN  IF Matches(f)
           THEN Request(t, [bucket EXCEPT ![f.name] = Updated(f)], Returns(t, TRUE))
           ELSE IF bucket[f.name] # None /\ Retries(f)
           THEN Goto(t, [f EXCEPT !.tries = @ + 1, !.obj = None], "read", FALSE) /\ UNCHANGED <<bucket, faults>>
           ELSE Refused(t)
    /\ heads' = [p \in Paths |-> IF Top(t).op = "patch" /\ p = Top(t).name THEN [heads[p] EXCEPT !.late = TRUE] ELSE heads[p]]
    /\ UNCHANGED <<handle, clock>>

-----------------------------------------------------------------------------
(* Heads *)

Answer(o) == [has |-> o # None, mode |-> o.mode]
NoHead == [kept |-> FALSE, answer |-> Answer(None), late |-> FALSE]

\* The invalidateCachedHead of a function that has come to its end
Invalidated(f) == IF f.op = "rename" THEN {f.name, f.to} ELSE IF f.op \in {"remove", "chmod"} THEN {f.name} ELSE {f.to}

Done(t) ==
    /\ At(t, "done")
    /\ heads' = [p \in Paths |-> IF p \in Invalidated(Top(t)) THEN NoHead ELSE heads[p]]
    /\ Returns(t, FALSE)
    /\ UNCHANGED <<bucket, handle, clock, faults>>

\* headRequest: HeadObject, when the cache has no answer, and then setCachedHead or setCachedHeadError
HeadObject(t) ==
    /\ At(t, "head")
    /\ call' = [call EXCEPT ![t].stack = <<[Top(t) EXCEPT !.pc = "keep", !.obj = bucket[Top(t).name]]>>]
    /\ UNCHANGED <<bucket, handle, heads, clock, faults, plain, rough>>

Keep(t) ==
    /\ At(t, "keep")
    /\ LET f == Top(t)
           answer == Answer(f.obj)
       IN  heads' = [heads EXCEPT ![f.name] = [kept |-> TRUE, answer |-> answer, late |-> answer # Answer(bucket[f.name])]]
    /\ call' = [call EXCEPT ![t] = Idle]
    /\ UNCHANGED <<bucket, handle, clock, faults, plain, rough>>

\* The time of an answer is over (expiresAt, ExpireOldHeadCache, ClearHeadCache)
Expire(p) ==
    /\ heads[p].kept
    /\ heads' = [heads EXCEPT ![p] = NoHead]
    /\ UNCHANGED <<bucket, call, handle, clock, faults, plain, rough>>

-----------------------------------------------------------------------------
(* Calls *)

IsDir(p) == plain[p].type = "dir"
IsFile(p) == plain[p].type = "file"

\* What a file system would carry out, and refuse otherwise
Proper(op, name, to) ==
    LET fits == IsDir(Parent(to)) /\ (plain[to] = None \/ (IsFile(to) /\ IsFile(name)))
    IN  CASE op = "create" -> IsDir(Parent(to)) /\ (plain[to] = None \/ IsFile(to))
          [] op \in {"mkdir", "link"} -> IsDir(Parent(to)) /\ plain[to] = None
          [] op = "save" -> IsFile(to)
          [] op \in {"chmod", "patch"} -> plain[name] # None
          [] op = "remove" -> TRUE
          [] op \in {"rename", "copy"} -> ~IsPrefix(name, to) /\ ~IsPrefix(to, name) /\ (plain[name] # None => fits)
          [] op = "stat" -> TRUE

\* The paths that a call may change: a listing is changed entry by entry, but chmod puts back all of it
Footprint(op, name, to) ==
    CASE op = "patch" -> {name}
      [] op \in {"remove", "chmod"} -> Below(name)
      [] op \in {"rename", "copy"} -> Below(name) \cup Below(to)
      [] op = "stat" -> {}
      [] OTHER -> Below(to)

Apart(foot) == foot \cap rough = {} /\ \A u \in Threads : call[u].foot \cap foot = {}

Begins(t, f) ==
    LET foot == Footprint(f.op, f.name, f.to)
    IN  /\ clock' = clock + 1
        /\ Proper(f.op, f.name, f.to) /\ Apart(foot)
        /\ \E s \in Goes(<<>>, f, f.pc) : call' = [call EXCEPT ![t] = [stack |-> s, foot |-> foot, wrote |-> FALSE]]
        /\ UNCHANGED rough

First(op) ==
    CASE op = "create" -> "touch"
      [] op \in {"mkdir", "link", "save"} -> "put"
      [] op = "patch" -> "read"
      [] op = "stat" -> "head"
      [] OTHER -> "get"

MayCall(t, op) == op \in Ops[t] /\ ~Busy(t) /\ clock < MaxCalls

Call(t, op, name, to) ==
    /\ MayCall(t, op) /\ name # <<>> /\ to # <<>>
    /\ op = "stat" => ~heads[name].kept
    /\ \E pc \in {First(op)} \cup (IF op = "copy" THEN {"check"} ELSE {}) :
          Begins(t, Frame(op, pc, name, to))
    /\ UNCHANGED <<bucket, handle, heads, faults, plain>>

Create(t, p) == Call(t, "create", p, p)
Mkdir(t, p) == Call(t, "mkdir", p, p)
Symlink(t, p) == Call(t, "link", p, p)
RemoveAll(t, p) == Call(t, "remove", p, p)
Patch(t, p) == Call(t, "patch", p, p)
Stat(t, p) == Call(t, "stat", p, p)

\* Chown and Chtimes do the same with what is one bit here
Chmod(t, p) == Call(t, "chmod", p, p)

\* What can be below the old name has a place below the new one in Paths (if those are all paths, it has)
HasRoom(p, q) == \A c \in Below(p) : Rebased(c, p, q) \in Paths

Rename(t, p, q) == MayCall(t, "rename") /\ HasRoom(p, q) /\ Call(t, "rename", p, q)
Copy(t, p, q) == MayCall(t, "copy") /\ p # q /\ HasRoom(p, q) /\ Call(t, "copy", p, q)

\* Write changes the copy of the file in the handle
Written(h) == [h EXCEPT !.body = {"new"}, !.dirty = TRUE]

\* OpenContext gets all of the file, which is then written to
OpenFile(t, p) ==
    /\ MayCall(t, "save") /\ handle[t] = Closed
    /\ bucket[p].type = "file"
    /\ handle' = [handle EXCEPT ![t] = Written([path |-> p, body |-> bucket[p].body, mode |-> bucket[p].mode, dirty |-> FALSE])]
    /\ UNCHANGED <<bucket, call, heads, clock, faults, plain, rough>>

\* Close of a handle that was written to: save puts the object, with the mode it was opened with
Close(t) ==
    /\ handle[t].dirty /\ MayCall(t, "save")
    /\ LET h == handle[t]
       IN  Begins(t, [Frame("save", "put", h.path, h.path)
                        EXCEPT !.obj = Object("file", h.body, h.mode)])
    /\ handle' = [handle EXCEPT ![t] = Closed]
    /\ UNCHANGED <<bucket, heads, faults, plain>>

\* The client goes down with its calls, handles and cache
Crash ==
    /\ faults < MaxFaults
    /\ faults' = faults + 1
    /\ rough' = rough \cup UNION {call[t].foot : t \in {u \in Threads : call[u].wrote}}
    /\ call' = [t \in Threads |-> Idle]
    /\ handle' = [t \in Threads |-> Closed]
    /\ heads' = [p \in Paths |-> NoHead]
    /\ UNCHANGED <<bucket, clock, plain>>

Init ==
    /\ bucket = Stored
    /\ call = [t \in Threads |-> Idle]
    /\ handle = [t \in Threads |-> Closed]
    /\ heads = [p \in Paths |-> NoHead]
    /\ clock = 0
    /\ faults = 0
    /\ plain = Stored
    /\ rough = {}

Next ==
    \/ \E t \in Threads :
        \/ \E p \in Paths :
            \/ Create(t, p) \/ Mkdir(t, p) \/ Symlink(t, p) \/ RemoveAll(t, p)
            \/ Chmod(t, p) \/ Patch(t, p) \/ Stat(t, p) \/ OpenFile(t, p)
            \/ \E q \in Paths : Rename(t, p, q) \/ Copy(t, p, q)
        \/ Close(t)
        \/ Get(t) \/ Check(t) \/ Put(t) \/ Delete(t) \/ Clean(t) \/ Read(t) \/ Write(t)
        \/ Done(t) \/ HeadObject(t) \/ Keep(t)
    \/ \E p \in Paths : Expire(p)
    \/ Crash

Spec == Init /\ [][Next]_vars

-----------------------------------------------------------------------------
(* Properties *)

Calm(p) == p \notin rough /\ \A t \in Threads : p \notin call[t].foot

Listed(p) == Name(p) \in Entries(bucket[Parent(p)].body)

Same(o, q) ==
    /\ o.type = q.type
    /\ o.type # "dir" => o.body = q.body /\ o.mode = q.mode

(***************************************************************************)
(* The bucket is the tree the callers asked for: where no call is under    *)
(* way, an object is there exactly when it was made and not removed, its   *)
(* content is what was written last, and its directory lists it exactly    *)
(* when it exists, with other calls changing the same listing meanwhile.   *)
(***************************************************************************)
BucketIsTree ==
    \A p \in Paths \ {<<>>} : Calm(p) => Same(bucket[p], plain[p]) /\ (Listed(p) <=> plain[p] # None)

(***************************************************************************)
(* Rename puts before it deletes: while one runs, the object is at one of  *)
(* the two names, after any failed request and when the client crashes.    *)
(***************************************************************************)
RenameKeepsObject ==
    \A t \in Threads : \A i \in DOMAIN call[t].stack :
        LET f == call[t].stack[i]
        IN  (f.op = "rename" /\ f.obj # None /\ f.obj.type # "dir") =>
                \E p \in {f.name, f.to} : bucket[p].type = f.obj.type /\ bucket[p].body = f.obj.body

(***************************************************************************)
(* What the cache of heads answers is so, unless it was stored late (the   *)
(* object changed between HeadObject and setCachedHead) or the object was  *)
(* patched: every other call that changes an object drops its head.        *)
(***************************************************************************)
HeadsFresh ==
    \A p \in Paths \ {<<>>} : (heads[p].kept /\ ~heads[p].late /\ Calm(p)) =>
        /\ heads[p].answer.has = (bucket[p] # None)
        /\ bucket[p].type \in {"file", "link"} => heads[p].answer.mode = bucket[p].mode

\* The calls of several goroutines come to what they come to one by one: in
\* the bucket, in its listings and in what is cached of it.
AsOneByOne == BucketIsTree /\ HeadsFresh
=============================================================================
