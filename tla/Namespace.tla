----------------------------- MODULE Namespace -----------------------------
(***************************************************************************)
(* fs/vfs/vfs.go: namespaces, their binding tables and the calls that      *)
(* change and read them from several goroutines.                           *)
(*                                                                         *)
(* A Go map and the slices it holds are objects with an identity, and the  *)
(* code is correct only if the right ones are copied, so the module keeps  *)
(* them apart: `heap' holds every map ever built; heap[i].slot[d] names    *)
(* the slice that map i has under the key d, <<j, d>> standing for the     *)
(* slice heap[j].array[d].  NS.bindings is the number of a map.            *)
(*                                                                         *)
(* Names are flat here (no name is a path prefix of another); Resolution   *)
(* is the module about paths below a binding.                              *)
(***************************************************************************)
EXTENDS Integers, Sequences, FiniteSets

CONSTANTS
    Threads,    \* goroutines that call into namespaces
    Spaces,     \* the namespaces that may come to exist
    Main,       \* the first one
    Names,      \* names something may be bound to
    Kept,       \* those that start with #
    Systems,    \* file systems that may be bound by their root
    Creators,   \* those that implement fs.CreateFS
    Allocators, \* those that implement BindAllocator
    Modes,      \* the modes callers pass, valid or not
    None,       \* no namespace, no name, no slice
    MaxMaps,    \* bound: maps ever built
    MaxAllocs   \* bound: file systems ever allocated

ASSUME NamespaceAssumption ==
    /\ Main \in Spaces
    /\ Kept \subseteq Names
    /\ Creators \cup Allocators \subseteq Systems
    /\ Systems \cap Spaces = {}
    /\ None \notin Threads \cup Spaces \cup Names \cup (Nat \X Names)
    /\ MaxMaps \in Nat \ {0}
    /\ MaxAllocs \in Nat

VARIABLES
    heap,       \* every bindings map built so far
    bindings,   \* bindings[n]: the number of the map n.bindings points to
    writeMu,    \* writeMu[n]: the thread that holds it
    allocs,     \* how many file systems allocators have returned
    call        \* call[t]: what thread t is doing, and its locals

vars == <<heap, bindings, writeMu, allocs, call>>

(* A bindTarget: the root of a file system, the allocs-th one made by an   *)
(* allocator, or a name of a namespace.                                    *)
Target ==
    [fs : Systems, name : {None}, made : 0 .. MaxAllocs]
        \cup [fs : Spaces, name : Names, made : {0}]

Directly(f) == [fs |-> f, name |-> None, made |-> 0]

(* Nothing is no table either.                                             *)
ASSUME NoneAssumption == None \notin [Names -> Seq(Target)]

(* What a caller hands to Bind and Unbind as src and srcPath.              *)
Source == {Directly(f) : f \in Systems} \cup [fs : Spaces, name : Names, made : {0}]

ValidModes == {"after", "before", "replace"}

Idle == [op |-> "idle", pc |-> "idle", ns |-> None, src |-> None, dst |-> None,
         mode |-> None, gone |-> {}, map |-> 0]

-----------------------------------------------------------------------------
(* Maps and slices.                                                        *)

Refs(h, i, d) ==
    IF h[i].slot[d] = None THEN <<>> ELSE h[h[i].slot[d][1]].array[d]

Contents(h, i) == [d \in Names |-> Refs(h, i, d)]

(* Mutant of CopyOf: the map is copied, its slices are not.                *)
CopyOfShared(h, i) ==
    Append(h, [slot |-> h[i].slot, array |-> [d \in Names |-> <<>>]])

(* make and slices.Clone: a new map that shares no slice with map i.       *)
CopyOf(h, i) ==
    Append(h, [slot  |-> [d \in Names |-> IF h[i].slot[d] = None
                                          THEN None ELSE <<Len(h) + 1, d>>],
               array |-> Contents(h, i)])

Joined(refs, ref, mode) ==
    CASE mode = "after"   -> <<ref>> \o refs
      [] mode = "before"  -> refs \o <<ref>>
      [] mode = "replace" -> <<ref>>

Joins(h, i, d, ref, mode) ==
    [h EXCEPT ![i] = [slot  |-> [@.slot EXCEPT ![d] = <<i, d>>],
                      array |-> [@.array EXCEPT ![d] = Joined(Refs(h, i, d), ref, mode)]]]

(* slices.DeleteFunc works in place: it writes to the slice of the slot.   *)
(* The targets that stay close ranks: the j-th is the one with j - 1       *)
(* before it.                                                              *)
DeleteFunc(refs, gone) ==
    LET stay   == {k \in DOMAIN refs : refs[k] \notin gone}
        Nth(j) == CHOOSE k \in stay : Cardinality({i \in stay : i =< k}) = j
    IN  [j \in 1 .. Cardinality(stay) |-> refs[Nth(j)]]

Leaves(h, i, d, gone) ==
    IF h[i].slot[d] = None THEN h ELSE
    LET left == DeleteFunc(Refs(h, i, d), gone)
        g    == [h EXCEPT ![h[i].slot[d][1]].array[d] = left]
    IN  IF left = <<>> THEN [g EXCEPT ![i].slot[d] = None] ELSE g


Emptied(h, i) ==
    [h EXCEPT ![i].slot = [d \in Names |-> IF d \in Kept THEN @[d] ELSE None]]

-----------------------------------------------------------------------------
(* fs.Resolve of a source: ResolveFS of a namespace for a bound name, one  *)
(* snapshot; a file system that is no ResolveFS resolves "." to itself.    *)
FirstCreator(refs) ==
    LET at == {k \in DOMAIN refs : refs[k].fs \in Creators}
    IN  refs[CHOOSE k \in at : \A j \in at : k =< j]

ResolveFS(src) ==
    IF src.fs \in Systems THEN src ELSE
    LET refs == Refs(heap, bindings[src.fs], src.name)
    IN  IF Len(refs) = 1 THEN refs[1]
        ELSE IF \E k \in DOMAIN refs : refs[k].fs \in Creators THEN FirstCreator(refs)
        ELSE src

(* rfsys.Open(rname) finds the root of any file system; a name of a        *)
(* namespace is there only while something is bound to it.                 *)
Opens(ref) == ref.fs \in Spaces => Refs(heap, bindings[ref.fs], ref.name) # <<>>

(* fs.Equal is reflect.DeepEqual: two file systems of one allocator that   *)
(* hold the same data are equal to it.                                     *)
Twins(ref) ==
    {r \in Target : ref.made # 0 /\ r.made # 0 /\ r.fs = ref.fs} \ {ref}

Born(n) == bindings[n] # 0

Usable(src) == src.fs \in Spaces => Born(src.fs)

Writing(t) == call[t].op \notin {"idle", "read"}

Budget == Len(heap) + Cardinality({t \in Threads : Writing(t)}) < MaxMaps

CallReturns(t) == call' = [call EXCEPT ![t] = Idle]

-----------------------------------------------------------------------------
(* Bind and Unbind: resolve the source outside any lock, then mutate.      *)

BeginBind(t, n, src, dst, mode) ==
    /\ call[t] = Idle
    /\ Born(n) /\ Usable(src)
    /\ Budget
    /\ call' = [call EXCEPT ![t] = [Idle EXCEPT !.op = "bind", !.pc = "resolve", !.ns = n,
                                              !.src = src, !.dst = dst, !.mode = mode]]
    /\ UNCHANGED <<heap, bindings, writeMu, allocs>>

BeginUnbind(t, n, src, dst) ==
    /\ call[t] = Idle
    /\ Born(n) /\ Usable(src)
    /\ Budget
    /\ call' = [call EXCEPT ![t] = [Idle EXCEPT !.op = "unbind", !.pc = "resolve", !.ns = n,
                                              !.src = src, !.dst = dst]]
    /\ UNCHANGED <<heap, bindings, writeMu, allocs>>

Resolve(t) ==
    /\ call[t].pc = "resolve"
    /\ LET ref == ResolveFS(call[t].src) IN
       \/ /\ call[t].op = "bind"
          /\ call' = [call EXCEPT ![t].src = ref, ![t].pc = "open"]
       \/ /\ call[t].op = "unbind"
          /\ \E same \in SUBSET Twins(ref) :
                call' = [call EXCEPT ![t].src = None, ![t].gone = {ref} \cup same, ![t].pc = "lock"]
    /\ UNCHANGED <<heap, bindings, writeMu, allocs>>

(* Allocate, open and stat the target, and look at the mode only then.     *)
(* Each may fail; an allocator fails when MaxAllocs is reached.            *)
OpenSource(t) ==
    /\ call[t].pc = "open"
    /\ LET ref   == call[t].src
           alloc == ref.fs \in Allocators /\ ref.made = 0
           to    == IF alloc THEN [ref EXCEPT !.made = allocs + 1] ELSE ref
       IN  IF alloc /\ allocs = MaxAllocs
           THEN CallReturns(t) /\ UNCHANGED allocs
           ELSE /\ allocs' = IF alloc THEN allocs + 1 ELSE allocs
                /\ IF Opens(to) /\ call[t].mode \in ValidModes
                   THEN call' = [call EXCEPT ![t].src = to, ![t].pc = "lock"]
                   ELSE CallReturns(t)
    /\ UNCHANGED <<heap, bindings, writeMu>>

BeginUnbindAll(t, n) ==
    /\ call[t] = Idle
    /\ Born(n)
    /\ Budget
    /\ call' = [call EXCEPT ![t] = [Idle EXCEPT !.op = "unbindall", !.pc = "lock", !.ns = n]]
    /\ UNCHANGED <<heap, bindings, writeMu, allocs>>

-----------------------------------------------------------------------------
(* mutate: lock, load, copy and edit the copy, store, unlock.              *)

(* Mutant of Lock: writers do not wait for one another.                    *)
LockUnguarded(t) ==
    /\ call[t].pc = "lock"
    /\ writeMu' = [writeMu EXCEPT ![call[t].ns] = t]
    /\ call' = [call EXCEPT ![t].pc = "build", ![t].map = bindings[call[t].ns]]
    /\ UNCHANGED <<heap, bindings, allocs>>

Lock(t) ==
    /\ call[t].pc = "lock"
    /\ writeMu[call[t].ns] = None
    /\ writeMu' = [writeMu EXCEPT ![call[t].ns] = t]
    /\ call' = [call EXCEPT ![t].pc = "build", ![t].map = bindings[call[t].ns]]
    /\ UNCHANGED <<heap, bindings, allocs>>

Edited(h, i, c) ==
    CASE c.op = "bind"      -> Joins(h, i, c.dst, c.src, c.mode)
      [] c.op = "unbind"    -> Leaves(h, i, c.dst, c.gone)
      [] c.op = "unbindall" -> Emptied(h, i)

Build(t) ==
    /\ call[t].pc = "build"
    /\ heap' = Edited(CopyOf(heap, call[t].map), Len(heap) + 1, call[t])
    /\ call' = [call EXCEPT ![t].pc = "store", ![t].map = Len(heap) + 1]
    /\ UNCHANGED <<bindings, writeMu, allocs>>

(* Mutant of Store: the mutex stays locked.                                *)
StoreLocked(t) ==
    /\ call[t].pc = "store"
    /\ bindings' = [bindings EXCEPT ![call[t].ns] = call[t].map]
    /\ CallReturns(t)
    /\ UNCHANGED <<heap, writeMu, allocs>>

Store(t) ==
    /\ call[t].pc = "store"
    /\ bindings' = [bindings EXCEPT ![call[t].ns] = call[t].map]
    /\ writeMu' = [writeMu EXCEPT ![call[t].ns] = None]
    /\ CallReturns(t)
    /\ UNCHANGED <<heap, allocs>>

-----------------------------------------------------------------------------
(* Clone and the readers take a snapshot and use it without any lock.      *)
(* dst holds the namespace a clone is for.                                 *)

BeginClone(t, n, c) ==
    /\ call[t] = Idle
    /\ Born(n)
    /\ ~Born(c)
    /\ \A u \in Threads : call[u].op = "clone" => call[u].dst # c
    /\ Budget
    /\ call' = [call EXCEPT ![t] = [Idle EXCEPT !.op = "clone", !.pc = "copy", !.ns = n,
                                              !.dst = c, !.map = bindings[n]]]
    /\ UNCHANGED <<heap, bindings, writeMu, allocs>>

FinishClone(t) ==
    /\ call[t].pc = "copy"
    /\ heap' = CopyOf(heap, call[t].map)
    /\ bindings' = [bindings EXCEPT ![call[t].dst] = Len(heap) + 1]
    /\ CallReturns(t)
    /\ UNCHANGED <<writeMu, allocs>>

BeginRead(t, n) ==
    /\ call[t] = Idle
    /\ Born(n)
    /\ call' = [call EXCEPT ![t] = [Idle EXCEPT !.op = "read", !.pc = "read", !.ns = n,
                                              !.map = bindings[n]]]
    /\ UNCHANGED <<heap, bindings, writeMu, allocs>>

FinishRead(t) ==
    /\ call[t].pc = "read"
    /\ CallReturns(t)
    /\ UNCHANGED <<heap, bindings, writeMu, allocs>>

-----------------------------------------------------------------------------
Init ==
    /\ heap = <<[slot |-> [d \in Names |-> None], array |-> [d \in Names |-> <<>>]]>>
    /\ bindings = [n \in Spaces |-> IF n = Main THEN 1 ELSE 0]
    /\ writeMu = [n \in Spaces |-> None]
    /\ allocs = 0
    /\ call = [t \in Threads |-> Idle]

Begin(t) ==
    \E n \in Spaces :
        \/ \E src \in Source, dst \in Names, mode \in Modes : BeginBind(t, n, src, dst, mode)
        \/ \E src \in Source, dst \in Names : BeginUnbind(t, n, src, dst)
        \/ BeginUnbindAll(t, n)
        \/ \E c \in Spaces : BeginClone(t, n, c)
        \/ BeginRead(t, n)

Continue(t) ==
    \/ Resolve(t)
    \/ OpenSource(t)
    \/ Lock(t)
    \/ Build(t)
    \/ Store(t)
    \/ FinishClone(t)
    \/ FinishRead(t)

Next == \E t \in Threads : Begin(t) \/ Continue(t)

Spec == Init /\ [][Next]_vars

(* A goroutine inside a call keeps running, and sync.Mutex does not starve *)
(* one that waits for it; nothing obliges anyone to make another call.     *)
FairSpec == Spec /\ \A t \in Threads : WF_vars(Continue(t)) /\ SF_vars(Lock(t))

-----------------------------------------------------------------------------
Map == [slot  : [Names -> {None} \cup (Nat \X Names)],
        array : [Names -> Seq(Target)]]

Call == [op   : {"idle", "bind", "unbind", "unbindall", "clone", "read"},
         pc   : {"idle", "resolve", "open", "lock", "build", "store", "copy", "read"},
         ns   : Spaces \cup {None},
         src  : Target \cup {None},
         dst  : Names \cup Spaces \cup {None},
         mode : Modes \cup {None},
         gone : SUBSET Target,
         map  : Nat]

TypeOK ==
    /\ heap \in Seq(Map)
    /\ bindings \in [Spaces -> 0 .. Len(heap)]
    /\ writeMu \in [Spaces -> Threads \cup {None}]
    /\ allocs \in 0 .. MaxAllocs
    /\ call \in [Threads -> Call]
    /\ \A t \in Threads : call[t].map =< Len(heap)

(* A key of a published map has at least one target: ResolveFS takes a key *)
(* without any for a name it should answer itself and never looks below    *)
(* the other bindings (vfs.go:117-132), which is why Unbind deletes a key  *)
(* it has emptied.                                                         *)
NoEmptyBinding ==
    \A n \in Spaces, d \in Names :
        Born(n) /\ heap[bindings[n]].slot[d] # None => Refs(heap, bindings[n], d) # <<>>

(* The maps some goroutine may be reading: the published ones, and the     *)
(* snapshots of readers, of clones and of a writer that copies.            *)
Snapshots ==
    {bindings[n] : n \in {m \in Spaces : Born(m)}}
        \cup {call[t].map : t \in {u \in Threads : call[u].pc \in {"build", "copy", "read"}}}

(* No step changes a map, or a slice in it, that is published or that some *)
(* goroutine took as its snapshot: "callers MUST treat it as read-only".   *)
SnapshotsFrozen ==
    [][\A i \in Snapshots : Contents(heap', i) = Contents(heap, i)]_vars

(* Every mutation is one atomic change of one namespace's table, none is   *)
(* lost, and a clone is its parent's table at one moment and is cut off    *)
(* from it from then on.                                                   *)
Cloning(n) == {t \in Threads : call[t].op = "clone" /\ call[t].dst = n}

TableOf(n) ==
    IF Born(n) THEN Contents(heap, bindings[n])
    ELSE IF Cloning(n) # {} THEN Contents(heap, call[CHOOSE t \in Cloning(n) : TRUE].map)
    ELSE None

Tables == INSTANCE BindTable WITH
    Targets <- Target, Unborn <- None, table <- [n \in Spaces |-> TableOf(n)]

AtomicTables == Tables!Spec

(* Every call into a namespace returns.                                    *)
CallsReturn == \A t \in Threads : call[t].op # "idle" ~> call[t].op = "idle"
=============================================================================
