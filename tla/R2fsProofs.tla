----------------------------- MODULE R2fsProofs -----------------------------
(***************************************************************************)
(* Theorems about R2fs, for any set of goroutines, any tree of paths, any  *)
(* calls of each goroutine and any number of calls and failures: a rename  *)
(* leaves the object at one of its two names.                              *)
(***************************************************************************)
EXTENDS R2fs, SequenceTheorems, TLAPS

-----------------------------------------------------------------------------
(* Paths.                                                                  *)

\* Two paths that differ at a place both have: neither is below the other,
\* and the listing of one is not at or below the other
Diverge(p, q) == \E k \in 1..Len(p) : k \in 1..Len(q) /\ p[k] # q[k]

\* Prefixes, place by place.
LEMMA PrefixMeans ==
    ASSUME NEW S, NEW p \in Seq(S), NEW q \in Seq(S)
    PROVE  IsPrefix(p, q) <=> Len(p) <= Len(q) /\ \A k \in 1..Len(p) : p[k] = q[k]
<1>1. Len(p) \in Nat /\ Len(q) \in Nat
  BY LenProperties
<1>2. SubSeq(p, 1, Len(p)) = p
  BY SubSeqFull
<1>3. ASSUME Len(p) <= Len(q)
      PROVE  SubSeq(q, 1, Len(p)) = p <=> \A k \in 1..Len(p) : p[k] = q[k]
  <2>1. \A k \in 1..Len(p) : q[k] \in S
    BY <1>1, <1>3, ElementOfSeq
  <2>2. /\ SubSeq(q, 1, Len(p)) \in Seq(S)
        /\ Len(SubSeq(q, 1, Len(p))) = Len(p)
        /\ \A k \in 1..Len(p) : SubSeq(q, 1, Len(p))[k] = q[k]
    <3>1. /\ Len(SubSeq(q, 1, Len(p))) = IF 1 <= Len(p) THEN Len(p) - 1 + 1 ELSE 0
          /\ SubSeq(q, 1, Len(p)) \in Seq(S)
          /\ \A k \in 1..(Len(p) - 1 + 1) : SubSeq(q, 1, Len(p))[k] = q[1 + k - 1]
      BY <2>1, <1>1, SubSeqProperties
    <3>2. QED
      BY <3>1, <1>1
  <2>3. (\A k \in 1..Len(p) : p[k] = q[k]) => SubSeq(q, 1, Len(p)) = p
    BY <2>2, SeqEqual
  <2>4. QED
    BY <2>2, <2>3
<1>4. QED
  BY <1>2, <1>3 DEF IsPrefix

\* The directory of a path has all of it but the last name.
LEMMA ParentMeans ==
    ASSUME NEW S, NEW p \in Seq(S), p # <<>>
    PROVE  /\ Len(p) \in Nat \ {0}
           /\ Parent(p) \in Seq(S)
           /\ Len(Parent(p)) = Len(p) - 1
           /\ \A k \in 1..Len(p) - 1 : Parent(p)[k] = p[k]
           /\ Name(p) \in S
           /\ Append(Parent(p), Name(p)) = p
<1>1. Len(p) \in Nat \ {0}
  BY EmptySeq
<1>2. \A k \in 1..Len(p) - 1 : p[k] \in S
  BY <1>1, ElementOfSeq
<1>3. /\ Parent(p) \in Seq(S)
      /\ Len(Parent(p)) = Len(p) - 1
      /\ \A k \in 1..Len(p) - 1 : Parent(p)[k] = p[k]
  <2>1. PICK n \in Nat : n = Len(p) - 1
    BY <1>1
  <2>2. \A k \in 1..n : p[k] \in S
    BY <1>2, <2>1
  <2>3. /\ SubSeq(p, 1, n) \in Seq(S)
        /\ Len(SubSeq(p, 1, n)) = IF 1 <= n THEN n - 1 + 1 ELSE 0
        /\ \A k \in 1..(n - 1 + 1) : SubSeq(p, 1, n)[k] = p[1 + k - 1]
    BY <2>2, SubSeqProperties
  <2>4. Len(SubSeq(p, 1, n)) = n /\ \A k \in 1..n : SubSeq(p, 1, n)[k] = p[k]
    BY <2>3
  <2>5. Parent(p) = SubSeq(p, 1, n)
    BY <2>1 DEF Parent, Front
  <2>6. QED
    BY <2>1, <2>3, <2>4, <2>5, Zenon
<1>4. Name(p) \in S /\ Name(p) = p[Len(p)]
  BY <1>1, ElementOfSeq DEF Name, Last
<1>5. Append(Parent(p), Name(p)) = p
  <2>1. /\ Append(Parent(p), Name(p)) \in Seq(S)
        /\ Len(Append(Parent(p), Name(p))) = Len(p)
        /\ \A k \in 1..Len(p) - 1 : Append(Parent(p), Name(p))[k] = Parent(p)[k]
        /\ Append(Parent(p), Name(p))[Len(p)] = Name(p)
    <3>1. /\ Append(Parent(p), Name(p)) \in Seq(S)
          /\ Len(Append(Parent(p), Name(p))) = Len(Parent(p)) + 1
          /\ \A k \in 1..Len(Parent(p)) : Append(Parent(p), Name(p))[k] = Parent(p)[k]
          /\ Append(Parent(p), Name(p))[Len(Parent(p)) + 1] = Name(p)
      BY <1>3, <1>4, AppendProperties
    <3>2. QED
      BY <3>1, <1>1, <1>3
  <2>2. \A k \in 1..Len(p) : Append(Parent(p), Name(p))[k] = p[k]
    BY <2>1, <1>1, <1>3, <1>4
  <2>3. QED
    BY <2>1, <2>2, SeqEqual
<1>6. QED
  BY <1>1, <1>3, <1>4, <1>5

LEMMA NamesRegroup ==
    \A r, s, u \in Seq(Names) : (r \o s) \o u = r \o (s \o u)
BY ConcatAssociative

\* A path as a sequence, and what is below one.
LEMMA PathMeans ==
    ASSUME NEW p \in Paths
    PROVE  p \in Seq(Names) /\ Len(p) \in Nat /\ (p # <<>> => Parent(p) \in Paths)
BY PathsAssumption, LenProperties

LEMMA BelowMeans ==
    ASSUME NEW p \in Paths, NEW x
    PROVE  x \in Below(p) <=> x \in Paths /\ Len(p) <= Len(x) /\ \A k \in 1..Len(p) : p[k] = x[k]
<1>1. ASSUME x \in Paths
      PROVE  IsPrefix(p, x) <=> Len(p) <= Len(x) /\ \A k \in 1..Len(p) : p[k] = x[k]
  BY <1>1, PathMeans, PrefixMeans
<1>2. QED
  BY <1>1 DEF Below

LEMMA SelfBelow ==
    ASSUME NEW p \in Paths
    PROVE  p \in Below(p)
BY BelowMeans, PathMeans

\* What is listed below a path is below it.
LEMMA BelowDown ==
    ASSUME NEW p \in Paths, NEW x \in Paths, x # <<>>, Parent(x) \in Below(p)
    PROVE  x \in Below(p)
<1>1. /\ Len(x) \in Nat \ {0} /\ Len(Parent(x)) = Len(x) - 1
      /\ \A k \in 1..Len(x) - 1 : Parent(x)[k] = x[k]
  BY PathMeans, ParentMeans
<1>2. Len(p) \in Nat /\ Len(p) <= Len(x) - 1 /\ \A k \in 1..Len(p) : p[k] = Parent(x)[k]
  BY <1>1, PathMeans, BelowMeans
<1>3. QED
  BY <1>1, <1>2, BelowMeans

\* An entry of a directory.
LEMMA EntryMeans ==
    ASSUME NEW p \in Seq(Names), NEW e \in Names
    PROVE  /\ Append(p, e) \in Seq(Names) /\ Append(p, e) # <<>>
           /\ Len(Append(p, e)) = Len(p) + 1
           /\ \A k \in 1..Len(p) : Append(p, e)[k] = p[k]
           /\ Append(p, e)[Len(p) + 1] = e
BY AppendProperties

LEMMA EntryBelow ==
    ASSUME NEW p \in Paths, NEW e \in Names, Append(p, e) \in Paths
    PROVE  Append(p, e) \in Below(p) /\ Below(Append(p, e)) \subseteq Below(p)
<1>1. Len(p) \in Nat /\ Len(Append(p, e)) = Len(p) + 1 /\ \A k \in 1..Len(p) : Append(p, e)[k] = p[k]
  BY PathMeans, EntryMeans
<1>2. Append(p, e) \in Below(p)
  <2>1. PICK x \in Paths : x = Append(p, e)
    OBVIOUS
  <2>2. Len(p) <= Len(x) /\ \A k \in 1..Len(p) : p[k] = x[k]
    BY <1>1, <2>1
  <2>3. QED
    BY <2>1, <2>2, BelowMeans
<1>3. ASSUME NEW x \in Below(Append(p, e))
      PROVE  x \in Below(p)
  <2>1. x \in Paths /\ Len(p) + 1 <= Len(x) /\ \A k \in 1..(Len(p) + 1) : Append(p, e)[k] = x[k]
    BY <1>1, <1>3, BelowMeans
  <2>2. Len(x) \in Nat
    BY <2>1, PathMeans
  <2>3. QED
    BY <1>1, <2>1, <2>2, BelowMeans
<1>4. QED
  BY <1>2, <1>3

-----------------------------------------------------------------------------
(* Two paths that diverge.                                                 *)

\* They are different, and so are their directories from them.
LEMMA DivergeApart ==
    ASSUME NEW p \in Paths, NEW q \in Paths, Diverge(p, q), p # <<>>, q # <<>>
    PROVE  /\ p # q /\ Parent(p) # p /\ Parent(q) # q
           /\ Parent(p) # q /\ Parent(q) # p
<1>1. /\ Len(p) \in Nat \ {0} /\ Len(Parent(p)) = Len(p) - 1
      /\ \A k \in 1..Len(p) - 1 : Parent(p)[k] = p[k]
  BY PathMeans, ParentMeans
<1>2. /\ Len(q) \in Nat \ {0} /\ Len(Parent(q)) = Len(q) - 1
      /\ \A k \in 1..Len(q) - 1 : Parent(q)[k] = q[k]
  BY PathMeans, ParentMeans
<1>3. PICK k \in 1..Len(p) : k \in 1..Len(q) /\ p[k] # q[k]
  BY DEF Diverge
<1>4. Parent(p) # q
  BY <1>1, <1>2, <1>3
<1>5. Parent(q) # p
  BY <1>1, <1>2, <1>3
<1>6. QED
  BY <1>1, <1>2, <1>3, <1>4, <1>5

\* Two paths of which neither is below the other do.
LEMMA ApartDiverges ==
    ASSUME NEW p \in Paths, NEW q \in Paths, ~IsPrefix(p, q), ~IsPrefix(q, p)
    PROVE  Diverge(p, q)
<1>1. Len(p) \in Nat /\ Len(q) \in Nat
  BY PathMeans
<1>2. IsPrefix(p, q) <=> Len(p) <= Len(q) /\ \A k \in 1..Len(p) : p[k] = q[k]
  BY PathMeans, PrefixMeans
<1>3. IsPrefix(q, p) <=> Len(q) <= Len(p) /\ \A k \in 1..Len(q) : q[k] = p[k]
  BY PathMeans, PrefixMeans
<1>4. QED
  BY <1>1, <1>2, <1>3 DEF Diverge

\* Entries of two paths that diverge do.
LEMMA EntriesDiverge ==
    ASSUME NEW p \in Paths, NEW q \in Paths, Diverge(p, q), NEW e \in Names, NEW d \in Names
    PROVE  Diverge(Append(p, e), Append(q, d))
<1>1. Len(p) \in Nat /\ Len(Append(p, e)) = Len(p) + 1 /\ \A k \in 1..Len(p) : Append(p, e)[k] = p[k]
  BY PathMeans, EntryMeans
<1>2. Len(q) \in Nat /\ Len(Append(q, d)) = Len(q) + 1 /\ \A k \in 1..Len(q) : Append(q, d)[k] = q[k]
  BY PathMeans, EntryMeans
<1>3. PICK k \in 1..Len(p) : k \in 1..Len(q) /\ p[k] # q[k]
  BY DEF Diverge
<1>4. k \in 1..Len(p) + 1 /\ k \in 1..Len(q) + 1
  BY <1>1, <1>2, <1>3
<1>5. QED
  BY <1>1, <1>2, <1>3, <1>4 DEF Diverge

\* Where there is room for what is below p, there is for an entry of p and
\* for what is below it.
LEMMA RoomForEntry ==
    ASSUME NEW p \in Paths, NEW q \in Paths, HasRoom(p, q), NEW e \in Names, Append(p, e) \in Paths
    PROVE  Append(q, e) \in Paths /\ HasRoom(Append(p, e), Append(q, e))
<1> DEFINE pe == Append(p, e)
           qe == Append(q, e)
<1>1. /\ p \in Seq(Names) /\ Len(p) \in Nat
      /\ q \in Seq(Names) /\ Len(q) \in Nat
  BY PathMeans
<1>2. pe \in Seq(Names) /\ Len(pe) = Len(p) + 1 /\ pe[Len(p) + 1] = e
  BY <1>1, EntryMeans
<1>3. qe \in Seq(Names) /\ qe = q \o <<e>>
  BY <1>1, EntryMeans, AppendIsConcat
<1>4. ASSUME NEW c \in Below(pe)
      PROVE  Rebased(c, pe, qe) = Rebased(c, p, q)
  <2>1. c \in Paths /\ Len(p) + 1 <= Len(c) /\ \A k \in 1..(Len(p) + 1) : pe[k] = c[k]
    BY <1>2, BelowMeans
  <2>2. c \in Seq(Names) /\ Len(c) \in Nat
    BY <2>1, PathMeans
  <2>3. c[Len(p) + 1] = e
    BY <1>1, <1>2, <2>1
  <2>4. SubSeq(c, Len(p) + 1, Len(c)) = <<e>> \o SubSeq(c, Len(p) + 1 + 1, Len(c))
    <3>1. Len(p) + 1 \in 1..Len(c) /\ Len(c) \in Len(p) + 1..Len(c)
      BY <1>1, <2>1, <2>2
    <3>2. QED
      BY <2>2, <2>3, <3>1, SubSeqRecursiveFirst
  <2>5. SubSeq(c, Len(p) + 1 + 1, Len(c)) \in Seq(Names)
    <3>1. \A k \in (Len(p) + 1 + 1)..Len(c) : c[k] \in Names
      BY <1>1, <2>2, ElementOfSeq
    <3>2. QED
      BY <1>1, <2>2, <3>1, SubSeqProperties
  <2>6. <<e>> \in Seq(Names)
    OBVIOUS
  <2>7. (q \o <<e>>) \o SubSeq(c, Len(p) + 1 + 1, Len(c)) = q \o (<<e>> \o SubSeq(c, Len(p) + 1 + 1, Len(c)))
    <3>1. PICK u \in Seq(Names) : u = SubSeq(c, Len(p) + 1 + 1, Len(c))
      BY <2>5
    <3>2. PICK v \in Seq(Names) : v = <<e>>
      BY <2>6
    <3>3. (q \o v) \o u = q \o (v \o u)
      BY <1>1, NamesRegroup, ZenonT(60)
    <3>4. QED
      BY <3>1, <3>2, <3>3, Zenon
  <2>8. Rebased(c, pe, qe) = qe \o SubSeq(c, Len(p) + 1 + 1, Len(c))
    BY <1>2 DEF Rebased
  <2>9. Rebased(c, p, q) = q \o SubSeq(c, Len(p) + 1, Len(c))
    BY DEF Rebased
  <2>10. QED
    BY <1>3, <2>4, <2>7, <2>8, <2>9
<1>5. ASSUME NEW c \in Below(pe)
      PROVE  Rebased(c, pe, qe) \in Paths
  <2>1. c \in Below(p)
    BY EntryBelow
  <2>2. QED
    BY <1>4, <2>1 DEF HasRoom
<1>6. Rebased(pe, pe, qe) = qe
  <2>1. SubSeq(pe, Len(pe) + 1, Len(pe)) = <<>>
    BY <1>1, <1>2, SubSeqEmpty
  <2>2. QED
    BY <1>3, <2>1, ConcatEmptySeq DEF Rebased
<1>7. pe \in Below(pe)
  BY SelfBelow
<1>8. QED
  BY <1>5, <1>6, <1>7 DEF HasRoom

-----------------------------------------------------------------------------
(* Types.                                                                  *)

Objects == [type : {"none", "dir", "file", "link"}, body : SUBSET (Names \cup {"old", "new"}), mode : {0, 1}]

OpNames ==
    {"create", "mkdir", "link", "save", "chmod", "patch", "stat", "remove", "rename", "copy", "add", "del", "touch"}

\* The places in each function
Places(op) ==
    CASE op = "create"             -> {"touch", "put", "list", "clean", "done"}
      [] op \in {"mkdir", "link"}  -> {"put", "list", "clean", "done"}
      [] op = "save"               -> {"put", "done"}
      [] op = "chmod"              -> {"get", "put", "done"}
      [] op = "patch"              -> {"read", "list", "write"}
      [] op = "stat"               -> {"head", "keep"}
      [] op = "remove"             -> {"get", "children", "unlist", "delete", "done"}
      [] op = "rename"             -> {"get", "list", "put", "children", "unlist", "delete", "done", "clean", "retract"}
      [] op = "copy"               -> {"check", "get", "list", "put", "children", "done", "retract"}
      [] op \in {"add", "del", "touch"} -> {"read", "write"}

AllPlaces ==
    {"touch", "put", "list", "clean", "done", "get", "read", "write", "head", "keep", "children", "unlist",
     "delete", "retract", "check"}

Frames ==
    [op : OpNames, pc : AllPlaces, name : Paths, to : Paths, obj : Objects, left : SUBSET Names, tries : Nat]

Records == [stack : Seq(Frames), foot : SUBSET Paths, wrote : BOOLEAN]
Handles == [path : Paths, body : SUBSET (Names \cup {"old", "new"}), mode : {0, 1}, dirty : BOOLEAN]

TypeOK ==
    /\ bucket \in [Paths -> Objects]
    /\ call \in [Threads -> Records]
    /\ handle \in [Threads -> Handles]

-----------------------------------------------------------------------------
(* The inductive invariant.                                                *)

\* What a frame has to do with the footprint of its call
Within(f, foot) ==
    /\ f.op \in {"remove", "rename", "copy"} => Below(f.name) \subseteq foot /\ f.name # <<>>
    /\ f.op \in {"rename", "copy"} =>
          Below(f.to) \subseteq foot /\ f.to # <<>> /\ Diverge(f.name, f.to) /\ HasRoom(f.name, f.to)
    /\ f.op \in {"create", "mkdir", "link", "patch", "add", "del"} => f.to \in foot /\ f.to # <<>>
    /\ f.op \in {"save", "touch"} => f.to \in foot
    /\ f.op \in {"patch", "chmod"} => f.name \in foot
    /\ f.op \in {"add", "del"} => f.name = Parent(f.to)
    /\ f.op \in {"touch", "save"} => f.name = f.to

\* What a frame has read of its directory
Looked(f) ==
    /\ ListsPaths(f.name, f.obj)
    /\ f.left \subseteq Entries(f.obj.body)
    /\ f.left # {} => f.obj.type = "dir" /\ f.op \in {"remove", "rename", "copy"}

\* Where a frame is
Placed(f) ==
    /\ f.pc \in Places(f.op)
    /\ f.pc \in {"get", "check"} => f.obj = None
    /\ f.pc = "children" => f.obj.type = "dir"

FrameOK(f, foot) == Within(f, foot) /\ Looked(f) /\ Placed(f)

Swapping == {"touch", "list", "unlist", "retract"}
SameCall(f, g) == f.op = g.op /\ f.name = g.name /\ f.to = g.to

\* f, below a frame g, waits for one of its children, or for compareAndSwap
WaitsFor(f, g, top) == f.pc = "children" \/ (top /\ f.pc \in Swapping /\ SameCall(g, Swap(f)))

StackOK(s, foot) ==
    /\ \A i \in 1..Len(s) : FrameOK(s[i], foot)
    /\ \A i \in 1..Len(s) - 1 : WaitsFor(s[i], s[i + 1], i + 1 = Len(s))

\* The object of a rename is where it was until it has been put, and where it goes from then on until it is taken back
KeptAt(b, p, o) == b[p].type = o.type /\ b[p].body = o.body
Moving(f) == f.op = "rename" /\ f.obj # None /\ f.obj.type # "dir"
Held(f, b) ==
    Moving(f) =>
        /\ f.pc \in {"list", "put", "children", "unlist", "clean", "retract"} => KeptAt(b, f.name, f.obj)
        /\ f.pc \in {"children", "unlist", "delete", "done"} => KeptAt(b, f.to, f.obj)

StackHeld(s, b) == \A i \in 1..Len(s) : Held(s[i], b)

BucketOK(b) == b \in [Paths -> Objects] /\ \A p \in Paths : ListsPaths(p, b[p])

IInv ==
    /\ TypeOK
    /\ BucketOK(bucket)
    /\ \A t, u \in Threads : t # u => call[t].foot \cap call[u].foot = {}
    /\ \A t \in Threads : StackOK(call[t].stack, call[t].foot)
    /\ \A t \in Threads : StackHeld(call[t].stack, bucket)

-----------------------------------------------------------------------------
(* Stacks.                                                                 *)

LEMMA FrameType ==
    ASSUME NEW op \in OpNames, NEW pc \in AllPlaces, NEW p \in Paths, NEW q \in Paths
    PROVE  /\ Frame(op, pc, p, q) \in Frames
           /\ Frame(op, pc, p, q).op = op /\ Frame(op, pc, p, q).pc = pc
           /\ Frame(op, pc, p, q).name = p /\ Frame(op, pc, p, q).to = q
           /\ Frame(op, pc, p, q).obj = None /\ Frame(op, pc, p, q).left = {}
BY DEF Frame, Frames, None, Objects

\* A frame that goes elsewhere is otherwise as it was.
LEMMA FrameMoves ==
    ASSUME NEW f \in Frames, NEW pc \in AllPlaces
    PROVE  /\ [f EXCEPT !.pc = pc] \in Frames
           /\ [f EXCEPT !.pc = pc].pc = pc
           /\ SameCall([f EXCEPT !.pc = pc], f)
           /\ [f EXCEPT !.pc = pc].obj = f.obj /\ [f EXCEPT !.pc = pc].left = f.left
BY DEF Frames, SameCall

LEMMA WithinCall ==
    ASSUME NEW f, NEW g, NEW foot, SameCall(f, g), Within(g, foot)
    PROVE  Within(f, foot)
BY DEF SameCall, Within

LEMMA LookedSame ==
    ASSUME NEW f, NEW g, f.op = g.op, f.name = g.name, f.obj = g.obj, f.left \subseteq g.left, Looked(g)
    PROVE  Looked(f)
BY DEF Looked

\* A stack without its last frames.
LEMMA CutMeans ==
    ASSUME NEW S, NEW s \in Seq(S), NEW i \in 1..Len(s)
    PROVE  /\ s[i] \in S
           /\ SubSeq(s, 1, i - 1) \in Seq(S)
           /\ Len(SubSeq(s, 1, i - 1)) = i - 1
           /\ \A j \in 1..i - 1 : SubSeq(s, 1, i - 1)[j] = s[j]
<1>1. Len(s) \in Nat
  BY LenProperties
<1>2. PICK n \in Nat : n = i - 1
  BY <1>1
<1>3. \A j \in 1..n : s[j] \in S
  BY <1>1, <1>2, ElementOfSeq
<1>4. /\ SubSeq(s, 1, n) \in Seq(S)
      /\ Len(SubSeq(s, 1, n)) = IF 1 <= n THEN n - 1 + 1 ELSE 0
      /\ \A j \in 1..(n - 1 + 1) : SubSeq(s, 1, n)[j] = s[1 + j - 1]
  BY <1>3, SubSeqProperties
<1>5. Len(SubSeq(s, 1, n)) = n /\ \A j \in 1..n : SubSeq(s, 1, n)[j] = s[j]
  BY <1>4
<1>6. s[i] \in S
  BY ElementOfSeq
<1>7. QED
  BY <1>2, <1>4, <1>5, <1>6, Zenon

\* A stack with one more, or two more.
LEMMA OneMore ==
    ASSUME NEW S, NEW s \in Seq(S), NEW g \in S
    PROVE  /\ Append(s, g) \in Seq(S)
           /\ Len(Append(s, g)) = Len(s) + 1
           /\ \A i \in 1..Len(s) : Append(s, g)[i] = s[i]
           /\ Append(s, g)[Len(s) + 1] = g
BY AppendProperties

LEMMA TwoMore ==
    ASSUME NEW S, NEW s \in Seq(S), NEW g \in S, NEW h \in S
    PROVE  /\ s \o <<g, h>> \in Seq(S)
           /\ Len(s \o <<g, h>>) = Len(s) + 2
           /\ \A i \in 1..Len(s) : (s \o <<g, h>>)[i] = s[i]
           /\ (s \o <<g, h>>)[Len(s) + 1] = g
           /\ (s \o <<g, h>>)[Len(s) + 2] = h
<1>1. PICK r \in Seq(S) : r = <<g, h>> /\ Len(r) = 2 /\ r[1] = g /\ r[2] = h
  <2>1. <<g, h>> \in Seq(S)
    OBVIOUS
  <2>2. Len(<<g, h>>) = 2 /\ <<g, h>>[1] = g /\ <<g, h>>[2] = h
    OBVIOUS
  <2>3. QED
    BY <2>1, <2>2, Zenon
<1>2. Len(s) \in Nat
  BY LenProperties
<1>3. /\ s \o r \in Seq(S)
      /\ Len(s \o r) = Len(s) + Len(r)
      /\ \A i \in 1..Len(s) + Len(r) : (s \o r)[i] = IF i <= Len(s) THEN s[i] ELSE r[i - Len(s)]
  BY ConcatProperties
<1>4. \A i \in 1..Len(s) : (s \o r)[i] = s[i]
  BY <1>1, <1>2, <1>3
<1>5. (s \o r)[Len(s) + 1] = g
  <2>1. Len(s) + 1 \in 1..Len(s) + Len(r) /\ ~(Len(s) + 1 <= Len(s)) /\ Len(s) + 1 - Len(s) = 1
    BY <1>1, <1>2
  <2>2. QED
    BY <1>1, <1>3, <2>1
<1>6. (s \o r)[Len(s) + 2] = h
  <2>1. Len(s) + 2 \in 1..Len(s) + Len(r) /\ ~(Len(s) + 2 <= Len(s)) /\ Len(s) + 2 - Len(s) = 2
    BY <1>1, <1>2
  <2>2. QED
    BY <1>1, <1>3, <2>1
<1>7. QED
  BY <1>1, <1>3, <1>4, <1>5, <1>6

\* The frames below f, as the invariant has them.
BelowOK(s, f, foot, b) ==
    \A i \in 1..Len(s) :
        FrameOK(s[i], foot) /\ Held(s[i], b) /\ WaitsFor(s[i], f, i = Len(s))

LEMMA CutOK ==
    ASSUME NEW s \in Seq(Frames), NEW foot, NEW b, StackOK(s, foot), StackHeld(s, b), NEW i \in 1..Len(s)
    PROVE  /\ SubSeq(s, 1, i - 1) \in Seq(Frames) /\ BelowOK(SubSeq(s, 1, i - 1), s[i], foot, b)
           /\ s[i] \in Frames /\ FrameOK(s[i], foot) /\ Held(s[i], b)
<1>1. /\ s[i] \in Frames
      /\ SubSeq(s, 1, i - 1) \in Seq(Frames)
      /\ Len(SubSeq(s, 1, i - 1)) = i - 1
      /\ \A j \in 1..i - 1 : SubSeq(s, 1, i - 1)[j] = s[j]
  BY CutMeans
<1>2. Len(s) \in Nat /\ i \in Int
  BY LenProperties
<1>3. ASSUME NEW j \in 1..i - 1
      PROVE  FrameOK(s[j], foot) /\ Held(s[j], b) /\ WaitsFor(s[j], s[i], j = i - 1)
  <2>1. j \in 1..Len(s) /\ j \in 1..Len(s) - 1
    BY <1>2
  <2>2. FrameOK(s[j], foot) /\ Held(s[j], b) /\ WaitsFor(s[j], s[j + 1], j + 1 = Len(s))
    BY <2>1 DEF StackOK, StackHeld
  <2>3. j + 1 = Len(s) => j = i - 1 /\ j + 1 = i
    BY <1>2
  <2>4. QED
    BY <2>2, <2>3 DEF WaitsFor
<1>4. QED
  BY <1>1, <1>3 DEF BelowOK, StackOK, StackHeld

\* The frames below the last, and the last.
LEMMA FrontOK ==
    ASSUME NEW s \in Seq(Frames), NEW foot, NEW b, StackOK(s, foot), StackHeld(s, b), s # <<>>
    PROVE  /\ Front(s) \in Seq(Frames) /\ BelowOK(Front(s), Last(s), foot, b)
           /\ StackOK(Front(s), foot) /\ StackHeld(Front(s), b)
           /\ Last(s) \in Frames /\ FrameOK(Last(s), foot) /\ Held(Last(s), b)
           /\ Last(s) = s[Len(s)]
<1>1. Len(s) \in 1..Len(s) /\ Len(s) \in Nat \ {0}
  BY EmptySeq
<1>2. Front(s) = SubSeq(s, 1, Len(s) - 1) /\ Last(s) = s[Len(s)]
  BY DEF Front, Last
<1>3. /\ Front(s) \in Seq(Frames)
      /\ Len(Front(s)) = Len(s) - 1
      /\ \A j \in 1..Len(s) - 1 : Front(s)[j] = s[j]
  <2>1. PICK i \in 1..Len(s) : i = Len(s)
    BY <1>1
  <2>2. /\ SubSeq(s, 1, i - 1) \in Seq(Frames)
        /\ Len(SubSeq(s, 1, i - 1)) = i - 1
        /\ \A j \in 1..i - 1 : SubSeq(s, 1, i - 1)[j] = s[j]
    BY CutMeans
  <2>3. QED
    BY <1>2, <2>1, <2>2, Zenon
<1>4. \A j \in 1..Len(s) - 1 : FrameOK(s[j], foot) /\ Held(s[j], b)
  BY <1>1 DEF StackOK, StackHeld
<1>5. ASSUME NEW j \in 1..Len(s) - 1 - 1
      PROVE  s[j].pc = "children"
  BY <1>1 DEF StackOK, WaitsFor
<1>6. StackOK(Front(s), foot)
  <2>1. \A j \in 1..Len(Front(s)) : FrameOK(Front(s)[j], foot)
    BY <1>3, <1>4
  <2>2. \A j \in 1..Len(Front(s)) - 1 : Front(s)[j].pc = "children"
    BY <1>1, <1>3, <1>5
  <2>3. QED
    BY <2>1, <2>2 DEF StackOK, WaitsFor
<1>7. StackHeld(Front(s), b)
  BY <1>3, <1>4 DEF StackHeld
<1>8. QED
  BY <1>1, <1>2, <1>3, <1>6, <1>7, CutOK

-----------------------------------------------------------------------------
(* Where a function goes on.                                               *)

\* A frame that calls itself for an entry of the directory it has read.
LEMMA ChildOK ==
    ASSUME NEW f \in Frames, NEW foot, NEW b, Within(f, foot), Looked(f), f.op \in {"remove", "rename", "copy"},
           NEW e \in f.left
    PROVE  Child(f, e) \in Frames /\ FrameOK(Child(f, e), foot) /\ Held(Child(f, e), b)
<1> DEFINE to == IF f.op = "remove" THEN <<>> ELSE Append(f.to, e)
<1>1. /\ f.name \in Paths /\ f.to \in Paths /\ f.op \in OpNames
      /\ e \in Names
  BY DEF Frames
<1>2. e \in Entries(f.obj.body) /\ f.obj.type = "dir"
  BY DEF Looked
<1>3. Append(f.name, e) \in Paths
  BY <1>2 DEF Looked, ListsPaths
<1>4. f.op # "remove" => /\ Append(f.to, e) \in Paths /\ HasRoom(Append(f.name, e), Append(f.to, e))
                         /\ Diverge(Append(f.name, e), Append(f.to, e))
  BY <1>1, <1>3, RoomForEntry, EntriesDiverge DEF Within
<1>5. Append(f.name, e) # <<>> /\ Append(f.to, e) # <<>>
  BY <1>1, EntryMeans, PathMeans
<1>6. Below(Append(f.name, e)) \subseteq foot
  BY <1>1, <1>3, EntryBelow DEF Within
<1>7. f.op # "remove" => Below(Append(f.to, e)) \subseteq foot
  BY <1>1, <1>4, EntryBelow DEF Within
<1>8. to \in Paths
  BY <1>4, PathsAssumption
<1>9. Child(f, e) = Frame(f.op, "get", Append(f.name, e), to)
  BY DEF Child
<1> HIDE DEF to
<1>10. "get" \in AllPlaces
  BY DEF AllPlaces
<1>11. /\ Child(f, e) \in Frames
       /\ Child(f, e).op = f.op /\ Child(f, e).pc = "get"
       /\ Child(f, e).name = Append(f.name, e) /\ Child(f, e).to = to
       /\ Child(f, e).obj = None /\ Child(f, e).left = {}
  <2>1. PICK x \in Paths : x = Append(f.name, e)
    BY <1>3
  <2>2. PICK h : h = Frame(f.op, "get", x, to)
    OBVIOUS
  <2>3. h \in Frames /\ h.op = f.op /\ h.pc = "get" /\ h.name = x /\ h.to = to /\ h.obj = None /\ h.left = {}
    BY <1>1, <1>8, <1>10, <2>2, FrameType
  <2>4. Child(f, e) = h
    BY <1>9, <2>1, <2>2
  <2>5. QED
    BY <2>1, <2>3, <2>4, Zenon
<1>12. Within(Child(f, e), foot)
  BY <1>4, <1>5, <1>6, <1>7, <1>11 DEF Within, to
<1>13. Looked(Child(f, e))
  BY <1>11 DEF Looked, ListsPaths, None
<1>14. Placed(Child(f, e))
  BY <1>11 DEF Placed, Places
<1>15. QED
  BY <1>11, <1>12, <1>13, <1>14 DEF FrameOK, Held, Moving

\* A frame that calls compareAndSwap.
LEMMA SwapOK ==
    ASSUME NEW f \in Frames, NEW foot, NEW b, Within(f, foot), f.pc \in Swapping, f.pc \in Places(f.op)
    PROVE  Swap(f) \in Frames /\ FrameOK(Swap(f), foot) /\ Held(Swap(f), b)
<1>1. f.name \in Paths /\ f.to \in Paths /\ f.op \in OpNames
  BY DEF Frames
<1>2. CASE f.pc = "touch"
  <2>1. f.op = "create"
    BY <1>1, <1>2 DEF Places, OpNames
  <2>2. Swap(f) = Frame("touch", "read", f.to, f.to)
    BY <1>2 DEF Swap
  <2>3. "touch" \in OpNames /\ "read" \in AllPlaces
    BY DEF OpNames, AllPlaces
  <2>4. /\ Swap(f) \in Frames
        /\ Swap(f).op = "touch" /\ Swap(f).pc = "read" /\ Swap(f).name = f.to /\ Swap(f).to = f.to
        /\ Swap(f).obj = None /\ Swap(f).left = {}
    BY <1>1, <2>2, <2>3, FrameType
  <2>5. QED
    BY <2>1, <2>4 DEF FrameOK, Within, Looked, ListsPaths, None, Placed, Places, Held, Moving
<1>3. CASE f.pc \in {"list", "unlist", "retract"}
  <2>1. PICK x \in Paths : /\ x = IF f.pc = "unlist" THEN f.name ELSE f.to
                           /\ x \in foot /\ x # <<>>
    <3>1. /\ f.pc = "unlist" => f.op \in {"remove", "rename"}
          /\ f.pc \in {"list", "retract"} => f.op \in {"create", "mkdir", "link", "patch", "rename", "copy"}
      BY <1>1 DEF Places, OpNames
    <3>2. f.name \in Below(f.name) /\ f.to \in Below(f.to)
      BY <1>1, SelfBelow
    <3>3. QED
      BY <1>1, <1>3, <3>1, <3>2 DEF Within
  <2>2. PICK op \in {"add", "del"} : Swap(f) = Frame(op, "read", Parent(x), x)
    BY <1>3, <2>1 DEF Swap
  <2>3. op \in OpNames /\ "read" \in AllPlaces /\ Parent(x) \in Paths
    BY <2>1, PathMeans DEF OpNames, AllPlaces
  <2>4. /\ Swap(f) \in Frames
        /\ Swap(f).op = op /\ Swap(f).pc = "read" /\ Swap(f).name = Parent(x) /\ Swap(f).to = x
        /\ Swap(f).obj = None /\ Swap(f).left = {}
    BY <2>2, <2>3, FrameType
  <2>5. QED
    BY <2>1, <2>4 DEF FrameOK, Within, Looked, ListsPaths, None, Placed, Places, Held, Moving
<1>4. QED
  BY <1>2, <1>3 DEF Swapping

\* The functions that compareAndSwap is called with.
LEMMA SwapOps ==
    ASSUME NEW f, f.pc \in Swapping
    PROVE  Swap(f).op \in {"add", "del", "touch"}
BY DEF Swapping, Swap, Frame

\* A stack with a frame on top, or with two.
LEMMA PushOne ==
    ASSUME NEW s \in Seq(Frames), NEW f \in Frames, NEW foot, NEW b,
           BelowOK(s, f, foot, b), FrameOK(f, foot), Held(f, b)
    PROVE  /\ Append(s, f) \in Seq(Frames) /\ Append(s, f) # <<>>
           /\ StackOK(Append(s, f), foot) /\ StackHeld(Append(s, f), b)
<1>1. PICK r \in Seq(Frames) :
         /\ r = Append(s, f) /\ Len(r) = Len(s) + 1
         /\ \A i \in 1..Len(s) : r[i] = s[i]
         /\ r[Len(s) + 1] = f
  BY OneMore
<1>2. Len(s) \in Nat
  BY LenProperties
<1>3. ASSUME NEW i \in 1..Len(r)
      PROVE  FrameOK(r[i], foot) /\ Held(r[i], b)
  BY <1>1, <1>2 DEF BelowOK
<1>4. ASSUME NEW i \in 1..Len(r) - 1
      PROVE  WaitsFor(r[i], r[i + 1], i + 1 = Len(r))
  <2>1. i \in 1..Len(s) /\ r[i] = s[i] /\ (i + 1 = Len(r) <=> i = Len(s))
    BY <1>1, <1>2
  <2>2. WaitsFor(s[i], f, i = Len(s))
    BY <2>1 DEF BelowOK
  <2>3. i = Len(s) => r[i + 1] = f
    BY <1>1
  <2>4. QED
    BY <2>1, <2>2, <2>3 DEF WaitsFor
<1>5. StackOK(r, foot) /\ StackHeld(r, b)
  BY <1>3, <1>4 DEF StackOK, StackHeld
<1>6. r # <<>>
  BY <1>1, <1>2, EmptySeq
<1>7. QED
  BY <1>1, <1>5, <1>6

LEMMA PushTwo ==
    ASSUME NEW s \in Seq(Frames), NEW f \in Frames, NEW g \in Frames, NEW foot, NEW b,
           BelowOK(s, f, foot, b), FrameOK(f, foot), Held(f, b), FrameOK(g, foot), Held(g, b),
           \A i \in 1..Len(s) : s[i].pc = "children",
           WaitsFor(f, g, TRUE)
    PROVE  /\ s \o <<f, g>> \in Seq(Frames) /\ s \o <<f, g>> # <<>>
           /\ StackOK(s \o <<f, g>>, foot) /\ StackHeld(s \o <<f, g>>, b)
<1>1. PICK r \in Seq(Frames) :
         /\ r = s \o <<f, g>> /\ Len(r) = Len(s) + 2
         /\ \A i \in 1..Len(s) : r[i] = s[i]
         /\ r[Len(s) + 1] = f /\ r[Len(s) + 2] = g
  <2>1. /\ s \o <<f, g>> \in Seq(Frames)
        /\ Len(s \o <<f, g>>) = Len(s) + 2
        /\ \A i \in 1..Len(s) : (s \o <<f, g>>)[i] = s[i]
        /\ (s \o <<f, g>>)[Len(s) + 1] = f
        /\ (s \o <<f, g>>)[Len(s) + 2] = g
    BY TwoMore
  <2>2. QED
    BY <2>1, Zenon
<1>2. Len(s) \in Nat
  BY LenProperties
<1>3. ASSUME NEW i \in 1..Len(r)
      PROVE  FrameOK(r[i], foot) /\ Held(r[i], b)
  <2>1. i \in 1..Len(s) \/ i = Len(s) + 1 \/ i = Len(s) + 2
    BY <1>1, <1>2
  <2>2. QED
    BY <1>1, <2>1 DEF BelowOK
<1>4. ASSUME NEW i \in 1..Len(r) - 1
      PROVE  WaitsFor(r[i], r[i + 1], i + 1 = Len(r))
  <2>1. CASE i \in 1..Len(s)
    BY <1>1, <2>1 DEF WaitsFor
  <2>2. CASE i = Len(s) + 1
    <3>1. r[i] = f /\ r[i + 1] = g /\ i + 1 = Len(r)
      BY <1>1, <1>2, <2>2
    <3>2. QED
      BY <3>1 DEF WaitsFor
  <2>3. QED
    BY <1>1, <1>2, <2>1, <2>2
<1>5. StackOK(r, foot) /\ StackHeld(r, b)
  BY <1>3, <1>4 DEF StackOK, StackHeld
<1>6. r # <<>>
  BY <1>1, <1>2, EmptySeq
<1>7. QED
  BY <1>1, <1>5, <1>6

\* Going on at a place keeps the stack as the invariant has it.
LEMMA GoesOK ==
    ASSUME NEW s \in Seq(Frames), NEW f \in Frames, NEW foot, NEW b, NEW pc,
           BelowOK(s, f, foot, b), Within(f, foot), Looked(f),
           pc \in Places(f.op), pc \in {"get", "check"} => f.obj = None,
           Held([f EXCEPT !.pc = pc], b),
           NEW r \in Goes(s, f, pc)
    PROVE  r \in Seq(Frames) /\ r # <<>> /\ StackOK(r, foot) /\ StackHeld(r, b)
<1> DEFINE next == IF pc = "children" /\ f.left = {} THEN Then(f, pc) ELSE pc
           g == [f EXCEPT !.pc = next]
<1>0. f.op \in OpNames
  BY DEF Frames
<1>1. next \in Places(f.op) /\ (next \in {"get", "check"} => f.obj = None)
      /\ (next = "children" => f.left # {})
  BY <1>0 DEF Places, OpNames, Then
<1>2. next \in AllPlaces
  BY <1>0, <1>1 DEF Places, OpNames, AllPlaces
<1>3. pc \in AllPlaces
  BY <1>0 DEF Places, OpNames, AllPlaces
<1>4. next = pc \/ (pc = "children" /\ f.op \in {"remove", "rename"} /\ next = "unlist") \/ (pc = "children" /\ f.op = "copy")
  BY <1>0 DEF Places, OpNames, Then
<1>5. r \in CASE next = "children" -> {s \o <<[g EXCEPT !.left = @ \ {e}], Child(f, e)>> : e \in f.left}
              [] next \in {"touch", "list", "unlist", "retract"} -> {s \o <<g, Swap(g)>>}
              [] OTHER -> {Append(s, g)}
  BY DEF Goes
<1>6. /\ [f EXCEPT !.pc = pc].op = f.op /\ [f EXCEPT !.pc = pc].pc = pc /\ [f EXCEPT !.pc = pc].obj = f.obj
      /\ [f EXCEPT !.pc = pc].name = f.name /\ [f EXCEPT !.pc = pc].to = f.to
  BY <1>3, FrameMoves DEF SameCall
<1> HIDE DEF next
<1>7. g \in Frames /\ g.pc = next /\ SameCall(g, f) /\ g.obj = f.obj /\ g.left = f.left
  BY <1>2, FrameMoves
<1>8. g.op = f.op /\ g.name = f.name /\ g.to = f.to
  BY <1>7 DEF SameCall
<1> HIDE DEF g
<1>9. Within(g, foot) /\ Looked(g)
  BY <1>7, <1>8, WithinCall, LookedSame
<1>10. FrameOK(g, foot)
  BY <1>1, <1>7, <1>8, <1>9 DEF FrameOK, Placed, Looked
<1>11. Held(g, b)
  BY <1>4, <1>6, <1>7, <1>8 DEF Held, Moving
<1>12. BelowOK(s, g, foot, b)
  BY <1>8 DEF BelowOK, WaitsFor, SameCall
<1>13. next \in {"children", "touch", "list", "unlist", "retract"} => \A i \in 1..Len(s) : s[i].pc = "children"
  <2>1. SUFFICES ASSUME next \in {"children", "touch", "list", "unlist", "retract"}, NEW i \in 1..Len(s), s[i].pc # "children"
                 PROVE  FALSE
    OBVIOUS
  <2>2. s[i].pc \in Swapping /\ f.op = Swap(s[i]).op
    BY <2>1 DEF BelowOK, WaitsFor, SameCall
  <2>3. f.op \in {"add", "del", "touch"}
    BY <2>2, SwapOps
  <2>4. QED
    BY <1>1, <2>1, <2>3 DEF Places
<1>14. CASE next = "children"
  <2>1. PICK e \in f.left : r = s \o <<[g EXCEPT !.left = @ \ {e}], Child(f, e)>>
    BY <1>5, <1>14
  <2>2. f.op \in {"remove", "rename", "copy"}
    BY <1>0, <1>1, <1>14 DEF Places, OpNames
  <2>3. Child(f, e) \in Frames /\ FrameOK(Child(f, e), foot) /\ Held(Child(f, e), b)
    BY <2>2, ChildOK
  <2>4. PICK h : h = [g EXCEPT !.left = @ \ {e}]
    OBVIOUS
  <2>5. /\ h \in Frames /\ h.pc = g.pc /\ h.op = g.op /\ h.name = g.name /\ h.to = g.to
        /\ h.obj = g.obj /\ h.left = g.left \ {e}
    BY <1>7, <2>4 DEF Frames
  <2>6. FrameOK(h, foot)
    <3>1. Within(h, foot)
      BY <1>9, <2>5, WithinCall DEF SameCall
    <3>2. Looked(h)
      BY <1>9, <2>5, LookedSame
    <3>3. Placed(h)
      BY <1>10, <2>5 DEF FrameOK, Placed
    <3>4. QED
      BY <3>1, <3>2, <3>3 DEF FrameOK
  <2>7. Held(h, b)
    BY <1>11, <2>5 DEF Held, Moving
  <2>8. BelowOK(s, h, foot, b)
    BY <1>12, <2>5 DEF BelowOK, WaitsFor, SameCall
  <2>9. WaitsFor(h, Child(f, e), TRUE)
    BY <1>7, <1>14, <2>5 DEF WaitsFor
  <2>10. r = s \o <<h, Child(f, e)>>
    BY <2>1, <2>4
  <2>11. QED
    BY <1>13, <1>14, <2>3, <2>5, <2>6, <2>7, <2>8, <2>9, <2>10, PushTwo
<1>15. CASE next \in {"touch", "list", "unlist", "retract"}
  <2>1. r = s \o <<g, Swap(g)>>
    BY <1>5, <1>15
  <2>2. g.pc \in Swapping /\ g.pc \in Places(g.op)
    BY <1>1, <1>7, <1>8, <1>15 DEF Swapping
  <2>3. Swap(g) \in Frames /\ FrameOK(Swap(g), foot) /\ Held(Swap(g), b)
    BY <1>7, <1>9, <2>2, SwapOK
  <2>4. WaitsFor(g, Swap(g), TRUE)
    BY <2>2 DEF WaitsFor, SameCall
  <2>5. QED
    BY <1>7, <1>10, <1>11, <1>12, <1>13, <1>15, <2>1, <2>3, <2>4, PushTwo
<1>16. CASE next \notin {"children", "touch", "list", "unlist", "retract"}
  <2>1. r = Append(s, g)
    BY <1>5, <1>16
  <2>2. QED
    BY <1>7, <1>10, <1>11, <1>12, <2>1, PushOne
<1>17. QED
  BY <1>14, <1>15, <1>16

-----------------------------------------------------------------------------
(* How a call goes on.                                                     *)

\* The call of t is over, or has another stack that the invariant allows with the bucket b
CallStep(t, b) ==
    \/ call' = [call EXCEPT ![t] = Idle]
    \/ \E s \in Seq(Frames), w \in BOOLEAN :
          /\ StackOK(s, call[t].foot) /\ StackHeld(s, b)
          /\ call' = [call EXCEPT ![t].stack = s, ![t].wrote = @ \/ w]

WithStack(c, t, s, w) == [c EXCEPT ![t].stack = s, ![t].wrote = @ \/ w]

LEMMA SetStack ==
    ASSUME NEW c \in [Threads -> Records], NEW t \in Threads, NEW s \in Seq(Frames), NEW w \in BOOLEAN,
           NEW d, d = WithStack(c, t, s, w)
    PROVE  /\ d \in [Threads -> Records]
           /\ d[t].stack = s /\ d[t].foot = c[t].foot
           /\ \A u \in Threads \ {t} : d[u] = c[u]
<1>1. PICK v \in BOOLEAN : v = (c[t].wrote \/ w)
  OBVIOUS
<1>2. PICK r : r = [c[t] EXCEPT !.stack = s, !.wrote = v]
  OBVIOUS
<1>3. c[t] \in Records
  OBVIOUS
<1>4. r \in Records /\ r.stack = s /\ r.foot = c[t].foot
  BY <1>2, <1>3 DEF Records
<1>5. d = [c EXCEPT ![t] = r]
  BY <1>1, <1>2 DEF WithStack
<1>6. QED
  BY <1>4, <1>5

LEMMA IdleType ==
    ASSUME NEW foot
    PROVE  Idle \in Records /\ Idle.stack = <<>> /\ Idle.foot = {} /\ StackOK(<<>>, foot)
BY DEF Idle, Records, StackOK

LEMMA BusyType ==
    ASSUME call \in [Threads -> Records], NEW t \in Threads, Busy(t)
    PROVE  /\ call[t].stack \in Seq(Frames) /\ call[t].stack # <<>> /\ call[t].foot \subseteq Paths
           /\ Top(t) = Last(call[t].stack)
BY DEF Records, Busy, Top

\* What the hypotheses of the lemmas below say of the call of t.
Calls(t, b) ==
    /\ t \in Threads /\ call \in [Threads -> Records] /\ Busy(t)
    /\ StackOK(call[t].stack, call[t].foot) /\ StackHeld(call[t].stack, b)

\* The top frame goes elsewhere.
LEMMA GotoOK ==
    ASSUME NEW t, NEW b, Calls(t, b), NEW f \in Frames, SameCall(f, Top(t)), Looked(f),
           NEW pc, pc \in Places(f.op), pc \in {"get", "check"} => f.obj = None,
           Held([f EXCEPT !.pc = pc], b),
           NEW w \in BOOLEAN, Goto(t, f, pc, w)
    PROVE  CallStep(t, b)
<1>1. PICK s \in Seq(Frames) : s = call[t].stack /\ s # <<>> /\ Last(s) = Top(t)
  BY BusyType DEF Calls
<1>2. StackOK(s, call[t].foot) /\ StackHeld(s, b)
  BY <1>1 DEF Calls
<1>3. /\ Front(s) \in Seq(Frames) /\ BelowOK(Front(s), Last(s), call[t].foot, b)
      /\ FrameOK(Last(s), call[t].foot)
  BY <1>1, <1>2, FrontOK
<1>4. BelowOK(Front(s), f, call[t].foot, b)
  BY <1>1, <1>3 DEF BelowOK, WaitsFor, SameCall
<1>5. Within(f, call[t].foot)
  BY <1>1, <1>3, WithinCall DEF FrameOK
<1>6. PICK r \in Goes(Front(s), f, pc) : call' = [call EXCEPT ![t].stack = r, ![t].wrote = @ \/ w]
  BY <1>1 DEF Goto
<1>7. r \in Seq(Frames) /\ StackOK(r, call[t].foot) /\ StackHeld(r, b)
  BY <1>3, <1>4, <1>5, GoesOK
<1>8. QED
  BY <1>6, <1>7 DEF CallStep

\* The top frame returns.
LEMMA ReturnsOK ==
    ASSUME NEW t, NEW b, Calls(t, b), NEW w \in BOOLEAN, Returns(t, w)
    PROVE  CallStep(t, b)
<1>1. PICK s \in Seq(Frames) : s = call[t].stack /\ s # <<>> /\ Last(s) = Top(t)
  BY BusyType DEF Calls
<1>2. StackOK(s, call[t].foot) /\ StackHeld(s, b)
  BY <1>1 DEF Calls
<1>3. PICK q : q = Front(s)
  OBVIOUS
<1>4. q \in Seq(Frames) /\ BelowOK(q, Last(s), call[t].foot, b) /\ StackOK(q, call[t].foot) /\ StackHeld(q, b)
  BY <1>1, <1>2, <1>3, FrontOK
<1>5. CASE q = <<>>
  BY <1>1, <1>3, <1>5 DEF Returns, CallStep
<1>6. CASE q # <<>>
  <2>1. PICK f : f = Last(q)
    OBVIOUS
  <2>2. /\ Front(q) \in Seq(Frames) /\ BelowOK(Front(q), f, call[t].foot, b)
        /\ f \in Frames /\ FrameOK(f, call[t].foot) /\ Held(f, b)
        /\ f = q[Len(q)]
    BY <1>4, <1>6, <2>1, FrontOK
  <2>3. CASE Then(f, f.pc) = "err"
    BY <1>1, <1>3, <1>6, <2>1, <2>3 DEF Returns, CallStep
  <2>4. CASE Then(f, f.pc) # "err"
    <3>1. PICK pc : pc = IF f.pc = "children" THEN "children" ELSE Then(f, f.pc)
      OBVIOUS
    <3>2. PICK r \in Goes(Front(q), f, pc) : call' = [call EXCEPT ![t].stack = r, ![t].wrote = @ \/ w]
      BY <1>1, <1>3, <1>6, <2>1, <2>4, <3>1 DEF Returns
    <3>3. f.pc \in Swapping \cup {"children"}
      <4>1. Len(q) \in 1..Len(q)
        BY <1>4, <1>6, EmptySeq
      <4>2. QED
        BY <1>4, <2>2, <4>1 DEF BelowOK, WaitsFor
    <3>4. f.op \in OpNames /\ f.pc \in Places(f.op)
      BY <2>2 DEF Frames, FrameOK, Placed
    <3>5. /\ pc \in Places(f.op) /\ pc \notin {"get", "check"} /\ pc \in AllPlaces
          /\ f.op = "rename" => \/ pc = f.pc
                                \/ f.pc = "list" /\ pc = "put"
                                \/ f.pc = "unlist" /\ pc = "delete"
      BY <2>4, <3>1, <3>3, <3>4, ZenonT(60) DEF Then, Places, OpNames, Swapping, AllPlaces
    <3>6. Held([f EXCEPT !.pc = pc], b)
      <4>1. PICK g : g = [f EXCEPT !.pc = pc]
        OBVIOUS
      <4>2. g.pc = pc /\ g.op = f.op /\ g.name = f.name /\ g.to = f.to /\ g.obj = f.obj
        BY <2>2, <3>5, <4>1, FrameMoves DEF SameCall
      <4>3. Held(g, b)
        BY <2>2, <3>5, <4>2 DEF Held, Moving
      <4>4. QED
        BY <4>1, <4>3
    <3>7. r \in Seq(Frames) /\ StackOK(r, call[t].foot) /\ StackHeld(r, b)
      BY <2>2, <3>5, <3>6, GoesOK DEF FrameOK
    <3>8. QED
      BY <3>2, <3>7 DEF CallStep
  <2>5. QED
    BY <2>3, <2>4
<1>7. QED
  BY <1>5, <1>6

\* The top frame fails.
LEMMA FailsOK ==
    ASSUME NEW t, NEW b, Calls(t, b), NEW w \in BOOLEAN, Fails(t, w)
    PROVE  CallStep(t, b)
<1>1. PICK s \in Seq(Frames) : s = call[t].stack /\ s # <<>> /\ Last(s) = Top(t)
  BY BusyType DEF Calls
<1>2. StackOK(s, call[t].foot) /\ StackHeld(s, b)
  BY <1>1 DEF Calls
<1>3. CASE {i \in DOMAIN s : Else(s[i]) # "err"} = {}
  BY <1>1, <1>3 DEF Fails, CallStep
<1>4. CASE {i \in DOMAIN s : Else(s[i]) # "err"} # {}
  <2>1. PICK i \in DOMAIN s :
           /\ Else(s[i]) # "err"
           /\ \E r \in Goes(SubSeq(s, 1, i - 1), s[i], Else(s[i])) :
                 call' = [call EXCEPT ![t].stack = r, ![t].wrote = @ \/ w]
    BY <1>1, <1>4 DEF Fails
  <2>2. i \in 1..Len(s)
    BY <2>1, LenProperties
  <2>3. PICK f : f = s[i]
    OBVIOUS
  <2>4. PICK pc : pc = Else(f)
    OBVIOUS
  <2>5. PICK r \in Goes(SubSeq(s, 1, i - 1), f, pc) : call' = [call EXCEPT ![t].stack = r, ![t].wrote = @ \/ w]
    BY <2>1, <2>3, <2>4
  <2>6. /\ SubSeq(s, 1, i - 1) \in Seq(Frames) /\ BelowOK(SubSeq(s, 1, i - 1), f, call[t].foot, b)
        /\ f \in Frames /\ FrameOK(f, call[t].foot) /\ Held(f, b)
    BY <1>2, <2>2, <2>3, CutOK
  <2>7. f.op \in OpNames /\ f.pc \in Places(f.op)
    BY <2>6 DEF Frames, FrameOK, Placed
  <2>8. /\ pc \in Places(f.op) /\ pc \notin {"get", "check"} /\ pc \in AllPlaces
        /\ f.op = "rename" => /\ f.pc \in {"put", "unlist", "clean"}
                              /\ pc \in {"retract", "clean"}
    BY <2>1, <2>3, <2>4, <2>7, ZenonT(60) DEF Else, Then, Places, OpNames, AllPlaces
  <2>9. Held([f EXCEPT !.pc = pc], b)
    <3>1. PICK g : g = [f EXCEPT !.pc = pc]
      OBVIOUS
    <3>2. g.pc = pc /\ g.op = f.op /\ g.name = f.name /\ g.to = f.to /\ g.obj = f.obj
      BY <2>6, <2>8, <3>1, FrameMoves DEF SameCall
    <3>3. Held(g, b)
      BY <2>6, <2>8, <3>2 DEF Held, Moving
    <3>4. QED
      BY <3>1, <3>3
  <2>10. r \in Seq(Frames) /\ StackOK(r, call[t].foot) /\ StackHeld(r, b)
    BY <2>6, <2>8, <2>9, GoesOK DEF FrameOK
  <2>11. QED
    BY <2>5, <2>10 DEF CallStep
<1>5. QED
  BY <1>3, <1>4

-----------------------------------------------------------------------------
(* The bucket.                                                             *)

\* A bucket that keeps what the frames of every call hold of it
NewOK(b) == BucketOK(b) /\ \A u \in Threads : StackHeld(call[u].stack, b)

LEMMA InvNewOK ==
    ASSUME IInv
    PROVE  NewOK(bucket)
BY DEF IInv, NewOK

LEMMA InvCalls ==
    ASSUME IInv, NEW t \in Threads, Busy(t), NEW b, NewOK(b)
    PROVE  Calls(t, b)
BY DEF IInv, TypeOK, NewOK, Calls

LEMMA TopOK ==
    ASSUME IInv, NEW t \in Threads, Busy(t)
    PROVE  /\ Top(t) \in Frames /\ FrameOK(Top(t), call[t].foot) /\ Held(Top(t), bucket)
           /\ Top(t).op \in OpNames /\ Top(t).pc \in Places(Top(t).op)
           /\ Top(t).name \in Paths /\ Top(t).to \in Paths /\ Top(t).obj \in Objects
           /\ call[t].foot \subseteq Paths
<1>1. call[t].stack \in Seq(Frames) /\ call[t].stack # <<>> /\ call[t].foot \subseteq Paths /\ Top(t) = Last(call[t].stack)
  BY BusyType DEF IInv, TypeOK
<1>2. StackOK(call[t].stack, call[t].foot) /\ StackHeld(call[t].stack, bucket)
  BY DEF IInv
<1>3. Top(t) \in Frames /\ FrameOK(Top(t), call[t].foot) /\ Held(Top(t), bucket)
  BY <1>1, <1>2, FrontOK
<1>4. QED
  BY <1>1, <1>3 DEF Frames, FrameOK, Placed

\* What a call changes is not a path that another has below one of its own.
LEMMA Elsewhere ==
    ASSUME NEW foot, foot \subseteq Paths, NEW other, foot \cap other = {}, NEW q,
           q \in foot \/ \E x \in foot : x # <<>> /\ q = Parent(x),
           NEW p \in Paths, Below(p) \subseteq other
    PROVE  p # q
<1>1. p \in other
  BY SelfBelow
<1>2. ASSUME NEW x \in foot, x # <<>>, Parent(x) = p
      PROVE  FALSE
  <2>1. x \in Below(p)
    BY <1>2, SelfBelow, BelowDown
  <2>2. QED
    BY <1>2, <2>1
<1>3. QED
  BY <1>1, <1>2

LEMMA HeldAway ==
    ASSUME NEW f \in Frames, NEW b \in [Paths -> Objects], NEW q \in Paths, NEW v, NEW c, c = [b EXCEPT ![q] = v],
           Moving(f) => f.name # q /\ f.to # q,
           Held(f, b)
    PROVE  Held(f, c)
<1>1. f.name \in Paths /\ f.to \in Paths
  BY DEF Frames
<1>2. f.name # q => c[f.name] = b[f.name]
  BY <1>1
<1>3. f.to # q => c[f.to] = b[f.to]
  BY <1>1
<1>4. QED
  BY <1>2, <1>3 DEF Held, KeptAt

\* An object changes that the top frame of t may change: what all frames
\* hold is kept, if the top frame keeps what it holds itself.
LEMMA BucketKeeps ==
    ASSUME IInv, NEW t \in Threads, Busy(t), NEW q \in Paths, NEW v \in Objects, ListsPaths(q, v),
           NEW b, b = [bucket EXCEPT ![q] = v],
           q \in call[t].foot \/ \E x \in call[t].foot : x # <<>> /\ q = Parent(x),
           Top(t).op \in {"add", "del", "touch"} => q = Top(t).name,
           Held(Top(t), b)
    PROVE  NewOK(b)
<1>1. bucket \in [Paths -> Objects] /\ \A p \in Paths : ListsPaths(p, bucket[p])
  BY DEF IInv, BucketOK
<1>2. BucketOK(b)
  BY <1>1 DEF BucketOK
<1>3. ASSUME NEW u \in Threads, u # t, NEW i \in 1..Len(call[u].stack)
      PROVE  Held(call[u].stack[i], b)
  <2>1. call[u].stack \in Seq(Frames)
    BY DEF IInv, TypeOK, Records
  <2>2. PICK f \in Frames : f = call[u].stack[i]
    BY <2>1, ElementOfSeq
  <2>3. FrameOK(f, call[u].foot) /\ Held(f, bucket)
    BY <2>2 DEF IInv, StackOK, StackHeld
  <2>4. f.name \in Paths /\ f.to \in Paths
    BY DEF Frames
  <2>5. call[t].foot \cap call[u].foot = {} /\ call[t].foot \subseteq Paths
    BY <1>3, TopOK DEF IInv
  <2>6. Moving(f) => Below(f.name) \subseteq call[u].foot /\ Below(f.to) \subseteq call[u].foot
    BY <2>3 DEF FrameOK, Within, Moving
  <2>7. Moving(f) => f.name # q /\ f.to # q
    BY <2>4, <2>5, <2>6, Elsewhere
  <2>8. QED
    BY <1>1, <2>2, <2>3, <2>7, HeldAway
<1>4. ASSUME NEW i \in 1..Len(call[t].stack)
      PROVE  Held(call[t].stack[i], b)
  <2>1. call[t].stack \in Seq(Frames) /\ Len(call[t].stack) \in Nat /\ Top(t) = call[t].stack[Len(call[t].stack)]
    BY BusyType, LenProperties DEF IInv, TypeOK, Last
  <2>2. CASE i = Len(call[t].stack)
    BY <2>1, <2>2
  <2>3. CASE i # Len(call[t].stack)
    <3>1. i \in 1..Len(call[t].stack) - 1
      BY <2>1, <2>3
    <3>2. PICK f \in Frames : f = call[t].stack[i]
      BY <2>1, ElementOfSeq
    <3>3. FrameOK(f, call[t].foot) /\ Held(f, bucket)
      BY <3>2 DEF IInv, StackOK, StackHeld
    <3>4. f.pc = "children" \/ (f.pc \in Swapping /\ SameCall(Top(t), Swap(f)))
      <4>1. WaitsFor(call[t].stack[i], call[t].stack[i + 1], i + 1 = Len(call[t].stack))
        BY <3>1 DEF IInv, StackOK
      <4>2. QED
        BY <2>1, <3>2, <4>1 DEF WaitsFor
    <3>5. Moving(f) => f.name # q /\ f.to # q
      <4>1. SUFFICES ASSUME Moving(f)
                     PROVE  f.name # q /\ f.to # q
        OBVIOUS
      <4>2. f.pc # "children"
        BY <3>3, <4>1 DEF FrameOK, Placed, Moving
      <4>3. f.op = "rename" /\ f.pc \in {"list", "unlist", "retract"}
        BY <3>3, <3>4, <4>1, <4>2 DEF FrameOK, Placed, Places, Moving, Swapping
      <4>4. /\ f.name \in Paths /\ f.to \in Paths /\ Diverge(f.name, f.to) /\ f.name # <<>> /\ f.to # <<>>
        BY <3>3, <4>3 DEF Frames, FrameOK, Within
      <4>5. Top(t).op \in {"add", "del"} /\ Top(t).name \in {Parent(f.name), Parent(f.to)}
        BY <3>4, <4>2, <4>3 DEF SameCall, Swap, Frame
      <4>6. q \in {Parent(f.name), Parent(f.to)}
        BY <4>5
      <4>7. QED
        BY <4>4, <4>6, DivergeApart
    <3>6. QED
      BY <1>1, <3>2, <3>3, <3>5, HeldAway
  <2>4. QED
    BY <2>2, <2>3
<1>5. QED
  BY <1>2, <1>3, <1>4 DEF NewOK, StackHeld

\* The invariant after a step of a call.
LEMMA StepOK ==
    ASSUME IInv, NEW t \in Threads, NewOK(bucket'), CallStep(t, bucket'), handle' \in [Threads -> Handles]
    PROVE  IInv'
<1>1. call \in [Threads -> Records] /\ BucketOK(bucket') /\ bucket' \in [Paths -> Objects]
  BY DEF IInv, TypeOK, NewOK, BucketOK
<1>2. /\ call' \in [Threads -> Records]
      /\ \A u \in Threads \ {t} : call'[u] = call[u]
      /\ call'[t].foot \subseteq call[t].foot
      /\ StackOK(call'[t].stack, call'[t].foot) /\ StackHeld(call'[t].stack, bucket')
  <2>1. CASE call' = [call EXCEPT ![t] = Idle]
    <3>1. call' \in [Threads -> Records] /\ call'[t] = Idle /\ \A u \in Threads \ {t} : call'[u] = call[u]
      BY <1>1, <2>1, IdleType
    <3>2. StackHeld(<<>>, bucket')
      BY DEF StackHeld
    <3>3. QED
      BY <3>1, <3>2, IdleType
  <2>2. CASE \E s \in Seq(Frames), w \in BOOLEAN :
               /\ StackOK(s, call[t].foot) /\ StackHeld(s, bucket')
               /\ call' = [call EXCEPT ![t].stack = s, ![t].wrote = @ \/ w]
    <3>1. PICK s \in Seq(Frames), w \in BOOLEAN :
               /\ StackOK(s, call[t].foot) /\ StackHeld(s, bucket')
               /\ call' = [call EXCEPT ![t].stack = s, ![t].wrote = @ \/ w]
      BY <2>2
    <3>2. PICK c \in [Threads -> Records] : c = call
      BY <1>1
    <3>3. PICK d : d = call'
      OBVIOUS
    <3>4. d = WithStack(c, t, s, w)
      BY <3>1, <3>2, <3>3 DEF WithStack
    <3>5. /\ d \in [Threads -> Records]
          /\ d[t].stack = s /\ d[t].foot = c[t].foot
          /\ \A u \in Threads \ {t} : d[u] = c[u]
      BY <3>4, SetStack
    <3>6. QED
      BY <3>1, <3>2, <3>3, <3>5
  <2>3. QED
    BY <2>1, <2>2 DEF CallStep
<1>3. \A u, w \in Threads : u # w => call'[u].foot \cap call'[w].foot = {}
  <2>1. \A u \in Threads : call'[u].foot \subseteq call[u].foot
    BY <1>2
  <2>2. \A u, w \in Threads : u # w => call[u].foot \cap call[w].foot = {}
    BY DEF IInv
  <2>3. QED
    BY <2>1, <2>2
<1>4. ASSUME NEW u \in Threads
      PROVE  StackOK(call'[u].stack, call'[u].foot) /\ StackHeld(call'[u].stack, bucket')
  <2>1. CASE u = t
    BY <1>2, <2>1
  <2>2. CASE u # t
    BY <1>2, <2>2 DEF NewOK, IInv
  <2>3. QED
    BY <2>1, <2>2
<1>5. QED
  BY <1>1, <1>2, <1>3, <1>4 DEF IInv, TypeOK, BucketOK

LEMMA FailedOK ==
    ASSUME IInv, NEW t \in Threads, Busy(t), NewOK(bucket'), NEW w \in BOOLEAN, Fails(t, w), UNCHANGED handle
    PROVE  IInv'
<1>1. PICK b : b = bucket'
  OBVIOUS
<1>2. CallStep(t, b)
  BY <1>1, InvCalls, FailsOK
<1>3. handle' \in [Threads -> Handles]
  BY DEF IInv, TypeOK
<1>4. QED
  BY <1>1, <1>2, <1>3, StepOK

LEMMA RefusedOK ==
    ASSUME IInv, NEW t \in Threads, Busy(t), Refused(t), UNCHANGED handle
    PROVE  IInv'
<1>1. NewOK(bucket') /\ Fails(t, FALSE)
  BY InvNewOK DEF Refused
<1>2. QED
  BY <1>1, FailedOK

-----------------------------------------------------------------------------
(* The steps of a call.                                                    *)

\* A step that leaves the bucket and the handles.
LEMMA GoesOn ==
    ASSUME IInv, NEW t \in Threads, Busy(t), NewOK(bucket'), UNCHANGED handle,
           NEW f \in Frames, SameCall(f, Top(t)), Looked(f),
           NEW pc, pc \in Places(f.op), pc \in {"get", "check"} => f.obj = None,
           Held([f EXCEPT !.pc = pc], bucket'),
           NEW w \in BOOLEAN, Goto(t, f, pc, w)
    PROVE  IInv'
<1>1. PICK b : b = bucket'
  OBVIOUS
<1>2. CallStep(t, b)
  BY <1>1, InvCalls, GotoOK
<1>3. handle' \in [Threads -> Handles]
  BY DEF IInv, TypeOK
<1>4. QED
  BY <1>1, <1>2, <1>3, StepOK

LEMMA ReturnsOn ==
    ASSUME IInv, NEW t \in Threads, Busy(t), NewOK(bucket'), UNCHANGED handle, NEW w \in BOOLEAN, Returns(t, w)
    PROVE  IInv'
<1>1. PICK b : b = bucket'
  OBVIOUS
<1>2. CallStep(t, b)
  BY <1>1, InvCalls, ReturnsOK
<1>3. handle' \in [Threads -> Handles]
  BY DEF IInv, TypeOK
<1>4. QED
  BY <1>1, <1>2, <1>3, StepOK

\* A request that failed, carried out or not.
LEMMA RequestFails ==
    ASSUME IInv, NEW t \in Threads, Busy(t), NEW new, NewOK(new), UNCHANGED handle,
           bucket' \in {bucket, new}, Fails(t, bucket' # bucket)
    PROVE  IInv'
<1>1. NewOK(bucket')
  BY InvNewOK
<1>2. PICK w \in BOOLEAN : w = (bucket' # bucket)
  OBVIOUS
<1>3. Fails(t, w)
  BY <1>2
<1>4. QED
  BY <1>1, <1>3, FailedOK

\* A frame that has read its object.
ReadOf(f, o, left) == [f EXCEPT !.obj = o, !.left = left]

LEMMA FrameReads ==
    ASSUME NEW f \in Frames, NEW o \in Objects, ListsPaths(f.name, o), NEW left, left \subseteq Entries(o.body),
           left # {} => o.type = "dir" /\ f.op \in {"remove", "rename", "copy"}
    PROVE  /\ ReadOf(f, o, left) \in Frames
           /\ SameCall(ReadOf(f, o, left), f)
           /\ Looked(ReadOf(f, o, left))
           /\ ReadOf(f, o, left).obj = o
<1>1. left \subseteq Names
  BY DEF Entries
<1>2. PICK g : g = ReadOf(f, o, left)
  OBVIOUS
<1>3. /\ g \in Frames /\ g.op = f.op /\ g.name = f.name /\ g.to = f.to /\ g.obj = o /\ g.left = left
  BY <1>1, <1>2 DEF ReadOf, Frames
<1>4. SameCall(g, f) /\ Looked(g)
  BY <1>3 DEF SameCall, Looked
<1>5. QED
  BY <1>2, <1>3, <1>4

LEMMA GetKeeps ==
    ASSUME IInv, NEW t \in Threads, Get(t)
    PROVE  IInv'
<1>1. Busy(t) /\ Top(t).pc = "get" /\ UNCHANGED handle
  BY DEF Get, At
<1>2. PICK f \in Frames : /\ f = Top(t) /\ f.op \in OpNames /\ f.pc \in Places(f.op)
                          /\ f.name \in Paths /\ f.to \in Paths
  BY <1>1, TopOK
<1>3. PICK o \in Objects : o = bucket[f.name] /\ ListsPaths(f.name, o)
  BY <1>2 DEF IInv, BucketOK
<1>4. f.op \in {"remove", "rename", "copy", "chmod"}
  BY <1>1, <1>2 DEF Places, OpNames
<1>5. PICK left : left = IF o.type = "dir" /\ f.op # "chmod" THEN Entries(o.body) ELSE {}
  OBVIOUS
<1>6. PICK g : g = ReadOf(f, o, left)
  OBVIOUS
<1>7. g \in Frames /\ SameCall(g, f) /\ Looked(g) /\ g.obj = o
  <2>1. left \subseteq Entries(o.body) /\ (left # {} => o.type = "dir" /\ f.op \in {"remove", "rename", "copy"})
    BY <1>4, <1>5
  <2>2. QED
    BY <1>3, <1>6, <2>1, FrameReads
<1>8. CASE o = None
  <2>1. Refused(t)
    BY <1>2, <1>3, <1>8 DEF Get
  <2>2. QED
    BY <1>1, <2>1, RefusedOK
<1>9. CASE o # None
  <2>1. PICK pc : pc = Then(f, "get")
    OBVIOUS
  <2>2. Request(t, bucket, Goto(t, g, pc, FALSE))
    BY <1>2, <1>3, <1>5, <1>6, <1>9, <2>1 DEF Get, ReadOf
  <2>3. CASE bucket' = bucket /\ Goto(t, g, pc, FALSE)
    <3>1. NewOK(bucket')
      BY <2>3, InvNewOK
    <3>2. /\ pc \in Places(f.op) /\ pc \notin {"get", "check"} /\ pc \in AllPlaces
          /\ f.op = "rename" => pc = "list"
      BY <1>4, <2>1 DEF Then, Places, AllPlaces
    <3>3. g.op = f.op /\ g.name = f.name
      BY <1>7 DEF SameCall
    <3>4. Held([g EXCEPT !.pc = pc], bucket')
      <4>1. PICK k : k = [g EXCEPT !.pc = pc]
        OBVIOUS
      <4>2. k.pc = pc /\ k.op = f.op /\ k.name = f.name /\ k.obj = o
        BY <1>7, <3>2, <3>3, <4>1, FrameMoves DEF SameCall
      <4>3. KeptAt(bucket', f.name, o)
        BY <1>3, <2>3 DEF KeptAt
      <4>4. Held(k, bucket')
        BY <3>2, <4>2, <4>3 DEF Held, Moving
      <4>5. QED
        BY <4>1, <4>4
    <3>5. SameCall(g, Top(t))
      BY <1>2, <1>7
    <3>6. QED
      BY <1>1, <1>7, <2>3, <3>1, <3>2, <3>3, <3>4, <3>5, GoesOn
  <2>4. CASE bucket' \in {bucket, bucket} /\ Fails(t, bucket' # bucket)
    BY <1>1, <2>4, InvNewOK, RequestFails
  <2>5. QED
    BY <2>2, <2>3, <2>4 DEF Request
<1>10. QED
  BY <1>8, <1>9

LEMMA CheckKeeps ==
    ASSUME IInv, NEW t \in Threads, Check(t)
    PROVE  IInv'
<1>1. Busy(t) /\ Top(t).pc = "check" /\ UNCHANGED handle
  BY DEF Check, At
<1>2. PICK f \in Frames : f = Top(t) /\ f.op \in OpNames /\ f.pc \in Places(f.op) /\ FrameOK(f, call[t].foot)
  BY <1>1, TopOK
<1>3. f.op = "copy" /\ f.obj = None
  BY <1>1, <1>2 DEF Places, OpNames, FrameOK, Placed
<1>4. CASE bucket[Top(t).to] # None
  BY <1>1, <1>4, RefusedOK DEF Check
<1>5. CASE ~(bucket[Top(t).to] # None)
  <2>1. Goto(t, f, "get", FALSE) /\ bucket' = bucket
    BY <1>2, <1>5 DEF Check
  <2>2. NewOK(bucket')
    BY <2>1, InvNewOK
  <2>3. "get" \in Places(f.op) /\ "get" \in AllPlaces
    BY <1>3 DEF Places, AllPlaces
  <2>4. Held([f EXCEPT !.pc = "get"], bucket')
    BY <1>3, <2>3, FrameMoves DEF Held, Moving
  <2>5. SameCall(f, Top(t)) /\ Looked(f)
    BY <1>2 DEF SameCall, FrameOK
  <2>6. QED
    BY <1>1, <1>3, <2>1, <2>2, <2>3, <2>4, <2>5, GoesOn
<1>6. QED
  BY <1>4, <1>5

\* What lists paths at one name of a move lists paths at the other.
LEMMA ListsAtBoth ==
    ASSUME NEW p \in Paths, NEW q \in Paths, HasRoom(p, q), NEW o, ListsPaths(p, o)
    PROVE  ListsPaths(q, o)
<1>1. ASSUME o.type = "dir", NEW e \in Entries(o.body)
      PROVE  Append(q, e) \in Paths
  <2>1. Append(p, e) \in Paths /\ e \in Names
    BY <1>1 DEF ListsPaths, Entries
  <2>2. QED
    BY <2>1, RoomForEntry
<1>2. QED
  BY <1>1 DEF ListsPaths

\* What is put, and where.
LEMMA PutOfOK ==
    ASSUME NEW f \in Frames, NEW foot, FrameOK(f, foot), f.pc = "put"
    PROVE  /\ PutOf(f)[1] \in foot /\ PutOf(f)[1] \in Paths
           /\ PutOf(f)[2] \in Objects /\ ListsPaths(PutOf(f)[1], PutOf(f)[2])
           /\ f.op \in {"create", "mkdir", "link", "save", "chmod", "rename", "copy"}
           /\ f.op = "rename" => PutOf(f)[1] = f.to /\ PutOf(f)[2] = f.obj
<1>1. /\ f.op \in OpNames /\ f.pc \in Places(f.op) /\ f.name \in Paths /\ f.to \in Paths /\ f.obj \in Objects
      /\ Within(f, foot) /\ ListsPaths(f.name, f.obj)
  BY DEF Frames, FrameOK, Placed, Looked
<1>2. f.op \in {"create", "mkdir", "link", "save", "chmod", "rename", "copy"}
  BY <1>1 DEF Places, OpNames
<1>3. CASE f.op \in {"create", "mkdir", "link"}
  <2>1. PICK type \in {"dir", "file", "link"}, body \in {{}, {"old"}} :
           /\ PutOf(f) = <<f.to, Object(type, body, 0)>>
           /\ type = "dir" => body = {}
    BY <1>3 DEF PutOf
  <2>2. Object(type, body, 0) \in Objects /\ ListsPaths(f.to, Object(type, body, 0))
    BY <2>1 DEF Object, Objects, ListsPaths, Entries
  <2>3. QED
    BY <1>1, <1>2, <1>3, <2>1, <2>2 DEF Within
<1>4. CASE f.op = "save"
  BY <1>1, <1>2, <1>4 DEF PutOf, Within
<1>5. CASE f.op \in {"rename", "copy"}
  <2>1. ListsPaths(f.to, f.obj)
    BY <1>1, <1>5, ListsAtBoth DEF Within
  <2>2. f.to \in foot
    BY <1>1, <1>5, SelfBelow DEF Within
  <2>3. PutOf(f) = <<f.to, f.obj>>
    BY <1>5 DEF PutOf
  <2>4. QED
    BY <1>1, <1>2, <2>1, <2>2, <2>3
<1>6. CASE f.op = "chmod"
  <2>1. PutOf(f) = <<f.name, [f.obj EXCEPT !.mode = 1]>>
    BY <1>6 DEF PutOf
  <2>2. [f.obj EXCEPT !.mode = 1] \in Objects /\ ListsPaths(f.name, [f.obj EXCEPT !.mode = 1])
    BY <1>1 DEF Objects, ListsPaths
  <2>3. QED
    BY <1>1, <1>2, <1>6, <2>1, <2>2 DEF Within
<1>7. QED
  BY <1>2, <1>3, <1>4, <1>5, <1>6

LEMMA PutKeeps ==
    ASSUME IInv, NEW t \in Threads, Put(t)
    PROVE  IInv'
<1>1. Busy(t) /\ Top(t).pc = "put" /\ UNCHANGED handle
  BY DEF Put, At
<1>2. PICK f \in Frames : /\ f = Top(t) /\ FrameOK(f, call[t].foot) /\ Held(f, bucket) /\ f.pc = "put"
                          /\ f.name \in Paths /\ f.to \in Paths
  BY <1>1, TopOK
<1>3. PICK q \in Paths, v \in Objects :
         /\ q = PutOf(f)[1] /\ v = PutOf(f)[2] /\ q \in call[t].foot /\ ListsPaths(q, v)
         /\ f.op = "rename" => q = f.to /\ v = f.obj
  BY <1>2, PutOfOK
<1>4. f.op \in {"create", "mkdir", "link", "save", "chmod", "rename", "copy"}
  BY <1>2, PutOfOK
<1>5. PICK new : new = [bucket EXCEPT ![q] = v]
  OBVIOUS
<1>6. f.op = "rename" => f.name # f.to
  BY <1>2, DivergeApart DEF FrameOK, Within
<1>7. bucket \in [Paths -> Objects]
  BY DEF IInv, TypeOK
<1>8. Moving(f) => KeptAt(new, f.name, f.obj) /\ KeptAt(new, f.to, f.obj)
  <2>1. SUFFICES ASSUME Moving(f)
                 PROVE  KeptAt(new, f.name, f.obj) /\ KeptAt(new, f.to, f.obj)
    OBVIOUS
  <2>2. f.op = "rename" /\ KeptAt(bucket, f.name, f.obj)
    BY <1>2, <2>1 DEF Held, Moving
  <2>3. new[f.name] = bucket[f.name] /\ new[f.to] = f.obj
    BY <1>2, <1>3, <1>5, <1>6, <1>7, <2>2
  <2>4. QED
    BY <2>2, <2>3 DEF KeptAt
<1>9. Held(f, new)
  BY <1>8 DEF Held
<1>10. NewOK(new)
  BY <1>1, <1>2, <1>3, <1>4, <1>5, <1>9, BucketKeeps
<1>11. PICK pc : pc = Then(f, "put")
  OBVIOUS
<1>12. Request(t, new, Goto(t, f, pc, TRUE))
  BY <1>2, <1>3, <1>5, <1>11 DEF Put
<1>13. CASE bucket' = new /\ Goto(t, f, pc, TRUE)
  <2>1. NewOK(bucket')
    BY <1>10, <1>13
  <2>2. pc \in Places(f.op) /\ pc \notin {"get", "check"} /\ pc \in AllPlaces
    BY <1>4, <1>11 DEF Then, Places, AllPlaces
  <2>3. Held([f EXCEPT !.pc = pc], bucket')
    <3>1. PICK g : g = [f EXCEPT !.pc = pc]
      OBVIOUS
    <3>2. g.op = f.op /\ g.name = f.name /\ g.to = f.to /\ g.obj = f.obj
      BY <2>2, <3>1, FrameMoves DEF SameCall
    <3>3. Held(g, new)
      BY <1>8, <3>2 DEF Held, Moving
    <3>4. QED
      BY <1>13, <3>1, <3>3
  <2>4. SameCall(f, Top(t)) /\ Looked(f)
    BY <1>2 DEF SameCall, FrameOK
  <2>5. QED
    BY <1>1, <1>13, <2>1, <2>2, <2>3, <2>4, GoesOn
<1>14. CASE bucket' \in {bucket, new} /\ Fails(t, bucket' # bucket)
  BY <1>1, <1>10, <1>14, RequestFails
<1>15. QED
  BY <1>12, <1>13, <1>14 DEF Request

\* Nothing is where it was deleted.
LEMMA NoneOK ==
    ASSUME NEW q
    PROVE  None \in Objects /\ ListsPaths(q, None)
BY DEF None, Objects, ListsPaths

LEMMA DeleteKeeps ==
    ASSUME IInv, NEW t \in Threads, Delete(t)
    PROVE  IInv'
<1>1. Busy(t) /\ Top(t).pc = "delete" /\ UNCHANGED handle
  BY DEF Delete, At
<1>2. PICK f \in Frames : /\ f = Top(t) /\ FrameOK(f, call[t].foot) /\ Held(f, bucket) /\ f.pc = "delete"
                          /\ f.name \in Paths /\ f.to \in Paths /\ f.op \in OpNames /\ f.pc \in Places(f.op)
  BY <1>1, TopOK
<1>3. f.op \in {"remove", "rename"}
  BY <1>2 DEF Places, OpNames
<1>4. f.name \in call[t].foot
  BY <1>2, <1>3, SelfBelow DEF FrameOK, Within
<1>5. PICK new : new = [bucket EXCEPT ![f.name] = None]
  OBVIOUS
<1>6. f.op = "rename" => f.name # f.to
  BY <1>2, DivergeApart DEF FrameOK, Within
<1>7. bucket \in [Paths -> Objects]
  BY DEF IInv, TypeOK
<1>8. Moving(f) => KeptAt(new, f.to, f.obj)
  <2>1. SUFFICES ASSUME Moving(f)
                 PROVE  KeptAt(new, f.to, f.obj)
    OBVIOUS
  <2>2. f.op = "rename" /\ KeptAt(bucket, f.to, f.obj)
    BY <1>2, <2>1 DEF Held, Moving
  <2>3. new[f.to] = bucket[f.to]
    BY <1>2, <1>5, <1>6, <1>7, <2>2
  <2>4. QED
    BY <2>2, <2>3 DEF KeptAt
<1>9. Held(f, new)
  BY <1>2, <1>8 DEF Held
<1>10. NewOK(new)
  BY <1>1, <1>2, <1>3, <1>4, <1>5, <1>9, NoneOK, BucketKeeps
<1>11. Then(f, "delete") = "done"
  BY <1>3 DEF Then
<1>12. Request(t, new, Goto(t, f, "done", TRUE))
  BY <1>2, <1>5, <1>11 DEF Delete
<1>13. CASE bucket' = new /\ Goto(t, f, "done", TRUE)
  <2>1. NewOK(bucket')
    BY <1>10, <1>13
  <2>2. "done" \in Places(f.op) /\ "done" \in AllPlaces
    BY <1>3 DEF Places, AllPlaces
  <2>3. Held([f EXCEPT !.pc = "done"], bucket')
    <3>1. PICK g : g = [f EXCEPT !.pc = "done"]
      OBVIOUS
    <3>2. g.op = f.op /\ g.name = f.name /\ g.to = f.to /\ g.obj = f.obj /\ g.pc = "done"
      BY <2>2, <3>1, FrameMoves DEF SameCall
    <3>3. Held(g, new)
      BY <1>8, <3>2 DEF Held, Moving
    <3>4. QED
      BY <1>13, <3>1, <3>3
  <2>4. SameCall(f, Top(t)) /\ Looked(f)
    BY <1>2 DEF SameCall, FrameOK
  <2>5. QED
    BY <1>1, <1>13, <2>1, <2>2, <2>3, <2>4, GoesOn
<1>14. CASE bucket' \in {bucket, new} /\ Fails(t, bucket' # bucket)
  BY <1>1, <1>10, <1>14, RequestFails
<1>15. QED
  BY <1>12, <1>13, <1>14 DEF Request

LEMMA CleanKeeps ==
    ASSUME IInv, NEW t \in Threads, Clean(t)
    PROVE  IInv'
<1>1. Busy(t) /\ Top(t).pc = "clean" /\ UNCHANGED handle
  BY DEF Clean, At
<1>2. PICK f \in Frames : /\ f = Top(t) /\ FrameOK(f, call[t].foot) /\ Held(f, bucket) /\ f.pc = "clean"
                          /\ f.name \in Paths /\ f.to \in Paths /\ f.op \in OpNames /\ f.pc \in Places(f.op)
  BY <1>1, TopOK
<1>3. f.op \in {"create", "mkdir", "link", "rename"}
  BY <1>2 DEF Places, OpNames
<1>4. f.to \in call[t].foot
  BY <1>2, <1>3, SelfBelow DEF FrameOK, Within
<1>5. PICK new : new = [bucket EXCEPT ![f.to] = None]
  OBVIOUS
<1>6. f.op = "rename" => f.name # f.to
  BY <1>2, DivergeApart DEF FrameOK, Within
<1>7. bucket \in [Paths -> Objects]
  BY DEF IInv, TypeOK
<1>8. Moving(f) => KeptAt(new, f.name, f.obj)
  <2>1. SUFFICES ASSUME Moving(f)
                 PROVE  KeptAt(new, f.name, f.obj)
    OBVIOUS
  <2>2. f.op = "rename" /\ KeptAt(bucket, f.name, f.obj)
    BY <1>2, <2>1 DEF Held, Moving
  <2>3. new[f.name] = bucket[f.name]
    BY <1>2, <1>5, <1>6, <1>7, <2>2
  <2>4. QED
    BY <2>2, <2>3 DEF KeptAt
<1>9. Held(f, new)
  BY <1>2, <1>8 DEF Held
<1>10. NewOK(new)
  BY <1>1, <1>2, <1>3, <1>4, <1>5, <1>9, NoneOK, BucketKeeps
<1>11. Request(t, new, IF f.op = "rename" THEN Goto(t, f, "retract", TRUE) ELSE Fails(t, TRUE))
  BY <1>2, <1>5 DEF Clean
<1>12. CASE bucket' = new /\ f.op = "rename" /\ Goto(t, f, "retract", TRUE)
  <2>1. NewOK(bucket')
    BY <1>10, <1>12
  <2>2. "retract" \in Places(f.op) /\ "retract" \in AllPlaces
    BY <1>12 DEF Places, AllPlaces
  <2>3. Held([f EXCEPT !.pc = "retract"], bucket')
    <3>1. PICK g : g = [f EXCEPT !.pc = "retract"]
      OBVIOUS
    <3>2. g.op = f.op /\ g.name = f.name /\ g.to = f.to /\ g.obj = f.obj /\ g.pc = "retract"
      BY <2>2, <3>1, FrameMoves DEF SameCall
    <3>3. Held(g, new)
      BY <1>8, <3>2 DEF Held, Moving
    <3>4. QED
      BY <1>12, <3>1, <3>3
  <2>4. SameCall(f, Top(t)) /\ Looked(f)
    BY <1>2 DEF SameCall, FrameOK
  <2>5. QED
    BY <1>1, <1>12, <2>1, <2>2, <2>3, <2>4, GoesOn
<1>13. CASE bucket' = new /\ Fails(t, TRUE)
  BY <1>1, <1>10, <1>13, FailedOK
<1>14. CASE bucket' \in {bucket, new} /\ Fails(t, bucket' # bucket)
  BY <1>1, <1>10, <1>14, RequestFails
<1>15. QED
  BY <1>11, <1>12, <1>13, <1>14 DEF Request

\* The functions that read and write with a condition.
LEMMA SwapPlaces ==
    ASSUME NEW f \in Frames, f.pc \in Places(f.op), f.pc \in {"read", "write"}
    PROVE  f.op \in {"add", "del", "touch", "patch"}
BY DEF Frames, Places, OpNames

LEMMA ReadKeeps ==
    ASSUME IInv, NEW t \in Threads, Read(t)
    PROVE  IInv'
<1>1. Busy(t) /\ Top(t).pc = "read" /\ UNCHANGED handle
  BY DEF Read, At
<1>2. PICK f \in Frames : /\ f = Top(t) /\ FrameOK(f, call[t].foot) /\ f.pc = "read"
                          /\ f.name \in Paths /\ f.to \in Paths /\ f.op \in OpNames /\ f.pc \in Places(f.op)
  BY <1>1, TopOK
<1>3. f.op \in {"add", "del", "touch", "patch"}
  BY <1>2, SwapPlaces
<1>4. PICK o \in Objects : o = bucket[f.name] /\ ListsPaths(f.name, o)
  BY <1>2 DEF IInv, BucketOK
<1>5. f.left = {}
  BY <1>2, <1>3 DEF FrameOK, Looked
<1>6. PICK g : g = [f EXCEPT !.obj = o]
  OBVIOUS
<1>7. g \in Frames /\ SameCall(g, f) /\ g.obj = o /\ g.left = {} /\ g.op = f.op /\ g.name = f.name
  BY <1>5, <1>6 DEF Frames, SameCall
<1>8. Looked(g)
  BY <1>4, <1>7 DEF Looked
<1>9. CASE o = None
  <2>1. Refused(t)
    BY <1>2, <1>4, <1>9 DEF Read
  <2>2. QED
    BY <1>1, <2>1, RefusedOK
<1>10. CASE o # None
  <2>1. PICK pc : pc = IF f.op = "patch" THEN "list" ELSE "write"
    OBVIOUS
  <2>2. Request(t, bucket, Goto(t, g, pc, FALSE))
    BY <1>2, <1>4, <1>6, <1>10, <2>1 DEF Read
  <2>3. CASE bucket' = bucket /\ Goto(t, g, pc, FALSE)
    <3>1. NewOK(bucket')
      BY <2>3, InvNewOK
    <3>2. pc \in Places(g.op) /\ pc \notin {"get", "check"} /\ pc \in AllPlaces
      BY <1>3, <1>7, <2>1 DEF Places, AllPlaces
    <3>3. Held([g EXCEPT !.pc = pc], bucket')
      BY <1>3, <1>7, <3>2, FrameMoves DEF Held, Moving, SameCall
    <3>4. SameCall(g, Top(t))
      BY <1>2, <1>7
    <3>5. QED
      BY <1>1, <1>7, <1>8, <2>3, <3>1, <3>2, <3>3, <3>4, GoesOn
  <2>4. CASE bucket' \in {bucket, bucket} /\ Fails(t, bucket' # bucket)
    BY <1>1, <2>4, InvNewOK, RequestFails
  <2>5. QED
    BY <2>2, <2>3, <2>4 DEF Request
<1>11. QED
  BY <1>9, <1>10

\* What is written when nothing came in between.
LEMMA UpdatedOK ==
    ASSUME NEW f \in Frames, NEW foot, foot \subseteq Paths, FrameOK(f, foot), f.op \in {"add", "del", "touch", "patch"}
    PROVE  /\ Updated(f) \in Objects /\ ListsPaths(f.name, Updated(f))
           /\ f.name \in foot \/ \E x \in foot : x # <<>> /\ f.name = Parent(x)
<1>1. /\ f.name \in Paths /\ f.to \in Paths /\ f.obj \in Objects
      /\ Within(f, foot) /\ ListsPaths(f.name, f.obj)
  BY DEF Frames, FrameOK, Looked
<1>2. Entries(f.obj.body) \subseteq Names /\ \A B : Entries(Entries(B)) = Entries(B)
  BY DEF Entries
<1>3. CASE f.op = "add"
  <2>1. f.to # <<>> /\ f.name = Parent(f.to) /\ f.to \in foot
    BY <1>1, <1>3 DEF Within
  <2>2. Name(f.to) \in Names /\ Append(f.name, Name(f.to)) = f.to
    BY <1>1, <2>1, PathMeans, ParentMeans
  <2>3. PICK o : o = Updated(f)
    OBVIOUS
  <2>4. o \in Objects /\ o.type = f.obj.type /\ o.body = Entries(f.obj.body) \cup {Name(f.to)}
    BY <1>1, <1>2, <1>3, <2>2, <2>3 DEF Updated, Objects
  <2>5. Entries(o.body) \subseteq Entries(f.obj.body) \cup {Name(f.to)}
    BY <2>4 DEF Entries
  <2>6. ListsPaths(f.name, o)
    BY <1>1, <2>2, <2>4, <2>5 DEF ListsPaths
  <2>7. QED
    BY <2>1, <2>3, <2>4, <2>6
<1>4. CASE f.op = "del"
  <2>1. f.to # <<>> /\ f.name = Parent(f.to) /\ f.to \in foot
    BY <1>1, <1>4 DEF Within
  <2>2. PICK o : o = Updated(f)
    OBVIOUS
  <2>3. o \in Objects /\ o.type = f.obj.type /\ o.body = Entries(f.obj.body) \ {Name(f.to)}
    BY <1>1, <1>2, <1>4, <2>2 DEF Updated, Objects
  <2>4. Entries(o.body) \subseteq Entries(f.obj.body)
    BY <2>3 DEF Entries
  <2>5. ListsPaths(f.name, o)
    BY <1>1, <2>3, <2>4 DEF ListsPaths
  <2>6. QED
    BY <2>1, <2>2, <2>3, <2>5
<1>5. CASE f.op = "touch"
  <2>1. Updated(f) = Object(f.obj.type, {}, 0)
    BY <1>5 DEF Updated
  <2>2. Updated(f) \in Objects /\ ListsPaths(f.name, Updated(f))
    BY <1>1, <2>1 DEF Object, Objects, ListsPaths, Entries
  <2>3. QED
    BY <1>1, <1>5, <2>2 DEF Within
<1>6. CASE f.op = "patch"
  <2>1. Updated(f) = [f.obj EXCEPT !.mode = 1]
    BY <1>6 DEF Updated
  <2>2. Updated(f) \in Objects /\ ListsPaths(f.name, Updated(f))
    BY <1>1, <2>1 DEF Objects, ListsPaths
  <2>3. QED
    BY <1>1, <1>6, <2>2 DEF Within
<1>7. QED
  BY <1>3, <1>4, <1>5, <1>6

LEMMA WriteKeeps ==
    ASSUME IInv, NEW t \in Threads, Write(t)
    PROVE  IInv'
<1>1. Busy(t) /\ Top(t).pc = "write" /\ UNCHANGED handle
  BY DEF Write, At
<1>2. PICK f \in Frames : /\ f = Top(t) /\ FrameOK(f, call[t].foot) /\ f.pc = "write" /\ call[t].foot \subseteq Paths
                          /\ f.name \in Paths /\ f.to \in Paths /\ f.op \in OpNames /\ f.pc \in Places(f.op)
  BY <1>1, TopOK
<1>3. f.op \in {"add", "del", "touch", "patch"}
  BY <1>2, SwapPlaces
<1>4. CASE Matches(f)
  <2>1. PICK v \in Objects : v = Updated(f) /\ ListsPaths(f.name, v)
    BY <1>2, <1>3, UpdatedOK
  <2>2. f.name \in call[t].foot \/ \E x \in call[t].foot : x # <<>> /\ f.name = Parent(x)
    BY <1>2, <1>3, UpdatedOK
  <2>3. PICK new : new = [bucket EXCEPT ![f.name] = v]
    OBVIOUS
  <2>4. Held(f, new)
    BY <1>3 DEF Held, Moving
  <2>5. NewOK(new)
    BY <1>1, <1>2, <2>1, <2>2, <2>3, <2>4, BucketKeeps
  <2>6. Request(t, new, Returns(t, TRUE))
    BY <1>2, <1>4, <2>1, <2>3 DEF Write
  <2>7. CASE bucket' = new /\ Returns(t, TRUE)
    BY <1>1, <2>5, <2>7, ReturnsOn
  <2>8. CASE bucket' \in {bucket, new} /\ Fails(t, bucket' # bucket)
    BY <1>1, <2>5, <2>8, RequestFails
  <2>9. QED
    BY <2>6, <2>7, <2>8 DEF Request
<1>5. CASE ~Matches(f) /\ bucket[f.name] # None /\ Retries(f)
  <2>1. PICK g : g = [f EXCEPT !.tries = @ + 1, !.obj = None]
    OBVIOUS
  <2>2. Goto(t, g, "read", FALSE) /\ bucket' = bucket
    BY <1>2, <1>5, <2>1 DEF Write
  <2>3. f.left = {}
    BY <1>2, <1>3 DEF FrameOK, Looked
  <2>4. g \in Frames /\ SameCall(g, f) /\ g.obj = None /\ g.left = {} /\ g.op = f.op /\ g.name = f.name
    <3>1. PICK n \in Nat : n = f.tries + 1
      BY DEF Frames
    <3>2. PICK o \in Objects : o = None
      BY NoneOK
    <3>3. g = [f EXCEPT !.tries = n, !.obj = o]
      BY <2>1, <3>1, <3>2
    <3>4. g \in Frames /\ g.obj = o /\ g.left = f.left /\ g.op = f.op /\ g.name = f.name /\ g.to = f.to
      BY <3>3 DEF Frames
    <3>5. QED
      BY <2>3, <3>2, <3>4 DEF SameCall
  <2>5. Looked(g)
    BY <2>4, NoneOK DEF Looked
  <2>6. "read" \in Places(g.op) /\ "read" \in AllPlaces
    BY <1>3, <2>4 DEF Places, AllPlaces
  <2>7. NewOK(bucket')
    BY <2>2, InvNewOK
  <2>8. Held([g EXCEPT !.pc = "read"], bucket')
    BY <1>3, <2>4, <2>6, FrameMoves DEF Held, Moving, SameCall
  <2>9. SameCall(g, Top(t))
    BY <1>2, <2>4
  <2>10. QED
    BY <1>1, <2>2, <2>4, <2>5, <2>6, <2>7, <2>8, <2>9, GoesOn
<1>6. CASE ~Matches(f) /\ ~(bucket[f.name] # None /\ Retries(f))
  <2>1. Refused(t)
    BY <1>2, <1>6 DEF Write
  <2>2. QED
    BY <1>1, <2>1, RefusedOK
<1>7. QED
  BY <1>4, <1>5, <1>6

LEMMA DoneKeeps ==
    ASSUME IInv, NEW t \in Threads, Done(t)
    PROVE  IInv'
<1>1. Busy(t) /\ UNCHANGED handle /\ Returns(t, FALSE) /\ bucket' = bucket
  BY DEF Done, At
<1>2. NewOK(bucket')
  BY <1>1, InvNewOK
<1>3. QED
  BY <1>1, <1>2, ReturnsOn

\* A stack of one frame.
LEMMA OneFrame ==
    ASSUME NEW f \in Frames, NEW foot, NEW b, FrameOK(f, foot), Held(f, b)
    PROVE  <<f>> \in Seq(Frames) /\ StackOK(<<f>>, foot) /\ StackHeld(<<f>>, b)
<1>1. <<f>> \in Seq(Frames) /\ Len(<<f>>) = 1 /\ <<f>>[1] = f
  OBVIOUS
<1>2. QED
  BY <1>1 DEF StackOK, StackHeld

LEMMA HeadObjectKeeps ==
    ASSUME IInv, NEW t \in Threads, HeadObject(t)
    PROVE  IInv'
<1>1. Busy(t) /\ Top(t).pc = "head" /\ handle' = handle /\ bucket' = bucket
  BY DEF HeadObject, At
<1>2. PICK f \in Frames : /\ f = Top(t) /\ FrameOK(f, call[t].foot) /\ f.pc = "head"
                          /\ f.name \in Paths /\ f.to \in Paths /\ f.op \in OpNames /\ f.pc \in Places(f.op)
  BY <1>1, TopOK
<1>3. f.op = "stat"
  BY <1>2 DEF Places, OpNames
<1>4. PICK o \in Objects : o = bucket[f.name] /\ ListsPaths(f.name, o)
  BY <1>2 DEF IInv, BucketOK
<1>5. PICK g : g = [f EXCEPT !.pc = "keep", !.obj = o]
  OBVIOUS
<1>6. f.left = {}
  BY <1>2, <1>3 DEF FrameOK, Looked
<1>7. "keep" \in AllPlaces /\ "keep" \in Places("stat")
  BY DEF AllPlaces, Places
<1>8. g \in Frames /\ g.op = "stat" /\ g.pc = "keep" /\ g.name = f.name /\ g.obj = o /\ g.left = {}
  BY <1>3, <1>5, <1>6, <1>7 DEF Frames
<1>9. FrameOK(g, call[t].foot)
  BY <1>4, <1>7, <1>8 DEF FrameOK, Within, Looked, Placed
<1>10. Held(g, bucket)
  BY <1>8 DEF Held, Moving
<1>11. PICK s \in Seq(Frames) : s = <<g>> /\ StackOK(s, call[t].foot) /\ StackHeld(s, bucket)
  BY <1>8, <1>9, <1>10, OneFrame
<1>12. call' = [call EXCEPT ![t].stack = s]
  BY <1>2, <1>4, <1>5, <1>11 DEF HeadObject
<1>13. call' = [call EXCEPT ![t].stack = s, ![t].wrote = @ \/ FALSE]
  <2>1. call \in [Threads -> Records]
    BY DEF IInv, TypeOK
  <2>2. PICK r \in Records : r = call[t]
    BY <2>1
  <2>3. [r EXCEPT !.stack = s] = [r EXCEPT !.stack = s, !.wrote = @ \/ FALSE]
    BY DEF Records
  <2>4. QED
    BY <1>12, <2>1, <2>2, <2>3
<1>14. CallStep(t, bucket')
  BY <1>1, <1>11, <1>13 DEF CallStep
<1>15. NewOK(bucket') /\ handle' \in [Threads -> Handles]
  BY <1>1, InvNewOK DEF IInv, TypeOK
<1>16. QED
  BY <1>14, <1>15, StepOK

LEMMA KeepKeeps ==
    ASSUME IInv, NEW t \in Threads, Keep(t)
    PROVE  IInv'
<1>1. call' = [call EXCEPT ![t] = Idle] /\ handle' = handle /\ bucket' = bucket
  BY DEF Keep
<1>2. CallStep(t, bucket')
  BY <1>1 DEF CallStep
<1>3. NewOK(bucket') /\ handle' \in [Threads -> Handles]
  BY <1>1, InvNewOK DEF IInv, TypeOK
<1>4. QED
  BY <1>2, <1>3, StepOK

-----------------------------------------------------------------------------
(* Calls.                                                                  *)

\* A call that begins with the frame f.
LEMMA BeginsKeeps ==
    ASSUME IInv, NEW t \in Threads, ~Busy(t), NEW f \in Frames, Begins(t, f),
           Within(f, Footprint(f.op, f.name, f.to)), Looked(f),
           f.pc \in Places(f.op), f.pc \in {"get", "check"} => f.obj = None, ~Moving(f),
           bucket' = bucket, handle' \in [Threads -> Handles]
    PROVE  IInv'
<1>1. PICK foot : foot = Footprint(f.op, f.name, f.to)
  OBVIOUS
<1>2. foot \subseteq Paths
  <2>1. f.name \in Paths /\ f.to \in Paths
    BY DEF Frames
  <2>2. Below(f.name) \subseteq Paths /\ Below(f.to) \subseteq Paths
    BY DEF Below
  <2>3. QED
    BY <1>1, <2>1, <2>2 DEF Footprint
<1>3. \A u \in Threads : call[u].foot \cap foot = {}
  BY <1>1 DEF Begins, Apart
<1>4. PICK r \in Goes(<<>>, f, f.pc) : call' = [call EXCEPT ![t] = [stack |-> r, foot |-> foot, wrote |-> FALSE]]
  BY <1>1 DEF Begins
<1>5. PICK e \in Seq(Frames) : e = <<>> /\ Len(e) = 0
  BY EmptySeq
<1>6. BelowOK(e, f, foot, bucket)
  BY <1>5 DEF BelowOK
<1>7. PICK pc : pc = f.pc /\ pc \in AllPlaces
  BY DEF Frames
<1>8. Held([f EXCEPT !.pc = pc], bucket)
  <2>1. PICK g : g = [f EXCEPT !.pc = pc]
    OBVIOUS
  <2>2. g.op = f.op /\ g.obj = f.obj
    BY <1>7, <2>1, FrameMoves DEF SameCall
  <2>3. Held(g, bucket)
    BY <2>2 DEF Held, Moving
  <2>4. QED
    BY <2>1, <2>3
<1>9. r \in Goes(e, f, pc)
  BY <1>4, <1>5, <1>7
<1>10. r \in Seq(Frames) /\ StackOK(r, foot) /\ StackHeld(r, bucket)
  BY <1>1, <1>6, <1>7, <1>8, <1>9, GoesOK
<1>11. call \in [Threads -> Records]
  BY DEF IInv, TypeOK
<1>12. PICK c : c = [stack |-> r, foot |-> foot, wrote |-> FALSE]
  OBVIOUS
<1>13. c \in Records /\ c.stack = r /\ c.foot = foot
  BY <1>2, <1>10, <1>12 DEF Records
<1>14. /\ call' \in [Threads -> Records] /\ call'[t] = c
       /\ \A u \in Threads \ {t} : call'[u] = call[u]
  BY <1>4, <1>11, <1>12, <1>13
<1>15. \A u, w \in Threads : u # w => call'[u].foot \cap call'[w].foot = {}
  <2>1. \A u, w \in Threads : u # w => call[u].foot \cap call[w].foot = {}
    BY DEF IInv
  <2>2. QED
    BY <1>3, <1>13, <1>14, <2>1
<1>16. ASSUME NEW u \in Threads
       PROVE  StackOK(call'[u].stack, call'[u].foot) /\ StackHeld(call'[u].stack, bucket')
  <2>1. CASE u = t
    BY <1>10, <1>13, <1>14, <2>1
  <2>2. CASE u # t
    BY <1>14, <2>2 DEF IInv
  <2>3. QED
    BY <2>1, <2>2
<1>17. BucketOK(bucket') /\ bucket' \in [Paths -> Objects]
  BY DEF IInv, BucketOK
<1>18. QED
  BY <1>14, <1>15, <1>16, <1>17 DEF IInv, TypeOK, BucketOK

\* The calls on one path, and those on two.
LEMMA CallKeeps ==
    ASSUME IInv, NEW t \in Threads, NEW op \in OpNames \ {"save", "add", "del", "touch"},
           NEW p \in Paths, NEW q \in Paths,
           op \in {"rename", "copy"} => HasRoom(p, q),
           op \notin {"rename", "copy"} => p = q,
           Call(t, op, p, q)
    PROVE  IInv'
<1>1. ~Busy(t) /\ p # <<>> /\ q # <<>> /\ bucket' = bucket /\ handle' = handle
  BY DEF Call, MayCall
<1>2. PICK pc \in {First(op)} \cup (IF op = "copy" THEN {"check"} ELSE {}) : Begins(t, Frame(op, pc, p, q))
  BY DEF Call
<1>3. pc \in Places(op) /\ pc \in AllPlaces
  BY <1>2 DEF First, Places, OpNames, AllPlaces
<1>4. PICK f : f = Frame(op, pc, p, q)
  OBVIOUS
<1>5. /\ f \in Frames /\ f.op = op /\ f.pc = pc /\ f.name = p /\ f.to = q
      /\ f.obj = None /\ f.left = {}
  BY <1>3, <1>4, FrameType
<1>6. op \in {"rename", "copy"} => Diverge(p, q)
  <2>1. Proper(op, p, q)
    BY <1>2, <1>4, <1>5 DEF Begins
  <2>2. op \in {"rename", "copy"} => ~IsPrefix(p, q) /\ ~IsPrefix(q, p)
    BY <2>1 DEF Proper
  <2>3. QED
    BY <2>2, ApartDiverges
<1>7. PICK foot : foot = Footprint(op, p, q)
  OBVIOUS
<1>8. /\ op \in {"remove", "chmod", "rename", "copy"} => Below(p) \subseteq foot
      /\ op \in {"rename", "copy", "create", "mkdir", "link"} => Below(q) \subseteq foot
      /\ op = "patch" => p \in foot
  BY <1>7 DEF Footprint
<1>9. p \in Below(p) /\ q \in Below(q)
  BY SelfBelow
<1>10. Within(f, foot)
  BY <1>1, <1>5, <1>6, <1>8, <1>9 DEF Within
<1>11. Looked(f)
  BY <1>5, NoneOK DEF Looked
<1>12. ~Moving(f)
  BY <1>5 DEF Moving
<1>13. handle' \in [Threads -> Handles]
  BY <1>1 DEF IInv, TypeOK
<1>14. Begins(t, f) /\ Within(f, Footprint(f.op, f.name, f.to)) /\ f.pc \in Places(f.op)
  BY <1>2, <1>3, <1>4, <1>5, <1>7, <1>10
<1>15. QED
  BY <1>1, <1>5, <1>11, <1>12, <1>13, <1>14, BeginsKeeps

LEMMA OpenFileKeeps ==
    ASSUME IInv, NEW t \in Threads, NEW p \in Paths, OpenFile(t, p)
    PROVE  IInv'
<1>1. PICK h : /\ h = Written([path |-> p, body |-> bucket[p].body, mode |-> bucket[p].mode, dirty |-> FALSE])
               /\ handle' = [handle EXCEPT ![t] = h]
               /\ bucket' = bucket /\ call' = call
  BY DEF OpenFile
<1>2. bucket[p] \in Objects
  BY DEF IInv, TypeOK
<1>3. h \in Handles
  BY <1>1, <1>2 DEF Written, Handles, Objects
<1>4. handle' \in [Threads -> Handles]
  BY <1>1, <1>3 DEF IInv, TypeOK
<1>5. QED
  BY <1>1, <1>4 DEF IInv, TypeOK, BucketOK

LEMMA CloseKeeps ==
    ASSUME IInv, NEW t \in Threads, Close(t)
    PROVE  IInv'
<1>1. PICK h \in Handles : h = handle[t]
  BY DEF IInv, TypeOK
<1>2. PICK g : g = Frame("save", "put", h.path, h.path)
  OBVIOUS
<1>3. PICK o : o = Object("file", h.body, h.mode)
  OBVIOUS
<1>4. PICK f : f = [g EXCEPT !.obj = o]
  OBVIOUS
<1>5. ~Busy(t) /\ Begins(t, f) /\ bucket' = bucket /\ handle' = [handle EXCEPT ![t] = Closed]
  BY <1>1, <1>2, <1>3, <1>4 DEF Close, MayCall
<1>6. h.path \in Paths
  BY DEF Handles
<1>7. o \in Objects /\ o.type = "file"
  BY <1>3 DEF Object, Objects, Handles
<1>8. "save" \in OpNames /\ "put" \in AllPlaces /\ "put" \in Places("save")
  BY DEF OpNames, AllPlaces, Places
<1>9. g \in Frames /\ g.op = "save" /\ g.pc = "put" /\ g.name = h.path /\ g.to = h.path /\ g.left = {}
  BY <1>2, <1>6, <1>8, FrameType
<1>10. f \in Frames /\ f.op = "save" /\ f.pc = "put" /\ f.name = h.path /\ f.to = h.path /\ f.left = {} /\ f.obj = o
  BY <1>4, <1>7, <1>9 DEF Frames
<1>11. Within(f, Footprint(f.op, f.name, f.to))
  BY <1>6, <1>10, SelfBelow DEF Within, Footprint
<1>12. Looked(f)
  BY <1>7, <1>10 DEF Looked, ListsPaths
<1>13. ~Moving(f)
  BY <1>10 DEF Moving
<1>14. Closed \in Handles
  BY PathsAssumption DEF Closed, Handles
<1>15. handle' \in [Threads -> Handles]
  BY <1>5, <1>14 DEF IInv, TypeOK
<1>16. QED
  BY <1>5, <1>8, <1>10, <1>11, <1>12, <1>13, <1>15, BeginsKeeps

LEMMA CrashKeeps ==
    ASSUME IInv, Crash
    PROVE  IInv'
<1>1. bucket' = bucket /\ call' = [t \in Threads |-> Idle] /\ handle' = [t \in Threads |-> Closed]
  BY DEF Crash
<1>2. Closed \in Handles
  BY PathsAssumption DEF Closed, Handles
<1>3. TypeOK'
  BY <1>1, <1>2, IdleType DEF IInv, TypeOK
<1>4. \A t \in Threads : call'[t].stack = <<>> /\ call'[t].foot = {}
  BY <1>1, IdleType
<1>5. StackHeld(<<>>, bucket')
  BY DEF StackHeld
<1>6. QED
  BY <1>1, <1>3, <1>4, <1>5, IdleType DEF IInv, BucketOK

-----------------------------------------------------------------------------
(* The theorems.                                                           *)

LEMMA InitInv ==
    ASSUME Init
    PROVE  IInv
<1>1. bucket = Stored /\ call = [t \in Threads |-> Idle] /\ handle = [t \in Threads |-> Closed]
  BY DEF Init
<1>2. Closed \in Handles
  BY PathsAssumption DEF Closed, Handles
<1>3. Stored \in [Paths -> Objects]
  BY StoredAssumption DEF Objects, None
<1>4. TypeOK
  BY <1>1, <1>2, <1>3, IdleType DEF TypeOK
<1>5. BucketOK(bucket)
  BY <1>1, <1>3, StoredAssumption DEF BucketOK
<1>6. \A t \in Threads : call[t].stack = <<>> /\ call[t].foot = {}
  BY <1>1, IdleType
<1>7. StackHeld(<<>>, bucket)
  BY DEF StackHeld
<1>8. QED
  BY <1>4, <1>5, <1>6, <1>7, IdleType DEF IInv

LEMMA NextInv ==
    ASSUME IInv, [Next]_vars
    PROVE  IInv'
<1>1. ASSUME NEW t \in Threads, NEW p \in Paths,
             \/ Create(t, p) \/ Mkdir(t, p) \/ Symlink(t, p) \/ RemoveAll(t, p)
             \/ Chmod(t, p) \/ Patch(t, p) \/ Stat(t, p)
      PROVE  IInv'
  <2>1. PICK op \in {"create", "mkdir", "link", "remove", "chmod", "patch", "stat"} : Call(t, op, p, p)
    BY <1>1 DEF Create, Mkdir, Symlink, RemoveAll, Chmod, Patch, Stat
  <2>2. op \in OpNames \ {"save", "add", "del", "touch"}
    BY DEF OpNames
  <2>3. QED
    BY <1>1, <2>1, <2>2, CallKeeps
<1>2. ASSUME NEW t \in Threads, NEW p \in Paths, NEW q \in Paths, Rename(t, p, q) \/ Copy(t, p, q)
      PROVE  IInv'
  <2>1. PICK op \in {"rename", "copy"} : Call(t, op, p, q) /\ HasRoom(p, q)
    BY <1>2 DEF Rename, Copy
  <2>2. op \in OpNames \ {"save", "add", "del", "touch"}
    BY DEF OpNames
  <2>3. QED
    BY <1>2, <2>1, <2>2, CallKeeps
<1>3. ASSUME NEW t \in Threads,
             \/ Get(t) \/ Check(t) \/ Put(t) \/ Delete(t) \/ Clean(t) \/ Read(t) \/ Write(t)
             \/ Done(t) \/ HeadObject(t) \/ Keep(t)
      PROVE  IInv'
  BY <1>3, GetKeeps, CheckKeeps, PutKeeps, DeleteKeeps, CleanKeeps, ReadKeeps, WriteKeeps, DoneKeeps,
     HeadObjectKeeps, KeepKeeps
<1>4. ASSUME UNCHANGED <<bucket, call, handle>>
      PROVE  IInv'
  BY <1>4 DEF IInv, TypeOK, BucketOK
<1>5. CASE UNCHANGED vars
  BY <1>4, <1>5 DEF vars
<1>6. ASSUME NEW p \in Paths, Expire(p)
      PROVE  IInv'
  BY <1>4, <1>6 DEF Expire
<1>7. CASE Next
  BY <1>1, <1>2, <1>3, <1>6, <1>7, OpenFileKeeps, CloseKeeps, CrashKeeps DEF Next
<1>8. QED
  BY <1>5, <1>7

\* A renamed object is where the invariant says.
LEMMA InvKeeps ==
    ASSUME IInv
    PROVE  RenameKeepsObject
<1>1. SUFFICES ASSUME NEW t \in Threads, NEW i \in DOMAIN call[t].stack, Moving(call[t].stack[i])
               PROVE  \E p \in {call[t].stack[i].name, call[t].stack[i].to} :
                         KeptAt(bucket, p, call[t].stack[i].obj)
  BY DEF RenameKeepsObject, Moving, KeptAt
<1>2. call[t].stack \in Seq(Frames)
  BY DEF IInv, TypeOK, Records
<1>3. i \in 1..Len(call[t].stack)
  BY <1>2, LenProperties
<1>4. PICK f : f = call[t].stack[i] /\ FrameOK(f, call[t].foot) /\ Held(f, bucket)
  BY <1>3 DEF IInv, StackOK, StackHeld
<1>5. f.op = "rename" /\ f.obj # None /\ f.obj.type # "dir" /\ f.pc \in Places(f.op) /\ (f.pc = "get" => f.obj = None)
  BY <1>1, <1>4 DEF Moving, FrameOK, Placed
<1>6. f.pc \in {"list", "put", "children", "unlist", "clean", "retract", "delete", "done"}
  BY <1>5 DEF Places
<1>7. QED
  BY <1>1, <1>4, <1>6 DEF Held

\* The types, the footprints and what every frame holds of the bucket are
\* so in every reachable state.
THEOREM StoreInvariance == Spec => []IInv
<1>1. QED
  BY InitInv, NextInv, PTL DEF Spec

\* A rename that runs, on its own or for what is below a directory, leaves
\* the object at its old or its new name, whatever else runs, and whichever
\* requests fail (r2fs.go:1277, FS.rename).
THEOREM RenamesKeepObjects == Spec => []RenameKeepsObject
<1>1. QED
  BY StoreInvariance, InvKeeps, PTL
=============================================================================
