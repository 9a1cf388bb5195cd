--------------------------- MODULE MetaCacheProofs ---------------------------
(***************************************************************************)
(* Theorems about MetaCache, for any tree, any clients and any bounds: the *)
(* cache shows clients what clients have done, and serves what is wrong    *)
(* for no longer than its TTL.                                             *)
(***************************************************************************)
EXTENDS MetaCache, SequenceTheorems, TLAPS

-----------------------------------------------------------------------------
(* Types.                                                                  *)

Answers == [err : {None, "notexist", "notdir", "other"}, info : Contents, entries : SUBSET Paths]
Entries == [res : Answers, excused : BOOLEAN, wrongFor : Nat, extended : BOOLEAN, renews : Int, expires : Int]
Invalidations == [what : {"path", "dir", "parent"}, path : Paths]
PCs == {"idle", "expired", "fetch", "store", "refresh", "extend", "invalidate"}
CallRecords ==
  [pc : PCs, key : Keys \cup {<<>>}, res : Answers, excused : BOOLEAN,
   todo : Seq(Invalidations), changed : SUBSET Keys]

TypeOK ==
  /\ fsys \in [Paths -> Contents] /\ fsys[<<>>] = Dir
  /\ DOMAIN cache \subseteq Keys /\ cache \in [DOMAIN cache -> Entries]
  /\ call \in [Threads -> CallRecords]
  /\ \A t \in Threads : call[t].pc \in {"expired", "fetch", "store", "refresh", "extend"} => call[t].key \in Keys
  /\ \A t \in Threads : call[t].pc = "invalidate" => call[t].todo # <<>>
  /\ file \in [name : Paths, at : Paths, info : Contents, written : BOOLEAN, changed : SUBSET Keys]
  /\ served \in [wrongFor : Nat, extended : BOOLEAN]

-----------------------------------------------------------------------------
(***************************************************************************)
(* The open file is at a path that has a file; what is wrong because of    *)
(* its writes is an answer about its name that Close removes.              *)
(***************************************************************************)
FileInv ==
  /\ file.name = <<>> => file = NoFile
  /\ file.at # <<>> => fsys[file.at] \in Versions
  /\ ~file.written => file.changed = {}
  /\ \A k \in file.changed : k[1] # "readdir"

\* An answer that is going to be stored is right, unless it is excused
StoreInv ==
  \A t \in Threads : At(t, "store") /\ ~call[t].excused => call[t].res = Answer(fsys, call[t].key)

\* A call that changed what k asks is going to remove it
CallRemoves(c, k) ==
  /\ At(c, "invalidate") /\ k \in call[c].changed
  /\ \E i \in DOMAIN call[c].todo : k \in Invalidated(call[c].todo[i])

\* Close is going to remove it: the file is where it was opened, or nowhere
FileRemoves(k) == k \in file.changed /\ k[2] = file.name /\ file.at \in {file.name, <<>>}

Pending(k) == (\E c \in Clients : CallRemoves(c, k)) \/ FileRemoves(k)

CacheInv ==
  \A k \in DOMAIN cache : cache[k].res # Answer(fsys, k) /\ ~cache[k].excused => Pending(k)

\* What is left of an entry's time and how long it has been wrong add up to the TTL
TimeInv ==
  /\ \A k \in DOMAIN cache :
       \/ cache[k].extended
       \/ cache[k].expires = -1
       \/ cache[k].expires \in Nat /\ cache[k].wrongFor + cache[k].expires <= TTL
  /\ served.extended \/ served.wrongFor <= TTL

IInv == TypeOK /\ FileInv /\ StoreInv /\ CacheInv /\ TimeInv
-----------------------------------------------------------------------------
(* Trees and answers.                                                      *)

\* An answer changes only if what is at the path does, or at one below it.
LEMMA AnswerDiffers ==
  ASSUME NEW t, NEW u, NEW k \in Keys, Answer(t, k) # Answer(u, k)
  PROVE  \/ t[k[2]] # u[k[2]]
         \/ k[1] = "readdir" /\ \E q \in Paths : q # <<>> /\ Parent(q) = k[2] /\ t[q] # u[q]
<1>1. CASE t[k[2]] = u[k[2]] /\ k[1] # "readdir"
  BY <1>1 DEF Answer
<1>2. CASE t[k[2]] = u[k[2]] /\ \A q \in Children(k[2]) : t[q] = u[q]
  <2>1. {q \in Children(k[2]) : t[q] # None} = {q \in Children(k[2]) : u[q] # None}
    BY <1>2
  <2>2. QED
    BY <1>2, <2>1 DEF Answer
<1>3. QED
  BY <1>1, <1>2 DEF Children

\* What a file answers, and what no file answers
LEMMA FileAnswers ==
  ASSUME NEW t, NEW k \in Keys
  PROVE  /\ t[k[2]] = None => Answer(t, k) = Error("notexist")
         /\ t[k[2]] # None => Answer(t, k) # Error("notexist")
         /\ t[k[2]] \in Versions /\ k[1] = "readdir" => Answer(t, k) = Error("notdir")
         /\ t[k[2]] # None /\ k[1] # "readdir" => Answer(t, k) = Info(t[k[2]])
BY DEF Answer, Error, Info, None, Dir, Versions

LEMMA AnswerType ==
  ASSUME NEW t \in [Paths -> Contents], NEW k \in Keys
  PROVE  Answer(t, k) \in Answers
<1>1. k[2] \in Paths
  BY DEF Keys
<1>2. {q \in Children(k[2]) : t[q] # None} \in SUBSET Paths
  BY DEF Children
<1>3. QED
  BY <1>1, <1>2 DEF Answer, Error, Info, Answers, Contents, None

LEMMA KeysAre ==
  \A k \in Keys : k = <<k[1], k[2]>> /\ k[1] \in Kinds /\ k[2] \in Paths
BY DEF Keys

\* The keys that the three kinds of invalidations remove.
LEMMA Removes ==
  ASSUME NEW k \in Keys, NEW p \in Paths \ {<<>>}
  PROVE  /\ k[2] = p => k \in Invalidated(Path(p))
         /\ k[1] = "readdir" /\ k[2] = Parent(p) => k \in Invalidated(Listing(p))
         /\ k[2] = p \/ k[2] \in Below(p) => k \in Invalidated(Dirs(p))
<1>1. k = <<k[1], k[2]>> /\ k[1] \in Kinds /\ k[2] \in Paths
  BY KeysAre
<1>2. k[2] = p => k \in Invalidated(Path(p))
  BY <1>1 DEF Invalidated, Path
<1>3. k[1] = "readdir" /\ k[2] = Parent(p) => k \in Invalidated(Listing(p))
  BY <1>1 DEF Invalidated, Listing
<1>4. k[2] = p \/ k[2] \in Below(p) => k \in Invalidated(Dirs(p))
  BY <1>1 DEF Invalidated, Dirs
<1>5. QED
  BY <1>2, <1>3, <1>4

LEMMA Prefix ==
  ASSUME NEW p \in Paths, NEW n \in 0 .. Len(p)
  PROVE  /\ p \in Seq(STRING) /\ Len(p) \in Nat
         /\ SubSeq(p, 1, n) \in Paths /\ Len(SubSeq(p, 1, n)) = n
         /\ \A i \in 1 .. n : SubSeq(p, 1, n)[i] = p[i]
<1>1. p \in Seq(STRING) /\ Len(p) \in Nat /\ SubSeq(p, 1, n) \in Paths
  BY PathsAssumption, LenProperties
<1>2. \A i \in 1 .. n : p[i] \in STRING
  BY <1>1, ElementOfSeq
<1>3. 1 \in Int /\ n \in Int
  BY <1>1
<1>4. /\ Len(SubSeq(p, 1, n)) = IF 1 <= n THEN n - 1 + 1 ELSE 0
      /\ \A i \in 1 .. n - 1 + 1 : SubSeq(p, 1, n)[i] = p[1 + i - 1]
  BY <1>2, <1>3, SubSeqProperties
<1>5. QED
  BY <1>1, <1>4

LEMMA ParentType ==
  ASSUME NEW p \in Paths, p # <<>>
  PROVE  /\ Len(p) \in Nat \ {0} /\ Parent(p) \in Paths /\ Len(Parent(p)) = Len(p) - 1
         /\ \A i \in 1 .. Len(p) - 1 : Parent(p)[i] = p[i]
<1>1. p \in Seq(STRING) /\ Len(p) \in Nat \ {0}
  BY PathsAssumption, LenProperties, EmptySeq
<1>2. Len(p) - 1 \in 0 .. Len(p)
  BY <1>1
<1>3. QED
  BY <1>1, <1>2, Prefix DEF Parent

\* The parent of a path below p is p or below it.
LEMMA ParentBelow ==
  ASSUME NEW p \in Paths, NEW q \in Below(p)
  PROVE  q # <<>> /\ (Parent(q) = p \/ Parent(q) \in Below(p))
<1>1. /\ q \in Paths /\ Len(p) \in Nat /\ Len(q) \in Nat /\ Len(q) > Len(p)
      /\ q \in Seq(STRING) /\ p \in Seq(STRING) /\ SubSeq(q, 1, Len(p)) = p
  BY PathsAssumption, LenProperties DEF Below
<1>2. q # <<>>
  BY <1>1, EmptySeq
<1>3. Parent(q) \in Paths /\ Len(Parent(q)) = Len(q) - 1 /\ Parent(q) \in Seq(STRING)
  BY <1>1, <1>2, ParentType, PathsAssumption
<1>4. CASE Len(q) - 1 = Len(p)
  BY <1>1, <1>2, <1>4 DEF Parent
<1>5. CASE Len(q) - 1 # Len(p)
  <2>1. /\ Len(p) \in 0 .. Len(q) - 1 /\ Len(p) \in 0 .. Len(q)
        /\ \A i \in 1 .. Len(p) : Parent(q)[i] = q[i]
    BY <1>1, <1>2, <1>5, ParentType
  <2>2. /\ Len(SubSeq(Parent(q), 1, Len(p))) = Len(p) /\ SubSeq(Parent(q), 1, Len(p)) \in Seq(STRING)
        /\ \A i \in 1 .. Len(p) : SubSeq(Parent(q), 1, Len(p))[i] = q[i]
    BY <1>3, <2>1, Prefix, PathsAssumption
  <2>3. \A i \in 1 .. Len(p) : p[i] = q[i]
    BY <1>1, <2>1, Prefix
  <2>4. SubSeq(Parent(q), 1, Len(p)) = p
    BY <1>1, <2>2, <2>3, SeqEqual
  <2>5. QED
    BY <1>1, <1>3, <1>5, <2>4 DEF Below
<1>6. QED
  BY <1>2, <1>4, <1>5

LEMMA AncestorIsPrefix ==
  ASSUME NEW p \in Paths, NEW q \in Ancestors(p)
  PROVE  q \in Paths /\ Len(q) \in 0 .. Len(p) /\ q = SubSeq(p, 1, Len(q))
<1>1. /\ p \in Seq(STRING) /\ Len(p) \in Nat /\ q \in Paths /\ Len(q) \in Nat
  BY PathsAssumption, LenProperties DEF Ancestors
<1>2. CASE q = p
  BY <1>1, <1>2, SubSeqFull
<1>3. CASE p \in Below(q)
  BY <1>1, <1>3 DEF Below
<1>4. QED
  BY <1>1, <1>2, <1>3 DEF Ancestors

\* MkdirAll climbs past every directory that it may have made.
LEMMA ClimbsAll ==
  ASSUME NEW p \in Paths, p # <<>>
  PROVE  /\ Climb(p) \in Seq(Invalidations) /\ Climb(p) # <<>>
         /\ \A q \in Ancestors(p) \ {<<>>} :
              /\ \E i \in DOMAIN Climb(p) : Climb(p)[i] = Path(q)
              /\ \E i \in DOMAIN Climb(p) : Climb(p)[i] = Listing(q)
<1>1. Len(p) \in Nat \ {0}
  BY ParentType
<1>2. \A i \in 1 .. 2 * Len(p) : Climb(p)[i] \in Invalidations
  <2>1. ASSUME NEW i \in 1 .. 2 * Len(p) PROVE Climb(p)[i] \in Invalidations
    <3>1. Len(p) - (i - 1) \div 2 \in 0 .. Len(p)
      BY <1>1
    <3>2. SubSeq(p, 1, Len(p) - (i - 1) \div 2) \in Paths
      BY <3>1, Prefix
    <3>3. QED
      BY <3>2 DEF Climb, Path, Listing, Invalidations
  <2>2. QED
    BY <2>1
<1>3. /\ DOMAIN Climb(p) = 1 .. 2 * Len(p) /\ Climb(p) \in [1 .. 2 * Len(p) -> Invalidations]
  BY <1>2 DEF Climb
<1>4. 2 * Len(p) \in Nat /\ 2 * Len(p) > 0
  BY <1>1
<1>5. Climb(p) \in Seq(Invalidations) /\ Len(Climb(p)) = 2 * Len(p)
  BY <1>3, <1>4, IsASeq, LenProperties
<1>6. Climb(p) # <<>>
  BY <1>4, <1>5, EmptySeq
<1>7. ASSUME NEW q \in Ancestors(p) \ {<<>>}
      PROVE  \E i, j \in DOMAIN Climb(p) : Climb(p)[i] = Path(q) /\ Climb(p)[j] = Listing(q)
  <2>1. q \in Paths /\ Len(q) \in 1 .. Len(p) /\ q = SubSeq(p, 1, Len(q))
    BY <1>1, AncestorIsPrefix, ParentType
  <2> DEFINE n == Len(p) - Len(q)
  <2>2. n \in 0 .. Len(p) - 1 /\ Len(p) - n = Len(q)
    BY <1>1, <2>1
  <2> HIDE DEF n
  <2>3. PICK i \in Nat, j \in Nat : i = 2 * n + 1 /\ j = 2 * n + 2
    BY <2>2
  <2>4. /\ i \in 1 .. 2 * Len(p) /\ i % 2 = 1 /\ (i - 1) \div 2 = n
        /\ j \in 1 .. 2 * Len(p) /\ j % 2 # 1 /\ (j - 1) \div 2 = n
    BY <1>1, <2>2, <2>3
  <2>5. Climb(p)[i] = Path(q) /\ Climb(p)[j] = Listing(q)
    <3>1. Climb(p)[i] = Path(SubSeq(p, 1, Len(p) - (i - 1) \div 2))
      BY <2>4 DEF Climb
    <3>2. Climb(p)[j] = Listing(SubSeq(p, 1, Len(p) - (j - 1) \div 2))
      BY <2>4 DEF Climb
    <3>3. Len(p) - (i - 1) \div 2 = Len(q) /\ Len(p) - (j - 1) \div 2 = Len(q)
      BY <2>2, <2>4
    <3>4. QED
      BY <2>1, <3>1, <3>2, <3>3
  <2>6. QED
    BY <1>3, <2>4, <2>5
<1>8. QED
  BY <1>5, <1>6, <1>7

-----------------------------------------------------------------------------
(* What the operations make wrong, they remove.                            *)

AllRemoved(t, todo, expected) ==
  \A k \in Wrong(t) \cap expected : \E i \in DOMAIN todo : k \in Invalidated(todo[i])

\* The tree t is fsys but for the paths in D.
DiffersIn(t, D) == \A q \in Paths \ D : t[q] = fsys[q]

\* A tree that differs in D makes wrong what asks for D, and listings of D's parents.
LEMMA WrongAt ==
  ASSUME NEW t, NEW D, DiffersIn(t, D), NEW k \in Wrong(t)
  PROVE  k \in Keys /\ (k[2] \in D \/ \E q \in D \cap Paths : q # <<>> /\ k[1] = "readdir" /\ k[2] = Parent(q))
<1>1. k \in Keys /\ Answer(t, k) # Answer(fsys, k) /\ k[2] \in Paths
  BY KeysAre DEF Wrong
<1>2. CASE t[k[2]] # fsys[k[2]]
  BY <1>1, <1>2 DEF DiffersIn
<1>3. CASE k[1] = "readdir" /\ \E q \in Paths : q # <<>> /\ Parent(q) = k[2] /\ t[q] # fsys[q]
  BY <1>1, <1>3 DEF DiffersIn
<1>4. QED
  BY <1>1, <1>2, <1>3, AnswerDiffers

LEMMA OneRemoved ==
  ASSUME NEW t, NEW p \in Paths \ {<<>>}, DiffersIn(t, {p})
  PROVE  /\ AllRemoved(t, <<Path(p), Listing(p)>>, Keys)
         /\ AllRemoved(t, <<Listing(p)>>, Keys \ (Kinds \X {p}))
<1>1. ASSUME NEW k \in Wrong(t)
      PROVE  k \in Keys /\ (k[2] = p \/ (k[1] = "readdir" /\ k[2] = Parent(p)))
  <2>1. k \in Keys /\ (k[2] \in {p} \/ \E q \in {p} \cap Paths : q # <<>> /\ k[1] = "readdir" /\ k[2] = Parent(q))
    BY <1>1, WrongAt
  <2>2. QED
    BY <2>1
<1>2. \A k \in Wrong(t) : k \in Invalidated(Path(p)) \/ k \in Invalidated(Listing(p))
  BY <1>1, Removes
<1>3. AllRemoved(t, <<Path(p), Listing(p)>>, Keys)
  BY <1>2 DEF AllRemoved
<1>4. \A k \in Wrong(t) \cap (Keys \ (Kinds \X {p})) : k \in Invalidated(Listing(p))
  <2>1. ASSUME NEW k \in Wrong(t), k \notin Kinds \X {p} PROVE k[2] # p
    BY <1>1, <2>1, KeysAre
  <2>2. QED
    BY <1>1, <2>1, Removes
<1>5. AllRemoved(t, <<Listing(p)>>, Keys \ (Kinds \X {p}))
  BY <1>4 DEF AllRemoved
<1>6. QED
  BY <1>3, <1>5

LEMMA MkdirAllRemoved ==
  ASSUME NEW t, NEW p \in Paths \ {<<>>}, DiffersIn(t, Ancestors(p) \ {<<>>})
  PROVE  AllRemoved(t, Climb(p), Keys)
<1>1. ASSUME NEW k \in Wrong(t)
      PROVE  \E i \in DOMAIN Climb(p) : k \in Invalidated(Climb(p)[i])
  <2>2. \/ k[2] \in Ancestors(p) \ {<<>>}
        \/ \E q \in (Ancestors(p) \ {<<>>}) \cap Paths : q # <<>> /\ k[1] = "readdir" /\ k[2] = Parent(q)
    BY <1>1, WrongAt
  <2>3. k \in Keys
    BY <1>1 DEF Wrong
  <2>4. CASE k[2] \in Ancestors(p) \ {<<>>}
    <3>1. k[2] \in Paths \ {<<>>}
      BY <2>3, <2>4, KeysAre
    <3>2. k \in Invalidated(Path(k[2]))
      BY <2>3, <3>1, Removes
    <3>3. QED
      BY <2>4, <3>2, ClimbsAll
  <2>5. ASSUME NEW q \in (Ancestors(p) \ {<<>>}) \cap Paths, k[1] = "readdir", k[2] = Parent(q)
        PROVE  \E i \in DOMAIN Climb(p) : k \in Invalidated(Climb(p)[i])
    <3>1. k \in Invalidated(Listing(q))
      BY <2>3, <2>5, Removes
    <3>2. QED
      BY <3>1, ClimbsAll
  <2>6. QED
    BY <2>2, <2>4, <2>5
<1>2. QED
  BY <1>1 DEF AllRemoved

LEMMA TreeRemoved ==
  ASSUME NEW t, NEW p \in Paths \ {<<>>}, DiffersIn(t, {p} \cup Below(p))
  PROVE  AllRemoved(t, <<Dirs(p), Listing(p)>>, Keys)
<1>1. ASSUME NEW k \in Wrong(t)
      PROVE  k \in Invalidated(Dirs(p)) \/ k \in Invalidated(Listing(p))
  <2>1. k \in Keys
    BY <1>1 DEF Wrong
  <2>2. \/ k[2] \in {p} \cup Below(p)
        \/ \E q \in ({p} \cup Below(p)) \cap Paths : k[1] = "readdir" /\ k[2] = Parent(q)
    BY <1>1, WrongAt
  <2>3. CASE k[2] \in {p} \cup Below(p)
    BY <2>1, <2>3, Removes
  <2>4. CASE \E q \in ({p} \cup Below(p)) \cap Paths : k[1] = "readdir" /\ k[2] = Parent(q)
    <3>1. PICK q \in ({p} \cup Below(p)) \cap Paths : k[1] = "readdir" /\ k[2] = Parent(q)
      BY <2>4
    <3>2. CASE q = p
      BY <2>1, <3>1, <3>2, Removes
    <3>3. CASE q \in Below(p)
      BY <2>1, <3>1, <3>3, ParentBelow, Removes
    <3>4. QED
      BY <3>1, <3>2, <3>3
  <2>5. QED
    BY <2>2, <2>3, <2>4
<1>2. QED
  BY <1>1 DEF AllRemoved

LEMMA TwoRemoved ==
  ASSUME NEW t, NEW o \in Paths \ {<<>>}, NEW n \in Paths \ {<<>>}, DiffersIn(t, {o, n})
  PROVE  AllRemoved(t, <<Path(o), Path(n), Listing(o), Listing(n)>>, Keys)
<1>1. ASSUME NEW k \in Wrong(t)
      PROVE  k \in Keys /\ (k[2] \in {o, n} \/ (k[1] = "readdir" /\ k[2] \in {Parent(o), Parent(n)}))
  <2>1. k \in Keys /\ (k[2] \in {o, n} \/ \E q \in {o, n} \cap Paths : q # <<>> /\ k[1] = "readdir" /\ k[2] = Parent(q))
    BY <1>1, WrongAt
  <2>2. QED
    BY <2>1
<1>2. \A k \in Wrong(t) :
        k \in Invalidated(Path(o)) \/ k \in Invalidated(Path(n)) \/ k \in Invalidated(Listing(o)) \/ k \in Invalidated(Listing(n))
  BY <1>1, Removes
<1>3. QED
  BY <1>2 DEF AllRemoved

\* A file that changes is still a file: only what asks for it is wrong.
LEMMA FileRemoved ==
  ASSUME NEW t, NEW p \in Paths \ {<<>>}, DiffersIn(t, {p}),
         fsys[p] \in Versions, t[p] \in Versions
  PROVE  /\ \A k \in Wrong(t) : k \in Keys /\ k[2] = p /\ k[1] # "readdir"
         /\ AllRemoved(t, <<Path(p)>>, Keys)
<1>1. ASSUME NEW k \in Wrong(t)
      PROVE  k \in Keys /\ k[2] = p /\ k[1] # "readdir"
  <2>1. k \in Keys /\ Answer(t, k) # Answer(fsys, k)
    BY <1>1 DEF Wrong
  <2>2. {q \in Children(k[2]) : t[q] # None} = {q \in Children(k[2]) : fsys[q] # None}
    BY DEF Versions, None, Children, DiffersIn
  <2>3. k[2] = p
    BY <2>1, <2>2, KeysAre DEF Answer, DiffersIn
  <2>4. k[1] # "readdir"
    BY <2>1, <2>3, FileAnswers
  <2>5. QED
    BY <2>1, <2>3, <2>4
<1>2. \A k \in Wrong(t) : k \in Invalidated(Path(p))
  BY <1>1, Removes
<1>3. QED
  BY <1>1, <1>2 DEF AllRemoved

-----------------------------------------------------------------------------
(* What stays.                                                             *)

SameButExcused(r, s) ==
  /\ s.pc = r.pc /\ s.key = r.key /\ s.res = r.res /\ s.todo = r.todo /\ s.changed = r.changed

LEMMA TouchedCallsAre ==
  ASSUME NEW t, NEW c \in [Threads -> CallRecords]
  PROVE  /\ TouchedCalls(t, c) \in [Threads -> CallRecords]
         /\ \A u \in Threads :
              /\ SameButExcused(c[u], TouchedCalls(t, c)[u])
              /\ c[u].pc = "store" /\ ~TouchedCalls(t, c)[u].excused => ~c[u].excused /\ c[u].key \notin Wrong(t)
              /\ c[u].pc # "store" => TouchedCalls(t, c)[u] = c[u]
BY DEF TouchedCalls, CallRecords, SameButExcused

SameEntry(e, f) ==
  f.res = e.res /\ f.wrongFor = e.wrongFor /\ f.extended = e.extended /\ f.expires = e.expires

LEMMA TouchedCacheIs ==
  ASSUME NEW t, NEW expected, cache \in [DOMAIN cache -> Entries]
  PROVE  /\ DOMAIN TouchedCache(t, expected) = DOMAIN cache
         /\ TouchedCache(t, expected) \in [DOMAIN cache -> Entries]
         /\ \A k \in DOMAIN cache :
              /\ SameEntry(cache[k], TouchedCache(t, expected)[k])
              /\ ~TouchedCache(t, expected)[k].excused => ~cache[k].excused /\ (k \in Wrong(t) => k \in expected)
BY DEF TouchedCache, Entries, SameEntry

\* Entries that keep their answers and times keep TimeInv.
LEMMA TimeStays ==
  ASSUME TimeInv, served' = served, DOMAIN cache' \subseteq DOMAIN cache,
         \A k \in DOMAIN cache' : SameEntry(cache[k], cache'[k])
  PROVE  TimeInv'
BY DEF TimeInv, SameEntry

LEMMA PendingStays ==
  ASSUME NEW k, Pending(k), FileRemoves(k) => FileRemoves(k)',
         \A c \in Clients : At(c, "invalidate") => SameButExcused(call[c], call'[c])
  PROVE  Pending(k)'
<1>1. CASE FileRemoves(k)
  BY <1>1 DEF Pending
<1>2. CASE \E c \in Clients : CallRemoves(c, k)
  <2>1. PICK c \in Clients : CallRemoves(c, k)
    BY <1>2
  <2>2. call'[c].pc = "invalidate" /\ call'[c].todo = call[c].todo /\ call'[c].changed = call[c].changed
    BY <2>1 DEF CallRemoves, At, SameButExcused
  <2>3. CallRemoves(c, k)'
    BY <2>1, <2>2 DEF CallRemoves, At
  <2>4. QED
    BY <2>3 DEF Pending
<1>3. QED
  BY <1>1, <1>2 DEF Pending

LEMMA NoCallType ==
  NoCall \in CallRecords /\ NoCall.pc = "idle" /\ NoCall.todo = <<>>
<1>1. <<>> \in Seq(Invalidations)
  BY EmptySeq
<1>2. QED
  BY <1>1 DEF NoCall, CallRecords, PCs, Info, Answers, Contents, None

\* An answer in the cache or about to be stored is about the file system as
\* it is, excused, or going to be removed.
LEMMA PerformKeeps ==
  ASSUME IInv, NEW c \in Clients, call[c].pc = "idle", NEW t \in [Paths -> Contents], t[<<>>] = Dir,
         NEW todo \in Seq(Invalidations), todo # <<>>, NEW expected \in SUBSET Keys,
         Perform(c, t, todo, expected), AllRemoved(t, todo, expected),
         FileInv', file' \in [name : Paths, at : Paths, info : Contents, written : BOOLEAN, changed : SUBSET Keys],
         \A k \in Keys \ Wrong(t) : FileRemoves(k) => FileRemoves(k)'
  PROVE  IInv'
<1> DEFINE r == [NoCall EXCEPT !.pc = "invalidate", !.todo = todo, !.changed = Wrong(t)]
           made == [call EXCEPT ![c] = r]
<1>1. c \in Threads /\ call \in [Threads -> CallRecords] /\ cache \in [DOMAIN cache -> Entries]
  BY DEF IInv, TypeOK, Threads
<1>2. r \in CallRecords /\ r.pc = "invalidate" /\ r.todo = todo /\ r.changed = Wrong(t)
  BY NoCallType DEF CallRecords, PCs, Wrong
<1> HIDE DEF r
<1>3. made \in [Threads -> CallRecords] /\ made[c] = r /\ \A u \in Threads \ {c} : made[u] = call[u]
  BY <1>1, <1>2
<1>4. /\ fsys' = t /\ cache' = TouchedCache(t, expected) /\ call' = TouchedCalls(t, made) /\ served' = served
  BY DEF Perform, r
<1> HIDE DEF made
<1>5. /\ call' \in [Threads -> CallRecords]
      /\ call'[c] = r
      /\ \A u \in Threads \ {c} :
           /\ SameButExcused(call[u], call'[u])
           /\ call[u].pc = "store" /\ ~call'[u].excused => ~call[u].excused /\ call[u].key \notin Wrong(t)
  BY <1>1, <1>2, <1>3, <1>4, TouchedCallsAre
<1>6. /\ DOMAIN cache' = DOMAIN cache /\ cache' \in [DOMAIN cache -> Entries]
      /\ \A k \in DOMAIN cache :
           /\ SameEntry(cache[k], cache'[k])
           /\ ~cache'[k].excused => ~cache[k].excused /\ (k \in Wrong(t) => k \in expected)
  BY <1>1, <1>4, TouchedCacheIs
<1>7. TypeOK'
  BY <1>2, <1>4, <1>5, <1>6, SMTT(60) DEF IInv, TypeOK, SameButExcused
<1>8. StoreInv'
  <2>1. ASSUME NEW u \in Threads, call'[u].pc = "store", ~call'[u].excused
        PROVE  call'[u].res = Answer(fsys', call'[u].key)
    <3>1. u # c
      BY <1>2, <1>5, <2>1
    <3>2. call[u].pc = "store" /\ ~call[u].excused /\ call[u].key \in Keys \ Wrong(t)
      BY <1>1, <1>5, <2>1, <3>1 DEF SameButExcused, IInv, TypeOK
    <3>3. call[u].res = Answer(fsys, call[u].key) /\ Answer(t, call[u].key) = Answer(fsys, call[u].key)
      BY <3>2 DEF IInv, StoreInv, At, Wrong
    <3>4. call'[u].res = Answer(t, call'[u].key)
      BY <1>5, <3>1, <3>3 DEF SameButExcused
    <3>5. QED
      BY <1>4, <3>4
  <2>2. QED
    BY <2>1 DEF StoreInv, At
<1>9. CacheInv'
  <2>1. ASSUME NEW k \in DOMAIN cache, cache'[k].res # Answer(t, k), ~cache'[k].excused
        PROVE  Pending(k)'
    <3>1. k \in Keys /\ cache[k].res # Answer(t, k) /\ ~cache[k].excused /\ (k \in Wrong(t) => k \in expected)
      BY <1>6, <2>1 DEF IInv, TypeOK, SameEntry
    <3>2. CASE k \in Wrong(t)
      <4>1. \E i \in DOMAIN todo : k \in Invalidated(todo[i])
        BY <3>1, <3>2 DEF AllRemoved
      <4>2. CallRemoves(c, k)'
        BY <1>2, <1>5, <3>2, <4>1 DEF CallRemoves, At
      <4>3. QED
        BY <4>2 DEF Pending
    <3>3. CASE k \notin Wrong(t)
      <4>1. cache[k].res # Answer(fsys, k)
        BY <3>1, <3>3 DEF Wrong
      <4>2. Pending(k)
        BY <3>1, <4>1 DEF IInv, CacheInv
      <4>3. \A d \in Clients : At(d, "invalidate") => SameButExcused(call[d], call'[d])
        BY <1>5 DEF At, Threads
      <4>4. QED
        BY <3>1, <3>3, <4>2, <4>3, PendingStays
    <3>4. QED
      BY <3>2, <3>3
  <2>2. \A k \in DOMAIN cache' : cache'[k].res # Answer(fsys', k) /\ ~cache'[k].excused => Pending(k)'
    BY <1>4, <1>6, <2>1
  <2>3. QED
    BY <2>2 DEF CacheInv, Answer
<1>10. TimeInv'
  BY <1>4, <1>6, TimeStays DEF IInv
<1>11. QED
  BY <1>7, <1>8, <1>9, <1>10 DEF IInv

-----------------------------------------------------------------------------
(* The open file.                                                          *)

FileType == [name : Paths, at : Paths, info : Contents, written : BOOLEAN, changed : SUBSET Keys]

\* What a step to the tree t does to the open file is in order.
FileFollows(t) ==
  /\ FileInv' /\ file' \in FileType
  /\ \A k \in Keys \ Wrong(t) : FileRemoves(k) => FileRemoves(k)'

LEMMA FileStays ==
  ASSUME IInv, NEW t, fsys' = t, file' = file, file.at # <<>> => t[file.at] \in Versions
  PROVE  FileFollows(t)
BY DEF IInv, TypeOK, FileInv, FileFollows, FileRemoves, FileType

LEMMA FileGone ==
  ASSUME IInv, NEW t, fsys' = t, file' = [file EXCEPT !.at = <<>>]
  PROVE  FileFollows(t)
<1>1. file \in FileType /\ <<>> \in Paths
  BY PathsAssumption DEF IInv, TypeOK, FileType
<1>2. /\ file' \in FileType /\ file'.at = <<>> /\ file'.name = file.name
      /\ file'.changed = file.changed /\ file'.written = file.written
  BY <1>1 DEF FileType
<1>3. file.name = <<>> => file' = NoFile
  <2>1. \A f, g \in FileType :
          /\ f.name = g.name /\ f.at = g.at /\ f.info = g.info /\ f.written = g.written /\ f.changed = g.changed
          => f = g
    BY DEF FileType
  <2>2. file.name = <<>> => file = NoFile /\ file.at = <<>>
    BY DEF IInv, FileInv, NoFile
  <2>3. file'.info = file.info
    BY <1>1 DEF FileType
  <2>4. file.name = <<>> => file' = file
    BY <1>1, <1>2, <2>1, <2>2, <2>3
  <2>5. QED
    BY <2>2, <2>4
<1>4. FileInv'
  BY <1>2, <1>3 DEF IInv, FileInv, NoFile
<1>5. \A k \in Keys : FileRemoves(k) => FileRemoves(k)'
  BY <1>2 DEF FileRemoves
<1>6. QED
  BY <1>2, <1>4, <1>5 DEF FileFollows

LEMMA FileRenamed ==
  ASSUME IInv, NEW t, fsys' = t, NEW o \in Paths \ {<<>>}, NEW n \in Paths \ {<<>>}, o # n,
         file.name # <<>>, file.at = o, file' = [file EXCEPT !.at = n], t[o] = None, t[n] \in Versions
  PROVE  FileFollows(t)
<1>1. file \in FileType
  BY DEF IInv, TypeOK, FileType
<1>2. /\ file' \in FileType /\ file'.at = n /\ file'.name = file.name
      /\ file'.changed = file.changed /\ file'.written = file.written
  BY <1>1 DEF FileType
<1>3. FileInv'
  BY <1>2 DEF IInv, FileInv
<1>4. ASSUME NEW k \in Keys \ Wrong(t), FileRemoves(k) PROVE FALSE
  <2>1. k[2] = o
    BY <1>4 DEF FileRemoves
  <2>2. fsys[o] # None
    BY DEF IInv, FileInv, Versions, None
  <2>3. Answer(t, k) # Answer(fsys, k)
    BY <2>1, <2>2, FileAnswers
  <2>4. QED
    BY <1>4, <2>3 DEF Wrong
<1>5. QED
  BY <1>2, <1>3, <1>4 DEF FileFollows

LEMMA FileOpened ==
  ASSUME IInv, NEW t, fsys' = t, NEW p \in Paths \ {<<>>}, NEW v \in Contents, file.name = <<>>,
         file' = [NoFile EXCEPT !.name = p, !.at = p, !.info = v], t[p] \in Versions
  PROVE  FileFollows(t)
<1>1. /\ file' \in FileType /\ file'.at = p /\ file'.name = p /\ file'.changed = {} /\ file'.written = FALSE
  BY PathsAssumption DEF NoFile, FileType, Contents
<1>2. FileInv'
  BY <1>1 DEF FileInv
<1>3. \A k \in Keys : ~FileRemoves(k)
  BY DEF IInv, FileInv, NoFile, FileRemoves
<1>4. QED
  BY <1>1, <1>2, <1>3 DEF FileFollows

-----------------------------------------------------------------------------
(* The operations.                                                         *)

\* PerformKeeps, with what it needs to know of the file
LEMMA PerformFollows ==
  ASSUME IInv, NEW c \in Clients, call[c].pc = "idle", NEW t \in [Paths -> Contents], t[<<>>] = Dir,
         NEW todo \in Seq(Invalidations), todo # <<>>, NEW expected \in SUBSET Keys,
         Perform(c, t, todo, expected), AllRemoved(t, todo, expected), FileFollows(t)
  PROVE  IInv'
BY PerformKeeps DEF FileFollows, FileType

LEMMA Todos ==
  ASSUME NEW p \in Paths, NEW q \in Paths
  PROVE  /\ <<Listing(p)>> \in Seq(Invalidations) /\ <<Path(p)>> \in Seq(Invalidations)
         /\ <<Path(p), Listing(p)>> \in Seq(Invalidations) /\ <<Dirs(p), Listing(p)>> \in Seq(Invalidations)
         /\ <<Path(p), Path(q), Listing(p), Listing(q)>> \in Seq(Invalidations)
         /\ <<Listing(p)>> # <<>> /\ <<Path(p)>> # <<>> /\ <<Path(p), Listing(p)>> # <<>> /\ <<Dirs(p), Listing(p)>> # <<>>
         /\ <<Path(p), Path(q), Listing(p), Listing(q)>> # <<>>
<1>1. {Listing(p), Path(p), Dirs(p), Path(q), Listing(q)} \subseteq Invalidations
  BY DEF Listing, Path, Dirs, Invalidations
<1>2. QED
  BY <1>1

LEMMA MkdirKeeps ==
  ASSUME IInv, NEW c \in Clients, call[c].pc = "idle", NEW p \in Paths \ {<<>>}, Mkdir(c, p)
  PROVE  IInv'
<1> DEFINE t == [fsys EXCEPT ![p] = Dir]
<1>1. /\ fsys' = t /\ file' = file /\ fsys[p] = None
      /\ Perform(c, t, <<Listing(p)>>, Keys \ (Kinds \X {p}))
  BY DEF Mkdir, Perform
<1>2. t \in [Paths -> Contents] /\ t[<<>>] = Dir /\ t[p] = Dir /\ \A q \in Paths \ {p} : t[q] = fsys[q]
  BY DEF IInv, TypeOK, Contents
<1>3. DiffersIn(t, {p})
  BY <1>2 DEF DiffersIn
<1>4. file.at # <<>> => t[file.at] \in Versions
  BY <1>1, <1>2 DEF IInv, FileInv, TypeOK, Versions, None
<1> HIDE DEF t
<1>5. FileFollows(t)
  BY <1>1, <1>4, FileStays
<1>6. AllRemoved(t, <<Listing(p)>>, Keys \ (Kinds \X {p}))
  BY <1>3, OneRemoved
<1>7. Keys \ (Kinds \X {p}) \in SUBSET Keys
  OBVIOUS
<1>8. QED
  BY <1>1, <1>2, <1>5, <1>6, <1>7, PerformFollows, Todos

LEMMA MkdirAllKeeps ==
  ASSUME IInv, NEW c \in Clients, call[c].pc = "idle", NEW p \in Paths \ {<<>>}, MkdirAll(c, p)
  PROVE  IInv'
<1> DEFINE t == [q \in Paths |-> IF q \in Ancestors(p) THEN Dir ELSE fsys[q]]
<1>1. /\ fsys' = t /\ file' = file /\ \A q \in Ancestors(p) : fsys[q] \in {None, Dir}
      /\ Perform(c, t, Climb(p), Keys)
  BY DEF MkdirAll, Perform
<1>2. /\ t \in [Paths -> Contents] /\ t[<<>>] = Dir /\ fsys[<<>>] = Dir
      /\ \A q \in Paths : t[q] = IF q \in Ancestors(p) THEN Dir ELSE fsys[q]
  <2>1. <<>> \in Paths
    BY PathsAssumption
  <2>2. \A q \in Paths : t[q] = IF q \in Ancestors(p) THEN Dir ELSE fsys[q]
    OBVIOUS
  <2>3. fsys \in [Paths -> Contents] /\ fsys[<<>>] = Dir
    BY DEF IInv, TypeOK
  <2>4. t \in [Paths -> Contents]
    BY <2>3 DEF Contents
  <2> HIDE DEF t
  <2>5. QED
    BY <2>1, <2>2, <2>3, <2>4
<1>3. DiffersIn(t, Ancestors(p) \ {<<>>})
  <2>1. ASSUME NEW q \in Paths \ (Ancestors(p) \ {<<>>}) PROVE t[q] = fsys[q]
    <3> HIDE DEF t
    <3>1. CASE q = <<>>
      BY <1>2, <3>1
    <3>2. CASE q # <<>>
      BY <1>2, <3>2
    <3>3. QED
      BY <3>1, <3>2
  <2>2. QED
    BY <2>1 DEF DiffersIn
<1>4. file.at # <<>> => t[file.at] \in Versions
  BY <1>1, <1>2 DEF IInv, FileInv, TypeOK, Versions, None, Dir
<1> HIDE DEF t
<1>5. FileFollows(t)
  BY <1>1, <1>4, FileStays
<1>6. AllRemoved(t, Climb(p), Keys)
  BY <1>3, MkdirAllRemoved
<1>7. QED
  BY <1>1, <1>2, <1>5, <1>6, PerformFollows, ClimbsAll

LEMMA RemoveKeeps ==
  ASSUME IInv, NEW c \in Clients, call[c].pc = "idle", NEW p \in Paths \ {<<>>}, Remove(c, p)
  PROVE  IInv'
<1> DEFINE t == [fsys EXCEPT ![p] = None]
<1>1. fsys' = t /\ file' = Moved(p, <<>>) /\ Perform(c, t, <<Path(p), Listing(p)>>, Keys)
  BY DEF Remove, Perform
<1>2. t \in [Paths -> Contents] /\ t[<<>>] = Dir /\ \A q \in Paths \ {p} : t[q] = fsys[q]
  BY DEF IInv, TypeOK, Contents
<1>3. DiffersIn(t, {p})
  BY <1>2 DEF DiffersIn
<1>4. file.at # p /\ file.at # <<>> => t[file.at] \in Versions
  BY <1>2 DEF IInv, FileInv, TypeOK
<1> HIDE DEF t
<1>5. FileFollows(t)
  <2>1. CASE file.name # <<>> /\ file.at = p
    BY <1>1, <2>1, FileGone DEF Moved
  <2>2. CASE ~(file.name # <<>> /\ file.at = p)
    <3>1. file' = file
      BY <1>1, <2>2 DEF Moved
    <3>2. file.at # <<>> => file.at # p
      BY <2>2 DEF IInv, FileInv, NoFile
    <3>3. QED
      BY <1>1, <1>4, <3>1, <3>2, FileStays
  <2>3. QED
    BY <2>1, <2>2
<1>6. AllRemoved(t, <<Path(p), Listing(p)>>, Keys)
  BY <1>3, OneRemoved
<1>7. QED
  BY <1>1, <1>2, <1>5, <1>6, PerformFollows, Todos

LEMMA RemoveAllKeeps ==
  ASSUME IInv, NEW c \in Clients, call[c].pc = "idle", NEW p \in Paths \ {<<>>}, RemoveAll(c, p)
  PROVE  IInv'
<1> DEFINE t == [q \in Paths |-> IF q = p \/ q \in Below(p) THEN None ELSE fsys[q]]
           gone == file.name # <<>> /\ (file.at = p \/ file.at \in Below(p))
<1>1. /\ fsys' = t /\ Perform(c, t, <<Dirs(p), Listing(p)>>, Keys)
      /\ file' = IF gone THEN [file EXCEPT !.at = <<>>] ELSE file
  BY DEF RemoveAll, Perform
<1>2. t \in [Paths -> Contents] /\ t[<<>>] = Dir /\ \A q \in Paths \ ({p} \cup Below(p)) : t[q] = fsys[q]
  <2>1. <<>> \in Paths \ ({p} \cup Below(p))
    BY PathsAssumption, ParentBelow
  <2>2. \A q \in Paths \ ({p} \cup Below(p)) : t[q] = fsys[q]
    OBVIOUS
  <2>3. t \in [Paths -> Contents]
    BY DEF IInv, TypeOK, Contents
  <2> HIDE DEF t
  <2>4. QED
    BY <2>1, <2>2, <2>3 DEF IInv, TypeOK
<1>3. DiffersIn(t, {p} \cup Below(p))
  BY <1>2 DEF DiffersIn
<1>4. ~gone /\ file.at # <<>> => t[file.at] \in Versions
  BY <1>2 DEF IInv, FileInv, TypeOK, NoFile
<1> HIDE DEF t, gone
<1>5. FileFollows(t)
  <2>1. CASE gone
    BY <1>1, <2>1, FileGone
  <2>2. CASE ~gone
    BY <1>1, <1>4, <2>2, FileStays
  <2>3. QED
    BY <2>1, <2>2
<1>6. AllRemoved(t, <<Dirs(p), Listing(p)>>, Keys)
  BY <1>3, TreeRemoved
<1>7. QED
  BY <1>1, <1>2, <1>5, <1>6, PerformFollows, Todos

LEMMA RenameKeeps ==
  ASSUME IInv, NEW c \in Clients, call[c].pc = "idle", NEW o \in Paths \ {<<>>}, NEW n \in Paths \ {<<>>},
         Rename(c, o, n)
  PROVE  IInv'
<1> DEFINE t == [fsys EXCEPT ![o] = None, ![n] = fsys[o]]
<1>1. /\ fsys' = t /\ o # n /\ Perform(c, t, <<Path(o), Path(n), Listing(o), Listing(n)>>, Keys)
      /\ file' = IF file.name # <<>> /\ file.at = n THEN [file EXCEPT !.at = <<>>] ELSE Moved(o, n)
  BY DEF Rename, Perform
<1>2. /\ t \in [Paths -> Contents] /\ t[<<>>] = Dir /\ t[o] = None /\ t[n] = fsys[o]
      /\ \A q \in Paths \ {o, n} : t[q] = fsys[q]
  BY <1>1, PathsAssumption DEF IInv, TypeOK, Contents
<1>3. DiffersIn(t, {o, n})
  BY <1>2 DEF DiffersIn
<1>4. file.at \notin {o, n, <<>>} => t[file.at] \in Versions
  BY <1>2 DEF IInv, FileInv, TypeOK
<1>5. file.at = o => t[n] \in Versions
  BY <1>2 DEF IInv, FileInv
<1> HIDE DEF t
<1>6. FileFollows(t)
  <2>1. CASE file.name # <<>> /\ file.at = n
    BY <1>1, <2>1, FileGone
  <2>2. CASE file.name # <<>> /\ file.at = o
    <3>1. file' = [file EXCEPT !.at = n]
      BY <1>1, <2>2 DEF Moved
    <3>2. QED
      BY <1>1, <1>2, <1>5, <2>2, <3>1, FileRenamed
  <2>3. CASE ~(file.name # <<>> /\ file.at \in {o, n})
    <3>1. file' = file
      BY <1>1, <2>3 DEF Moved
    <3>2. file.at # <<>> => file.at \notin {o, n}
      BY <2>3 DEF IInv, FileInv, NoFile
    <3>3. QED
      BY <1>1, <1>4, <3>1, <3>2, FileStays
  <2>4. QED
    BY <2>1, <2>2, <2>3
<1>7. AllRemoved(t, <<Path(o), Path(n), Listing(o), Listing(n)>>, Keys)
  BY <1>3, TwoRemoved
<1>8. QED
  BY <1>1, <1>2, <1>6, <1>7, PerformFollows, Todos

LEMMA OtherType == \A v \in Versions : Other(v) \in Versions
BY DEF Versions, Other

LEMMA AlterKeeps ==
  ASSUME IInv, NEW c \in Clients, call[c].pc = "idle", NEW p \in Paths \ {<<>>}, Alter(c, p)
  PROVE  IInv'
<1> DEFINE t == [fsys EXCEPT ![p] = Other(@)]
<1>1. fsys' = t /\ file' = file /\ fsys[p] \in Versions /\ Perform(c, t, <<Path(p)>>, Keys)
  BY DEF Alter, Perform
<1>2. t \in [Paths -> Contents] /\ t[<<>>] = Dir /\ t[p] \in Versions /\ \A q \in Paths \ {p} : t[q] = fsys[q]
  BY <1>1, OtherType DEF IInv, TypeOK, Contents
<1>3. DiffersIn(t, {p})
  BY <1>2 DEF DiffersIn
<1>4. file.at # <<>> => t[file.at] \in Versions
  BY <1>1, <1>2 DEF IInv, FileInv, TypeOK
<1> HIDE DEF t
<1>5. FileFollows(t)
  BY <1>1, <1>4, FileStays
<1>6. AllRemoved(t, <<Path(p)>>, Keys)
  BY <1>1, <1>2, <1>3, FileRemoved
<1>7. QED
  BY <1>1, <1>2, <1>5, <1>6, PerformFollows, Todos

LEMMA CreateKeeps ==
  ASSUME IInv, NEW c \in Clients, call[c].pc = "idle", NEW p \in Paths \ {<<>>}, Create(c, p)
  PROVE  IInv'
<1> DEFINE t == [fsys EXCEPT ![p] = IF @ = None THEN "v1" ELSE Other(@)]
<1>1. /\ fsys' = t /\ fsys[p] # Dir /\ Perform(c, t, <<Path(p), Listing(p)>>, Keys)
      /\ file' = IF file.name = <<>> THEN [NoFile EXCEPT !.name = p, !.at = p, !.info = t[p]] ELSE file
  BY DEF Create, Perform, IsDir
<1>2. t \in [Paths -> Contents] /\ t[<<>>] = Dir /\ t[p] \in Versions /\ \A q \in Paths \ {p} : t[q] = fsys[q]
  BY <1>1, OtherType DEF IInv, TypeOK, Contents, Versions
<1>3. DiffersIn(t, {p})
  BY <1>2 DEF DiffersIn
<1>4. file.at # <<>> => t[file.at] \in Versions
  BY <1>1, <1>2 DEF IInv, FileInv, TypeOK
<1> HIDE DEF t
<1>5. FileFollows(t)
  <2>1. CASE file.name = <<>>
    BY <1>1, <1>2, <2>1, FileOpened DEF Contents
  <2>2. CASE file.name # <<>>
    BY <1>1, <1>4, <2>2, FileStays
  <2>3. QED
    BY <2>1, <2>2
<1>6. AllRemoved(t, <<Path(p), Listing(p)>>, Keys)
  BY <1>3, OneRemoved
<1>7. QED
  BY <1>1, <1>2, <1>5, <1>6, PerformFollows, Todos

LEMMA ChangeKeeps ==
  ASSUME IInv, NEW c \in Clients, Change(c)
  PROVE  IInv'
<1>1. call[c].pc = "idle"
  BY DEF Change, Calls, At
<1>2. PICK p \in Paths \ {<<>>} :
        \/ Mkdir(c, p) \/ MkdirAll(c, p) \/ Remove(c, p) \/ RemoveAll(c, p)
        \/ Alter(c, p) \/ Create(c, p)
        \/ \E n \in Paths \ {<<>>} : Rename(c, p, n)
  BY DEF Change
<1>3. QED
  BY <1>1, <1>2, MkdirKeeps, MkdirAllKeeps, RemoveKeeps, RemoveAllKeeps, AlterKeeps, CreateKeeps, RenameKeeps

-----------------------------------------------------------------------------
(* Steps that leave the tree alone.                                        *)

CallOK(r) ==
  /\ r \in CallRecords
  /\ r.pc \in {"expired", "fetch", "store", "refresh", "extend"} => r.key \in Keys
  /\ r.pc = "invalidate" => r.todo # <<>>
  /\ r.pc = "store" /\ ~r.excused => r.res = Answer(fsys, r.key)

ServedOK(s) == s \in [wrongFor : Nat, extended : BOOLEAN] /\ (s.extended \/ s.wrongFor <= TTL)

LEMMA CallsAreOK ==
  ASSUME IInv, NEW u \in Threads
  PROVE  CallOK(call[u])
BY DEF IInv, TypeOK, StoreInv, CallOK, At

LEMMA NoCallOK == CallOK(NoCall)
BY NoCallType DEF CallOK

\* What the calls are when one of them becomes r.
LEMMA CallBecomes ==
  ASSUME IInv, fsys' = fsys, NEW u \in Threads, NEW r, CallOK(r), call' = [call EXCEPT ![u] = r]
  PROVE  /\ call' \in [Threads -> CallRecords] /\ call'[u] = r
         /\ \A v \in Threads \ {u} : call'[v] = call[v]
         /\ \A v \in Threads : call'[v].pc \in {"expired", "fetch", "store", "refresh", "extend"} => call'[v].key \in Keys
         /\ \A v \in Threads : call'[v].pc = "invalidate" => call'[v].todo # <<>>
         /\ StoreInv'
<1>1. call \in [Threads -> CallRecords] /\ r \in CallRecords
  BY DEF IInv, TypeOK, CallOK
<1>2. call' \in [Threads -> CallRecords] /\ call'[u] = r /\ \A v \in Threads \ {u} : call'[v] = call[v]
  BY <1>1
<1>3. ASSUME NEW v \in Threads
      PROVE  /\ call'[v].pc \in {"expired", "fetch", "store", "refresh", "extend"} => call'[v].key \in Keys
             /\ call'[v].pc = "invalidate" => call'[v].todo # <<>>
             /\ call'[v].pc = "store" /\ ~call'[v].excused => call'[v].res = Answer(fsys, call'[v].key)
  <2>1. CallOK(call[v])
    BY CallsAreOK
  <2>2. CASE v = u
    BY <1>2, <2>2 DEF CallOK
  <2>3. CASE v # u
    BY <1>2, <2>1, <2>3 DEF CallOK
  <2>4. QED
    BY <2>2, <2>3
<1>4. ASSUME NEW v \in Threads, call'[v].pc = "store", ~call'[v].excused
      PROVE  call'[v].res = Answer(fsys', call'[v].key)
  BY <1>3, <1>4
<1>5. StoreInv'
  BY <1>4 DEF StoreInv, At
<1>6. QED
  BY <1>2, <1>3, <1>5

\* A step of one call that leaves the entries there are, or removes some.
LEMMA StepKeeps ==
  ASSUME IInv, fsys' = fsys, NEW u \in Threads, NEW r, CallOK(r), call' = [call EXCEPT ![u] = r],
         DOMAIN cache' \subseteq DOMAIN cache, cache' \in [DOMAIN cache' -> Entries],
         \A k \in DOMAIN cache' : cache'[k] = cache[k],
         FileInv', file' \in FileType, ServedOK(served'),
         \A k \in DOMAIN cache' : Pending(k) => Pending(k)'
  PROVE  IInv'
<1>1. TypeOK' /\ StoreInv'
  BY CallBecomes DEF IInv, TypeOK, FileType, ServedOK
<1>2. CacheInv'
  <2>1. ASSUME NEW k \in DOMAIN cache', cache'[k].res # Answer(fsys', k), ~cache'[k].excused
        PROVE  Pending(k)'
    <3>1. k \in DOMAIN cache /\ cache[k].res # Answer(fsys, k) /\ ~cache[k].excused
      BY <2>1
    <3>2. Pending(k)
      BY <3>1 DEF IInv, CacheInv
    <3>3. QED
      BY <2>1, <3>2
  <2>2. QED
    BY <2>1 DEF CacheInv
<1>3. TimeInv'
  BY DEF IInv, TimeInv, ServedOK
<1>4. QED
  BY <1>1, <1>2, <1>3 DEF IInv

\* A call that is not invalidating takes nothing back.
LEMMA OthersPending ==
  ASSUME IInv, file' = file, NEW u \in Threads, call[u].pc # "invalidate",
         \A v \in Threads \ {u} : call'[v] = call[v], NEW k, Pending(k)
  PROVE  Pending(k)'
<1>1. FileRemoves(k) => FileRemoves(k)'
  BY DEF FileRemoves
<1>2. \A c \in Clients : At(c, "invalidate") => SameButExcused(call[c], call'[c])
  BY DEF At, Threads, SameButExcused
<1>3. QED
  BY <1>1, <1>2, PendingStays

\* A step of one call that changes neither the tree, nor the cache, nor the file
LEMMA CallKeeps ==
  ASSUME IInv, UNCHANGED <<fsys, cache, file>>, NEW u \in Threads, call[u].pc # "invalidate",
         NEW r, CallOK(r), call' = [call EXCEPT ![u] = r], ServedOK(served')
  PROVE  IInv'
<1>1. \A v \in Threads \ {u} : call'[v] = call[v]
  BY CallBecomes
<1>2. FileInv' /\ file' \in FileType /\ cache' \in [DOMAIN cache' -> Entries]
  BY DEF IInv, TypeOK, FileInv, FileType
<1>3. \A k \in DOMAIN cache' : Pending(k) => Pending(k)'
  BY <1>1, OthersPending
<1>4. QED
  BY <1>2, <1>3, StepKeeps

LEMMA ServedStays == ASSUME IInv, served' = served PROVE ServedOK(served')
BY DEF IInv, TypeOK, TimeInv, ServedOK

\* What is served from the cache has not been wrong for longer than the TTL.
LEMMA HitOK ==
  ASSUME IInv, NEW k, Present(k), ~Expired(k),
         served' = [wrongFor |-> cache[k].wrongFor, extended |-> cache[k].extended]
  PROVE  ServedOK(served')
<1>1. k \in DOMAIN cache /\ cache[k] \in Entries /\ cache[k].expires # -1
  BY DEF IInv, TypeOK, Present, Expired
<1>2. cache[k].extended \/ (cache[k].expires \in Nat /\ cache[k].wrongFor + cache[k].expires <= TTL)
  BY <1>1 DEF IInv, TimeInv
<1>3. cache[k].wrongFor \in Nat /\ cache[k].extended \in BOOLEAN /\ TTL \in Nat
  BY <1>1, BoundsAssumption DEF Entries
<1>4. cache[k].extended \/ cache[k].wrongFor <= TTL
  BY <1>2, <1>3
<1>5. QED
  BY <1>3, <1>4 DEF ServedOK

LEMMA LookupKeeps ==
  ASSUME IInv, NEW t \in Threads, Lookup(t)
  PROVE  IInv'
<1>1. call[t].pc = "idle" /\ UNCHANGED <<fsys, cache, file>>
  BY DEF Lookup, Calls, At
<1>2. PICK k \in Keys :
        IF Present(k) /\ ~Expired(k)
        THEN Hit(k, cache[k])
        ELSE /\ call' = [call EXCEPT ![t] = [NoCall EXCEPT !.pc = IF Present(k) THEN "expired" ELSE "fetch", !.key = k]]
             /\ UNCHANGED served
  BY DEF Lookup
<1>3. CASE Present(k) /\ ~Expired(k)
  <2>1. ServedOK(served')
    BY <1>2, <1>3, HitOK DEF Hit
  <2>2. CASE cache[k].renews = -1
    <3>1. PICK r \in Refreshers : At(r, "idle") /\ call' = [call EXCEPT ![r] = [NoCall EXCEPT !.pc = "refresh", !.key = k]]
      BY <1>2, <1>3, <2>2 DEF Hit
    <3>2. CallOK([NoCall EXCEPT !.pc = "refresh", !.key = k])
      BY NoCallType DEF CallOK, CallRecords, PCs
    <3>3. QED
      BY <1>1, <2>1, <3>1, <3>2, CallKeeps DEF At, Threads
  <2>3. CASE cache[k].renews # -1
    <3>1. call' = call
      BY <1>2, <1>3, <2>3 DEF Hit
    <3>2. call' = [call EXCEPT ![t] = call[t]]
      BY <3>1 DEF IInv, TypeOK
    <3>3. QED
      BY <1>1, <2>1, <3>2, CallKeeps, CallsAreOK
  <2>4. QED
    BY <2>2, <2>3
<1>4. CASE ~(Present(k) /\ ~Expired(k))
  <2>1. PICK pc \in {"expired", "fetch"} : call' = [call EXCEPT ![t] = [NoCall EXCEPT !.pc = pc, !.key = k]]
    BY <1>2, <1>4
  <2>2. CallOK([NoCall EXCEPT !.pc = pc, !.key = k])
    BY NoCallType DEF CallOK, CallRecords, PCs
  <2>3. ServedOK(served')
    BY <1>2, <1>4, ServedStays
  <2>4. QED
    BY <1>1, <2>1, <2>2, <2>3, CallKeeps
<1>5. QED
  BY <1>3, <1>4

LEMMA DropType ==
  ASSUME IInv, NEW S, cache' = Drop(S)
  PROVE  /\ DOMAIN cache' = DOMAIN cache \ S /\ cache' \in [DOMAIN cache' -> Entries]
         /\ \A k \in DOMAIN cache' : cache'[k] = cache[k]
BY DEF IInv, TypeOK, Drop

LEMMA DropExpiredKeeps ==
  ASSUME IInv, NEW t \in Threads, DropExpired(t)
  PROVE  IInv'
<1>1. /\ call[t].pc = "expired" /\ cache' = Drop({call[t].key}) /\ UNCHANGED <<fsys, file, served>>
      /\ call' = [call EXCEPT ![t] = [call[t] EXCEPT !.pc = "fetch"]]
  BY DEF DropExpired, At, GoTo
<1>2. CallOK([call[t] EXCEPT !.pc = "fetch"])
  BY <1>1, CallsAreOK DEF CallOK, CallRecords, PCs
<1>3. /\ DOMAIN cache' \subseteq DOMAIN cache /\ cache' \in [DOMAIN cache' -> Entries]
      /\ \A k \in DOMAIN cache' : cache'[k] = cache[k]
  BY <1>1, DropType
<1>4. \A v \in Threads \ {t} : call'[v] = call[v]
  BY <1>1, <1>2, CallBecomes
<1>5. \A k \in DOMAIN cache' : Pending(k) => Pending(k)'
  BY <1>1, <1>4, OthersPending
<1>6. FileInv' /\ file' \in FileType /\ ServedOK(served')
  BY <1>1, ServedStays DEF IInv, TypeOK, FileInv, FileType
<1>7. QED
  BY <1>1, <1>2, <1>3, <1>5, <1>6, StepKeeps

\* A fetched answer that is cached is the answer of the file system, or that
\* of an Lstat of the root.
LEMMA FetchedIs ==
  ASSUME IInv, NEW k \in Keys, NEW res \in Fetched(k)
  PROVE  res \in Answers /\ (Cacheable(k, res) => res = Answer(fsys, k) \/ RootMissed(k, res))
<1>1. Answer(fsys, k) \in Answers
  BY AnswerType DEF IInv, TypeOK
<1>2. Error("other") \in Answers /\ Error("notexist") \in Answers
  BY DEF Error, Answers, Contents, None
<1>3. res = Answer(fsys, k) \/ res = Error("other") \/ (res = Error("notexist") /\ k[2] = <<>>)
  BY DEF Fetched
<1>4. ~Cacheable(k, Error("other"))
  BY DEF Cacheable, Error, None
<1>5. k[2] = <<>> /\ Cacheable(k, Error("notexist")) => RootMissed(k, Error("notexist"))
  BY DEF Cacheable, RootMissed, Error, None, Keys
<1>6. QED
  BY <1>1, <1>2, <1>3, <1>4, <1>5

\* An answer to be stored; x: it is excused.
FetchStores(t, res, x) ==
  /\ call' = [call EXCEPT ![t] = [call[t] EXCEPT !.pc = "store", !.res = res, !.excused = x]]
  /\ Cacheable(call[t].key, res) /\ (RootMissed(call[t].key, res) => x)

LEMMA FetchKeeps ==
  ASSUME IInv, NEW t \in Threads, Fetch(t) \/ Refresh(t)
  PROVE  IInv'
<1> DEFINE k == call[t].key
<1>1. /\ call[t].pc \in {"fetch", "refresh"} /\ UNCHANGED <<fsys, cache, file, served>>
      /\ CallOK(call[t]) /\ call[t] \in CallRecords /\ k \in Keys
  BY CallsAreOK DEF Fetch, Refresh, At, CallOK
<1>2. PICK res \in Fetched(k) :
        \/ \E x \in BOOLEAN : FetchStores(t, res, x)
        \/ call' = [call EXCEPT ![t] = NoCall]
        \/ call' = [call EXCEPT ![t] = [call[t] EXCEPT !.pc = "extend"]]
  <2>1. CASE Fetch(t)
    <3>1. PICK res \in Fetched(k) :
            call' = IF Cacheable(k, res)
                    THEN [call EXCEPT ![t].pc = "store", ![t].res = res, ![t].excused = RootMissed(k, res)]
                    ELSE [call EXCEPT ![t] = NoCall]
      BY <2>1 DEF Fetch
    <3>2. CASE Cacheable(k, res)
      <4>1. PICK x \in BOOLEAN : x = RootMissed(k, res)
        BY DEF RootMissed
      <4>2. call' = [call EXCEPT ![t] = [call[t] EXCEPT !.pc = "store", !.res = res, !.excused = x]]
        BY <3>1, <3>2, <4>1 DEF IInv, TypeOK, RootMissed
      <4>3. QED
        BY <3>2, <4>1, <4>2 DEF FetchStores
    <3>3. QED
      BY <3>1, <3>2
  <2>2. CASE Refresh(t)
    <3>1. PICK res \in Fetched(k) :
            call' = IF res.err = None THEN [call EXCEPT ![t].pc = "store", ![t].res = res] ELSE GoTo(t, "extend")
      BY <2>2 DEF Refresh
    <3>2. CASE res.err = None
      <4>1. PICK x \in BOOLEAN : x = call[t].excused
        BY <1>1 DEF CallRecords
      <4>2. call' = [call EXCEPT ![t] = [call[t] EXCEPT !.pc = "store", !.res = res, !.excused = x]]
        BY <1>1, <3>1, <3>2, <4>1 DEF IInv, TypeOK, CallRecords
      <4>3. Cacheable(k, res) /\ ~RootMissed(k, res)
        BY <3>2 DEF Cacheable, RootMissed, None
      <4>4. QED
        BY <4>2, <4>3 DEF FetchStores
    <3>3. QED
      BY <3>1, <3>2 DEF GoTo
  <2>3. QED
    BY <2>1, <2>2
<1>3. res \in Answers /\ (Cacheable(k, res) => res = Answer(fsys, k) \/ RootMissed(k, res))
  BY <1>1, <1>2, FetchedIs
<1>4. ASSUME NEW x \in BOOLEAN, FetchStores(t, res, x)
      PROVE  IInv'
  <2>1. call' = [call EXCEPT ![t] = [call[t] EXCEPT !.pc = "store", !.res = res, !.excused = x]]
    BY <1>4 DEF FetchStores
  <2>2. CallOK([call[t] EXCEPT !.pc = "store", !.res = res, !.excused = x])
    BY <1>1, <1>3, <1>4 DEF FetchStores, CallOK, CallRecords, PCs
  <2>3. QED
    BY <1>1, <2>1, <2>2, ServedStays, CallKeeps
<1>5. CASE call' = [call EXCEPT ![t] = NoCall]
  BY <1>1, <1>5, NoCallOK, ServedStays, CallKeeps
<1>6. CASE call' = [call EXCEPT ![t] = [call[t] EXCEPT !.pc = "extend"]]
  <2>1. CallOK([call[t] EXCEPT !.pc = "extend"])
    BY <1>1 DEF CallOK, CallRecords, PCs
  <2>2. QED
    BY <1>1, <1>6, <2>1, ServedStays, CallKeeps
<1>7. QED
  BY <1>2, <1>4, <1>5, <1>6

\* A step of one call that writes one entry.
LEMMA WriteKeeps ==
  ASSUME IInv, UNCHANGED <<fsys, file, served>>, NEW u \in Threads, call[u].pc # "invalidate",
         call' = [call EXCEPT ![u] = NoCall], NEW k \in Keys,
         DOMAIN cache' \subseteq DOMAIN cache \cup {k}, cache' \in [DOMAIN cache' -> Entries],
         \A j \in DOMAIN cache' \ {k} : cache'[j] = cache[j],
         k \in DOMAIN cache' /\ cache'[k].res # Answer(fsys, k) /\ ~cache'[k].excused => Pending(k),
         k \in DOMAIN cache' =>
           \/ cache'[k].extended
           \/ cache'[k].expires \in Nat /\ cache'[k].wrongFor + cache'[k].expires <= TTL
  PROVE  IInv'
<1>1. TypeOK' /\ StoreInv'
  BY CallBecomes, NoCallOK DEF IInv, TypeOK
<1>2. FileInv'
  BY DEF IInv, FileInv
<1>3. CacheInv'
  <2>1. \A v \in Threads \ {u} : call'[v] = call[v]
    BY CallBecomes, NoCallOK
  <2>2. ASSUME NEW j \in DOMAIN cache', cache'[j].res # Answer(fsys', j), ~cache'[j].excused
        PROVE  Pending(j)'
    <3>1. CASE j = k
      BY <2>1, <2>2, <3>1, OthersPending
    <3>2. CASE j # k
      <4>1. j \in DOMAIN cache /\ cache[j].res # Answer(fsys, j) /\ ~cache[j].excused
        BY <2>2, <3>2
      <4>2. Pending(j)
        BY <4>1 DEF IInv, CacheInv
      <4>3. QED
        BY <2>1, <4>2, OthersPending
    <3>3. QED
      BY <3>1, <3>2
  <2>3. QED
    BY <2>2 DEF CacheInv
<1>4. TimeInv'
  <2>1. ASSUME NEW j \in DOMAIN cache'
        PROVE  \/ cache'[j].extended \/ cache'[j].expires = -1
               \/ cache'[j].expires \in Nat /\ cache'[j].wrongFor + cache'[j].expires <= TTL
    <3>1. CASE j = k
      BY <3>1
    <3>2. CASE j # k
      BY <3>2 DEF IInv, TimeInv
    <3>3. QED
      BY <3>1, <3>2
  <2>2. QED
    BY <2>1 DEF IInv, TimeInv
<1>5. QED
  BY <1>1, <1>2, <1>3, <1>4 DEF IInv

LEMMA EntryType ==
  ASSUME NEW res \in Answers, NEW x \in BOOLEAN
  PROVE  /\ Entry(res, x) \in Entries /\ Entry(res, x).res = res /\ Entry(res, x).excused = x
         /\ Entry(res, x).expires \in Nat /\ Entry(res, x).wrongFor + Entry(res, x).expires <= TTL
<1>1. TTL \in Nat /\ Half \in Nat /\ Half <= TTL
  BY BoundsAssumption DEF Half
<1>2. QED
  BY <1>1 DEF Entry, Entries, Never

LEMMA StoreKeeps ==
  ASSUME IInv, NEW t \in Threads, Store(t)
  PROVE  IInv'
<1> DEFINE k == call[t].key
           e == Entry(call[t].res, call[t].excused)
<1>1. /\ call[t].pc = "store" /\ call' = [call EXCEPT ![t] = NoCall] /\ UNCHANGED <<fsys, file, served>>
      /\ cache' = [j \in DOMAIN cache \cup {k} |-> IF j = k THEN e ELSE cache[j]]
  BY DEF Store, At
<1>2. CallOK(call[t]) /\ call[t] \in CallRecords /\ k \in Keys /\ call[t].res \in Answers /\ call[t].excused \in BOOLEAN
  BY <1>1, CallsAreOK DEF CallOK, CallRecords
<1>3. /\ e \in Entries /\ e.res = call[t].res /\ e.excused = call[t].excused
      /\ e.expires \in Nat /\ e.wrongFor + e.expires <= TTL
  BY <1>2, EntryType
<1>4. e.res # Answer(fsys, k) /\ ~e.excused => FALSE
  BY <1>1, <1>2, <1>3 DEF CallOK
<1> HIDE DEF e
<1>5. /\ DOMAIN cache' = DOMAIN cache \cup {k} /\ cache'[k] = e
      /\ \A j \in DOMAIN cache' \ {k} : cache'[j] = cache[j]
      /\ cache' \in [DOMAIN cache' -> Entries]
  BY <1>1, <1>3 DEF IInv, TypeOK
<1>6. QED
  BY <1>1, <1>2, <1>3, <1>4, <1>5, WriteKeeps

LEMMA ExtendExpiryKeeps ==
  ASSUME IInv, NEW t \in Threads, ExtendExpiry(t)
  PROVE  IInv'
<1> DEFINE k == call[t].key
<1>1. /\ call[t].pc = "extend" /\ call' = [call EXCEPT ![t] = NoCall] /\ UNCHANGED <<fsys, file, served>>
      /\ cache' = IF Present(k)
                  THEN [cache EXCEPT ![k].renews = Half, ![k].expires = TTL, ![k].extended = TRUE]
                  ELSE cache
  BY DEF ExtendExpiry, At
<1>2. k \in Keys
  BY <1>1, CallsAreOK DEF CallOK
<1>3. TTL \in Int /\ Half \in Int
  BY BoundsAssumption DEF Half
<1> HIDE DEF k
<1>4. /\ DOMAIN cache' = DOMAIN cache /\ cache' \in [DOMAIN cache' -> Entries]
      /\ \A j \in DOMAIN cache' \ {k} : cache'[j] = cache[j]
      /\ k \in DOMAIN cache' => /\ cache'[k].extended /\ cache'[k].res = cache[k].res
                                /\ cache'[k].excused = cache[k].excused
  <2>1. cache \in [DOMAIN cache -> Entries]
    BY DEF IInv, TypeOK
  <2>2. CASE k \notin DOMAIN cache
    BY <1>1, <2>1, <2>2 DEF Present
  <2>3. CASE k \in DOMAIN cache
    <3>1. PICK e : e = [cache[k] EXCEPT !.renews = Half, !.expires = TTL, !.extended = TRUE]
      OBVIOUS
    <3>2. /\ e \in Entries /\ e.extended = TRUE /\ e.res = cache[k].res
          /\ e.excused = cache[k].excused
      BY <1>3, <2>1, <2>3, <3>1 DEF Entries
    <3>3. cache' = [cache EXCEPT ![k] = e]
      BY <1>1, <2>1, <2>3, <3>1 DEF Present, Entries
    <3>4. QED
      BY <2>1, <2>3, <3>2, <3>3
  <2>4. QED
    BY <2>2, <2>3
<1>5. k \in DOMAIN cache' /\ cache'[k].res # Answer(fsys, k) /\ ~cache'[k].excused => Pending(k)
  <2>1. ASSUME k \in DOMAIN cache, cache'[k].res # Answer(fsys, k), ~cache'[k].excused
        PROVE  Pending(k)
    <3>1. cache[k].res # Answer(fsys, k) /\ ~cache[k].excused
      BY <1>4, <2>1
    <3>2. QED
      BY <2>1, <3>1 DEF IInv, CacheInv
  <2>2. QED
    BY <1>4, <2>1
<1>6. QED
  BY <1>1, <1>2, <1>4, <1>5, WriteKeeps

-----------------------------------------------------------------------------
(* The invalidations and the wrapped file.                                 *)

\* What is in a sequence and not at its head is in its tail.
LEMMA RestOf ==
  ASSUME NEW S, NEW s \in Seq(S), s # <<>>, NEW i \in DOMAIN s, i # 1
  PROVE  \E j \in DOMAIN Tail(s) : Tail(s)[j] = s[i]
<1>1. PICK n \in Nat : n = Len(s)
  BY LenProperties
<1>2. PICK t \in Seq(S) : t = Tail(s)
  BY HeadTailProperties
<1>3. Len(t) = n - 1 /\ \A k \in 1 .. n - 1 : t[k] = s[k + 1]
  BY <1>1, <1>2
<1>4. PICK j \in 1 .. n - 1 : i = j + 1
  BY <1>1
<1>5. DOMAIN t = 1 .. n - 1
  BY <1>2, <1>3, LenProperties
<1>6. t[j] = s[j + 1]
  BY <1>3
<1>7. j \in DOMAIN t /\ t[j] = s[i]
  BY <1>4, <1>5, <1>6
<1>8. QED
  BY <1>2, <1>7

LEMMA InvalidateKeeps ==
  ASSUME IInv, NEW c \in Clients, Invalidate(c)
  PROVE  IInv'
<1> DEFINE todo == call[c].todo
           first == Invalidated(Head(todo))
           r == IF Tail(todo) = <<>> THEN NoCall ELSE [call[c] EXCEPT !.todo = Tail(todo)]
<1>1. /\ c \in Threads /\ call[c].pc = "invalidate" /\ cache' = Drop(first)
      /\ call' = [call EXCEPT ![c] = r] /\ UNCHANGED <<fsys, file, served>>
  BY DEF Invalidate, At, Threads
<1>2. /\ CallOK(call[c]) /\ call[c] \in CallRecords /\ todo \in Seq(Invalidations) /\ todo # <<>>
  BY <1>1, CallsAreOK DEF CallOK, CallRecords
<1>3. /\ Tail(todo) \in Seq(Invalidations) /\ Len(todo) \in Nat \ {0} /\ Len(Tail(todo)) = Len(todo) - 1
      /\ Head(todo) = todo[1] /\ \A i \in 1 .. Len(todo) - 1 : Tail(todo)[i] = todo[i + 1]
  BY <1>2
<1>4. CallOK(r)
  BY <1>1, <1>2, <1>3, NoCallOK DEF CallOK, CallRecords
<1>5. Tail(todo) # <<>> => r.pc = "invalidate" /\ r.todo = Tail(todo) /\ r.changed = call[c].changed
  BY <1>1, <1>2 DEF CallRecords
<1> HIDE DEF r
<1>6. call'[c] = r /\ \A v \in Threads \ {c} : call'[v] = call[v]
  BY <1>1, <1>4, CallBecomes
<1>7. ASSUME NEW k, k \notin first, Pending(k)
      PROVE  Pending(k)'
  <2>1. CASE FileRemoves(k)
    <3>1. FileRemoves(k)'
      BY <1>1, <2>1 DEF FileRemoves
    <3>2. QED
      BY <3>1 DEF Pending
  <2>2. ASSUME NEW d \in Clients \ {c}, CallRemoves(d, k)
        PROVE  Pending(k)'
    <3>1. call'[d] = call[d]
      BY <1>6, <2>2 DEF Threads
    <3>2. CallRemoves(d, k)'
      BY <2>2, <3>1 DEF CallRemoves, At
    <3>3. QED
      BY <3>2 DEF Pending
  <2>3. CASE CallRemoves(c, k)
    <3>1. PICK i \in DOMAIN todo : k \in Invalidated(todo[i])
      BY <2>3 DEF CallRemoves
    <3>2. i # 1
      BY <1>2, <1>3, <1>7, <3>1
    <3>3. \E j \in DOMAIN Tail(todo) : Tail(todo)[j] = todo[i]
      BY <1>2, <3>1, <3>2, RestOf
    <3>4. PICK j \in DOMAIN Tail(todo) : Tail(todo)[j] = todo[i]
      BY <3>3
    <3>5. Tail(todo) # <<>>
      BY <3>4
    <3>6. r.pc = "invalidate" /\ r.todo = Tail(todo) /\ r.changed = call[c].changed
      BY <1>5, <3>5
    <3>7. k \in r.changed /\ j \in DOMAIN r.todo /\ k \in Invalidated(r.todo[j])
      BY <2>3, <3>1, <3>4, <3>6 DEF CallRemoves
    <3>8. CallRemoves(c, k)'
      BY <1>6, <3>6, <3>7 DEF CallRemoves, At
    <3>9. QED
      BY <3>8 DEF Pending
  <2>4. QED
    BY <1>7, <2>1, <2>2, <2>3 DEF Pending
<1>8. /\ DOMAIN cache' = DOMAIN cache \ first /\ cache' \in [DOMAIN cache' -> Entries]
      /\ \A k \in DOMAIN cache' : cache'[k] = cache[k]
  BY <1>1, DropType
<1>9. FileInv' /\ file' \in FileType /\ ServedOK(served')
  BY <1>1, ServedStays DEF IInv, TypeOK, FileInv, FileType
<1>10. \A k \in DOMAIN cache' : Pending(k) => Pending(k)'
  BY <1>7, <1>8
<1>11. QED
  BY <1>1, <1>4, <1>8, <1>9, <1>10, StepKeeps

LEMMA OpenKeeps ==
  ASSUME IInv, NEW c \in Clients, Open(c)
  PROVE  IInv'
<1>1. PICK p \in Paths : fsys[p] \in Versions /\ file' = [NoFile EXCEPT !.name = p, !.at = p, !.info = fsys[p]]
  BY DEF Open
<1>2. file.name = <<>> /\ UNCHANGED <<fsys, cache, call, served>>
  BY DEF Open
<1>3. p # <<>> /\ fsys[p] \in Contents
  BY <1>1 DEF IInv, TypeOK, Dir, Versions, Contents
<1>4. FileFollows(fsys)
  BY <1>1, <1>2, <1>3, FileOpened
<1>5. c \in Threads /\ call' = [call EXCEPT ![c] = call[c]] /\ CallOK(call[c])
  BY <1>2, CallsAreOK DEF IInv, TypeOK, Threads
<1>6. ASSUME NEW k, Pending(k) PROVE Pending(k)'
  <2>1. ~FileRemoves(k)
    BY <1>2 DEF IInv, FileInv, NoFile, FileRemoves
  <2>2. \A d \in Clients : At(d, "invalidate") => SameButExcused(call[d], call'[d])
    BY <1>2 DEF SameButExcused
  <2>3. QED
    BY <1>6, <2>1, <2>2, PendingStays
<1>7. /\ cache' \in [DOMAIN cache' -> Entries] /\ ServedOK(served') /\ FileInv' /\ file' \in FileType
  BY <1>2, <1>4, ServedStays DEF IInv, TypeOK, FileFollows
<1>8. QED
  BY <1>2, <1>5, <1>6, <1>7, StepKeeps

LEMMA FileStatKeeps ==
  ASSUME IInv, NEW c \in Clients, FileStat(c)
  PROVE  IInv'
<1> DEFINE k == <<"stat", file.name>>
           info == IF file.at = <<>> THEN file.info ELSE fsys[file.at]
           r == [NoCall EXCEPT !.pc = "store", !.key = k, !.res = Info(info), !.excused = file.at # file.name]
<1>1. /\ c \in Threads /\ call[c].pc = "idle" /\ UNCHANGED <<fsys, cache, file>> /\ file.name # <<>>
      /\ IF Present(k) /\ ~Expired(k) /\ cache[k].res.err = None
         THEN served' = [wrongFor |-> cache[k].wrongFor, extended |-> cache[k].extended] /\ UNCHANGED call
         ELSE call' = [call EXCEPT ![c] = r] /\ UNCHANGED served
  BY DEF FileStat, Calls, At, Threads
<1>2. CASE Present(k) /\ ~Expired(k) /\ cache[k].res.err = None
  <2>1. ServedOK(served')
    BY <1>1, <1>2, HitOK
  <2>2. call' = [call EXCEPT ![c] = call[c]]
    BY <1>1, <1>2 DEF IInv, TypeOK
  <2>3. QED
    BY <1>1, <2>1, <2>2, CallKeeps, CallsAreOK
<1>3. CASE ~(Present(k) /\ ~Expired(k) /\ cache[k].res.err = None)
  <2>1. file \in FileType /\ k \in Keys /\ info \in Contents
    BY KindsAssumption DEF IInv, TypeOK, FileType, Keys
  <2>2. Info(info) \in Answers
    BY <2>1 DEF Info, Answers, None
  <2>3. file.at = file.name => Info(info) = Answer(fsys, k)
    <3>1. ASSUME file.at = file.name PROVE Info(info) = Answer(fsys, k)
      <4>1. info = fsys[file.name] /\ fsys[file.name] \in Versions
        BY <1>1, <3>1 DEF IInv, FileInv
      <4>2. fsys[k[2]] # None /\ k[1] # "readdir" /\ k[2] = file.name
        BY <4>1 DEF Versions, None
      <4>3. QED
        BY <2>1, <4>1, <4>2, FileAnswers
    <3>2. QED
      BY <3>1
  <2> HIDE DEF k, info
  <2>4. /\ r \in CallRecords /\ r.pc = "store" /\ r.key = k /\ r.res = Info(info)
        /\ r.excused = (file.at # file.name)
    BY <2>1, <2>2, NoCallType DEF CallRecords, PCs
  <2>5. CallOK(r)
    BY <2>1, <2>3, <2>4 DEF CallOK
  <2>6. ServedOK(served')
    BY <1>1, <1>3, ServedStays
  <2>7. QED
    BY <1>1, <1>3, <2>5, <2>6, CallKeeps
<1>4. QED
  BY <1>2, <1>3

\* Close hands what the writes made wrong to the call that removes it.
LEMMA FileCloseKeeps ==
  ASSUME IInv, NEW c \in Clients, FileClose(c)
  PROVE  IInv'
<1> DEFINE todo == <<Path(file.name), Listing(file.name)>>
           closing == [NoCall EXCEPT !.pc = "invalidate", !.todo = todo, !.changed = file.changed]
           r == IF file.written THEN closing ELSE call[c]
<1>1. /\ c \in Threads /\ call[c].pc = "idle" /\ file' = NoFile /\ file.name # <<>>
      /\ UNCHANGED <<fsys, cache, served>>
      /\ call' = IF file.written THEN [call EXCEPT ![c] = closing] ELSE call
  BY DEF FileClose, Calls, At, Threads
<1>2. file \in FileType /\ file.name \in Paths \ {<<>>}
  BY <1>1 DEF IInv, TypeOK, FileType
<1>3. /\ closing \in CallRecords /\ closing.pc = "invalidate" /\ closing.todo = todo
      /\ closing.changed = file.changed /\ todo # <<>>
  BY <1>2, NoCallType, Todos DEF CallRecords, PCs, FileType
<1>4. CallOK(r)
  BY <1>1, <1>3, CallsAreOK DEF CallOK
<1>5. call' = [call EXCEPT ![c] = r]
  BY <1>1 DEF IInv, TypeOK
<1>6. file.written => r = closing
  OBVIOUS
<1> HIDE DEF r, closing
<1>7. call'[c] = r /\ \A v \in Threads \ {c} : call'[v] = call[v]
  BY <1>1, <1>4, <1>5, CallBecomes
<1>8. ASSUME NEW k \in DOMAIN cache, Pending(k) PROVE Pending(k)'
  <2>1. CASE FileRemoves(k)
    <3>1. file.written /\ k \in file.changed /\ k[2] = file.name /\ k \in Keys
      BY <2>1 DEF FileRemoves, IInv, FileInv, TypeOK
    <3>2. k \in Invalidated(todo[1]) /\ 1 \in DOMAIN todo
      BY <1>2, <3>1, Removes
    <3>3. call'[c] = closing
      BY <1>6, <1>7, <3>1
    <3>4. CallRemoves(c, k)'
      BY <1>3, <3>1, <3>2, <3>3 DEF CallRemoves, At
    <3>5. QED
      BY <3>4 DEF Pending
  <2>2. CASE \E d \in Clients : CallRemoves(d, k)
    <3>1. PICK d \in Clients : CallRemoves(d, k)
      BY <2>2
    <3>2. d # c /\ d \in Threads
      BY <1>1, <3>1 DEF CallRemoves, At, Threads
    <3>3. CallRemoves(d, k)'
      BY <1>7, <3>1, <3>2 DEF CallRemoves, At
    <3>4. QED
      BY <3>3 DEF Pending
  <2>3. QED
    BY <1>8, <2>1, <2>2 DEF Pending
<1>9. file' \in FileType /\ FileInv'
  BY <1>1, PathsAssumption DEF NoFile, FileType, FileInv, Contents
<1>10. cache' \in [DOMAIN cache' -> Entries] /\ ServedOK(served')
  BY <1>1, ServedStays DEF IInv, TypeOK
<1>11. QED
  BY <1>1, <1>4, <1>5, <1>8, <1>9, <1>10, StepKeeps

-----------------------------------------------------------------------------
(* Changes of the tree that are no call of their own: the writes to the    *)
(* open file, which Close will answer for, and the guest's.                *)

LEMMA TouchKeeps ==
  ASSUME IInv, NEW t \in [Paths -> Contents], t[<<>>] = Dir, fsys' = t,
         NEW expected \in SUBSET Keys, cache' = TouchedCache(t, expected), call' = TouchedCalls(t, call),
         served' = served, FileFollows(t), \A k \in Wrong(t) \cap expected : FileRemoves(k)'
  PROVE  IInv'
<1>1. call \in [Threads -> CallRecords] /\ cache \in [DOMAIN cache -> Entries]
  BY DEF IInv, TypeOK
<1>2. /\ call' \in [Threads -> CallRecords]
      /\ \A u \in Threads :
           /\ SameButExcused(call[u], call'[u])
           /\ call[u].pc = "store" /\ ~call'[u].excused => ~call[u].excused /\ call[u].key \notin Wrong(t)
  BY <1>1, TouchedCallsAre
<1>3. /\ DOMAIN cache' = DOMAIN cache /\ cache' \in [DOMAIN cache' -> Entries]
      /\ \A k \in DOMAIN cache :
           /\ SameEntry(cache[k], cache'[k])
           /\ ~cache'[k].excused => ~cache[k].excused /\ (k \in Wrong(t) => k \in expected)
  BY <1>1, TouchedCacheIs
<1>4. TypeOK'
  BY <1>2, <1>3 DEF IInv, TypeOK, SameButExcused, FileFollows, FileType
<1>5. StoreInv'
  <2>1. ASSUME NEW u \in Threads, call'[u].pc = "store", ~call'[u].excused
        PROVE  call'[u].res = Answer(fsys', call'[u].key)
    <3>1. /\ call[u].pc = "store" /\ ~call[u].excused /\ call[u].key \in Keys \ Wrong(t)
          /\ call'[u].res = call[u].res /\ call'[u].key = call[u].key
      BY <1>2, <2>1 DEF SameButExcused, IInv, TypeOK
    <3>2. call[u].res = Answer(fsys, call[u].key) /\ Answer(t, call[u].key) = Answer(fsys, call[u].key)
      BY <3>1 DEF IInv, StoreInv, At, Wrong
    <3>3. call'[u].res = Answer(t, call'[u].key)
      BY <3>1, <3>2
    <3>4. QED
      BY <3>3
  <2>2. QED
    BY <2>1 DEF StoreInv, At
<1>6. CacheInv'
  <2>1. ASSUME NEW k \in DOMAIN cache, cache'[k].res # Answer(t, k), ~cache'[k].excused
        PROVE  Pending(k)'
    <3>1. k \in Keys /\ cache[k].res # Answer(t, k) /\ ~cache[k].excused /\ (k \in Wrong(t) => k \in expected)
      BY <1>3, <2>1 DEF IInv, TypeOK, SameEntry
    <3>2. CASE k \in Wrong(t)
      <4>1. FileRemoves(k)'
        BY <3>1, <3>2
      <4>2. QED
        BY <4>1 DEF Pending
    <3>3. CASE k \notin Wrong(t)
      <4>1. cache[k].res # Answer(fsys, k)
        BY <3>1, <3>3 DEF Wrong
      <4>2. Pending(k)
        BY <3>1, <4>1 DEF IInv, CacheInv
      <4>3. \A d \in Clients : At(d, "invalidate") => SameButExcused(call[d], call'[d])
        BY <1>2 DEF Threads
      <4>4. FileRemoves(k) => FileRemoves(k)'
        BY <3>1, <3>3 DEF FileFollows
      <4>5. QED
        BY <4>2, <4>3, <4>4, PendingStays
    <3>4. QED
      BY <3>2, <3>3
  <2>2. \A k \in DOMAIN cache' : cache'[k].res # Answer(fsys', k) /\ ~cache'[k].excused => Pending(k)'
    BY <1>3, <2>1
  <2>3. QED
    BY <2>2 DEF CacheInv
<1>7. TimeInv'
  BY <1>3, TimeStays DEF IInv
<1>8. QED
  BY <1>4, <1>5, <1>6, <1>7 DEF IInv, FileFollows

LEMMA FileWriteKeeps ==
  ASSUME IInv, NEW c \in Clients, FileWrite(c)
  PROVE  IInv'
<1> DEFINE t == [fsys EXCEPT ![file.at] = Other(@)]
           expected == IF file.at = file.name THEN Keys ELSE {}
<1>1. /\ file.name # <<>> /\ file.at # <<>> /\ fsys' = t /\ served' = served
      /\ cache' = TouchedCache(t, expected) /\ call' = TouchedCalls(t, call)
      /\ file' = [file EXCEPT !.written = TRUE, !.changed = Wrong(t)]
  BY DEF FileWrite
<1>2. file \in FileType /\ file.at \in Paths \ {<<>>} /\ fsys[file.at] \in Versions
  BY <1>1 DEF IInv, TypeOK, FileInv, FileType
<1>3. /\ t \in [Paths -> Contents] /\ t[<<>>] = Dir /\ t[file.at] = Other(fsys[file.at])
      /\ \A q \in Paths \ {file.at} : t[q] = fsys[q]
  BY <1>2, OtherType DEF IInv, TypeOK, Contents
<1>4. t[file.at] \in Versions /\ t[file.at] # fsys[file.at] /\ DiffersIn(t, {file.at})
  BY <1>2, <1>3 DEF DiffersIn, Other, Versions
<1> HIDE DEF t
<1>5. \A k \in Wrong(t) : k \in Keys /\ k[2] = file.at /\ k[1] # "readdir"
  BY <1>2, <1>4, FileRemoved
<1>6. /\ file' \in FileType /\ file'.written /\ file'.changed = Wrong(t)
      /\ file'.name = file.name /\ file'.at = file.at
  <2>1. Wrong(t) \in SUBSET Keys
    BY DEF Wrong
  <2>2. QED
    BY <1>1, <1>2, <2>1 DEF FileType
<1>7. FileFollows(t)
  <2>1. FileInv'
    BY <1>1, <1>4, <1>5, <1>6 DEF FileInv
  <2>2. ASSUME NEW k \in Keys \ Wrong(t), FileRemoves(k) PROVE FALSE
    <3>1. k[2] = file.at /\ k[1] # "readdir"
      BY <1>1, <2>2 DEF FileRemoves, IInv, FileInv
    <3>2. Answer(t, k) = Info(t[k[2]]) /\ Answer(fsys, k) = Info(fsys[k[2]])
      BY <1>2, <1>4, <3>1, FileAnswers DEF Versions, None
    <3>3. Answer(t, k) # Answer(fsys, k)
      BY <1>4, <3>1, <3>2 DEF Info
    <3>4. QED
      BY <2>2, <3>3 DEF Wrong
  <2>3. QED
    BY <1>6, <2>1, <2>2 DEF FileFollows
<1>8. \A k \in Wrong(t) \cap expected : FileRemoves(k)'
  BY <1>5, <1>6 DEF FileRemoves
<1>9. expected \in SUBSET Keys
  OBVIOUS
<1>10. QED
  BY <1>1, <1>3, <1>7, <1>8, <1>9, TouchKeeps

LEMMA GuestKeeps == ASSUME IInv, Guest PROVE IInv'
<1>1. PICK p \in Paths \ {<<>>}, v \in {None, "v2"} :
        LET t == [fsys EXCEPT ![p] = v]
        IN /\ IsDir(Parent(p)) /\ Empty(p)
           /\ fsys' = t /\ cache' = TouchedCache(t, {}) /\ call' = TouchedCalls(t, call)
           /\ file' = IF v = None THEN Moved(p, <<>>) ELSE file
  BY DEF Guest
<1> DEFINE t == [fsys EXCEPT ![p] = v]
<1>2. /\ fsys' = t /\ cache' = TouchedCache(t, {}) /\ call' = TouchedCalls(t, call) /\ served' = served
      /\ file' = IF v = None THEN Moved(p, <<>>) ELSE file
  BY <1>1 DEF Guest
<1>3. t \in [Paths -> Contents] /\ t[<<>>] = Dir /\ t[p] = v /\ \A q \in Paths \ {p} : t[q] = fsys[q]
  BY DEF IInv, TypeOK, Contents, Versions, None
<1>4. file.at # <<>> /\ (file.at # p \/ v # None) => t[file.at] \in Versions
  BY <1>3 DEF IInv, FileInv, TypeOK, Versions
<1> HIDE DEF t
<1>5. FileFollows(t)
  <2>1. CASE v = None /\ file.name # <<>> /\ file.at = p
    <3>1. file' = [file EXCEPT !.at = <<>>]
      BY <1>2, <2>1 DEF Moved
    <3>2. QED
      BY <1>2, <3>1, FileGone
  <2>2. CASE ~(v = None /\ file.name # <<>> /\ file.at = p)
    <3>1. file' = file
      BY <1>2, <2>2 DEF Moved
    <3>2. file.at # <<>> => file.at # p \/ v # None
      BY <2>2 DEF IInv, FileInv, NoFile
    <3>3. QED
      BY <1>2, <1>4, <3>1, <3>2, FileStays
  <2>3. QED
    BY <2>1, <2>2
<1>6. {} \in SUBSET Keys /\ \A k \in Wrong(t) \cap {} : FileRemoves(k)'
  OBVIOUS
<1>7. QED
  BY <1>2, <1>3, <1>5, <1>6, TouchKeeps

-----------------------------------------------------------------------------
(* Time.                                                                   *)

LEMMA TickKeeps == ASSUME IInv, Tick PROVE IInv'
<1> DEFINE Ticked(k) ==
      [cache[k] EXCEPT !.renews = Less(@), !.expires = Less(@),
                       !.wrongFor = IF cache[k].res = Answer(fsys, k) THEN 0 ELSE @ + 1]
<1>1. cache' = [k \in DOMAIN cache |-> Ticked(k)] /\ UNCHANGED <<fsys, call, file, served>>
  BY DEF Tick
<1>2. ASSUME NEW k \in DOMAIN cache
      PROVE  /\ Ticked(k) \in Entries /\ Ticked(k).res = cache[k].res
             /\ Ticked(k).excused = cache[k].excused /\ Ticked(k).extended = cache[k].extended
             /\ Ticked(k).expires = Less(cache[k].expires)
             /\ Ticked(k).wrongFor \in {0, cache[k].wrongFor + 1}
  <2>1. cache[k] \in Entries
    BY DEF IInv, TypeOK
  <2>2. Less(cache[k].renews) \in Int /\ Less(cache[k].expires) \in Int
    BY <2>1 DEF Entries, Less
  <2>3. PICK w \in {0, cache[k].wrongFor + 1} :
          Ticked(k) = [cache[k] EXCEPT !.renews = Less(@), !.expires = Less(@), !.wrongFor = w]
    OBVIOUS
  <2> HIDE DEF Ticked
  <2>4. w \in Nat
    BY <2>1, <2>3 DEF Entries
  <2>5. QED
    BY <2>1, <2>2, <2>3, <2>4 DEF Entries
<1> HIDE DEF Ticked
<1>3. /\ DOMAIN cache' = DOMAIN cache /\ cache' \in [DOMAIN cache' -> Entries]
      /\ \A k \in DOMAIN cache : cache'[k] = Ticked(k)
  <2>1. DOMAIN cache' = DOMAIN cache /\ \A k \in DOMAIN cache : cache'[k] = Ticked(k)
    BY <1>1
  <2>2. \A k \in DOMAIN cache : Ticked(k) \in Entries
    BY <1>2
  <2>3. [k \in DOMAIN cache |-> Ticked(k)] \in [DOMAIN cache -> Entries]
    BY <2>2
  <2>4. QED
    BY <1>1, <2>1, <2>3
<1>4. TypeOK' /\ FileInv' /\ StoreInv'
  <2>1. TypeOK'
    BY <1>1, <1>3 DEF IInv, TypeOK
  <2>2. FileInv'
    BY <1>1 DEF IInv, FileInv
  <2>3. StoreInv'
    <3>1. \A u \in Threads : call'[u].pc = "store" /\ ~call'[u].excused => call'[u].res = Answer(fsys', call'[u].key)
      BY <1>1 DEF IInv, StoreInv, At
    <3>2. QED
      BY <3>1 DEF StoreInv, At
  <2>4. QED
    BY <2>1, <2>2, <2>3
<1>5. CacheInv'
  <2>1. ASSUME NEW k \in DOMAIN cache, Pending(k) PROVE Pending(k)'
    BY <1>1, <2>1 DEF Pending, CallRemoves, FileRemoves, At
  <2>2. ASSUME NEW k \in DOMAIN cache', cache'[k].res # Answer(fsys', k), ~cache'[k].excused
        PROVE  Pending(k)'
    <3>1. k \in DOMAIN cache /\ cache[k].res # Answer(fsys, k) /\ ~cache[k].excused
      BY <1>1, <1>2, <1>3, <2>2
    <3>2. QED
      BY <2>1, <3>1 DEF IInv, CacheInv
  <2>3. QED
    BY <2>2 DEF CacheInv
<1>6. TimeInv'
  <2>1. ASSUME NEW k \in DOMAIN cache, ~cache[k].extended
        PROVE  \/ Ticked(k).expires = -1
               \/ Ticked(k).expires \in Nat /\ Ticked(k).wrongFor + Ticked(k).expires <= TTL
    <3>1. cache[k].wrongFor \in Nat /\ cache[k].expires \in Int /\ TTL \in Nat
      BY BoundsAssumption DEF IInv, TypeOK, Entries
    <3>2. \/ cache[k].expires = -1
          \/ cache[k].expires \in Nat /\ cache[k].wrongFor + cache[k].expires <= TTL
      BY <2>1 DEF IInv, TimeInv
    <3>3. QED
      BY <1>2, <3>1, <3>2 DEF Less
  <2>2. ASSUME NEW k \in DOMAIN cache'
        PROVE  \/ cache'[k].extended \/ cache'[k].expires = -1
               \/ cache'[k].expires \in Nat /\ cache'[k].wrongFor + cache'[k].expires <= TTL
    BY <1>2, <1>3, <2>1
  <2>3. QED
    BY <1>1, <2>2 DEF IInv, TimeInv
<1>7. QED
  BY <1>4, <1>5, <1>6 DEF IInv

-----------------------------------------------------------------------------
(* The inductive invariant.                                                *)

LEMMA InitOK == Init => IInv
<1> SUFFICES ASSUME Init PROVE IInv
  OBVIOUS
<1>1. DOMAIN cache = {}
  BY DEF Init
<1>2. call \in [Threads -> CallRecords] /\ \A t \in Threads : call[t].pc = "idle"
  BY NoCallType DEF Init
<1>3. file \in FileType /\ file = NoFile
  BY PathsAssumption DEF Init, NoFile, FileType, Contents
<1>4. served \in [wrongFor : Nat, extended : BOOLEAN] /\ served.wrongFor = 0 /\ TTL \in Nat
  BY BoundsAssumption DEF Init
<1>5. fsys \in [Paths -> Contents] /\ fsys[<<>>] = Dir
  BY TreesAssumption DEF Init
<1>6. TypeOK
  BY <1>1, <1>2, <1>3, <1>4, <1>5 DEF TypeOK, FileType, Init
<1>7. FileInv /\ StoreInv /\ CacheInv
  BY <1>1, <1>2, <1>3 DEF FileInv, StoreInv, CacheInv, At, NoFile
<1>8. TimeInv
  BY <1>1, <1>4 DEF TimeInv
<1>9. QED
  BY <1>6, <1>7, <1>8 DEF IInv

LEMMA StuttersOK == ASSUME IInv, UNCHANGED vars PROVE IInv'
<1>1. TypeOK' /\ FileInv' /\ StoreInv'
  BY DEF vars, IInv, TypeOK, FileInv, StoreInv, At
<1>2. CacheInv'
  BY DEF vars, IInv, CacheInv, Pending, CallRemoves, FileRemoves, At
<1>3. TimeInv'
  BY DEF vars, IInv, TimeInv
<1>4. QED
  BY <1>1, <1>2, <1>3 DEF IInv

\* Every step of every thread, of the guest and of time keeps the invariant.
LEMMA NextOK == IInv /\ [Next]_vars => IInv'
<1> SUFFICES ASSUME IInv, [Next]_vars PROVE IInv'
  OBVIOUS
<1>1. ASSUME NEW t \in Threads, Read(t) PROVE IInv'
  BY <1>1, LookupKeeps, DropExpiredKeeps, FetchKeeps, StoreKeeps, ExtendExpiryKeeps DEF Read
<1>2. ASSUME NEW c \in Clients,
             Change(c) \/ Invalidate(c) \/ Open(c) \/ FileWrite(c) \/ FileStat(c) \/ FileClose(c)
      PROVE  IInv'
  BY <1>2, ChangeKeeps, InvalidateKeeps, OpenKeeps, FileWriteKeeps, FileStatKeeps, FileCloseKeeps
<1>3. CASE Guest \/ Tick
  BY <1>3, GuestKeeps, TickKeeps
<1>4. CASE UNCHANGED vars
  BY <1>4, StuttersOK
<1>5. QED
  BY <1>1, <1>2, <1>3, <1>4 DEF Next

\* What the proofs rest on holds in every reachable state.
THEOREM Invariance == Spec => []IInv
BY InitOK, NextOK, PTL DEF Spec

\* The state of the cache, its calls and its open file is of the types in TypeOK.
THEOREM TypesHold == Spec => []TypeOK
<1>1. IInv => TypeOK
  BY DEF IInv
<1>2. QED
  BY <1>1, Invariance, PTL

(***************************************************************************)
(* For any tree and any number of clients: a cached answer that is wrong,  *)
(* and has no excuse, is about to be removed by a call that has not        *)
(* returned or by the Close of the open file.                              *)
(***************************************************************************)
THEOREM ClientsSeeOwnChanges == Spec => []SeesOwnChanges
<1>1. IInv => SeesOwnChanges
  BY DEF IInv, CacheInv, Pending, CallRemoves, FileRemoves, SeesOwnChanges
<1>2. QED
  BY <1>1, Invariance, PTL

(***************************************************************************)
(* For any TTL: what the cache serves has not been wrong for longer than   *)
(* the TTL, unless a failed refresh has extended it.                       *)
(***************************************************************************)
THEOREM StaleForAtMostTTL == Spec => []WrongForAtMostTTL
<1>1. IInv => WrongForAtMostTTL
  BY DEF IInv, TimeInv, WrongForAtMostTTL
<1>2. QED
  BY <1>1, Invariance, PTL
=============================================================================
