-------------------------- MODULE NamespaceProofs --------------------------
(***************************************************************************)
(* Theorems about Namespace, for any goroutines, namespaces, names, file   *)
(* systems and bounds; and about memfs, the file system in memory that     *)
(* namespaces are most often made of.                                      *)
(*                                                                         *)
(* Namespaces: the argument is about sharing.  Every slot of a map that    *)
(* was ever built names a slice of that very map (Owned), because CopyOf   *)
(* clones the slices with the map; so the edit of a private copy cannot    *)
(* reach an older map, whoever reads it.  From that the snapshots stay as  *)
(* they are, and the copy a writer is about to publish is the edit of the  *)
(* table that is published, because the writer holds the mutex (Working).  *)
(*                                                                         *)
(* memfs: sharing again.  A file that is closed may share its buffer with  *)
(* the node it was closed into, and with nothing that is open: the buffer  *)
(* of an open file is nobody else's (Apart), since open copies the bytes,  *)
(* and a write within them, in place, reaches no other file and no node.   *)
(* It is proved for MemSpec, where goroutines make any calls.              *)
(***************************************************************************)
EXTENDS Namespace, Memfs, FiniteSetTheorems, FunctionTheorems, SequenceTheorems, TLAPS

-----------------------------------------------------------------------------
(* Slices.                                                                 *)

\* The positions below k in a set of positions: as many as no other k has,
\* so that every number up to the size of the set is reached.
LEMMA RanksAreNumbers ==
    ASSUME NEW n \in Nat, NEW stay \in SUBSET (1 .. n)
    PROVE  /\ IsFiniteSet(stay)
           /\ Cardinality(stay) \in Nat
           /\ \A j \in 1 .. Cardinality(stay) :
                \E k \in stay : Cardinality({i \in stay : i =< k}) = j
<1> DEFINE UpTo(k) == {i \in stay : i =< k}
           rank     == [k \in stay |-> Cardinality(UpTo(k))]
           numbers  == 1 .. Cardinality(stay)
<1>1. IsFiniteSet(1 .. n)
  BY FS_Interval
<1>2. IsFiniteSet(stay) /\ Cardinality(stay) \in Nat
  BY <1>1, FS_Subset, FS_CardinalityType
<1>3. \A k \in stay : IsFiniteSet(UpTo(k)) /\ Cardinality(UpTo(k)) \in numbers
  <2> SUFFICES ASSUME NEW k \in stay
               PROVE  IsFiniteSet(UpTo(k)) /\ Cardinality(UpTo(k)) \in numbers
    OBVIOUS
  <2>1. UpTo(k) \in SUBSET stay /\ k \in UpTo(k)
    OBVIOUS
  <2>2. /\ IsFiniteSet(UpTo(k))
        /\ Cardinality(UpTo(k)) =< Cardinality(stay)
    BY <1>2, <2>1, FS_Subset
  <2>3. Cardinality(UpTo(k)) \in Nat /\ Cardinality(UpTo(k)) # 0
    BY <2>1, <2>2, FS_CardinalityType, FS_EmptySet
  <2>4. QED
    BY <1>2, <2>2, <2>3
<1>4. \A k, l \in stay : k < l => Cardinality(UpTo(k)) # Cardinality(UpTo(l))
  <2> SUFFICES ASSUME NEW k \in stay, NEW l \in stay, k < l
               PROVE  Cardinality(UpTo(k)) # Cardinality(UpTo(l))
    OBVIOUS
  <2>1. \A i \in stay : i \in Int
    OBVIOUS
  <2>2. \A i \in UpTo(k) : i \in UpTo(l)
    BY <2>1
  <2>3. l \in UpTo(l) /\ l \notin UpTo(k)
    BY <2>1
  <2>4. UpTo(k) \in SUBSET UpTo(l) /\ UpTo(k) # UpTo(l)
    BY <2>2, <2>3, Zenon
  <2>5. IsFiniteSet(UpTo(l))
    BY <1>3
  <2>6. QED
    BY <2>4, <2>5, FS_Subset
<1>5. rank \in Injection(stay, numbers)
  <2>1. rank \in [stay -> numbers]
    BY <1>3
  <2>2. \A k, l \in stay : rank[k] = rank[l] => k = l
    <3> SUFFICES ASSUME NEW k \in stay, NEW l \in stay, k # l
                 PROVE  rank[k] # rank[l]
      OBVIOUS
    <3>1. k < l \/ l < k
      OBVIOUS
    <3>2. QED
      BY <1>4, <3>1
  <2>3. QED
    BY <2>1, <2>2, Fun_IsInj
<1>6. IsFiniteSet(numbers) /\ Cardinality(numbers) = Cardinality(stay)
  BY <1>2, FS_Interval
<1>7. rank \in Surjection(stay, numbers)
  BY <1>5, <1>6, FS_Injection
<1>8. \A j \in numbers : \E k \in stay : rank[k] = j
  <2> HIDE DEF rank, numbers
  <2>1. QED
    BY <1>7, Zenon DEF Surjection
<1>9. QED
  BY <1>2, <1>8

\* DeleteFunc keeps targets only.
LEMMA DeleteFuncType ==
    ASSUME NEW S, NEW refs \in Seq(S), NEW gone
    PROVE  DeleteFunc(refs, gone) \in Seq(S)
<1> DEFINE stay   == {k \in DOMAIN refs : refs[k] \notin gone}
           Nth(j) == CHOOSE k \in stay : Cardinality({i \in stay : i =< k}) = j
<1>1. Len(refs) \in Nat /\ DOMAIN refs = 1 .. Len(refs)
  BY LenProperties
<1>2. stay \in SUBSET (1 .. Len(refs))
  BY <1>1
<1>3. /\ Cardinality(stay) \in Nat
      /\ \A j \in 1 .. Cardinality(stay) :
           \E k \in stay : Cardinality({i \in stay : i =< k}) = j
  BY <1>1, <1>2, RanksAreNumbers
<1>4. \A j \in 1 .. Cardinality(stay) : Nth(j) \in stay
  BY <1>3
<1>5. \A k \in stay : refs[k] \in S
  BY <1>1, ElementOfSeq
<1>6. \A j \in 1 .. Cardinality(stay) : refs[Nth(j)] \in S
  BY <1>4, <1>5
<1>7. DeleteFunc(refs, gone) = [j \in 1 .. Cardinality(stay) |-> refs[Nth(j)]]
  BY DEF DeleteFunc
<1> HIDE DEF stay, Nth
<1>8. QED
  BY <1>3, <1>6, <1>7

LEMMA DeleteFuncEmpty == \A gone : DeleteFunc(<<>>, gone) = <<>>
<1> TAKE gone
<1> DEFINE stay   == {k \in DOMAIN <<>> : <<>>[k] \notin gone}
           Nth(j) == CHOOSE k \in stay : Cardinality({i \in stay : i =< k}) = j
<1>1. stay = {}
  OBVIOUS
<1>2. Cardinality(stay) = 0
  BY <1>1, FS_EmptySet
<1>3. DeleteFunc(<<>>, gone) = [j \in 1 .. Cardinality(stay) |-> <<>>[Nth(j)]]
  BY DEF DeleteFunc
<1> HIDE DEF stay, Nth
<1>4. QED
  BY <1>2, <1>3

\* A new target in any valid mode leaves a list of targets, never an empty one.
LEMMA JoinedType ==
    ASSUME NEW S, NEW refs \in Seq(S), NEW ref \in S, NEW mode \in ValidModes
    PROVE  Joined(refs, ref, mode) \in Seq(S) /\ Joined(refs, ref, mode) # <<>>
<1>1. <<ref>> \in Seq(S) /\ <<ref>> # <<>>
  OBVIOUS
<1>2. <<ref>> \o refs \in Seq(S) /\ <<ref>> \o refs # <<>>
  BY <1>1, ConcatProperties, ConcatSimplifications
<1>3. refs \o <<ref>> \in Seq(S) /\ refs \o <<ref>> # <<>>
  BY <1>1, ConcatProperties, ConcatSimplifications
<1>4. QED
  BY <1>1, <1>2, <1>3 DEF Joined, ValidModes

-----------------------------------------------------------------------------
(* Maps.                                                                   *)

OwnedIn(h) ==
    \A i \in 1 .. Len(h), d \in Names : h[i].slot[d] \in {None, <<i, d>>}

KeyedIn(h) ==
    \A i \in 1 .. Len(h), d \in Names : h[i].slot[d] # None => h[i].array[d] # <<>>

MapsOK(h) == h \in Seq(Map) /\ OwnedIn(h) /\ KeyedIn(h)

\* What the callers of mutate hand to Edited.
IsEdit(c) ==
    /\ c.op \in {"bind", "unbind", "unbindall"}
    /\ c.op = "bind" => c.src \in Target /\ c.dst \in Names /\ c.mode \in ValidModes
    /\ c.op = "unbind" => c.dst \in Names /\ c.gone \in SUBSET Target

\* The edit of a table, where maps and slices are not looked at.
EditOf(table, c) ==
    CASE c.op = "bind"      -> [table EXCEPT ![c.dst] = Joined(@, c.src, c.mode)]
      [] c.op = "unbind"    -> [table EXCEPT ![c.dst] = DeleteFunc(@, c.gone)]
      [] c.op = "unbindall" -> [d \in Names |-> IF d \in Kept THEN table[d] ELSE <<>>]

\* No slice of a map lies in another one.
LEMMA RefsAreOwn ==
    ASSUME NEW h, MapsOK(h), NEW i \in 1 .. Len(h), NEW d \in Names
    PROVE  /\ Refs(h, i, d) = IF h[i].slot[d] = None THEN <<>> ELSE h[i].array[d]
           /\ Refs(h, i, d) \in Seq(Target)
<1>1. h[i] \in Map
  BY ElementOfSeq DEF MapsOK
<1>2. h[i].array[d] \in Seq(Target)
  BY <1>1 DEF Map
<1>3. h[i].slot[d] # None => h[i].slot[d][1] = i
  BY DEF MapsOK, OwnedIn
<1>4. QED
  BY <1>2, <1>3 DEF Refs

LEMMA ContentsType ==
    ASSUME NEW h, MapsOK(h), NEW i \in 1 .. Len(h)
    PROVE  Contents(h, i) \in [Names -> Seq(Target)]
BY RefsAreOwn DEF Contents

\* A map alone decides what is in it.
LEMMA ContentsOfMap ==
    ASSUME NEW h, MapsOK(h), NEW g, MapsOK(g),
           NEW i \in 1 .. Len(h), i \in 1 .. Len(g), g[i] = h[i]
    PROVE  Contents(g, i) = Contents(h, i)
BY RefsAreOwn DEF Contents

\* A copy has the contents of its map and slices of its own.
LEMMA CopyOfIsFresh ==
    ASSUME NEW h, MapsOK(h), NEW i \in 1 .. Len(h)
    PROVE  /\ MapsOK(CopyOf(h, i))
           /\ Len(CopyOf(h, i)) = Len(h) + 1
           /\ \A j \in 1 .. Len(h) : CopyOf(h, i)[j] = h[j]
           /\ Contents(CopyOf(h, i), Len(h) + 1) = Contents(h, i)
<1> DEFINE n   == Len(h) + 1
           own == [slot  |-> [d \in Names |-> IF h[i].slot[d] = None THEN None ELSE <<n, d>>],
                   array |-> Contents(h, i)]
           g   == Append(h, own)
<1>1. CopyOf(h, i) = g
  BY DEF CopyOf
<1>2. h \in Seq(Map) /\ Len(h) \in Nat /\ n \in Nat
  BY LenProperties DEF MapsOK
<1>3. own \in Map
  BY <1>2, ContentsType DEF Map
<1>4. /\ g \in Seq(Map)
      /\ Len(g) = n
      /\ \A j \in 1 .. Len(h) : g[j] = h[j]
      /\ g[n] = own
  BY <1>2, <1>3
<1>5. OwnedIn(g)
  <2>1. \A d \in Names : own.slot[d] \in {None, <<n, d>>}
    OBVIOUS
  <2> HIDE DEF g, own
  <2>2. QED
    BY <1>2, <1>4, <2>1 DEF OwnedIn, MapsOK
<1>6. KeyedIn(g)
  <2>1. \A d \in Names : own.slot[d] # None => h[i].slot[d] # None
    OBVIOUS
  <2>2. \A d \in Names : own.array[d] = Refs(h, i, d)
    BY DEF Contents
  <2>3. \A d \in Names : own.slot[d] # None => own.array[d] # <<>>
    BY <2>1, <2>2, RefsAreOwn DEF MapsOK, KeyedIn
  <2> HIDE DEF g, own
  <2>4. \A j \in 1 .. Len(g) : j \in 1 .. Len(h) \/ j = n
    BY <1>2, <1>4
  <2>5. \A j \in 1 .. Len(h), d \in Names : g[j].slot[d] # None => g[j].array[d] # <<>>
    BY <1>4 DEF KeyedIn, MapsOK
  <2>6. QED
    BY <1>4, <2>3, <2>4, <2>5 DEF KeyedIn
<1>7. MapsOK(g)
  BY <1>4, <1>5, <1>6 DEF MapsOK
<1>8. \A d \in Names : Refs(g, n, d) = Refs(h, i, d)
  <2> SUFFICES ASSUME NEW d \in Names
               PROVE  Refs(g, n, d) = Refs(h, i, d)
    OBVIOUS
  <2>1. n \in 1 .. Len(g)
    BY <1>2, <1>4
  <2>2. Refs(g, n, d) = IF own.slot[d] = None THEN <<>> ELSE own.array[d]
    <3> HIDE DEF g, own
    <3>1. QED
      BY <1>4, <1>7, <2>1, RefsAreOwn
  <2>3. own.array[d] = Refs(h, i, d)
    BY DEF Contents
  <2>4. own.slot[d] = None <=> h[i].slot[d] = None
    BY <1>2, NamespaceAssumption
  <2>5. QED
    BY <2>2, <2>3, <2>4, RefsAreOwn
<1>9. QED
  BY <1>1, <1>4, <1>7, <1>8 DEF Contents

\* The edit of map i changes map i only, and changes it as EditOf says.
LEMMA JoinsIsPrivate ==
    ASSUME NEW h, MapsOK(h), NEW i \in 1 .. Len(h), NEW d \in Names,
           NEW ref \in Target, NEW mode \in ValidModes
    PROVE  LET g == Joins(h, i, d, ref, mode) IN
           /\ MapsOK(g)
           /\ Len(g) = Len(h)
           /\ \A j \in 1 .. Len(h) : j # i => g[j] = h[j]
           /\ Contents(g, i) = [Contents(h, i) EXCEPT ![d] = Joined(@, ref, mode)]
<1> DEFINE refs == Joined(Refs(h, i, d), ref, mode)
           m    == [slot  |-> [h[i].slot EXCEPT ![d] = <<i, d>>],
                    array |-> [h[i].array EXCEPT ![d] = refs]]
           g    == [h EXCEPT ![i] = m]
<1>1. h \in Seq(Map) /\ Len(h) \in Nat /\ h[i] \in Map
  BY LenProperties, ElementOfSeq DEF MapsOK
<1>2. Joins(h, i, d, ref, mode) = g
  BY DEF Joins
<1>3. refs \in Seq(Target) /\ refs # <<>>
  BY RefsAreOwn, JoinedType
<1>4. /\ m \in Map
      /\ \A e \in Names : m.slot[e] = IF e = d THEN <<i, d>> ELSE h[i].slot[e]
      /\ \A e \in Names : m.array[e] = IF e = d THEN refs ELSE h[i].array[e]
  <2> HIDE DEF refs
  <2>1. QED
    BY <1>1, <1>3 DEF Map
<1> HIDE DEF m
<1>5. /\ g \in Seq(Map)
      /\ Len(g) = Len(h)
      /\ \A j \in 1 .. Len(h) : g[j] = IF j = i THEN m ELSE h[j]
  BY <1>1, <1>4, ExceptSeq
<1> HIDE DEF g, refs
<1>6. OwnedIn(g)
  BY <1>4, <1>5 DEF MapsOK, OwnedIn
<1>7. KeyedIn(g)
  BY <1>3, <1>4, <1>5 DEF MapsOK, KeyedIn
<1>8. MapsOK(g)
  BY <1>5, <1>6, <1>7 DEF MapsOK
<1>9. \A e \in Names : Refs(g, i, e) = IF e = d THEN refs ELSE Refs(h, i, e)
  <2>1. \A e \in Names : Refs(g, i, e) = IF m.slot[e] = None THEN <<>> ELSE m.array[e]
    <3>1. i \in 1 .. Len(g) /\ g[i] = m
      BY <1>5
    <3>2. QED
      BY <1>8, <3>1, RefsAreOwn
  <2>2. <<i, d>> # None
    BY <1>1, NamespaceAssumption
  <2>3. QED
    BY <1>4, <2>1, <2>2, RefsAreOwn, SMTT(60)
<1>10. Contents(g, i) = [Contents(h, i) EXCEPT ![d] = Joined(@, ref, mode)]
  BY <1>9 DEF Contents, refs
<1>11. QED
  BY <1>2, <1>5, <1>8, <1>10

LEMMA LeavesIsPrivate ==
    ASSUME NEW h, MapsOK(h), NEW i \in 1 .. Len(h), NEW d \in Names, NEW gone
    PROVE  LET g == Leaves(h, i, d, gone) IN
           /\ MapsOK(g)
           /\ Len(g) = Len(h)
           /\ \A j \in 1 .. Len(h) : j # i => g[j] = h[j]
           /\ Contents(g, i) = [Contents(h, i) EXCEPT ![d] = DeleteFunc(@, gone)]
<1>1. h \in Seq(Map) /\ Len(h) \in Nat /\ h[i] \in Map
  BY LenProperties, ElementOfSeq DEF MapsOK
<1>2. CASE h[i].slot[d] = None
  <2>1. Refs(h, i, d) = <<>>
    BY <1>2, RefsAreOwn
  <2>2. DeleteFunc(Contents(h, i)[d], gone) = Contents(h, i)[d]
    BY <2>1, DeleteFuncEmpty DEF Contents
  <2>3. Contents(h, i) = [Contents(h, i) EXCEPT ![d] = DeleteFunc(@, gone)]
    BY <2>2, ContentsType
  <2>4. QED
    BY <1>2, <2>3 DEF Leaves
<1>3. CASE h[i].slot[d] # None
  <2> DEFINE left == DeleteFunc(Refs(h, i, d), gone)
             slot == IF left = <<>> THEN None ELSE h[i].slot[d]
             m    == [slot  |-> [h[i].slot EXCEPT ![d] = slot],
                      array |-> [h[i].array EXCEPT ![d] = left]]
             g    == [h EXCEPT ![i] = m]
  <2>1. left \in Seq(Target)
    BY RefsAreOwn, DeleteFuncType
  <2>2. h[i].slot[d] = <<i, d>>
    BY <1>3 DEF MapsOK, OwnedIn
  <2>3. Leaves(h, i, d, gone) = g
    <3> DEFINE edited == [h EXCEPT ![i].array[d] = left]
    <3>1. h[i].slot[d][1] = i
      BY <2>2
    <3>2. Leaves(h, i, d, gone) = IF left = <<>> THEN [edited EXCEPT ![i].slot[d] = None] ELSE edited
      BY <1>3, <3>1 DEF Leaves
    <3> HIDE DEF left
    <3>3. h[i] = [slot |-> h[i].slot, array |-> h[i].array]
      BY <1>1 DEF Map
    <3>4. CASE left = <<>>
      BY <1>1, <3>2, <3>3, <3>4, ZenonT(60) DEF Map
    <3>5. CASE left # <<>>
      BY <1>1, <3>2, <3>3, <3>5, ZenonT(60) DEF Map
    <3>6. QED
      BY <3>4, <3>5
  <2>4. /\ m \in Map
        /\ \A e \in Names : m.slot[e] = IF e = d THEN slot ELSE h[i].slot[e]
        /\ \A e \in Names : m.array[e] = IF e = d THEN left ELSE h[i].array[e]
    <3> HIDE DEF left
    <3>1. QED
      BY <1>1, <2>1 DEF Map
  <2> HIDE DEF m, left
  <2>5. /\ g \in Seq(Map)
        /\ Len(g) = Len(h)
        /\ \A j \in 1 .. Len(h) : g[j] = IF j = i THEN m ELSE h[j]
    BY <1>1, <2>4, ExceptSeq
  <2> HIDE DEF g
  <2>6. OwnedIn(g)
    BY <2>2, <2>4, <2>5 DEF MapsOK, OwnedIn
  <2>7. KeyedIn(g)
    BY <2>4, <2>5 DEF MapsOK, KeyedIn
  <2>8. MapsOK(g)
    BY <2>5, <2>6, <2>7 DEF MapsOK
  <2>9. \A e \in Names : Refs(g, i, e) = IF e = d THEN left ELSE Refs(h, i, e)
    <3>1. \A e \in Names : Refs(g, i, e) = IF m.slot[e] = None THEN <<>> ELSE m.array[e]
      <4>1. i \in 1 .. Len(g) /\ g[i] = m
        BY <2>5
      <4>2. QED
        BY <2>8, <4>1, RefsAreOwn
    <3>2. QED
      BY <1>3, <2>4, <3>1, RefsAreOwn
  <2>10. Contents(g, i) = [Contents(h, i) EXCEPT ![d] = DeleteFunc(@, gone)]
    BY <2>9 DEF Contents, left
  <2>11. QED
    BY <2>3, <2>5, <2>8, <2>10
<1>4. QED
  BY <1>2, <1>3

LEMMA EmptiedIsPrivate ==
    ASSUME NEW h, MapsOK(h), NEW i \in 1 .. Len(h)
    PROVE  LET g == Emptied(h, i) IN
           /\ MapsOK(g)
           /\ Len(g) = Len(h)
           /\ \A j \in 1 .. Len(h) : j # i => g[j] = h[j]
           /\ Contents(g, i) = [d \in Names |-> IF d \in Kept THEN Contents(h, i)[d] ELSE <<>>]
<1> DEFINE m == [slot  |-> [d \in Names |-> IF d \in Kept THEN h[i].slot[d] ELSE None],
                 array |-> h[i].array]
           g == [h EXCEPT ![i] = m]
<1>1. h \in Seq(Map) /\ Len(h) \in Nat /\ h[i] \in Map
  BY LenProperties, ElementOfSeq DEF MapsOK
<1>2. Emptied(h, i) = g
  <2>1. h[i] = [slot |-> h[i].slot, array |-> h[i].array]
    BY <1>1 DEF Map
  <2>2. [h[i] EXCEPT !.slot = m.slot] = m
    BY <2>1
  <2>3. QED
    BY <2>2 DEF Emptied
<1>3. /\ m \in Map
      /\ \A e \in Names : m.slot[e] = IF e \in Kept THEN h[i].slot[e] ELSE None
      /\ m.array = h[i].array
  BY <1>1 DEF Map
<1> HIDE DEF m
<1>4. /\ g \in Seq(Map)
      /\ Len(g) = Len(h)
      /\ \A j \in 1 .. Len(h) : g[j] = IF j = i THEN m ELSE h[j]
  BY <1>1, <1>3, ExceptSeq
<1> HIDE DEF g
<1>5. OwnedIn(g)
  BY <1>3, <1>4 DEF MapsOK, OwnedIn
<1>6. KeyedIn(g)
  BY <1>3, <1>4 DEF MapsOK, KeyedIn
<1>7. MapsOK(g)
  BY <1>4, <1>5, <1>6 DEF MapsOK
<1>8. \A e \in Names : Refs(g, i, e) = IF e \in Kept THEN Refs(h, i, e) ELSE <<>>
  <2>1. \A e \in Names : Refs(g, i, e) = IF m.slot[e] = None THEN <<>> ELSE m.array[e]
    BY <1>4, <1>7, RefsAreOwn
  <2>2. QED
    BY <1>3, <2>1, RefsAreOwn
<1>9. QED
  BY <1>2, <1>4, <1>7, <1>8 DEF Contents

LEMMA EditIsPrivate ==
    ASSUME NEW h, MapsOK(h), NEW i \in 1 .. Len(h), NEW c, IsEdit(c)
    PROVE  LET g == Edited(h, i, c) IN
           /\ MapsOK(g)
           /\ Len(g) = Len(h)
           /\ \A j \in 1 .. Len(h) : j # i => g[j] = h[j]
           /\ Contents(g, i) = EditOf(Contents(h, i), c)
<1>1. CASE c.op = "bind"
  BY <1>1, JoinsIsPrivate DEF IsEdit, Edited, EditOf
<1>2. CASE c.op = "unbind"
  BY <1>2, LeavesIsPrivate DEF IsEdit, Edited, EditOf
<1>3. CASE c.op = "unbindall"
  BY <1>3, EmptiedIsPrivate DEF IsEdit, Edited, EditOf
<1>4. QED
  BY <1>1, <1>2, <1>3 DEF IsEdit

\* What a writer builds is one map more, the edit of the one it copied.
LEMMA BuildIsPrivate ==
    ASSUME NEW h, MapsOK(h), NEW i \in 1 .. Len(h), NEW c, IsEdit(c)
    PROVE  LET g == Edited(CopyOf(h, i), Len(h) + 1, c) IN
           /\ MapsOK(g)
           /\ Len(g) = Len(h) + 1
           /\ \A j \in 1 .. Len(h) : Contents(g, j) = Contents(h, j)
           /\ Contents(g, Len(h) + 1) = EditOf(Contents(h, i), c)
<1> DEFINE n    == Len(h) + 1
           copy == CopyOf(h, i)
           g    == Edited(copy, n, c)
<1>1. h \in Seq(Map) /\ Len(h) \in Nat
  BY LenProperties DEF MapsOK
<1>2. /\ MapsOK(copy)
      /\ Len(copy) = n
      /\ \A j \in 1 .. Len(h) : copy[j] = h[j]
      /\ Contents(copy, n) = Contents(h, i)
  BY CopyOfIsFresh
<1>3. n \in 1 .. Len(copy)
  BY <1>1, <1>2
<1> HIDE DEF copy
<1>4. /\ MapsOK(g)
      /\ Len(g) = n
      /\ \A j \in 1 .. Len(copy) : j # n => g[j] = copy[j]
      /\ Contents(g, n) = EditOf(Contents(copy, n), c)
  BY <1>2, <1>3, EditIsPrivate
<1> HIDE DEF g
<1>5. \A j \in 1 .. Len(h) : j \in 1 .. Len(g) /\ g[j] = h[j]
  BY <1>1, <1>2, <1>4
<1>6. \A j \in 1 .. Len(h) : Contents(g, j) = Contents(h, j)
  BY <1>4, <1>5, ContentsOfMap
<1>7. QED
  BY <1>2, <1>4, <1>6 DEF g, copy

-----------------------------------------------------------------------------
(* The inductive invariant.                                                *)

\* What holds of a goroutine t whose call is c.
Working(t, c) ==
    /\ c.op = "idle" <=> c.pc = "idle"
    /\ c.op = "clone" <=> c.pc = "copy"
    /\ c.pc = "resolve" =>
          /\ c.op \in {"bind", "unbind"}
          /\ c.src \in Target /\ Usable(c.src) /\ c.dst \in Names
    /\ c.pc = "open" =>
          c.op = "bind" /\ c.src \in Target /\ c.dst \in Names
    /\ c.pc \in {"resolve", "open", "lock", "build", "store", "copy"} =>
          c.ns \in Spaces /\ Born(c.ns)
    /\ c.pc \in {"lock", "build", "store"} => IsEdit(c)
    /\ c.pc \in {"build", "store"} => writeMu[c.ns] = t
    /\ c.pc \in {"build", "store", "copy", "read"} => c.map \in 1 .. Len(heap)
    /\ c.pc = "build" => c.map = bindings[c.ns]
    /\ c.pc = "store" =>
          Contents(heap, c.map) = EditOf(Contents(heap, bindings[c.ns]), c)
    /\ c.pc = "copy" => c.dst \in Spaces /\ ~Born(c.dst)

OneClone ==
    \A t, u \in Threads :
        call[t].pc = "copy" /\ call[u].pc = "copy" /\ call[t].dst = call[u].dst => t = u

IInv ==
    /\ TypeOK
    /\ OwnedIn(heap)
    /\ KeyedIn(heap)
    /\ \A t \in Threads : Working(t, call[t])
    /\ OneClone

LEMMA HeapOK == IInv => MapsOK(heap)
BY DEF IInv, TypeOK, MapsOK

LEMMA InitIInv == Init => IInv
<1> SUFFICES ASSUME Init
             PROVE  IInv
  OBVIOUS
<1> DEFINE m == [slot |-> [d \in Names |-> None], array |-> [d \in Names |-> <<>>]]
<1>1. m \in Map
  BY DEF Map
<1>2. heap = <<m>> /\ heap \in Seq(Map) /\ Len(heap) = 1 /\ heap[1] = m
  BY <1>1 DEF Init
<1>3. OwnedIn(heap) /\ KeyedIn(heap)
  BY <1>2 DEF OwnedIn, KeyedIn
<1>4. bindings \in [Spaces -> 0 .. 1]
  BY DEF Init
<1>5. Idle \in Call
  BY DEF Idle, Call
<1>6. call = [t \in Threads |-> Idle] /\ Idle.map = 0 /\ Idle.pc = "idle" /\ Idle.op = "idle"
  BY DEF Init, Idle
<1>7. allocs \in 0 .. MaxAllocs
  BY NamespaceAssumption DEF Init
<1>8. writeMu \in [Spaces -> Threads \cup {None}]
  BY DEF Init
<1>9. TypeOK
  <2> HIDE DEF m
  <2>1. QED
    BY <1>2, <1>4, <1>5, <1>6, <1>7, <1>8 DEF TypeOK
<1>10. \A t \in Threads : Working(t, call[t])
  BY <1>6 DEF Working
<1>11. OneClone
  BY <1>6 DEF OneClone
<1>12. QED
  BY <1>3, <1>9, <1>10, <1>11 DEF IInv

\* A step of goroutine t that only changes what t is doing.
LEMMA LocalStep ==
    ASSUME IInv, NEW t \in Threads, NEW c \in Call,
           UNCHANGED <<heap, bindings, writeMu>>, allocs' \in 0 .. MaxAllocs,
           call' = [call EXCEPT ![t] = c],
           c.map =< Len(heap), Working(t, c),
           c.pc = "copy" =>
             \A u \in Threads \ {t} : call[u].pc = "copy" => call[u].dst # c.dst
    PROVE  IInv'
<1>1. TypeOK'
  BY DEF IInv, TypeOK
<1>2. OwnedIn(heap)' /\ KeyedIn(heap)'
  BY DEF IInv
<1>3. \A u \in Threads : call'[u] = IF u = t THEN c ELSE call[u]
  BY DEF IInv, TypeOK
<1>4. \A u \in Threads : Working(u, call'[u])
  BY <1>3 DEF IInv
<1>5. \A u \in Threads : Working(u, call[u])'
  BY <1>4 DEF Working, Born, Usable
<1>6. OneClone'
  BY <1>3 DEF IInv, OneClone
<1>7. QED
  BY <1>1, <1>2, <1>5, <1>6 DEF IInv

LEMMA FirstCreatorType ==
    ASSUME NEW refs \in Seq(Target), \E k \in DOMAIN refs : refs[k].fs \in Creators
    PROVE  FirstCreator(refs) \in Target
<1> DEFINE at == {k \in DOMAIN refs : refs[k].fs \in Creators}
<1>1. Len(refs) \in Nat /\ DOMAIN refs = 1 .. Len(refs)
  BY LenProperties
<1>2. at \in SUBSET (1 .. Len(refs)) /\ at # {}
  BY <1>1
<1>3. /\ IsFiniteSet(at)
      /\ Cardinality(at) \in Nat
      /\ \A j \in 1 .. Cardinality(at) :
           \E k \in at : Cardinality({i \in at : i =< k}) = j
  BY <1>1, <1>2, RanksAreNumbers
<1>4. 1 \in 1 .. Cardinality(at)
  <2>1. Cardinality(at) # 0
    BY <1>2, <1>3, FS_EmptySet
  <2>2. QED
    BY <1>3, <2>1
<1>5. PICK k \in at : Cardinality({i \in at : i =< k}) = 1
  <2> HIDE DEF at
  <2>1. QED
    BY <1>3, <1>4
<1>6. \A j \in at : k =< j
  <2> DEFINE below == {i \in at : i =< k}
  <2>1. below \in SUBSET at /\ k \in below
    BY <1>2, <1>5
  <2>2. IsFiniteSet(below)
    BY <1>3, <2>1, FS_Subset
  <2>3. Cardinality(below) = 1
    BY <1>5
  <2>4. below = {k}
    <3> HIDE DEF below
    <3>1. QED
      BY <2>1, <2>2, <2>3, FS_Singleton
  <2>5. QED
    BY <1>2, <2>4
<1>7. FirstCreator(refs) = refs[CHOOSE l \in at : \A j \in at : l =< j]
  BY DEF FirstCreator
<1>8. (CHOOSE l \in at : \A j \in at : l =< j) \in 1 .. Len(refs)
  BY <1>2, <1>6
<1>9. QED
  BY <1>7, <1>8, ElementOfSeq

\* What a name resolves to can be bound.
LEMMA ResolveFSType ==
    ASSUME IInv, NEW src \in Target, Usable(src)
    PROVE  ResolveFS(src) \in Target
<1>1. CASE src.fs \in Systems
  BY <1>1 DEF ResolveFS
<1>2. CASE src.fs \notin Systems
  <2> DEFINE refs == Refs(heap, bindings[src.fs], src.name)
  <2>1. src.fs \in Spaces /\ src.name \in Names
    BY <1>2 DEF Target
  <2>2. bindings[src.fs] \in 1 .. Len(heap)
    BY <2>1 DEF Usable, Born, IInv, TypeOK
  <2>3. refs \in Seq(Target)
    BY <2>1, <2>2, HeapOK, RefsAreOwn
  <2>4. Len(refs) = 1 => refs[1] \in Target
    BY <2>3, ElementOfSeq
  <2> HIDE DEF refs
  <2>5. ResolveFS(src) = IF Len(refs) = 1 THEN refs[1]
                         ELSE IF \E k \in DOMAIN refs : refs[k].fs \in Creators
                         THEN FirstCreator(refs) ELSE src
    BY <1>2 DEF ResolveFS, refs
  <2>6. QED
    BY <2>3, <2>4, <2>5, FirstCreatorType
<1>3. QED
  BY <1>1, <1>2

-----------------------------------------------------------------------------
(* Steps outside the mutex.                                                *)

LEMMA BeginBindStep ==
    ASSUME IInv, NEW t \in Threads, NEW n \in Spaces, NEW src \in Source,
           NEW dst \in Names, NEW mode \in Modes, BeginBind(t, n, src, dst, mode)
    PROVE  IInv'
<1> DEFINE c == [Idle EXCEPT !.op = "bind", !.pc = "resolve", !.ns = n,
                             !.src = src, !.dst = dst, !.mode = mode]
<1>1. src \in Target
  BY NamespaceAssumption DEF Source, Directly, Target
<1>2. c \in Call /\ c.map = 0 /\ c.pc = "resolve"
  BY <1>1 DEF Idle, Call
<1>3. Working(t, c)
  BY <1>1 DEF Idle, Working, BeginBind
<1>4. UNCHANGED <<heap, bindings, writeMu>> /\ allocs' \in 0 .. MaxAllocs
  BY DEF BeginBind, IInv, TypeOK
<1>5. call' = [call EXCEPT ![t] = c]
  BY DEF BeginBind
<1>6. 0 =< Len(heap)
  BY HeapOK, LenProperties DEF MapsOK
<1> HIDE DEF c
<1>7. QED
  BY <1>2, <1>3, <1>4, <1>5, <1>6, LocalStep

LEMMA BeginUnbindStep ==
    ASSUME IInv, NEW t \in Threads, NEW n \in Spaces, NEW src \in Source,
           NEW dst \in Names, BeginUnbind(t, n, src, dst)
    PROVE  IInv'
<1> DEFINE c == [Idle EXCEPT !.op = "unbind", !.pc = "resolve", !.ns = n,
                             !.src = src, !.dst = dst]
<1>1. src \in Target
  BY NamespaceAssumption DEF Source, Directly, Target
<1>2. c \in Call /\ c.map = 0 /\ c.pc = "resolve"
  BY <1>1 DEF Idle, Call
<1>3. Working(t, c)
  BY <1>1 DEF Idle, Working, BeginUnbind
<1>4. UNCHANGED <<heap, bindings, writeMu>> /\ allocs' \in 0 .. MaxAllocs
  BY DEF BeginUnbind, IInv, TypeOK
<1>5. call' = [call EXCEPT ![t] = c]
  BY DEF BeginUnbind
<1>6. 0 =< Len(heap)
  BY HeapOK, LenProperties DEF MapsOK
<1> HIDE DEF c
<1>7. QED
  BY <1>2, <1>3, <1>4, <1>5, <1>6, LocalStep

LEMMA BeginUnbindAllStep ==
    ASSUME IInv, NEW t \in Threads, NEW n \in Spaces, BeginUnbindAll(t, n)
    PROVE  IInv'
<1> DEFINE c == [Idle EXCEPT !.op = "unbindall", !.pc = "lock", !.ns = n]
<1>1. c \in Call /\ c.map = 0 /\ c.pc = "lock"
  BY DEF Idle, Call
<1>2. Working(t, c)
  BY DEF Idle, Working, IsEdit, BeginUnbindAll
<1>3. UNCHANGED <<heap, bindings, writeMu>> /\ allocs' \in 0 .. MaxAllocs
  BY DEF BeginUnbindAll, IInv, TypeOK
<1>4. call' = [call EXCEPT ![t] = c]
  BY DEF BeginUnbindAll
<1>5. 0 =< Len(heap)
  BY HeapOK, LenProperties DEF MapsOK
<1> HIDE DEF c
<1>6. QED
  BY <1>1, <1>2, <1>3, <1>4, <1>5, LocalStep

LEMMA BeginCloneStep ==
    ASSUME IInv, NEW t \in Threads, NEW n \in Spaces, NEW d \in Spaces,
           BeginClone(t, n, d)
    PROVE  IInv'
<1> DEFINE c == [Idle EXCEPT !.op = "clone", !.pc = "copy", !.ns = n,
                             !.dst = d, !.map = bindings[n]]
<1>1. bindings[n] \in 1 .. Len(heap)
  BY DEF BeginClone, Born, IInv, TypeOK
<1>2. Len(heap) \in Nat /\ bindings[n] \in Nat /\ bindings[n] =< Len(heap)
  BY <1>1, HeapOK, LenProperties DEF MapsOK
<1>3. c \in Call /\ c.map = bindings[n] /\ c.dst = d
  BY <1>1, <1>2 DEF Idle, Call
<1>4. Working(t, c)
  BY <1>1 DEF Idle, Working, BeginClone
<1>5. UNCHANGED <<heap, bindings, writeMu>> /\ allocs' \in 0 .. MaxAllocs
  BY DEF BeginClone, IInv, TypeOK
<1>6. call' = [call EXCEPT ![t] = c]
  BY DEF BeginClone
<1>7. \A u \in Threads : call[u].pc = "copy" => call[u].dst # d
  BY DEF BeginClone, IInv, Working
<1> HIDE DEF c
<1>8. QED
  BY <1>1, <1>2, <1>3, <1>4, <1>5, <1>6, <1>7, LocalStep

LEMMA BeginReadStep ==
    ASSUME IInv, NEW t \in Threads, NEW n \in Spaces, BeginRead(t, n)
    PROVE  IInv'
<1> DEFINE c == [Idle EXCEPT !.op = "read", !.pc = "read", !.ns = n, !.map = bindings[n]]
<1>1. bindings[n] \in 1 .. Len(heap)
  BY DEF BeginRead, Born, IInv, TypeOK
<1>2. Len(heap) \in Nat /\ bindings[n] \in Nat /\ bindings[n] =< Len(heap)
  BY <1>1, HeapOK, LenProperties DEF MapsOK
<1>3. c \in Call /\ c.map = bindings[n] /\ c.pc = "read"
  BY <1>1, <1>2 DEF Idle, Call
<1>4. Working(t, c)
  BY <1>1 DEF Idle, Working
<1>5. UNCHANGED <<heap, bindings, writeMu>> /\ allocs' \in 0 .. MaxAllocs
  BY DEF BeginRead, IInv, TypeOK
<1>6. call' = [call EXCEPT ![t] = c]
  BY DEF BeginRead
<1> HIDE DEF c
<1>7. QED
  BY <1>1, <1>2, <1>3, <1>4, <1>5, <1>6, LocalStep

\* A call that returns is like one that was never made.
LEMMA ReturnStep ==
    ASSUME IInv, NEW t \in Threads, CallReturns(t),
           UNCHANGED <<heap, bindings, writeMu>>, allocs' \in 0 .. MaxAllocs
    PROVE  IInv'
<1>1. Idle \in Call /\ Idle.map = 0 /\ Idle.pc = "idle" /\ Working(t, Idle)
  BY DEF Idle, Call, Working
<1>2. 0 =< Len(heap)
  BY HeapOK, LenProperties DEF MapsOK
<1>3. call' = [call EXCEPT ![t] = Idle]
  BY DEF CallReturns
<1>4. QED
  BY <1>1, <1>2, <1>3, LocalStep

LEMMA ResolveStep ==
    ASSUME IInv, NEW t \in Threads, Resolve(t)
    PROVE  IInv'
<1> DEFINE old == call[t]
           ref == ResolveFS(old.src)
<1>1. /\ old \in Call /\ old.pc = "resolve" /\ Working(t, old)
      /\ old.map =< Len(heap)
  BY DEF Resolve, IInv, TypeOK
<1>2. ref \in Target
  BY <1>1, ResolveFSType DEF Working
<1>3. UNCHANGED <<heap, bindings, writeMu>> /\ allocs' \in 0 .. MaxAllocs
  BY DEF Resolve, IInv, TypeOK
<1>4. CASE old.op = "bind"
  <2> DEFINE c == [old EXCEPT !.src = ref, !.pc = "open"]
  <2> HIDE DEF ref
  <2>1. c \in Call /\ c.map = old.map /\ c.pc = "open"
    BY <1>1, <1>2 DEF Call
  <2>2. Working(t, c)
    BY <1>1, <1>2, <1>4 DEF Working, Call
  <2>3. call' = [call EXCEPT ![t] = c]
    BY <1>4 DEF Resolve, ref, IInv, TypeOK
  <2> HIDE DEF c, old
  <2>4. QED
    BY <1>1, <1>3, <2>1, <2>2, <2>3, LocalStep
<1>5. CASE old.op = "unbind"
  <2>1. PICK same \in SUBSET Twins(ref) :
          call' = [call EXCEPT ![t].src = None, ![t].gone = {ref} \cup same, ![t].pc = "lock"]
    BY <1>5 DEF Resolve
  <2> DEFINE gone == {ref} \cup same
             c    == [old EXCEPT !.src = None, !.gone = gone, !.pc = "lock"]
  <2>2. gone \in SUBSET Target
    BY <1>2 DEF Twins
  <2> HIDE DEF ref
  <2>3. call' = [call EXCEPT ![t] = c]
    BY <2>1 DEF IInv, TypeOK
  <2> HIDE DEF gone
  <2>4. c \in Call /\ c.map = old.map /\ c.pc = "lock"
    BY <1>1, <2>2 DEF Call
  <2>5. Working(t, c)
    BY <1>1, <1>5, <2>2 DEF Working, Call, IsEdit
  <2> HIDE DEF c, old
  <2>6. QED
    BY <1>1, <1>3, <2>3, <2>4, <2>5, LocalStep
<1>6. QED
  BY <1>4, <1>5 DEF Resolve

LEMMA OpenSourceStep ==
    ASSUME IInv, NEW t \in Threads, OpenSource(t)
    PROVE  IInv'
<1> DEFINE old   == call[t]
           ref   == old.src
           alloc == ref.fs \in Allocators /\ ref.made = 0
           to    == IF alloc THEN [ref EXCEPT !.made = allocs + 1] ELSE ref
<1>1. /\ old \in Call /\ old.pc = "open" /\ Working(t, old)
      /\ old.map =< Len(heap)
  BY DEF OpenSource, IInv, TypeOK
<1>2. ref \in Target
  BY <1>1 DEF Working
<1>3. UNCHANGED <<heap, bindings, writeMu>> /\ allocs \in 0 .. MaxAllocs
  BY DEF OpenSource, IInv, TypeOK
<1>4. CASE alloc /\ allocs = MaxAllocs
  BY <1>3, <1>4, ReturnStep DEF OpenSource
<1>5. CASE ~(alloc /\ allocs = MaxAllocs)
  <2>1. allocs' = IF alloc THEN allocs + 1 ELSE allocs
    BY <1>5 DEF OpenSource
  <2>2. allocs' \in 0 .. MaxAllocs
    BY <1>3, <1>5, <2>1, NamespaceAssumption
  <2>3. to \in Target
    BY <1>2, <1>3, <1>5, NamespaceAssumption DEF Target
  <2>4. CASE Opens(to) /\ call[t].mode \in ValidModes
    <3> DEFINE c == [old EXCEPT !.src = to, !.pc = "lock"]
    <3>1. call' = [call EXCEPT ![t] = c]
      BY <1>5, <2>4 DEF OpenSource, IInv, TypeOK
    <3> HIDE DEF to
    <3>2. c \in Call /\ c.map = old.map /\ c.pc = "lock"
      BY <1>1, <2>3 DEF Call
    <3>3. Working(t, c)
      BY <1>1, <2>3, <2>4 DEF Working, Call, IsEdit
    <3> HIDE DEF c, old
    <3>4. QED
      BY <1>1, <1>3, <2>2, <3>1, <3>2, <3>3, LocalStep
  <2>5. CASE ~(Opens(to) /\ call[t].mode \in ValidModes)
    BY <1>3, <1>5, <2>2, <2>5, ReturnStep DEF OpenSource
  <2>6. QED
    BY <2>4, <2>5
<1>6. QED
  BY <1>4, <1>5

LEMMA FinishReadStep ==
    ASSUME IInv, NEW t \in Threads, FinishRead(t)
    PROVE  IInv'
<1>1. UNCHANGED <<heap, bindings, writeMu>> /\ allocs' \in 0 .. MaxAllocs
  BY DEF FinishRead, IInv, TypeOK
<1>2. QED
  BY <1>1, ReturnStep DEF FinishRead

-----------------------------------------------------------------------------
(* Steps under the mutex, and the end of Clone.                            *)

LEMMA LockStep ==
    ASSUME IInv, NEW t \in Threads, Lock(t)
    PROVE  IInv'
<1> DEFINE old == call[t]
           n   == old.ns
           c   == [old EXCEPT !.pc = "build", !.map = bindings[n]]
<1>1. old \in Call /\ old.pc = "lock" /\ Working(t, old)
  BY DEF Lock, IInv, TypeOK
<1>2. n \in Spaces /\ Born(n) /\ IsEdit(old)
  BY <1>1 DEF Working
<1>3. Len(heap) \in Nat
  BY HeapOK, LenProperties DEF MapsOK
<1>4. bindings[n] \in 1 .. Len(heap) /\ bindings[n] \in Nat /\ bindings[n] =< Len(heap)
  BY <1>2, <1>3 DEF Born, IInv, TypeOK
<1>5. call' = [call EXCEPT ![t] = c]
  BY DEF Lock, IInv, TypeOK
<1>6. c \in Call /\ c.pc = "build" /\ c.map = bindings[n] /\ c.ns = n /\ IsEdit(c)
  BY <1>1, <1>2, <1>4 DEF Call, IsEdit
<1>7. UNCHANGED <<heap, bindings, allocs>> /\ writeMu' = [writeMu EXCEPT ![n] = t]
  BY DEF Lock
<1>8. writeMu[n] = None
  BY DEF Lock
<1>9. c.op \notin {"idle", "clone"}
  BY <1>6 DEF IsEdit
<1> HIDE DEF c, old
<1>10. \A u \in Threads : call'[u] = IF u = t THEN c ELSE call[u]
  BY <1>5 DEF IInv, TypeOK
<1>11. TypeOK'
  BY <1>2, <1>4, <1>5, <1>6, <1>7, <1>10 DEF IInv, TypeOK
<1>12. OwnedIn(heap)' /\ KeyedIn(heap)'
  BY <1>7 DEF IInv
<1>13. \A u \in Threads : Working(u, call[u])'
  <2> SUFFICES ASSUME NEW u \in Threads
               PROVE  Working(u, call[u])'
    OBVIOUS
  <2>1. CASE u = t
    <3>1. call'[u] = c /\ writeMu'[n] = t
      BY <1>2, <1>7, <1>10, <2>1 DEF IInv, TypeOK
    <3>2. QED
      BY <1>2, <1>4, <1>6, <1>7, <1>9, <2>1, <3>1 DEF Working, Born
  <2>2. CASE u # t
    <3>1. call'[u] = call[u] /\ Working(u, call[u])
      BY <1>10, <2>2 DEF IInv
    <3>2. u # None
      BY NamespaceAssumption
    <3>3. call[u].pc \in {"build", "store"} => writeMu'[call[u].ns] = u
      BY <1>2, <1>7, <1>8, <3>1, <3>2 DEF Working, IInv, TypeOK
    <3>4. QED
      BY <1>7, <3>1, <3>3 DEF Working, Born, Usable
  <2>3. QED
    BY <2>1, <2>2
<1>14. OneClone'
  BY <1>6, <1>10 DEF IInv, OneClone
<1>15. QED
  BY <1>11, <1>12, <1>13, <1>14 DEF IInv

\* What a writer builds nobody else can see.
LEMMA BuildHeap ==
    ASSUME IInv, NEW t \in Threads, Build(t)
    PROVE  /\ MapsOK(heap')
           /\ Len(heap) \in Nat /\ Len(heap') = Len(heap) + 1
           /\ \A j \in 1 .. Len(heap) : Contents(heap', j) = Contents(heap, j)
           /\ Contents(heap', Len(heap) + 1) = EditOf(Contents(heap, call[t].map), call[t])
<1>1. call[t].pc = "build" /\ Working(t, call[t])
  BY DEF Build, IInv
<1>2. call[t].map \in 1 .. Len(heap) /\ IsEdit(call[t])
  BY <1>1 DEF Working
<1>3. heap' = Edited(CopyOf(heap, call[t].map), Len(heap) + 1, call[t])
  BY DEF Build
<1>4. Len(heap) \in Nat
  BY HeapOK, LenProperties DEF MapsOK
<1>5. QED
  BY <1>2, <1>3, <1>4, HeapOK, BuildIsPrivate

LEMMA BuildStep ==
    ASSUME IInv, NEW t \in Threads, Build(t)
    PROVE  IInv'
<1> DEFINE old == call[t]
           c   == [old EXCEPT !.pc = "store", !.map = Len(heap) + 1]
<1>1. old \in Call /\ old.pc = "build" /\ Working(t, old)
  BY DEF Build, IInv, TypeOK
<1>2. /\ MapsOK(heap')
      /\ Len(heap) \in Nat /\ Len(heap') = Len(heap) + 1
      /\ \A j \in 1 .. Len(heap) : Contents(heap', j) = Contents(heap, j)
      /\ Contents(heap', Len(heap) + 1) = EditOf(Contents(heap, old.map), old)
  BY BuildHeap
<1>3. /\ old.ns \in Spaces /\ Born(old.ns) /\ IsEdit(old)
      /\ writeMu[old.ns] = t /\ old.map = bindings[old.ns] /\ old.map \in 1 .. Len(heap)
  BY <1>1 DEF Working
<1>4. call' = [call EXCEPT ![t] = c]
  BY DEF Build, IInv, TypeOK
<1>5. /\ c \in Call /\ c.pc = "store" /\ c.map = Len(heap) + 1 /\ c.ns = old.ns
      /\ c.op = old.op /\ IsEdit(c)
  <2>1. Len(heap) + 1 \in Nat
    BY <1>2
  <2>2. QED
    BY <1>1, <1>3, <2>1 DEF Call, IsEdit
<1>6. \A table : EditOf(table, c) = EditOf(table, old)
  BY <1>1 DEF EditOf, Call
<1>7. UNCHANGED <<bindings, writeMu, allocs>>
  BY DEF Build
<1> HIDE DEF c, old
<1>8. \A u \in Threads : call'[u] = IF u = t THEN c ELSE call[u]
  BY <1>4 DEF IInv, TypeOK
<1>9. TypeOK'
  <2>1. heap' \in Seq(Map)
    BY <1>2 DEF MapsOK
  <2>2. bindings' \in [Spaces -> 0 .. Len(heap')]
    BY <1>2, <1>7 DEF IInv, TypeOK
  <2>3. call' \in [Threads -> Call]
    BY <1>4, <1>5 DEF IInv, TypeOK
  <2>4. \A u \in Threads : call'[u].map =< Len(heap')
    <3> SUFFICES ASSUME NEW u \in Threads
                 PROVE  call'[u].map =< Len(heap')
      OBVIOUS
    <3>1. call[u].map \in Nat /\ call[u].map =< Len(heap)
      BY DEF IInv, TypeOK, Call
    <3>2. QED
      BY <1>2, <1>5, <1>8, <3>1
  <2>5. QED
    BY <1>7, <2>1, <2>2, <2>3, <2>4 DEF IInv, TypeOK
<1>10. OwnedIn(heap)' /\ KeyedIn(heap)'
  BY <1>2 DEF MapsOK
<1>11. \A u \in Threads : Working(u, call[u])'
  <2> SUFFICES ASSUME NEW u \in Threads
               PROVE  Working(u, call[u])'
    OBVIOUS
  <2>1. \A j \in 1 .. Len(heap) : j \in 1 .. Len(heap')
    BY <1>2
  <2>2. CASE u = t
    <3>1. call'[u] = c
      BY <1>8, <2>2
    <3>2. Contents(heap', c.map) = EditOf(Contents(heap', bindings'[c.ns]), c)
      BY <1>2, <1>3, <1>5, <1>6, <1>7
    <3>3. c.map \in 1 .. Len(heap') /\ c.op \notin {"idle", "clone"}
      BY <1>2, <1>5 DEF IsEdit
    <3>4. QED
      BY <1>3, <1>5, <1>7, <2>2, <3>1, <3>2, <3>3 DEF Working, Born
  <2>3. CASE u # t
    <3>1. call'[u] = call[u] /\ Working(u, call[u])
      BY <1>8, <2>3 DEF IInv
    <3>2. \A n \in Spaces : Born(n) => bindings[n] \in 1 .. Len(heap)
      BY <1>2 DEF Born, IInv, TypeOK
    <3>3. call[u].pc = "store" =>
            Contents(heap', call[u].map) = EditOf(Contents(heap', bindings[call[u].ns]), call[u])
      BY <1>2, <3>1, <3>2 DEF Working
    <3>4. QED
      BY <1>7, <2>1, <3>1, <3>3 DEF Working, Born, Usable
  <2>4. QED
    BY <2>2, <2>3
<1>12. OneClone'
  BY <1>5, <1>8 DEF IInv, OneClone
<1>13. QED
  BY <1>9, <1>10, <1>11, <1>12 DEF IInv

LEMMA StoreStep ==
    ASSUME IInv, NEW t \in Threads, Store(t)
    PROVE  IInv'
<1> DEFINE old == call[t]
           n   == old.ns
<1>1. old \in Call /\ old.pc = "store" /\ Working(t, old)
  BY DEF Store, IInv, TypeOK
<1>2. n \in Spaces /\ Born(n) /\ writeMu[n] = t /\ old.map \in 1 .. Len(heap)
  BY <1>1 DEF Working
<1>3. /\ bindings' = [bindings EXCEPT ![n] = old.map]
      /\ writeMu' = [writeMu EXCEPT ![n] = None]
      /\ UNCHANGED <<heap, allocs>>
  BY DEF Store
<1>4. Idle \in Call /\ Idle.map = 0 /\ Idle.pc = "idle" /\ Idle.op = "idle"
  BY DEF Idle, Call
<1>5. call' = [call EXCEPT ![t] = Idle]
  BY DEF Store, CallReturns
<1> HIDE DEF old
<1>6. \A u \in Threads : call'[u] = IF u = t THEN Idle ELSE call[u]
  BY <1>5 DEF IInv, TypeOK
<1>7. Len(heap) \in Nat
  BY HeapOK, LenProperties DEF MapsOK
<1>8. TypeOK'
  BY <1>2, <1>3, <1>4, <1>5, <1>6, <1>7 DEF IInv, TypeOK
<1>9. OwnedIn(heap)' /\ KeyedIn(heap)'
  BY <1>3 DEF IInv
<1>10. \A m \in Spaces : bindings'[m] = IF m = n THEN old.map ELSE bindings[m]
  BY <1>3 DEF IInv, TypeOK
<1>11. \A m \in Spaces : Born(m)' <=> Born(m)
  BY <1>2, <1>7, <1>10 DEF Born
<1>12. \A u \in Threads : Working(u, call[u])'
  <2> SUFFICES ASSUME NEW u \in Threads
               PROVE  Working(u, call[u])'
    OBVIOUS
  <2>1. CASE u = t
    <3>1. call'[u] = Idle
      BY <1>6, <2>1
    <3>2. QED
      BY <1>4, <3>1 DEF Working
  <2>2. CASE u # t
    <3>1. call'[u] = call[u] /\ Working(u, call[u])
      BY <1>6, <2>2 DEF IInv
    <3>2. call[u].pc \in {"build", "store"} => call[u].ns # n
      BY <1>2, <2>2, <3>1 DEF Working
    <3>3. call[u].pc \in {"build", "store"} =>
            /\ bindings'[call[u].ns] = bindings[call[u].ns]
            /\ writeMu'[call[u].ns] = writeMu[call[u].ns]
      BY <1>3, <1>10, <3>1, <3>2 DEF Working, IInv, TypeOK
    <3>4. \A src \in Target : Usable(src) => Usable(src)'
      BY <1>11 DEF Usable, Target
    <3>5. QED
      BY <1>3, <1>11, <3>1, <3>3, <3>4 DEF Working
  <2>3. QED
    BY <2>1, <2>2
<1>13. OneClone'
  BY <1>4, <1>6 DEF IInv, OneClone
<1>14. QED
  BY <1>8, <1>9, <1>12, <1>13 DEF IInv

LEMMA FinishCloneStep ==
    ASSUME IInv, NEW t \in Threads, FinishClone(t)
    PROVE  IInv'
<1> DEFINE old == call[t]
           n   == Len(heap) + 1
<1>1. old \in Call /\ old.pc = "copy" /\ Working(t, old)
  BY DEF FinishClone, IInv, TypeOK
<1>2. old.dst \in Spaces /\ ~Born(old.dst) /\ old.map \in 1 .. Len(heap)
  BY <1>1 DEF Working
<1>3. /\ heap' = CopyOf(heap, old.map)
      /\ bindings' = [bindings EXCEPT ![old.dst] = n]
      /\ UNCHANGED <<writeMu, allocs>>
  BY DEF FinishClone
<1>4. Idle \in Call /\ Idle.map = 0 /\ Idle.pc = "idle" /\ Idle.op = "idle"
  BY DEF Idle, Call
<1>5. call' = [call EXCEPT ![t] = Idle]
  BY DEF FinishClone, CallReturns
<1> HIDE DEF old
<1>6. \A u \in Threads : call'[u] = IF u = t THEN Idle ELSE call[u]
  BY <1>5 DEF IInv, TypeOK
<1>7. Len(heap) \in Nat /\ n \in Nat /\ n # 0
  BY HeapOK, LenProperties DEF MapsOK
<1>8. /\ MapsOK(heap')
      /\ Len(heap') = n
      /\ \A j \in 1 .. Len(heap) : heap'[j] = heap[j]
  BY <1>2, <1>3, HeapOK, CopyOfIsFresh
<1>9. \A j \in 1 .. Len(heap) : j \in 1 .. Len(heap')
  BY <1>7, <1>8
<1>10. \A j \in 1 .. Len(heap) : Contents(heap', j) = Contents(heap, j)
  BY <1>8, <1>9, HeapOK, ContentsOfMap
<1> HIDE DEF n
<1>11. \A m \in Spaces : bindings'[m] = IF m = old.dst THEN n ELSE bindings[m]
  BY <1>3 DEF IInv, TypeOK
<1>12. TypeOK'
  <2>1. heap' \in Seq(Map)
    BY <1>8 DEF MapsOK
  <2>2. bindings' \in [Spaces -> 0 .. Len(heap')]
    <3>1. bindings \in [Spaces -> 0 .. n] /\ n \in 0 .. n
      BY <1>7 DEF IInv, TypeOK, n
    <3>2. QED
      BY <1>3, <1>8, <3>1
  <2>3. call' \in [Threads -> Call]
    BY <1>4, <1>5 DEF IInv, TypeOK
  <2>4. \A u \in Threads : call'[u].map =< Len(heap')
    <3> SUFFICES ASSUME NEW u \in Threads
                 PROVE  call'[u].map =< Len(heap')
      OBVIOUS
    <3>1. call[u].map \in Nat /\ call[u].map =< Len(heap)
      BY DEF IInv, TypeOK, Call
    <3>2. QED
      BY <1>4, <1>6, <1>7, <1>8, <3>1 DEF n
  <2>5. QED
    BY <1>3, <2>1, <2>2, <2>3, <2>4 DEF IInv, TypeOK
<1>13. OwnedIn(heap)' /\ KeyedIn(heap)'
  BY <1>8 DEF MapsOK
<1>14. \A m \in Spaces : Born(m) => Born(m)' /\ bindings'[m] = bindings[m]
  BY <1>2, <1>11 DEF Born
<1>15. \A u \in Threads : Working(u, call[u])'
  <2> SUFFICES ASSUME NEW u \in Threads
               PROVE  Working(u, call[u])'
    OBVIOUS
  <2>1. CASE u = t
    <3>1. call'[u] = Idle
      BY <1>6, <2>1
    <3>2. QED
      BY <1>4, <3>1 DEF Working
  <2>2. CASE u # t
    <3>1. call'[u] = call[u] /\ Working(u, call[u])
      BY <1>6, <2>2 DEF IInv
    <3>2. call[u].pc = "copy" => call[u].dst # old.dst
      BY <1>1, <2>2 DEF IInv, OneClone, old
    <3>3. call[u].pc = "copy" => ~Born(call[u].dst)'
      BY <1>11, <3>1, <3>2 DEF Working, Born
    <3>4. \A src \in Target : Usable(src) => Usable(src)'
      BY <1>14 DEF Usable, Target
    <3>5. \A m \in Spaces : Born(m) => bindings[m] \in 1 .. Len(heap)
      BY <1>7 DEF Born, IInv, TypeOK
    <3>6. call[u].pc = "store" =>
            Contents(heap', call[u].map) = EditOf(Contents(heap', bindings'[call[u].ns]), call[u])
      BY <1>10, <1>14, <3>1, <3>5 DEF Working
    <3>7. QED
      BY <1>3, <1>9, <1>14, <3>1, <3>3, <3>4, <3>6 DEF Working
  <2>3. QED
    BY <2>1, <2>2
<1>16. OneClone'
  BY <1>4, <1>6 DEF IInv, OneClone
<1>17. QED
  BY <1>12, <1>13, <1>15, <1>16 DEF IInv

LEMMA NextIInv == IInv /\ [Next]_vars => IInv'
<1> SUFFICES ASSUME IInv, [Next]_vars
             PROVE  IInv'
  OBVIOUS
<1>1. ASSUME NEW t \in Threads, Begin(t)
      PROVE  IInv'
  BY <1>1, BeginBindStep, BeginUnbindStep, BeginUnbindAllStep, BeginCloneStep, BeginReadStep
     DEF Begin
<1>2. ASSUME NEW t \in Threads, Continue(t)
      PROVE  IInv'
  BY <1>2, ResolveStep, OpenSourceStep, LockStep, BuildStep, StoreStep, FinishCloneStep,
     FinishReadStep DEF Continue
<1>3. CASE UNCHANGED vars
  <2>1. TypeOK' /\ OwnedIn(heap)' /\ KeyedIn(heap)' /\ OneClone'
    BY <1>3 DEF vars, IInv, TypeOK, OneClone
  <2>2. \A t \in Threads : Working(t, call[t])'
    BY <1>3 DEF vars, IInv, Working, Born, Usable
  <2>3. QED
    BY <2>1, <2>2 DEF IInv
<1>4. QED
  BY <1>1, <1>2, <1>3 DEF Next

\* The tables are built of what is there and the mutex is held by who writes:
\* IInv is an invariant of Namespace.
THEOREM Invariance == Spec => []IInv
BY InitIInv, NextIInv, PTL DEF Spec

\* Every variable of a set of namespaces has the type TypeOK gives it.
THEOREM TypeCorrect == Spec => []TypeOK
<1>1. IInv => TypeOK
  BY DEF IInv
<1>2. QED
  BY <1>1, Invariance, PTL

\* A key of a published table has a target: Unbind deletes the keys it empties
\* (vfs.go:228), and no other edit makes an empty one.
THEOREM KeysHaveTargets == Spec => []NoEmptyBinding
<1>1. IInv => NoEmptyBinding
  <2> SUFFICES ASSUME IInv, NEW n \in Spaces, NEW d \in Names, Born(n),
                      heap[bindings[n]].slot[d] # None
               PROVE  Refs(heap, bindings[n], d) # <<>>
    BY DEF NoEmptyBinding
  <2>1. bindings[n] \in 1 .. Len(heap)
    BY HeapOK, LenProperties DEF Born, IInv, TypeOK, MapsOK
  <2>2. QED
    BY <2>1, HeapOK, RefsAreOwn DEF IInv, KeyedIn
<1>2. QED
  BY <1>1, Invariance, PTL

-----------------------------------------------------------------------------
(* Snapshots.                                                              *)

\* Whatever was ever built stays as it is: a step adds a map or none.
LEMMA MapsNeverChange ==
    ASSUME IInv, [Next]_vars
    PROVE  \A j \in 1 .. Len(heap) : Contents(heap', j) = Contents(heap, j)
<1>1. ASSUME NEW t \in Threads, Build(t)
      PROVE  \A j \in 1 .. Len(heap) : Contents(heap', j) = Contents(heap, j)
  BY <1>1, BuildHeap
<1>2. ASSUME NEW t \in Threads, FinishClone(t)
      PROVE  \A j \in 1 .. Len(heap) : Contents(heap', j) = Contents(heap, j)
  <2>1. call[t].map \in 1 .. Len(heap)
    BY <1>2 DEF FinishClone, IInv, Working
  <2>2. heap' = CopyOf(heap, call[t].map)
    BY <1>2 DEF FinishClone
  <2>3. /\ MapsOK(heap')
        /\ Len(heap') = Len(heap) + 1
        /\ \A j \in 1 .. Len(heap) : heap'[j] = heap[j]
    BY <2>1, <2>2, HeapOK, CopyOfIsFresh
  <2>4. Len(heap) \in Nat
    BY HeapOK, LenProperties DEF MapsOK
  <2>5. \A j \in 1 .. Len(heap) : j \in 1 .. Len(heap')
    BY <2>3, <2>4
  <2>6. QED
    BY <2>3, <2>5, HeapOK, ContentsOfMap
<1>3. CASE UNCHANGED heap
  BY <1>3
<1>4. (\E t \in Threads : Build(t) \/ FinishClone(t)) \/ UNCHANGED heap
  BY ZenonT(60) DEF Next, vars, Begin, Continue, BeginBind, BeginUnbind, BeginUnbindAll, BeginClone,
         BeginRead, Resolve, OpenSource, Lock, Store, FinishRead
<1>5. QED
  BY <1>1, <1>2, <1>3, <1>4

\* A map that is published, or that a reader, a clone or a writer took as its
\* snapshot, is never changed, nor is a slice in it.
THEOREM SnapshotsAreFrozen == Spec => SnapshotsFrozen
<1>1. IInv /\ [Next]_vars => [\A i \in Snapshots : Contents(heap', i) = Contents(heap, i)]_vars
  <2> SUFFICES ASSUME IInv, [Next]_vars, NEW i \in Snapshots
               PROVE  Contents(heap', i) = Contents(heap, i)
    OBVIOUS
  <2>1. Len(heap) \in Nat
    BY HeapOK, LenProperties DEF MapsOK
  <2>2. i \in 1 .. Len(heap)
    BY <2>1 DEF Snapshots, Born, IInv, TypeOK, Working
  <2>3. QED
    BY <2>2, MapsNeverChange
<1>2. QED
  BY <1>1, Invariance, PTL DEF Spec, SnapshotsFrozen

-----------------------------------------------------------------------------
(* Namespaces implement BindTable.                                         *)

Clones(t, n) == call[t].pc = "copy" /\ call[t].dst = n

\* The table of a namespace is that of its map, and of a clone in the making
\* that of the snapshot it is made of.
TablesKnown ==
    \A n \in Spaces :
        /\ Born(n) => TableOf(n) = Contents(heap, bindings[n])
        /\ ~Born(n) /\ (\A t \in Threads : ~Clones(t, n)) => TableOf(n) = None
        /\ \A t \in Threads : Clones(t, n) => TableOf(n) = Contents(heap, call[t].map)

LEMMA TablesAreKnown == IInv => TablesKnown
<1> SUFFICES ASSUME IInv, NEW n \in Spaces
             PROVE  /\ Born(n) => TableOf(n) = Contents(heap, bindings[n])
                    /\ ~Born(n) /\ (\A t \in Threads : ~Clones(t, n)) => TableOf(n) = None
                    /\ \A t \in Threads : Clones(t, n) => TableOf(n) = Contents(heap, call[t].map)
  BY DEF TablesKnown
<1>1. \A t \in Threads : t \in Cloning(n) <=> Clones(t, n)
  BY DEF Cloning, Clones, IInv, Working
<1>2. \A t \in Threads : Clones(t, n) => ~Born(n)
  BY DEF Clones, IInv, Working
<1>3. Born(n) => TableOf(n) = Contents(heap, bindings[n])
  BY DEF TableOf
<1>4. ~Born(n) /\ (\A t \in Threads : ~Clones(t, n)) => TableOf(n) = None
  <2>1. Cloning(n) \subseteq Threads
    BY DEF Cloning
  <2>2. QED
    BY <1>1, <2>1 DEF TableOf
<1>5. ASSUME NEW t \in Threads, Clones(t, n)
      PROVE  TableOf(n) = Contents(heap, call[t].map)
  <2>1. Cloning(n) = {t}
    BY <1>1, <1>5 DEF Cloning, Clones, IInv, OneClone
  <2>2. (CHOOSE u \in Cloning(n) : TRUE) = t
    BY <2>1
  <2>3. QED
    BY <1>2, <1>5, <2>1, <2>2 DEF TableOf
<1>6. QED
  BY <1>3, <1>4, <1>5

LEMMA TablesAreKnownNext == IInv' => TablesKnown'
BY TablesAreKnown, PTL

LEMMA BornIsBuilt ==
    IInv => \A n \in Spaces : Born(n) => bindings[n] \in 1 .. Len(heap)
BY HeapOK, LenProperties DEF Born, IInv, TypeOK, MapsOK

\* What a born namespace has is a table.
LEMMA TableIsNotNone ==
    ASSUME IInv, NEW n \in Spaces, Born(n)
    PROVE  TableOf(n) # None /\ TableOf(n) \in [Names -> Seq(Target)]
BY BornIsBuilt, HeapOK, ContentsType, TablesAreKnown, NoneAssumption DEF TablesKnown

LEMMA ClonedIsBuilt ==
    IInv => \A t \in Threads, n \in Spaces : Clones(t, n) => call[t].map \in 1 .. Len(heap)
BY DEF IInv, Working, Clones

\* A step of t that publishes nothing and neither begins nor ends a clone.
LEMMA Quiet ==
    ASSUME IInv, [Next]_vars, NEW t \in Threads, UNCHANGED bindings,
           \A u \in Threads \ {t} : call'[u] = call[u],
           call[t].pc # "copy", call'[t].pc # "copy"
    PROVE  \A n \in Spaces : TableOf(n)' = TableOf(n)
<1> SUFFICES ASSUME NEW n \in Spaces
             PROVE  TableOf(n)' = TableOf(n)
  OBVIOUS
<1>1. TablesKnown /\ TablesKnown'
  BY NextIInv, TablesAreKnown, TablesAreKnownNext
<1>2. Born(n)' <=> Born(n)
  BY DEF Born
<1>3. \A u \in Threads : (Clones(u, n)' <=> Clones(u, n)) /\ (Clones(u, n) => u # t)
  BY DEF Clones
<1>4. CASE Born(n)
  BY <1>1, <1>2, <1>4, BornIsBuilt, MapsNeverChange DEF TablesKnown
<1>5. CASE ~Born(n) /\ \A u \in Threads : ~Clones(u, n)
  BY <1>1, <1>2, <1>3, <1>5 DEF TablesKnown
<1>6. CASE \E u \in Threads : Clones(u, n)
  <2>1. PICK u \in Threads : Clones(u, n)
    BY <1>6
  <2>2. call'[u].map = call[u].map /\ call[u].map \in 1 .. Len(heap)
    BY <1>3, <2>1, ClonedIsBuilt
  <2>3. TableOf(n) = Contents(heap, call[u].map)
    BY <1>1, <2>1 DEF TablesKnown
  <2>4. TableOf(n)' = Contents(heap', call'[u].map)
    BY <1>1, <1>3, <2>1 DEF TablesKnown
  <2>5. QED
    BY <2>2, <2>3, <2>4, MapsNeverChange
<1>7. QED
  BY <1>4, <1>5, <1>6

\* The edits of the code are those of the specification.
LEMMA EditsAgree ==
    /\ \A refs, r, mode : mode \in ValidModes => Joined(refs, r, mode) = Tables!Placed(refs, r, mode)
    /\ \A refs, gone : DeleteFunc(refs, gone) = Tables!Without(refs, gone)
<1>1. \A S : Cardinality(S) = Tables!Cardinality(S)
  BY DEF Cardinality, Tables!Cardinality
<1>2. \A refs, gone : DeleteFunc(refs, gone) = Tables!Without(refs, gone)
  <2> TAKE refs, gone
  <2> DEFINE stay     == {k \in DOMAIN refs : refs[k] \notin gone}
             Mine(j)  == CHOOSE k \in stay : Cardinality({i \in stay : i =< k}) = j
             Other(j) == CHOOSE k \in stay : Tables!Cardinality({i \in stay : i =< k}) = j
  <2>1. \A j : Mine(j) = Other(j)
    <3> TAKE j
    <3> HIDE DEF stay
    <3>1. \A k : (k \in stay /\ Cardinality({i \in stay : i =< k}) = j)
                   <=> (k \in stay /\ Tables!Cardinality({i \in stay : i =< k}) = j)
      BY <1>1
    <3>2. QED
      BY <3>1, Zenon
  <2>2. DeleteFunc(refs, gone) = [j \in 1 .. Cardinality(stay) |-> refs[Mine(j)]]
    BY DEF DeleteFunc
  <2>3. Tables!Without(refs, gone) = [j \in 1 .. Tables!Cardinality(stay) |-> refs[Other(j)]]
    BY DEF Tables!Without
  <2> HIDE DEF stay, Mine, Other
  <2>4. QED
    BY <1>1, <2>1, <2>2, <2>3
<1>3. QED
  BY <1>2 DEF Joined, ValidModes, Tables!Placed

LEMMA StoreIsAnEdit ==
    ASSUME IInv, [Next]_vars, NEW t \in Threads, Store(t)
    PROVE  Tables!Next
<1> DEFINE tbl == [m \in Spaces |-> TableOf(m)]
<1>a. PICK c : c = call[t]
  OBVIOUS
<1>b. PICK n : n = c.ns
  OBVIOUS
<1>1. c.pc = "store" /\ Working(t, c)
  BY <1>a DEF Store, IInv
<1>2. /\ n \in Spaces /\ Born(n) /\ IsEdit(c) /\ c.map \in 1 .. Len(heap)
      /\ Contents(heap, c.map) = EditOf(Contents(heap, bindings[n]), c)
  BY <1>1, <1>b DEF Working
<1>3. /\ UNCHANGED heap
      /\ \A m \in Spaces : bindings'[m] = IF m = n THEN c.map ELSE bindings[m]
      /\ \A u \in Threads : u # t => call'[u] = call[u]
      /\ call'[t].pc = "idle"
  BY <1>a, <1>b DEF Store, CallReturns, Idle, IInv, TypeOK
<1>4. TablesKnown /\ TablesKnown'
  BY NextIInv, TablesAreKnown, TablesAreKnownNext
<1>5. \A m \in Spaces : Born(m)' <=> Born(m)
  BY <1>2, <1>3 DEF Born
<1>6. \A u \in Threads, m \in Spaces : Clones(u, m)' <=> Clones(u, m)
  BY <1>1, <1>3, <1>a DEF Clones
<1>7. \A m \in Spaces : m # n => TableOf(m)' = TableOf(m)
  <2> SUFFICES ASSUME NEW m \in Spaces, m # n
               PROVE  TableOf(m)' = TableOf(m)
    OBVIOUS
  <2>1. CASE Born(m)
    BY <1>3, <1>4, <1>5, <2>1 DEF TablesKnown
  <2>2. CASE ~Born(m) /\ \A u \in Threads : ~Clones(u, m)
    BY <1>4, <1>5, <1>6, <2>2 DEF TablesKnown
  <2>3. CASE \E u \in Threads : Clones(u, m)
    <3>1. PICK u \in Threads : Clones(u, m)
      BY <2>3
    <3>2. u # t
      BY <1>1, <1>a, <3>1 DEF Clones
    <3>3. QED
      BY <1>3, <1>4, <1>6, <3>1, <3>2 DEF TablesKnown
  <2>4. QED
    BY <2>1, <2>2, <2>3
<1>8. TableOf(n)' = EditOf(TableOf(n), c)
  <2>1. TableOf(n) = Contents(heap, bindings[n])
    BY <1>2, <1>4 DEF TablesKnown
  <2>2. TableOf(n)' = Contents(heap', bindings'[n])
    BY <1>2, <1>4, <1>5 DEF TablesKnown
  <2>3. QED
    BY <1>2, <1>3, <2>1, <2>2
<1>9. TableOf(n) # None /\ TableOf(n) \in [Names -> Seq(Target)]
  BY <1>2, TableIsNotNone
<1>10. tbl' = [tbl EXCEPT ![n] = EditOf(TableOf(n), c)]
  BY <1>2, <1>7, <1>8
<1>11. tbl[n] = TableOf(n)
  BY <1>2
<1>12. CASE c.op = "bind"
  <2>1. c.dst \in Names /\ c.src \in Target /\ c.mode \in ValidModes
    BY <1>2, <1>12 DEF IsEdit
  <2>2. EditOf(TableOf(n), c) = [TableOf(n) EXCEPT ![c.dst] = Tables!Placed(@, c.src, c.mode)]
    BY <1>12, <2>1, EditsAgree DEF EditOf
  <2>3. Tables!Bind(n, c.dst, c.src, c.mode)
    BY <1>10, <1>11, <2>2 DEF Tables!Bind
  <2>4. QED
    BY <1>2, <1>9, <1>11, <2>1, <2>3 DEF Tables!Next, ValidModes
<1>13. CASE c.op = "unbind"
  <2>1. c.dst \in Names /\ c.gone \in SUBSET Target
    BY <1>2, <1>13 DEF IsEdit
  <2>2. EditOf(TableOf(n), c) = [TableOf(n) EXCEPT ![c.dst] = Tables!Without(@, c.gone)]
    BY <1>13, EditsAgree DEF EditOf
  <2> DEFINE refs == TableOf(n)[c.dst]
             gone == c.gone \cap {refs[k] : k \in DOMAIN refs}
  <2>3. Tables!Without(refs, gone) = Tables!Without(refs, c.gone)
    <3>1. {k \in DOMAIN refs : refs[k] \notin gone} = {k \in DOMAIN refs : refs[k] \notin c.gone}
      OBVIOUS
    <3> DEFINE Left(stay) ==
                 LET Nth(j) == CHOOSE k \in stay : Tables!Cardinality({i \in stay : i =< k}) = j
                 IN  [j \in 1 .. Tables!Cardinality(stay) |-> refs[Nth(j)]]
    <3>2. \A g : Tables!Without(refs, g) = Left({k \in DOMAIN refs : refs[k] \notin g})
      BY DEF Tables!Without
    <3> HIDE DEF Left
    <3>3. QED
      BY <3>1, <3>2
  <2>4. gone \in SUBSET Tables!BoundAt(n, c.dst)
    BY <1>11 DEF Tables!BoundAt
  <2> HIDE DEF gone
  <2>5. Tables!Unbind(n, c.dst, gone)
    BY <1>10, <1>11, <2>2, <2>3 DEF Tables!Unbind
  <2>6. QED
    BY <1>2, <1>9, <1>11, <2>1, <2>4, <2>5 DEF Tables!Next
<1>14. CASE c.op = "unbindall"
  <2>1. EditOf(TableOf(n), c) = [d \in Names |-> IF d \in Kept THEN TableOf(n)[d] ELSE <<>>]
    BY <1>14 DEF EditOf
  <2>2. Tables!UnbindAll(n)
    BY <1>10, <1>11, <2>1 DEF Tables!UnbindAll
  <2>3. QED
    BY <1>2, <1>9, <1>11, <2>2 DEF Tables!Next
<1>15. QED
  BY <1>2, <1>12, <1>13, <1>14 DEF IsEdit

\* A clone is the table of its parent from the moment it took its snapshot.
LEMMA BeginCloneIsClone ==
    ASSUME IInv, [Next]_vars, NEW t \in Threads, NEW n \in Spaces, NEW c \in Spaces,
           BeginClone(t, n, c)
    PROVE  Tables!Next
<1> DEFINE tbl == [m \in Spaces |-> TableOf(m)]
<1>1. /\ Born(n) /\ ~Born(c)
      /\ \A u \in Threads : ~Clones(u, c)
      /\ call[t].pc = "idle"
  BY DEF BeginClone, Clones, Idle, IInv, Working
<1>2. /\ UNCHANGED <<heap, bindings>>
      /\ \A u \in Threads : u # t => call'[u] = call[u]
      /\ call'[t].pc = "copy" /\ call'[t].dst = c /\ call'[t].map = bindings[n]
  BY DEF BeginClone, Idle, IInv, TypeOK
<1>3. TablesKnown /\ TablesKnown'
  BY NextIInv, TablesAreKnown, TablesAreKnownNext
<1>4. \A m \in Spaces : Born(m)' <=> Born(m)
  BY <1>2 DEF Born
<1>5. \A m \in Spaces : m # c => TableOf(m)' = TableOf(m)
  <2> SUFFICES ASSUME NEW m \in Spaces, m # c
               PROVE  TableOf(m)' = TableOf(m)
    OBVIOUS
  <2>1. \A u \in Threads : Clones(u, m)' <=> Clones(u, m)
    BY <1>1, <1>2 DEF Clones
  <2>2. CASE Born(m)
    BY <1>2, <1>3, <1>4, <2>2 DEF TablesKnown
  <2>3. CASE ~Born(m) /\ \A u \in Threads : ~Clones(u, m)
    BY <1>3, <1>4, <2>1, <2>3 DEF TablesKnown
  <2>4. CASE \E u \in Threads : Clones(u, m)
    <3>1. PICK u \in Threads : Clones(u, m)
      BY <2>4
    <3>2. u # t
      BY <1>1, <3>1 DEF Clones
    <3>3. QED
      BY <1>2, <1>3, <2>1, <3>1, <3>2 DEF TablesKnown
  <2>5. QED
    BY <2>2, <2>3, <2>4
<1>6. TableOf(c)' = TableOf(n)
  <2>1. Clones(t, c)'
    BY <1>2 DEF Clones
  <2>2. TableOf(c)' = Contents(heap', call'[t].map)
    BY <1>3, <2>1 DEF TablesKnown
  <2>3. TableOf(n) = Contents(heap, bindings[n])
    BY <1>1, <1>3 DEF TablesKnown
  <2>4. QED
    BY <1>2, <2>2, <2>3
<1>7. TableOf(n) # None /\ TableOf(c) = None
  BY <1>1, <1>3, TableIsNotNone DEF TablesKnown
<1>8. tbl' = [tbl EXCEPT ![c] = tbl[n]]
  BY <1>5, <1>6
<1>9. Tables!Clone(n, c)
  BY <1>7, <1>8 DEF Tables!Clone
<1>10. QED
  BY <1>7, <1>9 DEF Tables!Next

LEMMA FinishCloneIsQuiet ==
    ASSUME IInv, [Next]_vars, NEW t \in Threads, FinishClone(t)
    PROVE  \A n \in Spaces : TableOf(n)' = TableOf(n)
<1> DEFINE d == call[t].dst
<1>1. /\ call[t].pc = "copy" /\ d \in Spaces /\ ~Born(d)
      /\ call[t].map \in 1 .. Len(heap)
  BY DEF FinishClone, IInv, Working
<1>2. /\ heap' = CopyOf(heap, call[t].map)
      /\ \A m \in Spaces : bindings'[m] = IF m = d THEN Len(heap) + 1 ELSE bindings[m]
      /\ \A u \in Threads : u # t => call'[u] = call[u]
      /\ call'[t].pc = "idle"
  BY DEF FinishClone, CallReturns, Idle, IInv, TypeOK
<1>3. TablesKnown /\ TablesKnown'
  BY NextIInv, TablesAreKnown, TablesAreKnownNext
<1>4. Len(heap) \in Nat
  BY HeapOK, LenProperties DEF MapsOK
<1> SUFFICES ASSUME NEW n \in Spaces
             PROVE  TableOf(n)' = TableOf(n)
  OBVIOUS
<1>5. CASE n = d
  <2>1. TableOf(n) = Contents(heap, call[t].map)
    BY <1>1, <1>3, <1>5 DEF TablesKnown, Clones
  <2>2. Born(n)' /\ bindings'[n] = Len(heap) + 1
    BY <1>2, <1>4, <1>5 DEF Born
  <2>3. TableOf(n)' = Contents(heap', Len(heap) + 1)
    BY <1>3, <2>2 DEF TablesKnown
  <2>4. QED
    BY <1>1, <1>2, <2>1, <2>3, HeapOK, CopyOfIsFresh
<1>6. CASE n # d
  <2>1. (Born(n)' <=> Born(n)) /\ bindings'[n] = bindings[n]
    BY <1>2, <1>6 DEF Born
  <2>2. \A u \in Threads : (Clones(u, n)' <=> Clones(u, n)) /\ (Clones(u, n) => u # t)
    BY <1>1, <1>2, <1>6 DEF Clones
  <2>3. CASE Born(n)
    BY <1>3, <2>1, <2>3, BornIsBuilt, MapsNeverChange DEF TablesKnown
  <2>4. CASE ~Born(n) /\ \A u \in Threads : ~Clones(u, n)
    BY <1>3, <2>1, <2>2, <2>4 DEF TablesKnown
  <2>5. CASE \E u \in Threads : Clones(u, n)
    <3>1. PICK u \in Threads : Clones(u, n)
      BY <2>5
    <3>2. call'[u].map = call[u].map /\ call[u].map \in 1 .. Len(heap)
      BY <1>2, <2>2, <3>1, ClonedIsBuilt
    <3>3. TableOf(n) = Contents(heap, call[u].map)
      BY <1>3, <3>1 DEF TablesKnown
    <3>4. TableOf(n)' = Contents(heap', call'[u].map)
      BY <1>3, <2>2, <3>1 DEF TablesKnown
    <3>5. QED
      BY <3>2, <3>3, <3>4, MapsNeverChange
  <2>6. QED
    BY <2>3, <2>4, <2>5
<1>7. QED
  BY <1>5, <1>6

LEMMA NextImplementsTables ==
    IInv /\ [Next]_vars => [Tables!Next]_[n \in Spaces |-> TableOf(n)]
<1> SUFFICES ASSUME IInv, [Next]_vars
             PROVE  Tables!Next \/ \A n \in Spaces : TableOf(n)' = TableOf(n)
  OBVIOUS
<1>1. ASSUME NEW t \in Threads, NEW n \in Spaces, NEW c \in Spaces, BeginClone(t, n, c)
      PROVE  Tables!Next
  BY <1>1, BeginCloneIsClone
<1>2. ASSUME NEW t \in Threads, Store(t)
      PROVE  Tables!Next
  BY <1>2, StoreIsAnEdit
<1>3. ASSUME NEW t \in Threads, FinishClone(t)
      PROVE  \A n \in Spaces : TableOf(n)' = TableOf(n)
  BY <1>3, FinishCloneIsQuiet
<1>4. ASSUME NEW t \in Threads, NEW n \in Spaces,
             \/ \E src \in Source, dst \in Names, mode \in Modes : BeginBind(t, n, src, dst, mode)
             \/ \E src \in Source, dst \in Names : BeginUnbind(t, n, src, dst)
             \/ BeginUnbindAll(t, n)
             \/ BeginRead(t, n)
      PROVE  \A m \in Spaces : TableOf(m)' = TableOf(m)
  <2>1. call \in [Threads -> Call]
    BY DEF IInv, TypeOK
  <2>2. Idle.pc # "copy"
    BY DEF Idle
  <2>3. /\ UNCHANGED bindings /\ call[t] = Idle
        /\ \E c : c.pc # "copy" /\ call' = [call EXCEPT ![t] = c]
    <3>1. ASSUME NEW src, NEW dst, NEW mode, BeginBind(t, n, src, dst, mode)
          PROVE  /\ UNCHANGED bindings /\ call[t] = Idle
                 /\ \E c : c.pc # "copy" /\ call' = [call EXCEPT ![t] = c]
      <4> DEFINE c == [Idle EXCEPT !.op = "bind", !.pc = "resolve", !.ns = n,
                                   !.src = src, !.dst = dst, !.mode = mode]
      <4>1. c.pc # "copy"
        BY DEF Idle
      <4>2. QED
        BY <3>1, <4>1, Zenon DEF BeginBind
    <3>2. ASSUME NEW src, NEW dst, BeginUnbind(t, n, src, dst)
          PROVE  /\ UNCHANGED bindings /\ call[t] = Idle
                 /\ \E c : c.pc # "copy" /\ call' = [call EXCEPT ![t] = c]
      <4> DEFINE c == [Idle EXCEPT !.op = "unbind", !.pc = "resolve", !.ns = n,
                                   !.src = src, !.dst = dst]
      <4>1. c.pc # "copy"
        BY DEF Idle
      <4>2. QED
        BY <3>2, <4>1, Zenon DEF BeginUnbind
    <3>3. ASSUME BeginUnbindAll(t, n)
          PROVE  /\ UNCHANGED bindings /\ call[t] = Idle
                 /\ \E c : c.pc # "copy" /\ call' = [call EXCEPT ![t] = c]
      <4> DEFINE c == [Idle EXCEPT !.op = "unbindall", !.pc = "lock", !.ns = n]
      <4>1. c.pc # "copy"
        BY DEF Idle
      <4>2. QED
        BY <3>3, <4>1, Zenon DEF BeginUnbindAll
    <3>4. ASSUME BeginRead(t, n)
          PROVE  /\ UNCHANGED bindings /\ call[t] = Idle
                 /\ \E c : c.pc # "copy" /\ call' = [call EXCEPT ![t] = c]
      <4> DEFINE c == [Idle EXCEPT !.op = "read", !.pc = "read", !.ns = n, !.map = bindings[n]]
      <4>1. c.pc # "copy"
        BY DEF Idle
      <4>2. QED
        BY <3>4, <4>1, Zenon DEF BeginRead
    <3>5. QED
      BY <1>4, <3>1, <3>2, <3>3, <3>4
  <2>4. (\A u \in Threads \ {t} : call'[u] = call[u]) /\ call'[t].pc # "copy"
    BY <2>1, <2>3
  <2>5. QED
    BY <2>2, <2>3, <2>4, Quiet
<1>5. ASSUME NEW t \in Threads,
             Resolve(t) \/ OpenSource(t) \/ Lock(t) \/ Build(t) \/ FinishRead(t)
      PROVE  \A m \in Spaces : TableOf(m)' = TableOf(m)
  <2>1. call \in [Threads -> Call]
    BY DEF IInv, TypeOK
  <2>2. UNCHANGED bindings /\ call[t].pc # "copy"
    BY <1>5 DEF Resolve, OpenSource, Lock, Build, FinishRead
  <2>3. \E c : call' = [call EXCEPT ![t] = c]
    <3>1. CASE Resolve(t)
      BY <2>1, <3>1, Zenon DEF Resolve
    <3>2. CASE OpenSource(t)
      BY <2>1, <3>2, Zenon DEF OpenSource, CallReturns
    <3>3. CASE Lock(t) \/ Build(t) \/ FinishRead(t)
      BY <2>1, <3>3, Zenon DEF Lock, Build, FinishRead, CallReturns
    <3>4. QED
      BY <1>5, <3>1, <3>2, <3>3
  <2>4. \A u \in Threads \ {t} : call'[u] = call[u]
    BY <2>1, <2>3
  <2>5. call'[t].pc # "copy"
    <3>1. CASE Resolve(t)
      BY <2>1, <3>1, ZenonT(60) DEF Resolve, Call
    <3>2. CASE OpenSource(t)
      BY <2>1, <3>2 DEF OpenSource, CallReturns, Idle, Call
    <3>3. CASE Lock(t) \/ Build(t) \/ FinishRead(t)
      BY <2>1, <3>3 DEF Lock, Build, FinishRead, CallReturns, Idle, Call
    <3>4. QED
      BY <1>5, <3>1, <3>2, <3>3
  <2>6. QED
    BY <2>2, <2>4, <2>5, Quiet
<1>6. CASE UNCHANGED vars
  <2>1. \A n \in Spaces : TableOf(n)' = TableOf(n)
    BY <1>6 DEF vars, TableOf, Cloning, Born
  <2>2. QED
    BY <2>1
<1>7. QED
  BY <1>1, <1>2, <1>3, <1>4, <1>5, <1>6 DEF Next, Begin, Continue

LEMMA InitImplementsTables == Init => Tables!Init
<1> SUFFICES ASSUME Init
             PROVE  \A n \in Spaces : TableOf(n) = IF n = Main THEN Tables!Empty ELSE None
  BY DEF Tables!Init
<1>1. IInv
  BY InitIInv
<1>2. /\ \A n \in Spaces : Born(n) <=> n = Main
      /\ \A t \in Threads, n \in Spaces : ~Clones(t, n)
  BY DEF Init, Born, Clones, Idle
<1>3. Contents(heap, 1) = Tables!Empty
  BY DEF Init, Contents, Refs, Tables!Empty
<1>4. bindings[Main] = 1
  BY NamespaceAssumption DEF Init
<1>5. QED
  BY <1>1, <1>2, <1>3, <1>4, NamespaceAssumption, TablesAreKnown DEF TablesKnown

\* Every Bind, Unbind and UnbindAll is one atomic change of one table, none is
\* lost, and a clone is its parent's table of one moment, cut off from then on.
THEOREM ImplementsTables == Spec => AtomicTables
<1>1. QED
  BY InitImplementsTables, NextImplementsTables, Invariance, PTL
     DEF Spec, AtomicTables, Tables!Spec

-----------------------------------------------------------------------------
(* memfs: nodes, open files and their buffers.                             *)

MemCells == Seq(Nat)
MemNodes == [kind : Kinds, mode : Nat, buf : Nat, to : Paths \cup {<<>>}]
MemFiles == [node : Nat, buf : Nat, off : Nat, dirty : BOOLEAN, closed : BOOLEAN]
MemCalls ==
  [op : FileCalls \cup NameCalls, pc : 0 .. 3, n : Paths \cup {<<>>}, m : Paths \cup {<<>>}, mode : Nat,
   h : Nat, off : Nat, cells : MemCells, flags : {{}}, todo : {<<>>}, err : {"ok"}]

HeapTypes == /\ nodes = [n \in DOMAIN nodes |-> nodes[n]]
             /\ node \in Seq(MemNodes) /\ file \in Seq(MemFiles)
             /\ buf \in Seq(MemCells) /\ wrote \in Seq(MemCells) /\ saved \in Seq(MemCells)
             /\ Len(wrote) = Len(file) /\ Len(saved) = Len(node)

\* What names, nodes and files refer to is there.
Refers == /\ \A n \in DOMAIN nodes : nodes[n] \in 1 .. Len(node)
          /\ \A i \in 1 .. Len(node) : node[i].buf \in 1 .. Len(buf)
          /\ \A h \in 1 .. Len(file) : file[h].buf \in 1 .. Len(buf) /\ file[h].node \in 1 .. Len(node)

\* The buffer of a file that is open is nobody else's: neither another file's,
\* open or closed, nor a node's.
Apart == \A h \in 1 .. Len(file) :
            ~ file[h].closed =>
                /\ \A g \in 1 .. Len(file) : g # h => file[g].buf # file[h].buf
                /\ \A i \in 1 .. Len(node) : node[i].buf # file[h].buf

\* Private, with lengths for domains.
Holds == /\ \A h \in 1 .. Len(file) : buf[file[h].buf] = wrote[h]
         /\ \A i \in 1 .. Len(node) : buf[node[i].buf] = saved[i]

HeapInv == HeapTypes /\ Refers /\ Apart /\ Holds

\* A call on a file has one that was opened, or none; one that has looked a name
\* up has a node.
CallFits(f) == /\ f.op \in FileCalls => f.h \in 0 .. Len(file)
               /\ (\/ f.op = "open" /\ f.pc = 1
                   \/ f.op = "chmod" /\ f.pc = 2
                   \/ f.op = "truncate" /\ f.pc \in {1, 2}) => f.h \in 1 .. Len(node)
StackOK(s) == s = <<>> \/ \E f \in MemCalls : s = <<f>> /\ CallFits(f)
CallsInv == /\ stack = [p \in Procs |-> stack[p]]
            /\ \A p \in Procs : StackOK(stack[p])

MemInv == HeapInv /\ CallsInv

-----------------------------------------------------------------------------
LEMMA OneCall ==
  ASSUME NEW f
  PROVE  /\ Len(<<f>>) = 1 /\ <<f>>[1] = f /\ <<f>> # <<>> /\ Front(<<f>>) = <<>>
         /\ \A g : Front(<<f>>) \o <<g>> = <<g>>
<1>1. Len(<<f>>) = 1 /\ <<f>>[1] = f /\ <<f>> # <<>>
  OBVIOUS
<1>2. Front(<<f>>) = <<>>
  BY <1>1 DEF Front
<1>3. \A g : <<>> \o <<g>> = <<g>>
  OBVIOUS
<1> QED BY <1>1, <1>2, <1>3, Zenon

\* One more at the end of a sequence.
LEMMA OneMore ==
  ASSUME NEW S, NEW s \in Seq(S), NEW e \in S
  PROVE  /\ Append(s, e) \in Seq(S) /\ Len(Append(s, e)) = Len(s) + 1 /\ Len(s) \in Nat
         /\ \A i \in 1 .. Len(s) : Append(s, e)[i] = s[i] /\ s[i] \in S
         /\ Append(s, e)[Len(s) + 1] = e
BY AppendProperties, LenProperties, ElementOfSeq

\* One changed.
LEMMA OneChanged ==
  ASSUME NEW S, NEW s \in Seq(S), NEW e \in S, NEW k \in 1 .. Len(s)
  PROVE  /\ [s EXCEPT ![k] = e] \in Seq(S) /\ Len([s EXCEPT ![k] = e]) = Len(s)
         /\ [s EXCEPT ![k] = e][k] = e
         /\ \A i \in 1 .. Len(s) : i # k => [s EXCEPT ![k] = e][i] = s[i]
BY ExceptSeq, LenProperties

LEMMA NodeChanged ==
  ASSUME NEW i \in MemNodes, NEW b \in Nat
  PROVE  /\ [i EXCEPT !.buf = b, !.to = <<>>] \in MemNodes
         /\ [i EXCEPT !.buf = b, !.to = <<>>].buf = b
<1> DEFINE e == <<>>
<1>1. e \in Paths \cup {<<>>}
  OBVIOUS
<1> HIDE DEF e
<1>2. [i EXCEPT !.buf = b, !.to = e] \in MemNodes /\ [i EXCEPT !.buf = b, !.to = e].buf = b
  BY <1>1 DEF MemNodes
<1> QED BY <1>2 DEF e

LEMMA PutIsCells ==
  ASSUME NEW cells \in MemCells, NEW off \in Nat, NEW new \in MemCells
  PROVE  Put(cells, off, new) \in MemCells
<1>1. PICK n \in Nat, m \in Nat : n = Len(cells) /\ m = Len(new)
  BY LenProperties DEF MemCells
<1>2. PICK k \in Nat : k = IF off + m > n THEN off + m ELSE n
  OBVIOUS
<1>3. (\A i \in 1 .. n : cells[i] \in Nat) /\ \A i \in 1 .. m : new[i] \in Nat
  BY <1>1, ElementOfSeq DEF MemCells
<1> DEFINE v(i) == IF i \in off + 1 .. off + m THEN new[i - off] ELSE IF i <= n THEN cells[i] ELSE 0
<1>4. ASSUME NEW i \in 1 .. k
      PROVE  v(i) \in Nat
  <2>1. CASE i \in off + 1 .. off + m
    <3>1. i - off \in 1 .. m
      BY <2>1
    <3> QED BY <1>3, <2>1, <3>1
  <2>2. CASE i \notin off + 1 .. off + m
    <3>1. i <= n => i \in 1 .. n
      BY <1>4
    <3> QED BY <1>3, <2>2, <3>1
  <2> QED BY <2>1, <2>2
<1>5. Put(cells, off, new) = [i \in 1 .. k |-> v(i)]
  BY <1>1, <1>2, Zenon DEF Put
<1> HIDE DEF v
<1> QED BY <1>4, <1>5 DEF MemCells

LEMMA ResizedIsCells ==
  ASSUME NEW cells \in MemCells, NEW size \in Nat
  PROVE  Resized(cells, size) \in MemCells
<1>1. PICK n \in Nat : n = Len(cells)
  BY LenProperties DEF MemCells
<1>2. \A i \in 1 .. n : cells[i] \in Nat
  BY <1>1, ElementOfSeq DEF MemCells
<1> DEFINE v(k) == IF k <= n THEN cells[k] ELSE 0
<1>3. ASSUME NEW k \in 1 .. size
      PROVE  v(k) \in Nat
  BY <1>2
<1>4. Resized(cells, size) = [k \in 1 .. size |-> v(k)]
  BY <1>1, Zenon DEF Resized
<1> HIDE DEF v
<1> QED BY <1>3, <1>4 DEF MemCells

\* The lengths of everything, and what is at each place.
HeapIs(N, F, B) ==
  /\ N \in Nat /\ F \in Nat /\ B \in Nat
  /\ Len(node) = N /\ Len(saved) = N /\ Len(file) = F /\ Len(wrote) = F /\ Len(buf) = B
  /\ \A i \in 1 .. N : node[i] \in MemNodes /\ node[i].buf \in 1 .. B /\ buf[node[i].buf] = saved[i]
  /\ \A h \in 1 .. F : /\ file[h] \in MemFiles /\ file[h].buf \in 1 .. B /\ file[h].node \in 1 .. N
                       /\ buf[file[h].buf] = wrote[h]

LEMMA HeapLengths ==
  ASSUME HeapInv
  PROVE  \E N, F, B \in Nat : HeapIs(N, F, B)
<1>1. PICK N \in Nat, F \in Nat, B \in Nat : N = Len(node) /\ F = Len(file) /\ B = Len(buf)
  BY LenProperties DEF HeapInv, HeapTypes
<1>2. (\A i \in 1 .. N : node[i] \in MemNodes) /\ \A h \in 1 .. F : file[h] \in MemFiles
  BY <1>1, ElementOfSeq DEF HeapInv, HeapTypes
<1>3. HeapIs(N, F, B)
  BY <1>1, <1>2 DEF HeapInv, HeapTypes, Refers, Holds, HeapIs
<1> QED BY <1>3

\* A new node has a new buffer.
LEMMA PutNodeKeeps ==
  ASSUME HeapInv, NEW n, NEW kind \in Kinds, NEW mode \in Nat, NEW to \in Paths \cup {<<>>},
         PutNode(n, kind, mode, to)
  PROVE  HeapInv' /\ Len(node') = Len(node) + 1 /\ Len(file') = Len(file)
<1>1. PICK N \in Nat, F \in Nat, B \in Nat : HeapIs(N, F, B)
  BY HeapLengths
<1> DEFINE rec == NewNode(kind, mode, B + 1, to)
<1>2. rec \in MemNodes /\ rec.buf = B + 1 /\ <<>> \in MemCells
  BY DEF NewNode, MemNodes, MemCells
<1>3. /\ node' = Append(node, rec) /\ buf' = Append(buf, <<>>) /\ saved' = Append(saved, <<>>)
      /\ nodes' = [k \in DOMAIN nodes \cup {n} |-> IF k = n THEN N + 1 ELSE nodes[k]]
      /\ file' = file /\ wrote' = wrote
  BY <1>1 DEF PutNode, HeapIs
<1> HIDE DEF rec
<1>4. /\ node' \in Seq(MemNodes) /\ Len(node') = N + 1 /\ node'[N + 1] = rec
      /\ \A i \in 1 .. N : node'[i] = node[i]
  BY <1>1, <1>2, <1>3, OneMore DEF HeapIs, HeapInv, HeapTypes
<1>5. /\ buf' \in Seq(MemCells) /\ Len(buf') = B + 1 /\ buf'[B + 1] = <<>>
      /\ \A i \in 1 .. B : buf'[i] = buf[i]
  <2>1. PICK s \in Seq(MemCells) : s = buf /\ Len(s) = B
    BY <1>1 DEF HeapIs, HeapInv, HeapTypes
  <2>2. PICK e \in MemCells : e = <<>>
    BY <1>2
  <2>3. /\ Append(s, e) \in Seq(MemCells) /\ Len(Append(s, e)) = B + 1 /\ Append(s, e)[B + 1] = e
        /\ \A i \in 1 .. B : Append(s, e)[i] = s[i]
    BY <2>1, OneMore
  <2>4. buf' = Append(s, e)
    BY <1>3, <2>1, <2>2
  <2> QED BY <2>1, <2>2, <2>3, <2>4, Zenon
<1>6. /\ saved' \in Seq(MemCells) /\ Len(saved') = N + 1 /\ saved'[N + 1] = <<>>
      /\ \A i \in 1 .. N : saved'[i] = saved[i]
  <2>1. PICK s \in Seq(MemCells) : s = saved /\ Len(s) = N
    BY <1>1 DEF HeapIs, HeapInv, HeapTypes
  <2>2. PICK e \in MemCells : e = <<>>
    BY <1>2
  <2>3. /\ Append(s, e) \in Seq(MemCells) /\ Len(Append(s, e)) = N + 1 /\ Append(s, e)[N + 1] = e
        /\ \A i \in 1 .. N : Append(s, e)[i] = s[i]
    BY <2>1, OneMore
  <2>4. saved' = Append(s, e)
    BY <1>3, <2>1, <2>2
  <2> QED BY <2>1, <2>2, <2>3, <2>4, Zenon
<1>7. HeapTypes'
  BY <1>1, <1>3, <1>4, <1>5, <1>6 DEF HeapInv, HeapTypes, HeapIs
<1>8. \A i \in 1 .. N + 1 : i \in 1 .. N \/ i = N + 1
  BY <1>1
<1>9. Refers'
  <2>1. \A k \in DOMAIN nodes' : nodes'[k] \in 1 .. N + 1
    BY <1>1, <1>3 DEF HeapInv, Refers, HeapIs
  <2>2. \A i \in 1 .. N + 1 : node'[i].buf \in 1 .. B + 1
    BY <1>1, <1>2, <1>4, <1>8 DEF HeapIs
  <2>3. \A h \in 1 .. F : file[h].buf \in 1 .. B + 1 /\ file[h].node \in 1 .. N + 1
    BY <1>1 DEF HeapIs
  <2> QED BY <1>1, <1>3, <1>4, <1>5, <2>1, <2>2, <2>3 DEF Refers, HeapIs
<1>10. Apart'
  <2>1. ASSUME NEW h \in 1 .. F, ~ file[h].closed, NEW i \in 1 .. N + 1
        PROVE  node'[i].buf # file[h].buf
    <3>1. CASE i \in 1 .. N
      BY <1>1, <1>4, <2>1, <3>1 DEF HeapInv, Apart, HeapIs
    <3>2. CASE i = N + 1
      BY <1>1, <1>2, <1>4, <3>2, SMTT(60) DEF HeapIs
    <3> QED BY <1>8, <3>1, <3>2
  <2>2. \A h \in 1 .. F : ~ file[h].closed => \A g \in 1 .. F : g # h => file[g].buf # file[h].buf
    BY <1>1 DEF HeapInv, Apart, HeapIs
  <2> QED BY <1>1, <1>3, <1>4, <2>1, <2>2 DEF Apart, HeapIs
<1>11. Holds'
  <2>1. \A h \in 1 .. F : buf'[file[h].buf] = wrote[h]
    BY <1>1, <1>5 DEF HeapIs
  <2>2. \A i \in 1 .. N + 1 : buf'[node'[i].buf] = saved'[i]
    BY <1>1, <1>2, <1>4, <1>5, <1>6, <1>8 DEF HeapIs
  <2> QED BY <1>1, <1>3, <1>4, <2>1, <2>2 DEF Holds, HeapIs
<1> QED BY <1>1, <1>3, <1>4, <1>7, <1>9, <1>10, <1>11 DEF HeapInv, HeapIs

\* A file is opened on a copy.
LEMMA OpenNodeKeeps ==
  ASSUME HeapInv, NEW j \in 1 .. Len(node), OpenNode(j)
  PROVE  HeapInv' /\ Len(node') = Len(node) /\ Len(file') = Len(file) + 1
<1>1. PICK N \in Nat, F \in Nat, B \in Nat : HeapIs(N, F, B)
  BY HeapLengths
<1> DEFINE rec == NewFile(j, B + 1)
           cells == buf[node[j].buf]
<1>2. /\ rec \in MemFiles /\ rec.buf = B + 1 /\ rec.node = j /\ ~ rec.closed
  BY <1>1 DEF NewFile, MemFiles, HeapIs
<1>3. cells \in MemCells
  <2>1. node[j].buf \in 1 .. Len(buf)
    BY <1>1 DEF HeapIs
  <2> QED BY <2>1, ElementOfSeq DEF HeapInv, HeapTypes
<1>4. /\ file' = Append(file, rec) /\ buf' = Append(buf, cells) /\ wrote' = Append(wrote, cells)
      /\ nodes' = nodes /\ node' = node /\ saved' = saved
  BY <1>1 DEF OpenNode, HeapIs, tree
<1> HIDE DEF rec, cells
<1>5. /\ file' \in Seq(MemFiles) /\ Len(file') = F + 1 /\ file'[F + 1] = rec
      /\ \A i \in 1 .. F : file'[i] = file[i]
  BY <1>1, <1>2, <1>4, OneMore DEF HeapIs, HeapInv, HeapTypes
<1>6. /\ buf' \in Seq(MemCells) /\ Len(buf') = B + 1 /\ buf'[B + 1] = cells
      /\ \A i \in 1 .. B : buf'[i] = buf[i]
  BY <1>1, <1>3, <1>4, OneMore DEF HeapIs, HeapInv, HeapTypes
<1>7. /\ wrote' \in Seq(MemCells) /\ Len(wrote') = F + 1 /\ wrote'[F + 1] = cells
      /\ \A i \in 1 .. F : wrote'[i] = wrote[i]
  BY <1>1, <1>3, <1>4, OneMore DEF HeapIs, HeapInv, HeapTypes
<1>8. HeapTypes'
  BY <1>1, <1>4, <1>5, <1>6, <1>7 DEF HeapInv, HeapTypes, HeapIs
<1>9. \A i \in 1 .. F + 1 : i \in 1 .. F \/ i = F + 1
  BY <1>1
<1>10. j \in 1 .. N
  BY <1>1 DEF HeapIs
<1>11. Refers'
  <2>1. \A i \in 1 .. N : node[i].buf \in 1 .. B + 1
    BY <1>1 DEF HeapIs
  <2>2. \A h \in 1 .. F + 1 : file'[h].buf \in 1 .. B + 1 /\ file'[h].node \in 1 .. N
    BY <1>1, <1>2, <1>5, <1>9, <1>10 DEF HeapIs
  <2> QED BY <1>1, <1>4, <1>5, <1>6, <2>1, <2>2 DEF HeapInv, Refers, HeapIs
<1>12. Apart'
  <2>1. ASSUME NEW h \in 1 .. F + 1, ~ file'[h].closed, NEW i \in 1 .. N
        PROVE  node[i].buf # file'[h].buf
    <3>1. CASE h \in 1 .. F
      BY <1>1, <1>5, <2>1, <3>1, ZenonT(60) DEF HeapInv, Apart, HeapIs
    <3>2. CASE h = F + 1
      BY <1>1, <1>2, <1>5, <3>2 DEF HeapIs
    <3> QED BY <1>9, <3>1, <3>2
  <2>2. ASSUME NEW h \in 1 .. F + 1, ~ file'[h].closed, NEW g \in 1 .. F + 1, g # h
        PROVE  file'[g].buf # file'[h].buf
    <3>1. CASE h \in 1 .. F /\ g \in 1 .. F
      BY <1>1, <1>5, <2>2, <3>1, ZenonT(60) DEF HeapInv, Apart, HeapIs
    <3>2. CASE h = F + 1 /\ g \in 1 .. F
      BY <1>1, <1>2, <1>5, <3>2 DEF HeapIs
    <3>3. CASE g = F + 1 /\ h \in 1 .. F
      BY <1>1, <1>2, <1>5, <3>3 DEF HeapIs
    <3> QED BY <1>9, <2>2, <3>1, <3>2, <3>3
  <2> QED BY <1>1, <1>4, <1>5, <2>1, <2>2 DEF Apart, HeapIs
<1>13. Holds'
  <2>1. ASSUME NEW h \in 1 .. F + 1
        PROVE  buf'[file'[h].buf] = wrote'[h]
    <3>1. CASE h \in 1 .. F
      <4>1. file'[h] = file[h] /\ file[h].buf \in 1 .. B /\ buf[file[h].buf] = wrote[h]
        BY <1>1, <1>5, <3>1 DEF HeapIs
      <4>2. buf'[file[h].buf] = buf[file[h].buf] /\ wrote'[h] = wrote[h]
        BY <1>6, <1>7, <3>1, <4>1
      <4> QED BY <4>1, <4>2, Zenon
    <3>2. CASE h = F + 1
      BY <1>2, <1>5, <1>6, <1>7, <3>2
    <3> QED BY <1>9, <3>1, <3>2
  <2>2. \A i \in 1 .. N : buf'[node[i].buf] = saved[i]
    BY <1>1, <1>6 DEF HeapIs
  <2> QED BY <1>1, <1>4, <1>5, <2>1, <2>2 DEF Holds, HeapIs
<1> QED BY <1>1, <1>4, <1>5, <1>8, <1>11, <1>12, <1>13 DEF HeapInv, HeapIs

\* A write goes to the buffer of the file, which nobody else has, or to a new one.
LEMMA WriteFileKeeps ==
  ASSUME HeapInv, NEW h \in 1 .. Len(file), ~ file[h].closed, NEW new \in MemCells,
         WriteFile(h, new), UNCHANGED tree
  PROVE  HeapInv' /\ Len(node') = Len(node) /\ Len(file') = Len(file)
<1>1. PICK N \in Nat, F \in Nat, B \in Nat : HeapIs(N, F, B)
  BY HeapLengths
<1>2. h \in 1 .. F
  BY <1>1 DEF HeapIs
<1>3. /\ file[h] \in MemFiles /\ file[h].buf \in 1 .. B /\ file[h].node \in 1 .. N /\ file[h].off \in Nat
      /\ buf[file[h].buf] = wrote[h]
  BY <1>1, <1>2 DEF HeapIs, MemFiles
<1> DEFINE b == file[h].buf
           cells == Put(buf[b], file[h].off, new)
           grows == Len(cells) > Len(buf[b])
           c == IF grows THEN B + 1 ELSE b
           rec == [file[h] EXCEPT !.buf = c, !.off = @ + Len(new), !.dirty = TRUE]
<1>4. buf[b] \in MemCells /\ Len(new) \in Nat
  <2>1. b \in 1 .. Len(buf)
    BY <1>1, <1>3 DEF HeapIs
  <2> QED BY <2>1, ElementOfSeq, LenProperties DEF HeapInv, HeapTypes, MemCells
<1>5. cells \in MemCells
  BY <1>3, <1>4, PutIsCells
<1>6. c \in 1 .. B + 1 /\ (c = b \/ c = B + 1)
  BY <1>1, <1>3
<1>7. rec \in MemFiles /\ rec.buf = c /\ rec.node = file[h].node /\ rec.closed = file[h].closed
  <2>1. PICK o \in Nat : o = file[h].off + Len(new)
    BY <1>3, <1>4
  <2>2. c \in Nat
    BY <1>1, <1>6
  <2> HIDE DEF c
  <2>3. rec = [file[h] EXCEPT !.buf = c, !.off = o, !.dirty = TRUE]
    BY <2>1
  <2> HIDE DEF rec
  <2>4. PICK f \in MemFiles : f = file[h]
    BY <1>3
  <2>5. rec = [f EXCEPT !.buf = c, !.off = o, !.dirty = TRUE]
    BY <2>3, <2>4
  <2> QED BY <2>2, <2>4, <2>5 DEF MemFiles
<1>8. /\ buf' = IF grows THEN Append(buf, cells) ELSE [buf EXCEPT ![b] = cells]
      /\ wrote' = [wrote EXCEPT ![h] = cells]
      /\ saved' = saved /\ nodes' = nodes /\ node' = node
  <2>1. wrote' = [wrote EXCEPT ![h] = Put(wrote[h], file[h].off, new)]
    BY DEF WriteFile
  <2> QED BY <1>3, <2>1 DEF WriteFile, tree
<1>9. file' = [file EXCEPT ![h] = rec]
  <2>1. file' = [file EXCEPT ![h].buf = IF grows THEN Len(buf) + 1 ELSE @, ![h].off = @ + Len(new), ![h].dirty = TRUE]
    BY DEF WriteFile
  <2>2. Len(buf) = B
    BY <1>1 DEF HeapIs
  <2> HIDE DEF grows
  <2> QED BY <1>1, <1>2, <2>1, <2>2 DEF HeapInv, HeapTypes, HeapIs
<1> HIDE DEF rec, cells, grows
<1>10. /\ file' \in Seq(MemFiles) /\ Len(file') = F /\ file'[h] = rec
       /\ \A i \in 1 .. F : i # h => file'[i] = file[i]
  BY <1>1, <1>2, <1>7, <1>9, OneChanged DEF HeapIs, HeapInv, HeapTypes
<1>11. /\ wrote' \in Seq(MemCells) /\ Len(wrote') = F /\ wrote'[h] = cells
       /\ \A i \in 1 .. F : i # h => wrote'[i] = wrote[i]
  BY <1>1, <1>2, <1>5, <1>8, OneChanged DEF HeapIs, HeapInv, HeapTypes
<1>12. PICK C \in Nat :
         /\ buf' \in Seq(MemCells) /\ Len(buf') = C /\ C >= B /\ c \in 1 .. C
         /\ buf'[c] = cells /\ \A i \in 1 .. B : i # b => buf'[i] = buf[i]
         /\ c # b => c = B + 1
  <2>1. CASE grows
    <3>1. /\ buf' \in Seq(MemCells) /\ Len(buf') = B + 1 /\ buf'[B + 1] = cells
          /\ \A i \in 1 .. B : buf'[i] = buf[i]
      BY <1>1, <1>5, <1>8, <2>1, OneMore DEF HeapIs, HeapInv, HeapTypes
    <3> QED BY <1>1, <2>1, <3>1
  <2>2. CASE ~ grows
    <3>1. /\ buf' \in Seq(MemCells) /\ Len(buf') = B /\ buf'[b] = cells
          /\ \A i \in 1 .. B : i # b => buf'[i] = buf[i]
      BY <1>1, <1>3, <1>5, <1>8, <2>2, OneChanged DEF HeapIs, HeapInv, HeapTypes
    <3> QED BY <1>1, <1>3, <2>2, <3>1
  <2> QED BY <2>1, <2>2
<1> HIDE DEF c
<1>13. \A i \in 1 .. F : i # h => file[i].buf # b /\ file[i].buf \in 1 .. B
  BY <1>1, <1>2 DEF HeapInv, Apart, HeapIs
<1>14. \A i \in 1 .. N : node[i].buf # b /\ node[i].buf \in 1 .. B
  BY <1>1, <1>2 DEF HeapInv, Apart, HeapIs
<1>15. HeapTypes'
  BY <1>1, <1>8, <1>10, <1>11, <1>12 DEF HeapInv, HeapTypes, HeapIs
<1>16. Refers'
  <2>1. \A i \in 1 .. N : node[i].buf \in 1 .. C
    BY <1>1, <1>12 DEF HeapIs
  <2>2. ASSUME NEW g \in 1 .. F
        PROVE  file'[g].buf \in 1 .. C /\ file'[g].node \in 1 .. N
    <3>1. CASE g = h
      BY <1>3, <1>7, <1>10, <1>12, <3>1
    <3>2. CASE g # h
      BY <1>1, <1>10, <1>12, <3>2 DEF HeapIs
    <3> QED BY <3>1, <3>2
  <2> QED BY <1>1, <1>8, <1>10, <1>12, <2>1, <2>2 DEF HeapInv, Refers, HeapIs
<1>17. Apart'
  <2>1. ASSUME NEW g \in 1 .. F, ~ file'[g].closed, NEW i \in 1 .. N
        PROVE  node[i].buf # file'[g].buf
    <3>1. CASE g = h
      BY <1>1, <1>6, <1>7, <1>10, <1>14, <3>1
    <3>2. CASE g # h
      BY <1>1, <1>10, <2>1, <3>2 DEF HeapInv, Apart, HeapIs
    <3> QED BY <3>1, <3>2
  <2>2. ASSUME NEW g \in 1 .. F, ~ file'[g].closed, NEW i \in 1 .. F, i # g
        PROVE  file'[i].buf # file'[g].buf
    <3>1. CASE g = h
      BY <1>1, <1>6, <1>7, <1>10, <1>13, <2>2, <3>1, SMTT(60)
    <3>2. CASE i = h
      BY <1>1, <1>6, <1>7, <1>10, <1>13, <2>2, <3>2
    <3>3. CASE g # h /\ i # h
      BY <1>1, <1>10, <2>2, <3>3 DEF HeapInv, Apart, HeapIs
    <3> QED BY <3>1, <3>2, <3>3
  <2> QED BY <1>1, <1>8, <1>10, <2>1, <2>2 DEF Apart, HeapIs
<1>18. Holds'
  <2>1. ASSUME NEW g \in 1 .. F
        PROVE  buf'[file'[g].buf] = wrote'[g]
    <3>1. CASE g = h
      BY <1>7, <1>10, <1>11, <1>12, <3>1
    <3>2. CASE g # h
      BY <1>1, <1>10, <1>11, <1>12, <1>13, <3>2 DEF HeapIs
    <3> QED BY <3>1, <3>2
  <2>2. \A i \in 1 .. N : buf'[node[i].buf] = saved[i]
    BY <1>1, <1>12, <1>14 DEF HeapIs
  <2> QED BY <1>1, <1>8, <1>10, <2>1, <2>2 DEF Holds, HeapIs
<1> QED BY <1>1, <1>8, <1>10, <1>15, <1>16, <1>17, <1>18 DEF HeapInv, HeapIs

\* Close gives the buffer to the node and the file is closed.
LEMMA CloseFileKeeps ==
  ASSUME HeapInv, NEW h \in 1 .. Len(file), ~ file[h].closed, CloseFile(h)
  PROVE  HeapInv' /\ Len(node') = Len(node) /\ Len(file') = Len(file)
<1>1. PICK N \in Nat, F \in Nat, B \in Nat : HeapIs(N, F, B)
  BY HeapLengths
<1>2. h \in 1 .. F
  BY <1>1 DEF HeapIs
<1> DEFINE b == file[h].buf
           j == file[h].node
           rec == [file[h] EXCEPT !.closed = TRUE]
           new == [node[j] EXCEPT !.buf = b]
<1>3. /\ file[h] \in MemFiles /\ b \in 1 .. B /\ j \in 1 .. N /\ buf[b] = wrote[h]
      /\ node[j] \in MemNodes
  BY <1>1, <1>2 DEF HeapIs
<1>4. rec \in MemFiles /\ rec.buf = b /\ rec.node = j /\ rec.closed
  BY <1>3 DEF MemFiles
<1>5. new \in MemNodes /\ new.buf = b
  BY <1>3, SMTT(60) DEF MemNodes
<1>6. wrote[h] \in MemCells
  <2>1. h \in 1 .. Len(wrote)
    BY <1>1, <1>2 DEF HeapIs
  <2> QED BY <2>1, ElementOfSeq DEF HeapInv, HeapTypes
<1>7. /\ file' = [file EXCEPT ![h] = rec] /\ nodes' = nodes /\ buf' = buf /\ wrote' = wrote
      /\ node' = IF file[h].dirty THEN [node EXCEPT ![j] = new] ELSE node
      /\ saved' = IF file[h].dirty THEN [saved EXCEPT ![j] = wrote[h]] ELSE saved
  <2>1. file' = [file EXCEPT ![h].closed = TRUE]
    BY DEF CloseFile
  <2>2. file' = [file EXCEPT ![h] = rec]
    BY <2>1
  <2>3. [node EXCEPT ![j].buf = b] = [node EXCEPT ![j] = new]
    OBVIOUS
  <2> QED BY <2>2, <2>3 DEF CloseFile
<1>8. /\ file' \in Seq(MemFiles) /\ Len(file') = F /\ file'[h] = rec
      /\ \A i \in 1 .. F : i # h => file'[i] = file[i]
  <2> HIDE DEF rec
  <2> QED BY <1>1, <1>2, <1>4, <1>7, OneChanged DEF HeapIs, HeapInv, HeapTypes
<1>9. /\ node' \in Seq(MemNodes) /\ Len(node') = N /\ saved' \in Seq(MemCells) /\ Len(saved') = N
      /\ \A i \in 1 .. N : (node'[i] = node[i] /\ saved'[i] = saved[i]) \/ (node'[i] = new /\ saved'[i] = wrote[h])
  <2> HIDE DEF new
  <2>1. CASE file[h].dirty
    <3>1. /\ node' \in Seq(MemNodes) /\ Len(node') = N /\ node'[j] = new
          /\ \A i \in 1 .. N : i # j => node'[i] = node[i]
      BY <1>1, <1>3, <1>5, <1>7, <2>1, OneChanged DEF HeapIs, HeapInv, HeapTypes
    <3>2. /\ saved' \in Seq(MemCells) /\ Len(saved') = N /\ saved'[j] = wrote[h]
          /\ \A i \in 1 .. N : i # j => saved'[i] = saved[i]
      BY <1>1, <1>3, <1>6, <1>7, <2>1, OneChanged DEF HeapIs, HeapInv, HeapTypes
    <3> QED BY <3>1, <3>2
  <2>2. CASE ~ file[h].dirty
    BY <1>1, <1>7, <2>2 DEF HeapIs, HeapInv, HeapTypes
  <2> QED BY <2>1, <2>2
<1> HIDE DEF rec, new
<1>10. HeapTypes'
  BY <1>1, <1>7, <1>8, <1>9 DEF HeapInv, HeapTypes, HeapIs
<1>11. Refers'
  <2>1. \A i \in 1 .. N : node'[i].buf \in 1 .. B
    BY <1>1, <1>3, <1>5, <1>9 DEF HeapIs
  <2>2. \A g \in 1 .. F : file'[g].buf \in 1 .. B /\ file'[g].node \in 1 .. N
    BY <1>1, <1>3, <1>4, <1>8 DEF HeapIs
  <2> QED BY <1>1, <1>7, <1>8, <1>9, <2>1, <2>2 DEF HeapInv, Refers, HeapIs
<1>12. Apart'
  <2>1. ASSUME NEW g \in 1 .. F, ~ file'[g].closed
        PROVE  /\ g # h /\ file'[g] = file[g] /\ ~ file[g].closed
               /\ file[g].buf # b /\ \A i \in 1 .. N : node[i].buf # file[g].buf
               /\ \A i \in 1 .. F : i # g => file[i].buf # file[g].buf
    <3>1. g # h /\ file'[g] = file[g]
      BY <1>4, <1>8, <2>1
    <3> QED BY <1>1, <1>2, <2>1, <3>1 DEF HeapInv, Apart, HeapIs
  <2>2. ASSUME NEW g \in 1 .. F, ~ file'[g].closed, NEW i \in 1 .. N
        PROVE  node'[i].buf # file'[g].buf
    BY <1>5, <1>9, <2>1, <2>2
  <2>3. ASSUME NEW g \in 1 .. F, ~ file'[g].closed, NEW i \in 1 .. F, i # g
        PROVE  file'[i].buf # file'[g].buf
    BY <1>4, <1>8, <2>1, <2>3
  <2> QED BY <1>1, <1>8, <1>9, <2>2, <2>3 DEF Apart, HeapIs
<1>13. Holds'
  <2>1. \A g \in 1 .. F : buf[file'[g].buf] = wrote[g]
    BY <1>1, <1>3, <1>4, <1>8 DEF HeapIs
  <2>2. \A i \in 1 .. N : buf[node'[i].buf] = saved'[i]
    BY <1>1, <1>3, <1>5, <1>9 DEF HeapIs
  <2> QED BY <1>1, <1>7, <1>8, <1>9, <2>1, <2>2 DEF Holds, HeapIs
<1> QED BY <1>1, <1>8, <1>9, <1>10, <1>11, <1>12, <1>13 DEF HeapInv, HeapIs

\* Truncate gives the node a new buffer.
LEMMA TruncateKeeps ==
  ASSUME HeapInv, NEW j \in 1 .. Len(node), NEW cells \in MemCells,
         NEW new \in MemNodes, new.buf = Len(buf) + 1,
         buf' = Append(buf, cells),
         node' = [node EXCEPT ![j] = new],
         saved' = [saved EXCEPT ![j] = cells],
         UNCHANGED <<nodes, file, wrote>>
  PROVE  HeapInv' /\ Len(node') = Len(node) /\ Len(file') = Len(file)
<1>1. PICK N \in Nat, F \in Nat, B \in Nat : HeapIs(N, F, B)
  BY HeapLengths
<1>2. j \in 1 .. N
  BY <1>1 DEF HeapIs
<1>3. new.buf = B + 1
  BY <1>1 DEF HeapIs
<1>5. /\ node' \in Seq(MemNodes) /\ Len(node') = N /\ node'[j] = new
      /\ \A i \in 1 .. N : i # j => node'[i] = node[i]
  <2>1. node \in Seq(MemNodes) /\ Len(node) = N
    BY <1>1 DEF HeapIs, HeapInv, HeapTypes
  <2> QED BY <1>2, <2>1, OneChanged
<1>6. /\ saved' \in Seq(MemCells) /\ Len(saved') = N /\ saved'[j] = cells
      /\ \A i \in 1 .. N : i # j => saved'[i] = saved[i]
  BY <1>1, <1>2, OneChanged DEF HeapIs, HeapInv, HeapTypes
<1>7. /\ buf' \in Seq(MemCells) /\ Len(buf') = B + 1 /\ buf'[B + 1] = cells
      /\ \A i \in 1 .. B : buf'[i] = buf[i]
  BY <1>1, OneMore DEF HeapIs, HeapInv, HeapTypes
<1>8. HeapTypes'
  BY <1>1, <1>5, <1>6, <1>7 DEF HeapInv, HeapTypes, HeapIs
<1>9. Refers'
  <2>1. \A i \in 1 .. N : node'[i].buf \in 1 .. B + 1
    BY <1>1, <1>3, <1>5 DEF HeapIs
  <2>2. \A h \in 1 .. F : file[h].buf \in 1 .. B + 1 /\ file[h].node \in 1 .. N
    BY <1>1 DEF HeapIs
  <2> QED BY <1>1, <1>5, <1>7, <2>1, <2>2 DEF HeapInv, Refers, HeapIs
<1>10. Apart'
  <2>1. ASSUME NEW h \in 1 .. F, ~ file[h].closed, NEW i \in 1 .. N
        PROVE  node'[i].buf # file[h].buf
    <3>1. CASE i = j
      BY <1>1, <1>3, <1>5, <3>1 DEF HeapIs
    <3>2. CASE i # j
      BY <1>1, <1>5, <2>1, <3>2 DEF HeapInv, Apart, HeapIs
    <3> QED BY <3>1, <3>2
  <2>2. \A h \in 1 .. F : ~ file[h].closed => \A g \in 1 .. F : g # h => file[g].buf # file[h].buf
    BY <1>1 DEF HeapInv, Apart, HeapIs
  <2> QED BY <1>1, <1>5, <2>1, <2>2 DEF Apart, HeapIs
<1>11. Holds'
  <2>1. \A h \in 1 .. F : buf'[file[h].buf] = wrote[h]
    BY <1>1, <1>7 DEF HeapIs
  <2>2. ASSUME NEW i \in 1 .. N
        PROVE  buf'[node'[i].buf] = saved'[i]
    <3>1. CASE i = j
      BY <1>3, <1>5, <1>6, <1>7, <3>1
    <3>2. CASE i # j
      BY <1>1, <1>5, <1>6, <1>7, <3>2 DEF HeapIs
    <3> QED BY <3>1, <3>2
  <2> QED BY <1>1, <1>5, <2>1, <2>2 DEF Holds, HeapIs
<1> QED BY <1>1, <1>5, <1>8, <1>9, <1>10, <1>11 DEF HeapInv, HeapIs

\* What changes a node's mode leaves its buffer.
LEMMA ModeKeeps ==
  ASSUME HeapInv, NEW j \in 1 .. Len(node), NEW mode \in Nat,
         node' = [node EXCEPT ![j].mode = mode],
         UNCHANGED <<nodes, buf, file, wrote, saved>>
  PROVE  HeapInv' /\ Len(node') = Len(node) /\ Len(file') = Len(file)
<1>1. PICK N \in Nat, F \in Nat, B \in Nat : HeapIs(N, F, B)
  BY HeapLengths
<1> DEFINE new == [node[j] EXCEPT !.mode = mode]
<1>2. j \in 1 .. N /\ node[j] \in MemNodes
  BY <1>1 DEF HeapIs
<1>3. new \in MemNodes /\ new.buf = node[j].buf
  BY <1>2 DEF MemNodes
<1>4. node' = [node EXCEPT ![j] = new]
  OBVIOUS
<1> HIDE DEF new
<1>5. /\ node' \in Seq(MemNodes) /\ Len(node') = N
      /\ \A i \in 1 .. N : node'[i].buf = node[i].buf
  <2>1. node \in Seq(MemNodes) /\ Len(node) = N
    BY <1>1 DEF HeapIs, HeapInv, HeapTypes
  <2>2. /\ node' \in Seq(MemNodes) /\ Len(node') = N /\ node'[j] = new
        /\ \A i \in 1 .. N : i # j => node'[i] = node[i]
    BY <1>2, <1>3, <1>4, <2>1, OneChanged
  <2> QED BY <1>3, <2>2
<1> QED BY <1>1, <1>5 DEF HeapInv, HeapTypes, Refers, Apart, Holds, HeapIs

\* So do an offset and the mark that something was written.
LEMMA OffsetKeeps ==
  ASSUME HeapInv, NEW h \in 1 .. Len(file), NEW rec \in MemFiles,
         rec.node = file[h].node, rec.buf = file[h].buf, rec.closed = file[h].closed,
         file' = [file EXCEPT ![h] = rec],
         UNCHANGED <<nodes, node, buf, wrote, saved>>
  PROVE  HeapInv' /\ Len(node') = Len(node) /\ Len(file') = Len(file)
<1>1. PICK N \in Nat, F \in Nat, B \in Nat : HeapIs(N, F, B)
  BY HeapLengths
<1>2. h \in 1 .. F
  BY <1>1 DEF HeapIs
<1>3. /\ file' \in Seq(MemFiles) /\ Len(file') = F
      /\ \A g \in 1 .. F : /\ file'[g].node = file[g].node /\ file'[g].buf = file[g].buf
                          /\ file'[g].closed = file[g].closed
  BY <1>1, <1>2, OneChanged DEF HeapIs, HeapInv, HeapTypes
<1> QED BY <1>1, <1>3 DEF HeapInv, HeapTypes, Refers, Apart, Holds, HeapIs

\* Names may be given to other nodes.
LEMMA NamesKeep ==
  ASSUME HeapInv, nodes' = [n \in DOMAIN nodes' |-> nodes'[n]],
         \A n \in DOMAIN nodes' : nodes'[n] \in 1 .. Len(node),
         UNCHANGED <<node, buf, file, wrote, saved>>
  PROVE  HeapInv' /\ Len(node') = Len(node) /\ Len(file') = Len(file)
BY DEF HeapInv, HeapTypes, Refers, Apart, Holds

LEMMA HeapStays ==
  ASSUME HeapInv, UNCHANGED <<tree, data>>
  PROVE  HeapInv' /\ Len(node') = Len(node) /\ Len(file') = Len(file)
BY DEF HeapInv, HeapTypes, Refers, Apart, Holds, tree, data

-----------------------------------------------------------------------------
\* The call a goroutine is in.
LEMMA InOneCall ==
  ASSUME CallsInv, NEW p \in Procs, stack[p] # <<>>
  PROVE  \E f \in MemCalls : stack[p] = <<f>> /\ CallFits(f) /\ Top(p) = f
<1>1. PICK f \in MemCalls : stack[p] = <<f>> /\ CallFits(f)
  BY DEF CallsInv, StackOK
<1>2. Top(p) = f
  BY <1>1, OneCall, Zenon DEF Top
<1> QED BY <1>1, <1>2

Longer == /\ Len(node) \in Nat /\ Len(file) \in Nat /\ Len(node') \in Nat /\ Len(file') \in Nat
          /\ Len(node) =< Len(node') /\ Len(file) =< Len(file')

LEMMA FitsStill ==
  ASSUME NEW f \in MemCalls, CallFits(f), Longer
  PROVE  CallFits(f)'
BY DEF CallFits, Longer, MemCalls

LEMMA CallsKept ==
  ASSUME CallsInv, Longer, NEW p \in Procs, NEW s, stack' = [stack EXCEPT ![p] = s],
         s = <<>> \/ \E g \in MemCalls : s = <<g>> /\ CallFits(g)'
  PROVE  CallsInv'
<1>1. stack' = [q \in Procs |-> stack'[q]] /\ stack'[p] = s /\ \A q \in Procs : q # p => stack'[q] = stack[q]
  BY DEF CallsInv
<1>2. ASSUME NEW q \in Procs
      PROVE  stack'[q] = <<>> \/ \E g \in MemCalls : stack'[q] = <<g>> /\ CallFits(g)'
  <2>1. CASE q = p
    BY <1>1, <2>1
  <2>2. CASE q # p
    <3>1. stack'[q] = stack[q] /\ StackOK(stack[q])
      BY <1>1, <2>2 DEF CallsInv
    <3>2. CASE stack[q] = <<>>
      BY <3>1, <3>2
    <3>3. CASE \E f \in MemCalls : stack[q] = <<f>> /\ CallFits(f)
      <4>1. PICK f \in MemCalls : stack[q] = <<f>> /\ CallFits(f)
        BY <3>3
      <4>2. CallFits(f)'
        BY <4>1, FitsStill
      <4> QED BY <3>1, <4>1, <4>2, Zenon
    <3> QED BY <3>1, <3>2, <3>3, Zenon DEF StackOK
  <2> QED BY <2>1, <2>2
<1> QED BY <1>1, <1>2 DEF CallsInv, StackOK

LEMMA ReturnsKeeps ==
  ASSUME CallsInv, Longer, NEW p \in Procs, NEW f, stack[p] = <<f>>, NEW r, Returns(p, r)
  PROVE  CallsInv'
<1>1. stack' = [stack EXCEPT ![p] = Front(<<f>>)]
  BY Zenon DEF Returns
<1>2. stack' = [stack EXCEPT ![p] = <<>>]
  BY <1>1, OneCall, Zenon
<1> QED BY <1>2, CallsKept

LEMMA BecomeKeeps ==
  ASSUME CallsInv, Longer, NEW p \in Procs, NEW f, stack[p] = <<f>>, NEW g \in MemCalls, Become(p, g),
         CallFits(g)'
  PROVE  CallsInv'
<1>1. stack' = [stack EXCEPT ![p] = Front(<<f>>) \o <<g>>]
  BY Zenon DEF Become
<1>2. stack' = [stack EXCEPT ![p] = <<g>>]
  BY <1>1, OneCall, Zenon
<1> QED BY <1>2, CallsKept

LEMMA LengthsType ==
  ASSUME HeapInv
  PROVE  Len(node) \in Nat /\ Len(file) \in Nat
BY LenProperties DEF HeapInv, HeapTypes

\* A step that changes no node and no file.
LEMMA ControlKeeps ==
  ASSUME MemInv, NEW p \in Procs, NEW f, stack[p] = <<f>>, UNCHANGED <<tree, data>>,
         \/ \E r : Returns(p, r)
         \/ \E g \in MemCalls : Become(p, g) /\ CallFits(g)
  PROVE  MemInv'
<1>1. HeapInv' /\ Len(node') = Len(node) /\ Len(file') = Len(file)
  BY HeapStays DEF MemInv
<1>2. Longer
  BY <1>1, LengthsType DEF MemInv, Longer
<1>3. CASE \E r : Returns(p, r)
  BY <1>1, <1>2, <1>3, ReturnsKeeps DEF MemInv
<1>4. CASE \E g \in MemCalls : Become(p, g) /\ CallFits(g)
  <2>1. PICK g \in MemCalls : Become(p, g) /\ CallFits(g)
    BY <1>4
  <2>2. CallFits(g)'
    BY <1>2, <2>1, FitsStill
  <2> QED BY <1>1, <1>2, <2>1, <2>2, BecomeKeeps DEF MemInv
<1> QED BY <1>3, <1>4

LEMMA FailKeeps ==
  ASSUME MemInv, NEW p \in Procs, NEW f, stack[p] = <<f>>, NEW err, Fail(p, err)
  PROVE  MemInv'
<1>1. UNCHANGED <<tree, data>> /\ \E r : Returns(p, r)
  BY Zenon DEF Fail
<1> QED BY <1>1, ControlKeeps

LEMMA GotoKeeps ==
  ASSUME MemInv, NEW p \in Procs, NEW f \in MemCalls, stack[p] = <<f>>, Top(p) = f, NEW k \in 0 .. 3, Goto(p, k),
         CallFits([f EXCEPT !.pc = k]), UNCHANGED <<tree, data>>
  PROVE  MemInv'
<1>1. [f EXCEPT !.pc = k] \in MemCalls
  BY DEF MemCalls
<1>2. Become(p, [f EXCEPT !.pc = k])
  BY Zenon DEF Goto
<1> QED BY <1>1, <1>2, ControlKeeps

\* The checks of the calls that change the tree.
LEMMA ChecksKeep ==
  ASSUME MemInv, NEW p \in Procs,
         \/ CreateChecks(p) \/ MkdirChecks(p) \/ MkdirChecksParent(p) \/ SymlinkChecks(p) \/ ChmodChecks(p)
         \/ RemoveChecks(p) \/ RemoveChecksDir(p) \/ RemoveChecksEmpty(p)
  PROVE  MemInv'
<1>1. stack[p] # <<>>
  BY DEF CreateChecks, MkdirChecks, MkdirChecksParent, SymlinkChecks, ChmodChecks,
         RemoveChecks, RemoveChecksDir, RemoveChecksEmpty, At
<1>2. PICK f \in MemCalls : stack[p] = <<f>> /\ CallFits(f) /\ Top(p) = f
  BY <1>1, InOneCall DEF MemInv
<1>3. f.op \in {"create", "mkdir", "symlink", "chmod", "remove"} /\ (f.op = "chmod" => f.pc = 0)
  BY <1>2 DEF CreateChecks, MkdirChecks, MkdirChecksParent, SymlinkChecks, ChmodChecks,
              RemoveChecks, RemoveChecksDir, RemoveChecksEmpty, At
<1>4. \/ \E err : Fail(p, err)
      \/ /\ UNCHANGED <<tree, data>>
         /\ \E k \in 0 .. 3 : Goto(p, k) /\ (f.op = "chmod" => k = 1)
  BY <1>2 DEF CreateChecks, MkdirChecks, MkdirChecksParent, SymlinkChecks, ChmodChecks,
              RemoveChecks, RemoveChecksDir, RemoveChecksEmpty, At
<1>5. CASE \E err : Fail(p, err)
  BY <1>2, <1>5, FailKeeps
<1>6. CASE UNCHANGED <<tree, data>> /\ \E k \in 0 .. 3 : Goto(p, k) /\ (f.op = "chmod" => k = 1)
  <2>1. PICK k \in 0 .. 3 : Goto(p, k) /\ (f.op = "chmod" => k = 1)
    BY <1>6
  <2>2. CallFits([f EXCEPT !.pc = k])
    BY <1>3, <2>1 DEF CallFits, FileCalls, MemCalls
  <2> QED BY <1>2, <1>6, <2>1, <2>2, GotoKeeps
<1> QED BY <1>4, <1>5, <1>6

\* Those that look a name up and go on with its node.
OnNode(f, k, i) == [f EXCEPT !.pc = k, !.h = i]

LEMMA LooksKeep ==
  ASSUME MemInv, NEW p \in Procs, OpenLooks(p) \/ ChmodLooks(p) \/ TruncateLooks(p)
  PROVE  MemInv'
<1>1. stack[p] # <<>>
  BY DEF OpenLooks, ChmodLooks, TruncateLooks, At
<1>2. PICK f \in MemCalls : stack[p] = <<f>> /\ CallFits(f) /\ Top(p) = f
  BY <1>1, InOneCall DEF MemInv
<1>3. \A n \in DOMAIN nodes : nodes[n] \in 1 .. Len(node) /\ nodes[n] \in Nat
  BY LengthsType DEF MemInv, HeapInv, Refers
<1>4. \A n \in DOMAIN nodes, k \in 0 .. 3 :
        /\ OnNode(f, k, nodes[n]) \in MemCalls
        /\ f.op \notin FileCalls => CallFits(OnNode(f, k, nodes[n]))
  BY <1>3 DEF OnNode, MemCalls, CallFits
<1>5. CASE OpenLooks(p)
  <2>1. PICK t : t = Follow(f.n)
    OBVIOUS
  <2>2. /\ f.op = "open"
        /\ \/ Goto(p, 2) /\ UNCHANGED <<tree, data>>
           \/ Fail(p, "notexist")
           \/ UNCHANGED <<tree, data>> /\ \E r : Returns(p, r)
           \/ Kind(t) = "file" /\ Become(p, [f EXCEPT !.pc = 1, !.h = nodes[t]]) /\ UNCHANGED <<tree, data>>
    BY <1>2, <1>5, <2>1, Zenon DEF OpenLooks, At
  <2>3. CASE Goto(p, 2) /\ UNCHANGED <<tree, data>>
    <3>1. CallFits([f EXCEPT !.pc = 2])
      BY <2>2 DEF CallFits, FileCalls, MemCalls
    <3>2. 2 \in 0 .. 3
      OBVIOUS
    <3> QED BY <1>2, <2>3, <3>1, <3>2, GotoKeeps, ZenonT(30)
  <2>4. CASE Fail(p, "notexist")
    BY <1>2, <2>4, FailKeeps
  <2>5. CASE UNCHANGED <<tree, data>> /\ \E r : Returns(p, r)
    BY <1>2, <2>5, ControlKeeps
  <2>6. CASE Kind(t) = "file" /\ Become(p, [f EXCEPT !.pc = 1, !.h = nodes[t]]) /\ UNCHANGED <<tree, data>>
    <3>1. t \in DOMAIN nodes
      BY <2>6 DEF Kind
    <3>2. f.op \notin FileCalls
      BY <2>2 DEF FileCalls
    <3>3. 1 \in 0 .. 3
      OBVIOUS
    <3>4. OnNode(f, 1, nodes[t]) \in MemCalls /\ CallFits(OnNode(f, 1, nodes[t]))
      BY <1>4, <3>1, <3>2, <3>3, Zenon
    <3>5. Become(p, OnNode(f, 1, nodes[t]))
      BY <2>6, Zenon DEF OnNode
    <3> QED BY <1>2, <2>6, <3>4, <3>5, ControlKeeps, ZenonT(30)
  <2> QED BY <2>2, <2>3, <2>4, <2>5, <2>6, Zenon
<1>6. CASE ChmodLooks(p) \/ TruncateLooks(p)
  <2>1. /\ f.op \in {"chmod", "truncate"}
        /\ \/ Fail(p, "notexist")
           \/ \E k \in 0 .. 3 : /\ f.n \in DOMAIN nodes /\ Become(p, [f EXCEPT !.pc = k, !.h = nodes[f.n]])
                               /\ UNCHANGED <<tree, data>>
    BY <1>2, <1>6 DEF ChmodLooks, TruncateLooks, At
  <2>2. f.op \notin FileCalls
    BY <2>1 DEF FileCalls
  <2>3. CASE Fail(p, "notexist")
    BY <1>2, <2>3, FailKeeps
  <2>4. CASE \E k \in 0 .. 3 : /\ f.n \in DOMAIN nodes /\ Become(p, [f EXCEPT !.pc = k, !.h = nodes[f.n]])
                              /\ UNCHANGED <<tree, data>>
    <3>1. PICK k \in 0 .. 3 : /\ f.n \in DOMAIN nodes /\ Become(p, [f EXCEPT !.pc = k, !.h = nodes[f.n]])
                             /\ UNCHANGED <<tree, data>>
      BY <2>4
    <3>2. OnNode(f, k, nodes[f.n]) \in MemCalls /\ CallFits(OnNode(f, k, nodes[f.n]))
      BY <1>4, <2>2, <3>1, Zenon
    <3>3. Become(p, OnNode(f, k, nodes[f.n]))
      BY <3>1, Zenon DEF OnNode
    <3> QED BY <1>2, <3>1, <3>2, <3>3, ControlKeeps, ZenonT(30)
  <2> QED BY <2>1, <2>3, <2>4
<1> QED BY <1>5, <1>6

-----------------------------------------------------------------------------
\* A step that changes nodes or files.
LEMMA HeapSteps ==
  ASSUME MemInv, NEW p \in Procs, NEW f, stack[p] = <<f>>,
         HeapInv', Len(node) =< Len(node'), Len(file) =< Len(file'),
         \/ \E r : Returns(p, r)
         \/ \E g \in MemCalls : Become(p, g) /\ CallFits(g)'
  PROVE  MemInv'
<1>1. Len(node') \in Nat /\ Len(file') \in Nat
  BY LenProperties DEF HeapInv, HeapTypes
<1>2. Longer
  BY <1>1, LengthsType DEF MemInv, Longer
<1>3. CASE \E r : Returns(p, r)
  BY <1>2, <1>3, ReturnsKeeps DEF MemInv
<1>4. CASE \E g \in MemCalls : Become(p, g) /\ CallFits(g)'
  BY <1>2, <1>4, BecomeKeeps DEF MemInv
<1> QED BY <1>3, <1>4

\* An open file that a call works on.
OpenAt(p, f) ==
  /\ f \in MemCalls /\ stack[p] = <<f>> /\ Top(p) = f /\ f.h \in 1 .. Len(file) /\ ~ file[f.h].closed
  /\ file[f.h] \in MemFiles /\ buf[file[f.h].buf] \in MemCells
  /\ file[f.h].off \in Nat /\ Len(buf[file[f.h].buf]) \in Nat

LEMMA FileIsOpen ==
  ASSUME MemInv, NEW p \in Procs, NEW f \in MemCalls, stack[p] = <<f>>, CallFits(f), Top(p) = f,
         f.op \in FileCalls, f.h # 0, ~ file[f.h].closed
  PROVE  OpenAt(p, f)
<1>1. f.h \in 1 .. Len(file)
  BY LengthsType DEF CallFits, MemInv
<1>2. file[f.h] \in MemFiles
  BY <1>1, ElementOfSeq DEF MemInv, HeapInv, HeapTypes
<1>3. buf[file[f.h].buf] \in MemCells
  BY <1>1, ElementOfSeq DEF MemInv, HeapInv, HeapTypes, Refers
<1>4. Len(buf[file[f.h].buf]) \in Nat
  BY <1>3, LenProperties DEF MemCells
<1>5. file[f.h].off \in Nat
  BY <1>2 DEF MemFiles
<1> QED BY <1>1, <1>2, <1>3, <1>4, <1>5 DEF OpenAt

LEMMA OffsetMoves ==
  ASSUME HeapInv, NEW h \in 1 .. Len(file), NEW o \in Nat,
         \/ file' = [file EXCEPT ![h].off = o]
         \/ file' = [file EXCEPT ![h].off = o, ![h].dirty = TRUE],
         UNCHANGED <<tree, buf, wrote, saved>>
  PROVE  HeapInv' /\ Len(node') = Len(node) /\ Len(file') = Len(file)
<1>1. PICK r \in MemFiles : r = file[h]
  BY ElementOfSeq DEF HeapInv, HeapTypes
<1>2. UNCHANGED <<nodes, node, buf, wrote, saved>>
  BY DEF tree
<1>3. CASE file' = [file EXCEPT ![h].off = o]
  <2>1. PICK g : g = [r EXCEPT !.off = o]
    OBVIOUS
  <2>2. g \in MemFiles /\ g.node = r.node /\ g.buf = r.buf /\ g.closed = r.closed
    BY <2>1 DEF MemFiles
  <2>3. file' = [file EXCEPT ![h] = g]
    BY <1>1, <1>3, <2>1 DEF HeapInv, HeapTypes
  <2> QED BY <1>1, <1>2, <2>2, <2>3, OffsetKeeps
<1>4. CASE file' = [file EXCEPT ![h].off = o, ![h].dirty = TRUE]
  <2>1. PICK g : g = [r EXCEPT !.off = o, !.dirty = TRUE]
    OBVIOUS
  <2>2. g \in MemFiles /\ g.node = r.node /\ g.buf = r.buf /\ g.closed = r.closed
    BY <2>1 DEF MemFiles
  <2>3. file' = [file EXCEPT ![h] = g]
    BY <1>1, <1>4, <2>1 DEF HeapInv, HeapTypes
  <2> QED BY <1>1, <1>2, <2>2, <2>3, OffsetKeeps
<1> QED BY <1>3, <1>4

LEMMA ReadKeeps ==
  ASSUME MemInv, NEW p \in Procs, Read(p) \/ ReadAt(p) \/ Seek(p)
  PROVE  MemInv'
<1>1. stack[p] # <<>>
  BY DEF Read, ReadAt, Seek, At
<1>2. PICK f \in MemCalls : stack[p] = <<f>> /\ CallFits(f) /\ Top(p) = f
  BY <1>1, InOneCall DEF MemInv
<1>3. f.op \in FileCalls
  BY <1>2 DEF Read, ReadAt, Seek, At, FileCalls
<1>4. CASE f.h # 0 /\ ~ file[f.h].closed
  <2>1. OpenAt(p, f)
    BY <1>2, <1>3, <1>4, FileIsOpen
  <2>2. \/ \E err : Fail(p, err)
        \/ UNCHANGED <<tree, data>> /\ \E r : Returns(p, r)
        \/ /\ file' = [file EXCEPT ![f.h].off = Len(buf[file[f.h].buf])]
           /\ \E r : Returns(p, r)
           /\ UNCHANGED <<tree, buf, wrote, saved>>
        \/ /\ file' = [file EXCEPT ![f.h].off = f.off]
           /\ \E r : Returns(p, r)
           /\ UNCHANGED <<tree, buf, wrote, saved>>
    BY <1>2, <1>4, ZenonT(30) DEF Read, ReadAt, Seek, Closed
  <2>3. CASE \E err : Fail(p, err)
    BY <1>2, <2>3, FailKeeps
  <2>4. CASE UNCHANGED <<tree, data>> /\ \E r : Returns(p, r)
    BY <1>2, <2>4, ControlKeeps
  <2>5. ASSUME NEW o \in Nat, file' = [file EXCEPT ![f.h].off = o], \E r : Returns(p, r),
               UNCHANGED <<tree, buf, wrote, saved>>
        PROVE  MemInv'
    <3>1. HeapInv' /\ Len(node') = Len(node) /\ Len(file') = Len(file)
      BY <2>1, <2>5, OffsetMoves DEF OpenAt, MemInv
    <3>2. Len(node) =< Len(node') /\ Len(file) =< Len(file')
      BY <3>1, LengthsType DEF MemInv
    <3> QED BY <1>2, <2>5, <3>1, <3>2, HeapSteps
  <2>6. Len(buf[file[f.h].buf]) \in Nat /\ f.off \in Nat
    BY <2>1 DEF OpenAt, MemCalls
  <2> QED BY <2>2, <2>3, <2>4, <2>5, <2>6
<1>5. CASE ~ (f.h # 0 /\ ~ file[f.h].closed)
  <2>1. Fail(p, "closed")
    BY <1>2, <1>5, ZenonT(30) DEF Read, ReadAt, Seek, Closed
  <2> QED BY <1>2, <2>1, FailKeeps
<1> QED BY <1>4, <1>5

LEMMA WriteKeeps ==
  ASSUME MemInv, NEW p \in Procs, Write(p) \/ WriteAt(p)
  PROVE  MemInv'
<1>1. stack[p] # <<>>
  BY DEF Write, WriteAt, At
<1>2. PICK f \in MemCalls : stack[p] = <<f>> /\ CallFits(f) /\ Top(p) = f
  BY <1>1, InOneCall DEF MemInv
<1>3. f.op \in FileCalls
  BY <1>2 DEF Write, WriteAt, At, FileCalls
<1>4. CASE f.h # 0 /\ ~ file[f.h].closed
  <2>1. OpenAt(p, f)
    BY <1>2, <1>3, <1>4, FileIsOpen
  <2>2. \/ \E err : Fail(p, err)
        \/ WriteFile(f.h, f.cells) /\ UNCHANGED tree /\ \E r : Returns(p, r)
        \/ /\ file' = [file EXCEPT ![f.h].off = f.off, ![f.h].dirty = TRUE]
           /\ Become(p, [f EXCEPT !.op = "write"])
           /\ UNCHANGED <<tree, buf, wrote, saved>>
    BY <1>2, <1>4, ZenonT(30) DEF Write, WriteAt, Closed
  <2>3. CASE \E err : Fail(p, err)
    BY <1>2, <2>3, FailKeeps
  <2>4. CASE WriteFile(f.h, f.cells) /\ UNCHANGED tree /\ \E r : Returns(p, r)
    <3>1. f.cells \in MemCells /\ f.h \in 1 .. Len(file) /\ ~ file[f.h].closed
      BY <2>1 DEF OpenAt, MemCalls
    <3>2. HeapInv' /\ Len(node') = Len(node) /\ Len(file') = Len(file)
      BY <2>4, <3>1, WriteFileKeeps DEF MemInv
    <3>3. Len(node) =< Len(node') /\ Len(file) =< Len(file')
      BY <3>2, LengthsType DEF MemInv
    <3> QED BY <1>2, <2>4, <3>2, <3>3, HeapSteps
  <2>5. CASE /\ file' = [file EXCEPT ![f.h].off = f.off, ![f.h].dirty = TRUE]
             /\ Become(p, [f EXCEPT !.op = "write"])
             /\ UNCHANGED <<tree, buf, wrote, saved>>
    <3>1. PICK o \in Nat : o = f.off
      BY DEF MemCalls
    <3>2. HeapInv' /\ Len(node') = Len(node) /\ Len(file') = Len(file)
      BY <2>1, <2>5, <3>1, OffsetMoves DEF OpenAt, MemInv
    <3>3. Len(node) =< Len(node') /\ Len(file) =< Len(file')
      BY <3>2, LengthsType DEF MemInv
    <3>4. PICK g : g = [f EXCEPT !.op = "write"]
      OBVIOUS
    <3>5. g \in MemCalls /\ g.op = "write" /\ g.h = f.h
      BY <3>4 DEF MemCalls, FileCalls
    <3>6. f.h \in 0 .. Len(file')
      BY <2>1, <3>2, LengthsType DEF OpenAt, MemInv
    <3>7. CallFits(g)'
      BY <3>5, <3>6 DEF CallFits
    <3>8. Become(p, g)
      BY <2>5, <3>4, Zenon
    <3> QED BY <1>2, <3>2, <3>3, <3>5, <3>7, <3>8, HeapSteps, ZenonT(30)
  <2> QED BY <2>2, <2>3, <2>4, <2>5
<1>5. CASE ~ (f.h # 0 /\ ~ file[f.h].closed)
  <2>1. Fail(p, "closed")
    BY <1>2, <1>5, ZenonT(30) DEF Write, WriteAt, Closed
  <2> QED BY <1>2, <2>1, FailKeeps
<1> QED BY <1>4, <1>5

LEMMA CloseKeeps ==
  ASSUME MemInv, NEW p \in Procs, Close(p)
  PROVE  MemInv'
<1>1. stack[p] # <<>>
  BY DEF Close, At
<1>2. PICK f \in MemCalls : stack[p] = <<f>> /\ CallFits(f) /\ Top(p) = f
  BY <1>1, InOneCall DEF MemInv
<1>3. f.op \in FileCalls
  BY <1>2 DEF Close, At, FileCalls
<1>4. \/ Fail(p, "closed")
      \/ UNCHANGED <<tree, data>> /\ \E r : Returns(p, r)
      \/ f.h # 0 /\ ~ file[f.h].closed /\ CloseFile(f.h) /\ \E r : Returns(p, r)
  BY <1>2, ZenonT(30) DEF Close
<1>5. CASE f.h # 0 /\ ~ file[f.h].closed /\ CloseFile(f.h) /\ \E r : Returns(p, r)
  <2>1. OpenAt(p, f)
    BY <1>2, <1>3, <1>5, FileIsOpen
  <2>2. HeapInv' /\ Len(node') = Len(node) /\ Len(file') = Len(file)
    BY <1>5, <2>1, CloseFileKeeps DEF OpenAt, MemInv
  <2>3. Len(node) =< Len(node') /\ Len(file) =< Len(file')
    BY <2>2, LengthsType DEF MemInv
  <2> QED BY <1>2, <1>5, <2>2, <2>3, HeapSteps
<1> QED BY <1>2, <1>4, <1>5, FailKeeps, ControlKeeps

LEMMA OpensKeeps ==
  ASSUME MemInv, NEW p \in Procs, OpensNode(p)
  PROVE  MemInv'
<1>1. stack[p] # <<>>
  BY DEF OpensNode, At
<1>2. PICK f \in MemCalls : stack[p] = <<f>> /\ CallFits(f) /\ Top(p) = f
  BY <1>1, InOneCall DEF MemInv
<1>3. f.h \in 1 .. Len(node) /\ OpenNode(f.h) /\ \E r : Returns(p, r)
  BY <1>2 DEF OpensNode, At, CallFits
<1>4. HeapInv' /\ Len(node') = Len(node) /\ Len(file') = Len(file) + 1
  BY <1>3, OpenNodeKeeps DEF MemInv
<1>5. Len(node) =< Len(node') /\ Len(file) =< Len(file')
  BY <1>4, LengthsType DEF MemInv
<1> QED BY <1>2, <1>3, <1>4, <1>5, HeapSteps

LEMMA PutsKeep ==
  ASSUME MemInv, NEW p \in Procs, CreatePuts(p) \/ MkdirPuts(p) \/ SymlinkPuts(p)
  PROVE  MemInv'
<1>1. stack[p] # <<>>
  BY DEF CreatePuts, MkdirPuts, SymlinkPuts, At
<1>2. PICK f \in MemCalls : stack[p] = <<f>> /\ CallFits(f) /\ Top(p) = f
  BY <1>1, InOneCall DEF MemInv
<1>3. \/ /\ PutNode(f.n, "file", 1, <<>>)
         /\ Become(p, [f EXCEPT !.op = "open", !.pc = 1, !.h = Len(node) + 1])
      \/ PutNode(f.n, "dir", f.mode, <<>>) /\ \E r : Returns(p, r)
      \/ PutNode(f.n, "link", 1, f.m) /\ \E r : Returns(p, r)
  BY <1>2, ZenonT(30) DEF CreatePuts, MkdirPuts, SymlinkPuts
<1>4. f.mode \in Nat /\ f.m \in Paths \cup {<<>>} /\ <<>> \in Paths \cup {<<>>} /\ 1 \in Nat
      /\ "file" \in Kinds /\ "dir" \in Kinds /\ "link" \in Kinds
  BY DEF MemCalls, Kinds
<1>5. HeapInv' /\ Len(node') = Len(node) + 1 /\ Len(file') = Len(file)
  BY <1>3, <1>4, PutNodeKeeps, ZenonT(30) DEF MemInv
<1>6. Len(node) =< Len(node') /\ Len(file) =< Len(file')
  BY <1>5, LengthsType DEF MemInv
<1>7. CASE \E r : Returns(p, r)
  BY <1>2, <1>5, <1>6, <1>7, HeapSteps
<1>8. CASE Become(p, [f EXCEPT !.op = "open", !.pc = 1, !.h = Len(node) + 1])
  <2>1. PICK i \in Nat : i = Len(node) + 1 /\ i \in 1 .. Len(node')
    BY <1>5, LengthsType DEF MemInv
  <2>2. PICK g : g = [f EXCEPT !.op = "open", !.pc = 1, !.h = i]
    OBVIOUS
  <2>3. g \in MemCalls /\ g.op = "open" /\ g.h = i
    <3>1. "open" \in NameCalls /\ 1 \in 0 .. 3
      BY DEF NameCalls
    <3> QED BY <2>2, <3>1, Zenon DEF MemCalls
  <2>4. CallFits(g)'
    BY <2>1, <2>3 DEF CallFits, FileCalls
  <2>5. Become(p, g)
    BY <1>8, <2>1, <2>2, Zenon
  <2> QED BY <1>2, <1>5, <1>6, <2>3, <2>4, <2>5, HeapSteps, ZenonT(30)
<1> QED BY <1>3, <1>7, <1>8

LEMMA ChmodKeeps ==
  ASSUME MemInv, NEW p \in Procs, ChmodSets(p)
  PROVE  MemInv'
<1>1. stack[p] # <<>>
  BY DEF ChmodSets, At
<1>2. PICK f \in MemCalls : stack[p] = <<f>> /\ CallFits(f) /\ Top(p) = f
  BY <1>1, InOneCall DEF MemInv
<1>3. /\ f.h \in 1 .. Len(node) /\ f.mode \in Nat /\ node' = [node EXCEPT ![f.h].mode = f.mode]
      /\ (\E r : Returns(p, r)) /\ UNCHANGED <<nodes, buf, file, wrote, saved>>
  BY <1>2 DEF ChmodSets, At, CallFits, MemCalls, data
<1>4. HeapInv' /\ Len(node') = Len(node) /\ Len(file') = Len(file)
  BY <1>3, ModeKeeps DEF MemInv
<1>5. Len(node) =< Len(node') /\ Len(file) =< Len(file')
  BY <1>4, LengthsType DEF MemInv
<1> QED BY <1>2, <1>3, <1>4, <1>5, HeapSteps

LEMMA CutKeeps ==
  ASSUME MemInv, NEW p \in Procs, TruncateReads(p) \/ TruncateSets(p)
  PROVE  MemInv'
<1>1. stack[p] # <<>>
  BY DEF TruncateReads, TruncateSets, At
<1>2. PICK f \in MemCalls : stack[p] = <<f>> /\ CallFits(f) /\ Top(p) = f
  BY <1>1, InOneCall DEF MemInv
<1>3. f.op = "truncate" /\ f.h \in 1 .. Len(node)
  BY <1>2 DEF TruncateReads, TruncateSets, At, CallFits
<1>4. PICK i \in MemNodes : i = node[f.h]
  BY <1>3, ElementOfSeq DEF MemInv, HeapInv, HeapTypes
<1>5. CASE TruncateReads(p)
  <2>1. PICK cells \in MemCells : cells = Resized(buf[i.buf], f.off)
    <3>1. buf[i.buf] \in MemCells /\ f.off \in Nat
      BY <1>3, <1>4, ElementOfSeq DEF MemInv, HeapInv, HeapTypes, Refers, MemCalls
    <3> QED BY <3>1, ResizedIsCells
  <2>2. /\ UNCHANGED <<tree, data>>
        /\ \/ \E r : Returns(p, r)
           \/ Become(p, [f EXCEPT !.pc = 2, !.cells = cells])
    BY <1>2, <1>4, <1>5, <2>1, ZenonT(30) DEF TruncateReads
  <2>3. PICK g : g = [f EXCEPT !.pc = 2, !.cells = cells]
    OBVIOUS
  <2>4. g \in MemCalls /\ g.op = "truncate" /\ g.h = f.h
    <3>1. 2 \in 0 .. 3
      OBVIOUS
    <3>2. g \in MemCalls /\ g.op = f.op /\ g.h = f.h
      BY <2>3, <3>1, Zenon DEF MemCalls
    <3> QED BY <1>3, <3>2
  <2>5. CallFits(g)
    BY <1>3, <2>4 DEF CallFits, FileCalls
  <2>6. CASE \E r : Returns(p, r)
    BY <1>2, <2>2, <2>6, ControlKeeps
  <2>7. CASE Become(p, [f EXCEPT !.pc = 2, !.cells = cells])
    <3>1. Become(p, g)
      BY <2>3, <2>7, Zenon
    <3> QED BY <1>2, <2>2, <2>4, <2>5, <3>1, ControlKeeps, ZenonT(30)
  <2> QED BY <2>2, <2>6, <2>7
<1>6. CASE TruncateSets(p)
  <2>1. PICK b \in Nat : b = Len(buf) + 1
    BY LenProperties DEF MemInv, HeapInv, HeapTypes
  <2>2. PICK new : new = [i EXCEPT !.buf = b, !.to = <<>>]
    OBVIOUS
  <2>3. new \in MemNodes /\ new.buf = Len(buf) + 1
    BY <2>1, <2>2, NodeChanged
  <2>4. f.cells \in MemCells
    BY DEF MemCalls
  <2>5. /\ buf' = Append(buf, f.cells)
        /\ node' = [node EXCEPT ![f.h].buf = b, ![f.h].to = <<>>]
        /\ saved' = [saved EXCEPT ![f.h] = f.cells]
        /\ (\E r : Returns(p, r)) /\ UNCHANGED <<nodes, file, wrote>>
    BY <1>2, <1>6, <2>1 DEF TruncateSets
  <2>6. node' = [node EXCEPT ![f.h] = new]
    BY <1>4, <2>2, <2>5
  <2>7. HeapInv' /\ Len(node') = Len(node) /\ Len(file') = Len(file)
    BY <1>3, <2>3, <2>4, <2>5, <2>6, TruncateKeeps DEF MemInv
  <2>8. Len(node) =< Len(node') /\ Len(file) =< Len(file')
    BY <2>7, LengthsType DEF MemInv
  <2> QED BY <1>2, <2>5, <2>7, <2>8, HeapSteps
<1> QED BY <1>5, <1>6

LEMMA NamesChange ==
  ASSUME MemInv, NEW p \in Procs, RemoveDeletes(p) \/ Rename(p)
  PROVE  MemInv'
<1>1. stack[p] # <<>>
  BY DEF RemoveDeletes, Rename, At
<1>2. PICK f \in MemCalls : stack[p] = <<f>> /\ CallFits(f) /\ Top(p) = f
  BY <1>1, InOneCall DEF MemInv
<1>3. \/ \E err : Fail(p, err)
      \/ UNCHANGED <<tree, data>> /\ \E r : Returns(p, r)
      \/ /\ nodes' = [k \in DOMAIN nodes \ {f.n} |-> nodes[k]]
         /\ (\E r : Returns(p, r)) /\ UNCHANGED <<node, data>>
      \/ /\ f.n \in DOMAIN nodes /\ nodes' = Renamed(f.n, f.m)
         /\ (\E r : Returns(p, r)) /\ UNCHANGED <<node, data>>
  <2>1. CASE RemoveDeletes(p)
    BY <1>2, <2>1, ZenonT(30) DEF RemoveDeletes
  <2>2. CASE Rename(p)
    <3>1. RenameError(f.n, f.m) = "ok" => f.n \in DOMAIN nodes
      BY DEF RenameError
    <3>2. \/ \E err : Fail(p, err)
          \/ UNCHANGED <<tree, data>> /\ \E r : Returns(p, r)
          \/ /\ RenameError(f.n, f.m) = "ok" /\ nodes' = Renamed(f.n, f.m)
             /\ (\E r : Returns(p, r)) /\ UNCHANGED <<node, data>>
      BY <1>2, <2>2, ZenonT(30) DEF Rename
    <3> QED BY <3>1, <3>2
  <2> QED BY <2>1, <2>2
<1>4. ASSUME nodes' = [k \in DOMAIN nodes' |-> nodes'[k]],
             \A k \in DOMAIN nodes' : \E l \in DOMAIN nodes : nodes'[k] = nodes[l],
             \E r : Returns(p, r), UNCHANGED <<node, data>>
      PROVE  MemInv'
  <2>1. \A k \in DOMAIN nodes' : nodes'[k] \in 1 .. Len(node)
    BY <1>4 DEF MemInv, HeapInv, Refers
  <2>2. HeapInv' /\ Len(node') = Len(node) /\ Len(file') = Len(file)
    BY <1>4, <2>1, NamesKeep DEF MemInv, data
  <2>3. Len(node) =< Len(node') /\ Len(file) =< Len(file')
    BY <2>2, LengthsType DEF MemInv
  <2> QED BY <1>2, <1>4, <2>2, <2>3, HeapSteps
<1>5. CASE /\ nodes' = [k \in DOMAIN nodes \ {f.n} |-> nodes[k]]
           /\ (\E r : Returns(p, r)) /\ UNCHANGED <<node, data>>
  BY <1>4, <1>5
<1>6. CASE /\ f.n \in DOMAIN nodes /\ nodes' = Renamed(f.n, f.m)
           /\ (\E r : Returns(p, r)) /\ UNCHANGED <<node, data>>
  <2> DEFINE left == DOMAIN nodes \ {f.m}
             moves == IF node[nodes[f.n]].kind = "dir" THEN {k \in left : AtOrBelow(k, f.n)} ELSE {f.n}
             to == [k \in moves |-> Moved(k, f.n, f.m)]
             news == {to[k] : k \in moves}
  <2>1. nodes' = [j \in (left \ moves) \cup news |->
                    IF j \in news THEN nodes[CHOOSE k \in moves : to[k] = j] ELSE nodes[j]]
    BY <1>6, Zenon DEF Renamed
  <2>2. moves \subseteq DOMAIN nodes /\ left \subseteq DOMAIN nodes
    BY <1>6
  <2>3. \A j \in news : \E k \in moves : to[k] = j
    OBVIOUS
  <2> HIDE DEF moves, to, news, left
  <2>4. ASSUME NEW j \in DOMAIN nodes'
        PROVE  \E l \in DOMAIN nodes : nodes'[j] = nodes[l]
    <3>1. CASE j \in news
      <4>1. PICK k : k = CHOOSE i \in moves : to[i] = j
        OBVIOUS
      <4>2. k \in moves
        BY <2>3, <3>1, <4>1
      <4>3. nodes'[j] = nodes[k]
        BY <2>1, <3>1, <4>1
      <4> QED BY <2>2, <4>2, <4>3
    <3>2. CASE j \notin news
      BY <2>1, <2>2, <2>4, <3>2
    <3> QED BY <3>1, <3>2
  <2>5. nodes' = [k \in DOMAIN nodes' |-> nodes'[k]]
    BY <2>1
  <2> QED BY <1>4, <1>6, <2>4, <2>5
<1> QED BY <1>2, <1>3, <1>5, <1>6, FailKeeps, ControlKeeps

\* A new call.
LEMMA CalledKeeps ==
  ASSUME MemInv, NEW p \in Procs, Called(p)
  PROVE  MemInv'
<1>1. HeapInv' /\ Len(node') = Len(node) /\ Len(file') = Len(file)
  BY HeapStays DEF MemInv, Called
<1>2. Longer
  BY <1>1, LengthsType DEF MemInv, Longer
<1>3. <<>> \in MemCells
  BY DEF MemCells
<1>4. ASSUME NEW op \in NameCalls, NEW n \in Paths, NEW m \in Paths, NEW mode \in Nat, NEW off \in Nat,
             stack' = [stack EXCEPT ![p] = <<CallOnPath(op, n, m, mode, off)>>]
      PROVE  MemInv'
  <2>1. PICK g : g = CallOnPath(op, n, m, mode, off)
    OBVIOUS
  <2>2. g \in MemCalls /\ g.op = op /\ g.pc = 0
    BY <1>3, <2>1 DEF CallOnPath, Frame, MemCalls
  <2>3. op \notin FileCalls
    BY DEF NameCalls, FileCalls
  <2>4. CallFits(g)'
    BY <2>2, <2>3 DEF CallFits
  <2> QED BY <1>1, <1>2, <1>4, <2>1, <2>2, <2>4, CallsKept DEF MemInv
<1>5. ASSUME NEW op \in FileCalls, NEW h \in 0 .. Len(file), NEW off \in Nat, NEW cells \in Seq(Nat),
             stack' = [stack EXCEPT ![p] = <<CallOnFile(op, h, off, cells)>>]
      PROVE  MemInv'
  <2>1. PICK g : g = CallOnFile(op, h, off, cells)
    OBVIOUS
  <2>2. PICK i \in Nat : i = h
    OBVIOUS
  <2>3. cells \in MemCells
    BY DEF MemCells
  <2>4. g = [op |-> op, pc |-> 0, n |-> <<>>, m |-> <<>>, mode |-> 0, h |-> i, off |-> off,
             cells |-> cells, flags |-> {}, todo |-> <<>>, err |-> "ok"]
    BY <2>1, <2>2 DEF CallOnFile, Frame
  <2>5. g \in MemCalls /\ g.op = op /\ g.pc = 0 /\ g.h = h
    BY <2>2, <2>3, <2>4 DEF MemCalls
  <2>6. op # "open"
    BY DEF FileCalls
  <2>7. CallFits(g)'
    BY <1>1, <2>5, <2>6 DEF CallFits
  <2> QED BY <1>1, <1>2, <1>5, <2>1, <2>5, <2>7, CallsKept DEF MemInv
<1> QED BY <1>4, <1>5 DEF Called

-----------------------------------------------------------------------------
LEMMA MemStarts ==
  ASSUME MemInit
  PROVE  MemInv
<1> DEFINE D == {n \in Paths : Stored[n].kind # "none"}
           c == Cardinality(D)
           first == SetToSeq(D)
<1>1. IsFiniteSet(D)
  BY StoredAssumption
<1>2. c \in Nat /\ ExistsBijection(1 .. c, D)
  BY <1>1, FS_CardinalityType
<1>3. first \in [1 .. c -> D] /\ IsInjective(first)
  <2>1. \E f \in [1 .. c -> D] : IsInjective(f)
    <3>1. PICK f \in Bijection(1 .. c, D) : TRUE
      BY <1>2 DEF ExistsBijection
    <3>2. f \in [1 .. c -> D] /\ \A a, b \in 1 .. c : f[a] = f[b] => a = b
      BY <3>1, Fun_BijectionProperties
    <3>3. IsInjective(f)
      BY <3>2 DEF IsInjective
    <3> QED BY <3>2, <3>3
  <2>2. first = CHOOSE f \in [1 .. c -> D] : IsInjective(f)
    BY Zenon DEF SetToSeq
  <2> HIDE DEF first, c, D
  <2> QED BY <2>1, <2>2
<1>4. first \in Injection(1 .. c, D)
  BY <1>3 DEF Injection
<1>5. IsFiniteSet(1 .. c) /\ Cardinality(1 .. c) = c
  BY <1>2, FS_Interval
<1>6. \A n \in D : \E i \in 1 .. c : first[i] = n
  <2>1. first \in Surjection(1 .. c, D)
    BY <1>1, <1>4, <1>5, FS_Injection
  <2> QED BY <2>1 DEF Surjection
<1>7. DOMAIN first = 1 .. c
  BY <1>3
<1>8. /\ nodes = [n \in D |-> CHOOSE i \in DOMAIN first : first[i] = n]
      /\ node = [i \in DOMAIN first |-> NewNode(Stored[first[i]].kind, 1, i, Stored[first[i]].to)]
      /\ buf = [i \in DOMAIN first |-> Stored[first[i]].cells]
      /\ saved = buf /\ file = <<>> /\ wrote = <<>> /\ stack = [p \in Procs |-> <<>>]
  BY Zenon DEF MemInit
<1>9. \A n \in D : Stored[n].kind \in Kinds /\ Stored[n].cells \in MemCells /\ Stored[n].to \in Paths
  BY StoredAssumption DEF MemCells
<1> HIDE DEF first, c, D
<1>10. \A i \in 1 .. c : first[i] \in D
  BY <1>3
<1>11. node \in Seq(MemNodes) /\ Len(node) = c /\ \A i \in 1 .. c : node[i].buf = i
  <2>1. ASSUME NEW i \in 1 .. c
        PROVE  node[i] \in MemNodes /\ node[i].buf = i
    <3>1. node[i] = NewNode(Stored[first[i]].kind, 1, i, Stored[first[i]].to)
      BY <1>7, <1>8
    <3>2. Stored[first[i]].kind \in Kinds /\ Stored[first[i]].to \in Paths /\ i \in Nat
      BY <1>2, <1>9, <1>10
    <3> QED BY <3>1, <3>2 DEF NewNode, MemNodes
  <2>2. node = [i \in 1 .. c |-> node[i]]
    BY <1>7, <1>8
  <2> QED BY <1>2, <2>1, <2>2
<1>12. buf \in Seq(MemCells) /\ Len(buf) = c
  <2>1. ASSUME NEW i \in 1 .. c
        PROVE  buf[i] \in MemCells
    BY <1>7, <1>8, <1>9, <1>10
  <2>2. buf = [i \in 1 .. c |-> buf[i]]
    BY <1>7, <1>8
  <2> QED BY <1>2, <2>1, <2>2
<1>13. Len(file) = 0 /\ Len(wrote) = 0 /\ file \in Seq(MemFiles) /\ wrote \in Seq(MemCells)
  BY <1>8
<1>14. ASSUME NEW n \in D
       PROVE  nodes[n] \in 1 .. c
  <2>1. nodes[n] = CHOOSE i \in 1 .. c : first[i] = n
    BY <1>7, <1>8
  <2> QED BY <1>6, <2>1
<1>15. nodes = [n \in DOMAIN nodes |-> nodes[n]] /\ DOMAIN nodes = D
  BY <1>8
<1>16. HeapTypes
  BY <1>8, <1>11, <1>12, <1>13, <1>15 DEF HeapTypes
<1>17. Refers
  BY <1>2, <1>11, <1>12, <1>13, <1>14, <1>15 DEF Refers
<1>18. Apart /\ Holds
  <2>1. 1 .. Len(file) = {}
    BY <1>13
  <2>2. \A i \in 1 .. c : buf[node[i].buf] = saved[i]
    BY <1>8, <1>11
  <2> QED BY <1>11, <2>1, <2>2 DEF Apart, Holds
<1>19. CallsInv
  BY <1>8 DEF CallsInv, StackOK
<1> QED BY <1>16, <1>17, <1>18, <1>19 DEF MemInv, HeapInv

LEMMA MemStepKeeps ==
  ASSUME MemInv, NEW p \in Procs, MemStep(p)
  PROVE  MemInv'
BY ChecksKeep, LooksKeep, ReadKeeps, WriteKeeps, CloseKeeps, OpensKeeps, PutsKeep, ChmodKeeps, CutKeeps,
   NamesChange, Zenon DEF MemStep

LEMMA MemStutters ==
  ASSUME MemInv, UNCHANGED memvars
  PROVE  MemInv'
<1>1. HeapInv' /\ Len(node') = Len(node) /\ Len(file') = Len(file)
  BY HeapStays DEF MemInv, memvars, tree, data
<1>2. Longer
  BY <1>1, LengthsType DEF MemInv, Longer
<1>3. stack' = stack
  BY DEF memvars
<1>4. \A f \in MemCalls : CallFits(f) => CallFits(f)'
  BY <1>2, FitsStill
<1>5. CallsInv'
  BY <1>3, <1>4, ZenonT(30) DEF MemInv, CallsInv, StackOK
<1> QED BY <1>1, <1>5 DEF MemInv

LEMMA MemPrivate ==
  ASSUME MemInv
  PROVE  Private
<1>1. DOMAIN file = 1 .. Len(file) /\ DOMAIN node = 1 .. Len(node)
  BY LenProperties DEF MemInv, HeapInv, HeapTypes
<1> QED BY <1>1 DEF MemInv, HeapInv, Holds, Private

\* Buffers, nodes, files and calls stay as MemInv says, whoever calls what.
THEOREM HeapInvariance == MemSpec => []MemInv
<1>1. MemInit => MemInv
  BY MemStarts
<1>2. MemInv /\ [MemNext]_memvars => MemInv'
  BY MemStepKeeps, CalledKeeps, MemStutters, Zenon DEF MemNext
<1> QED BY <1>1, <1>2, PTL DEF MemSpec

\* An open file holds what it was opened on and what was written through it, and
\* a node what the last Close or Truncate gave it.
THEOREM BuffersArePrivate == MemSpec => []Private
<1>1. MemInv => Private
  BY MemPrivate
<1> QED BY <1>1, HeapInvariance, PTL
=============================================================================
