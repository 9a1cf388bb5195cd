------------------------------- MODULE Cowfs -------------------------------
(***************************************************************************)
(* cowfs.FS: a file system that leaves a base as it is and keeps every     *)
(* change in an overlay: the files written, the paths deleted               *)
(* ("tombstones") and the names files of the base were renamed from.       *)
(* Tombstones and renames are kept in memory, and each one that is made is  *)
(* written to a file of the whiteout directory, to be read again when the   *)
(* file system is made anew over the same overlay.                          *)
(*                                                                         *)
(* Next to it is what the callers have asked for: a plain tree of files,    *)
(* the names that follow a file of the base that was renamed, and the names *)
(* that went wrong in a way known of the code, which are not used again     *)
(* and of which nothing is claimed.  They are chosen where the code makes   *)
(* them go wrong, each under a comment.                                     *)
(*                                                                         *)
(* Base and overlay are trees whose operations are atomic, and so are the   *)
(* calls, but for a crash in the middle of one.  A path is always that of a *)
(* directory or always that of a file or link, directories are not renamed, *)
(* links are not opened, and the whiteout directory is out of sight.        *)
(* Bounds: calls and restarts are at most MaxOps.                           *)
(***************************************************************************)
EXTENDS Integers, Sequences, FiniteSets

CONSTANTS
  DirPaths,   \* paths of directories, as sequences of names; <<>> is the root
  FilePaths,  \* paths of files and links
  Base,       \* the base: what it has at each path
  MaxOps      \* bound: calls and restarts

AllPaths == DirPaths \cup FilePaths
Parent(p) == SubSeq(p, 1, Len(p) - 1)
Above(p) == {q \in DirPaths : Len(q) < Len(p) /\ SubSeq(p, 1, Len(q)) = q}
Children(p) == {q \in AllPaths : q # <<>> /\ Parent(q) = p}

Node(k, d) == [kind |-> k, data |-> d]
None == Node("none", {})
Dir == Node("dir", {})
File(d) == Node("file", d)
Link == Node("link", {})
\* What is in a file: what was written last, which a write through the name p adds to or takes back
Flip(d, p) == IF p \in d THEN d \ {p} ELSE d \cup {p}

IsTree(t) ==
  /\ t[<<>>] = Dir
  /\ \A p \in AllPaths \ {<<>>} : t[p] # None => t[Parent(p)] = Dir
  /\ \A p \in AllPaths : t[p] = None \/ (t[p] = Dir <=> p \in DirPaths)

PathsAssumption == <<>> \in DirPaths /\ \A p \in AllPaths \ {<<>>} : Parent(p) \in DirPaths
BaseAssumption == DOMAIN Base = AllPaths /\ IsTree(Base)

VARIABLES
  disk,       \* what a restart finds: the overlay and the whiteout directory
  tombstones, \* FS.tombstones
  renames,    \* FS.renames
  plain,      \* history: the tree the callers have asked for
  moved,      \* history: where the file of the base is now that had this name
  spoiled,    \* history: names that are known to have gone wrong
  cut,        \* history: the rename that a crash cut short, if that was last
  ops         \* how many calls and restarts there have been

vars == <<disk, tombstones, renames, plain, moved, spoiled, cut, ops>>

Put(f, k, v) == [x \in DOMAIN f \cup {k} |-> IF x = k THEN v ELSE f[x]]
Without(f, S) == [x \in DOMAIN f \ S |-> f[x]]
\* f with every a that leads to b lead to c
Redirected(f, b, c) == [x \in DOMAIN f |-> IF f[x] = b THEN c ELSE f[x]]

-----------------------------------------------------------------------------
(* Resolution *)

\* resolveTerminal: where the renames lead, if they do not go round in a cycle
Target(p) == IF p \in DOMAIN renames THEN renames[p] ELSE p

Follow(p) ==
  LET step[n \in 0..Cardinality(FilePaths)] == IF n = 0 THEN p ELSE Target(step[n - 1])
  IN step[Cardinality(FilePaths)]

Cyclic(p) == Follow(p) \in DOMAIN renames
Dead(p) == Follow(p) \in tombstones

\* StatContext, Readlink, Open of a file: what is seen at a path
View(p) ==
  LET t == Follow(p)
  IN IF Cyclic(p) \/ Dead(p) THEN None
     ELSE IF disk.overlay[t] # None THEN disk.overlay[t] ELSE Base[t]

Hidden(t, p) == Base[t] = Dir /\ p \in tombstones

Listing(d) == LET t == Follow(d) IN {p \in Children(t) : (disk.overlay[p] # None \/ Base[p] # None) /\ ~Hidden(t, p)}

\* Deleted: the paths to be removed from the base to make it what is seen
Deleted == tombstones \cup DOMAIN renames

-----------------------------------------------------------------------------
(* Changes of the disk *)

InOverlay(d, p) == d.overlay[p] # None
WithNode(d, p, n) == [d EXCEPT !.overlay[p] = n]

Scaffold(d, p) == [d EXCEPT !.overlay = [q \in AllPaths |-> IF q \in Above(p) THEN Dir ELSE @[q]]]

\* tombstone, rename: the whiteout files
Deletes(d, p) == [d EXCEPT !.deletes = @ \cup {p}]
Maps(d, o, n) == [d EXCEPT !.moves = Put(@, o, n)]
DeletesIfInBase(d, p) == IF Base[p] # None THEN Deletes(d, p) ELSE d

-----------------------------------------------------------------------------
Actual(p) == IF p \in DOMAIN moved THEN moved[p] ELSE p
Known(p) == p \notin spoiled /\ Actual(p) \notin spoiled
\* A name that callers go on using, and so are the directories it is in
Usable(p) == ({p, Actual(p)} \cup Above(p) \cup Above(Actual(p))) \cap spoiled = {}
Occupied(p) == \E q \in Children(p) : plain[q] # None
\* Directories that were removed: what is made below them does not bring them back
Removed(p) == {q \in Above(p) : q \in tombstones}
WithParents(p) == [q \in AllPaths |-> IF q \in Above(p) THEN Dir ELSE plain[q]]

Init ==
  /\ disk = [overlay |-> [p \in AllPaths |-> IF p = <<>> THEN Dir ELSE None], deletes |-> {}, moves |-> <<>>]
  /\ tombstones = {}
  /\ renames = <<>>
  /\ plain = Base
  /\ moved = <<>>
  /\ spoiled = {}
  /\ cut = {}
  /\ ops = 0

(***************************************************************************)
(* Whiteout, when the file system is made again.  What was deleted and      *)
(* made again is not to be seen any more, as only the tombstone in memory   *)
(* was cleared; and what was renamed and deleted is followed again.         *)
(***************************************************************************)
Reload(d, names) ==
  /\ disk' = d
  /\ tombstones' = d.deletes
  /\ renames' = d.moves
  /\ spoiled' = spoiled \cup names \cup {p \in d.deletes : plain[p] # None} \cup (DOMAIN d.moves \ DOMAIN moved)
  /\ ops' = ops + 1

Restart ==
  /\ ops > 0 /\ ops < MaxOps
  /\ Reload(disk, {})
  /\ cut' = {}
  /\ UNCHANGED <<plain, moved>>

(***************************************************************************)
(* A call on names, which leaves the disk as in steps one after the other,  *)
(* with the tombstones dead and the renames ways, and a tree t, and after   *)
(* it names bad have gone wrong.  A crash in the middle leaves any of the   *)
(* disks.  Of what it was to change nothing is claimed but what cut is for. *)
(***************************************************************************)
Call(steps, dead, ways, t, bad) ==
  /\ disk' = steps[Len(steps)]
  /\ tombstones' = dead
  /\ renames' = ways
  /\ plain' = t
  /\ spoiled' = spoiled \cup bad
  /\ cut' = {}
  /\ ops' = ops + 1

Crash(steps, t, bad, file) ==
  /\ \E i \in 1..Len(steps) - 1 : Reload(steps[i], bad \cup {p \in AllPaths : t[p] # plain[p]})
  /\ cut' = file
  /\ UNCHANGED <<plain, moved>>

-----------------------------------------------------------------------------
(* OpenFile for writing, Create, and a write to the file *)

Flags == {fl \in [creating : BOOLEAN, trunc : BOOLEAN, excl : BOOLEAN] : fl.excl => fl.creating}

\* The path that is opened: a name that leads to a deleted file is itself made anew
Opened(p) == IF Dead(p) THEN p ELSE Follow(p)

Opens(t, fl) ==
  /\ t \in tombstones => fl.creating
  /\ fl.excl => (Base[t] = None \/ t \in tombstones) /\ ~InOverlay(disk, t)
  /\ fl.creating \/ InOverlay(disk, Parent(t)) \/ Base[Parent(t)] # None

\* In the base, deleted or not, and not in the overlay
ShouldCopy(d, t) == Base[t] # None /\ ~InOverlay(d, t)

CopiedUp(d, t, fl) ==
  IF ShouldCopy(d, t)
  THEN IF ~fl.trunc THEN WithNode(d, t, Base[t]) ELSE IF fl.creating THEN WithNode(d, t, File({})) ELSE d
  ELSE d

Written(p, node, fl) == File(Flip(IF fl.trunc THEN {} ELSE node.data, p))

OpenFile(p, fl) ==
  LET t == Opened(p)
      d1 == Scaffold(disk, t)
      d2 == CopiedUp(d1, t, fl)
      d3 == WithNode(d2, t, Written(p, d2.overlay[t], fl))
      a == Actual(p)
      wanted == IF plain[a] # None THEN ~fl.excl /\ (fl.trunc => fl.creating \/ InOverlay(disk, a)) ELSE fl.creating
      tree == IF wanted THEN [WithParents(a) EXCEPT ![a] = Written(p, plain[a], fl)] ELSE plain
      \* Opened without being truncated, a deleted file of the base has its content again
      back == IF fl.creating /\ ~fl.trunc /\ t \in tombstones /\ Base[t] # None THEN {t} ELSE {}
  IN /\ Usable(p) /\ plain[a].kind # "link"
     /\ IF ~Cyclic(p) /\ Opens(t, fl) /\ (fl.creating \/ InOverlay(d2, t))
        THEN \/ Call(<<disk, d1, d2, d3>>, tombstones \ {t}, renames, tree, back \cup Removed(t)) /\ UNCHANGED moved
             \/ Crash(<<disk, d1, d2, d3>>, tree, back \cup Removed(t), {})
        ELSE Call(<<IF ~Cyclic(p) /\ Opens(t, fl) THEN d1 ELSE disk>>, tombstones, renames, tree, {}) /\ UNCHANGED moved

(***************************************************************************)
(* Chmod, Chown, Chtimes: copyIfNeeded, and a change that shows.  A file is *)
(* not copied if its directory is not in the overlay.  A directory is       *)
(* copied with everything in the base, and is not empty then even if all    *)
(* of it was deleted.                                                       *)
(***************************************************************************)
Copied(d, t) ==
  [d EXCEPT !.overlay = [q \in AllPaths |-> IF q = t \/ t \in Above(q) THEN Base[q]
                                         ELSE IF q \in Above(t) THEN Dir ELSE @[q]]]

Changed(p, node) == IF node = Dir THEN Dir ELSE File(Flip(node.data, p))

Chmod(p) ==
  LET t == Follow(p)
      a == Actual(p)
      d1 == IF ShouldCopy(disk, t) THEN Copied(disk, t) ELSE disk
      d2 == WithNode(d1, t, Changed(p, d1.overlay[t]))
      tree == [plain EXCEPT ![a] = Changed(p, @)]
      full == IF \E q \in Children(t) : q \in tombstones THEN {t} ELSE {}
  IN /\ Usable(p) /\ p # <<>> /\ plain[a].kind \notin {"none", "link"}
     /\ ~Cyclic(p) /\ ~Dead(p)
     /\ InOverlay(disk, t) \/ (ShouldCopy(disk, t) /\ (t \in DirPaths \/ InOverlay(disk, Parent(t))))
     /\ \/ Call(<<disk, d1, d2>>, tombstones, renames, tree, full) /\ UNCHANGED moved
        \/ Crash(<<disk, d1, d2>>, tree, full, {})

-----------------------------------------------------------------------------
(* Rename of a file *)

\* Mutant of RenameSteps: the old name is tombstoned before the file is at the new one.
RenameStepsDeletedFirst(o, src, n) ==
  LET d1 == DeletesIfInBase(WithNode(disk, n, None), src)
      d2 == Scaffold(d1, n)
      d3 == IF InOverlay(disk, src) THEN WithNode(WithNode(d2, n, d2.overlay[src]), src, None) ELSE WithNode(d2, n, Base[src])
  IN <<disk, d1, d2, d3, Maps(d3, o, n)>>

(***************************************************************************)
(* The disk after each step: the file that is at newname goes, the file is  *)
(* moved in the overlay or copied there, and where it was is tombstoned.    *)
(***************************************************************************)
RenameSteps(o, src, n) ==
  LET d1 == WithNode(disk, n, None)
      d2 == DeletesIfInBase(d1, n)
      d3 == Scaffold(d2, n)
      d4 == IF InOverlay(disk, src) THEN WithNode(WithNode(d3, n, d3.overlay[src]), src, None) ELSE WithNode(d3, n, Base[src])
      d5 == DeletesIfInBase(d4, src)
      d6 == IF Base[src] # None THEN Deletes(d5, o) ELSE d5
      leading == {k \in DOMAIN renames : renames[k] = src}
      d7 == [d6 EXCEPT !.moves = [k \in DOMAIN @ \cup leading |-> IF k \in leading THEN n ELSE @[k]]]
      d8 == IF Base[src] # None THEN Maps(d7, o, n) ELSE d7
  IN <<disk, d1, d2, d3, d4, d5, d6, d7, d8>>

\* Mutant of RenameTombstones: the new name keeps the tombstone it may have.
RenameTombstonesKept(o, src, n) ==
  tombstones \cup (IF Base[src] # None THEN {src, o} ELSE {})

RenameTombstones(o, src, n) ==
  (tombstones \cup (IF Base[src] # None THEN {src, o} ELSE {})) \ {n}

RenameRenames(o, src, n) ==
  LET led == Redirected(renames, src, n)
  IN IF Base[src] # None THEN Put(led, o, n) ELSE led

Rename(o, n) ==
  LET src == Follow(o)
      steps == RenameSteps(o, src, n)
      a == Actual(o)
      tree == [WithParents(n) EXCEPT ![a] = None, ![n] = plain[a]]
      \* A file renamed to its own name is removed first.  A name that leads elsewhere still does.
      bad == Removed(n) \cup (IF n \in {o, a} THEN {o, a} ELSE {}) \cup ({n} \cap DOMAIN moved)
      led == Redirected(moved, a, n)
      kept == {a, n} \cap disk.deletes = {} /\ Base[n] = None
  IN /\ Usable(o) /\ ({n} \cup Above(n)) \cap spoiled = {}
     /\ plain[a] # None
     /\ IF ~Cyclic(o) /\ ~Dead(o) /\ (InOverlay(disk, src) \/ Base[src] # None)
        THEN \/ /\ n # src \/ ~InOverlay(disk, src)
                /\ Call(steps, RenameTombstones(o, src, n), RenameRenames(o, src, n), tree, bad)
                /\ moved' = IF Base[a] # None THEN Put(led, o, n) ELSE led
             \/ /\ n = src /\ InOverlay(disk, src)
                /\ Call(SubSeq(steps, 1, 4), tombstones \cup (IF Base[n] # None THEN {n} ELSE {}), renames, plain, bad)
                /\ UNCHANGED moved
             \/ Crash(steps, tree, bad \cup {o, a, n}, IF kept /\ bad = {} THEN {[at |-> {o, a, n}, node |-> plain[a]]} ELSE {})
        ELSE Call(<<disk>>, tombstones, renames, tree, {}) /\ UNCHANGED moved

-----------------------------------------------------------------------------
(* Remove *)

Empty(t) ==
  /\ \A q \in Children(t) : ~InOverlay(disk, q)
  /\ \A q \in Children(t) : Base[q] # None => q \in tombstones

Remove(p) ==
  LET t == Follow(p)
      a == Actual(p)
      d1 == WithNode(disk, t, None)
      d2 == Deletes(d1, t)
      there == InOverlay(disk, t) \/ Base[t] # None
      tree == IF Occupied(a) THEN plain ELSE [plain EXCEPT ![a] = None]
      leading == {k \in DOMAIN renames : renames[k] = t}
      \* Whether a directory is empty is known only if its entries are
      bad == IF Children(a) \cap spoiled = {} THEN {} ELSE {a}
  IN /\ p # <<>> /\ Usable(p)
     /\ IF Cyclic(p) \/ (there /\ t \notin tombstones /\ t \in DirPaths /\ ~Empty(t))
        THEN Call(<<disk>>, tombstones, renames, tree, bad) /\ UNCHANGED moved
        ELSE IF t \in tombstones
        THEN Call(<<d1>>, tombstones, renames, tree, bad) /\ UNCHANGED moved
        ELSE \/ /\ Call(<<disk, d1, d2>>, tombstones \cup {t}, IF there THEN Without(renames, leading) ELSE renames, tree, bad)
                /\ moved' = Without(moved, {k \in DOMAIN moved : moved[k] = a})
             \/ Crash(<<disk, d1, d2>>, tree, bad, {})

-----------------------------------------------------------------------------
(* Mkdir, Symlink *)

\* A directory of the base is good enough a parent, even if it is deleted
ParentExists(p) == InOverlay(disk, Parent(p)) \/ Base[Parent(p)] # None

Make(p, node, tree) ==
  LET d1 == Scaffold(disk, p)
      d2 == WithNode(d1, p, None)
      d3 == DeletesIfInBase(d2, p)
      d4 == WithNode(d3, p, node)
      bad == IF plain[Parent(p)] = None THEN {p, Parent(p)} ELSE {p} \cap DOMAIN moved
  IN \/ Call(<<disk, d1, d2, d3, d4>>, tombstones \ {p}, renames, tree, bad) /\ UNCHANGED moved
     \/ Crash(<<disk, d1, d2, d3, d4>>, tree, bad \cup {p}, {})

Mkdir(p) ==
  LET tree == IF plain[p] = None /\ plain[Parent(p)] = Dir THEN [plain EXCEPT ![p] = Dir] ELSE plain
  IN /\ p # <<>> /\ ({p} \cup Above(p)) \cap spoiled = {}
     /\ IF InOverlay(disk, p) \/ ~ParentExists(p)
        THEN Call(<<disk>>, tombstones, renames, tree, {}) /\ UNCHANGED moved
        ELSE Make(p, Dir, tree)

Symlink(p) ==
  LET tree == IF plain[Parent(p)] = Dir THEN [plain EXCEPT ![p] = Link] ELSE plain
  IN /\ ({p} \cup Above(p)) \cap spoiled = {}
     /\ IF ~ParentExists(p)
        THEN Call(<<disk>>, tombstones, renames, tree, {}) /\ UNCHANGED moved
        ELSE Make(p, Link, tree)

-----------------------------------------------------------------------------
Next ==
  \/ Restart
  \/ /\ ops < MaxOps
     /\ \/ \E p \in FilePaths : \E fl \in Flags : OpenFile(p, fl)
        \/ \E p \in FilePaths : Symlink(p) \/ \E n \in FilePaths : Rename(p, n)
        \/ \E p \in DirPaths : Mkdir(p)
        \/ \E p \in AllPaths : Chmod(p) \/ Remove(p)

Spec == Init /\ [][Next]_vars

-----------------------------------------------------------------------------

\* What is seen at a name is what the callers made there; a name that a file of the base was renamed from
\* leads to where the file is, however often it is renamed after.
NamesAreTree == \A p \in AllPaths : Known(p) => View(p) = plain[IF p \in DOMAIN moved THEN moved[p] ELSE p]

\* A directory lists what is in it, and not the names files were renamed from.
ListingsAreTree ==
  \A d \in DirPaths :
    d \notin spoiled /\ plain[d] = Dir => Listing(d) \ spoiled = {p \in Children(d) : plain[p] # None} \ spoiled

\* Deleted is what is to be removed from the base: all that is gone, and nothing that is there.
DeletedIsGone == \A p \in AllPaths \ spoiled : Base[p] # None => (p \in Deleted <=> plain[p] = None)

\* The two layers with their tombstones and renames are the tree that the callers made.
ViewIsTree == NamesAreTree /\ ListingsAreTree /\ DeletedIsGone

\* A rename that a crash cuts short leaves the file at its old or its new name.
CutRenameKeepsFile == \A c \in cut : \E p \in c.at : View(p) = c.node
=============================================================================
