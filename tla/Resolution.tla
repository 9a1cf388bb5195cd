---------------------------- MODULE Resolution -----------------------------
(***************************************************************************)
(* fs/vfs/vfs.go: what a name means in a namespace.  ResolveFS,            *)
(* StatContext and OpenContext as functions of one table of bindings (a    *)
(* snapshot, see Namespace) and of the trees of the bound file systems;    *)
(* the actions build tables and change trees.                              *)
(*                                                                         *)
(* A path is a sequence of names and the root is <<>>.  The code matches   *)
(* bindings with strings.HasPrefix on the text of paths, so a name is a    *)
(* sequence of letters, and the text of the root is ".".                   *)
(***************************************************************************)
EXTENDS Integers, Sequences, SequencesExt, FiniteSets, FiniteSetsExt, Functions

CONSTANTS
    NS,         \* the namespace
    Systems,    \* the file systems that may be bound
    Creators,   \* those that implement fs.CreateFS (memfs)
    Mounts,     \* Mounts[f]: names of f (a MapFS) that are other file systems
    Trees,      \* Trees[f]: the nodes of f at first, path to kind
    Names,      \* every name there may be
    Points,     \* the paths something may be bound to
    Sources,    \* what may be bound: records [fs, path]
    Queries,    \* the paths that are looked up
    MaxBinds    \* bound: targets in the table

VARIABLES
    table,      \* table[d]: the targets bound to d
    tree        \* tree[f]: the nodes of f, path to "dir" or "file"

vars == <<table, tree>>

Dot == "."
IsRoot(p) == p = <<>>
Parent(p) == IF IsRoot(p) THEN p ELSE Front(p)

-----------------------------------------------------------------------------
(* File systems.  A MapFS passes what is below a mount on.                 *)

Node(f, p) == IF p \in DOMAIN tree[f] THEN tree[f][p] ELSE "none"

Mounted(f, p) == p # <<>> /\ Head(p) \in DOMAIN Mounts[f]

Look(f, p) == IF Mounted(f, p) THEN Node(Mounts[f][Head(p)], Tail(p)) ELSE Node(f, p)

Children(f, p) == {n \in Names : Look(f, Append(p, n)) # "none"}

(* Mutant of MapResolve: the name of the mount stays in the path.          *)
MapResolveWhole(f, p) ==
    IF Mounted(f, p) /\ Len(p) > 1
    THEN [fs |-> Mounts[f][Head(p)], path |-> p]
    ELSE [fs |-> f, path |-> p]

(* MapFS.ResolveFS: a path below a mount is the mounted file system's,     *)
(* whether it has it or not; the mount itself stays the map's.             *)
MapResolve(f, p) ==
    IF Mounted(f, p) /\ Len(p) > 1
    THEN [fs |-> Mounts[f][Head(p)], path |-> Tail(p)]
    ELSE [fs |-> f, path |-> p]

-----------------------------------------------------------------------------
(* fskit.MatchPaths and the name relative to a match.                      *)

(* len(path) orders matches; the separators count.                         *)
TextLen(p) == IF IsRoot(p) THEN 1 ELSE FoldSeq(LAMBDA n, k : Len(n) + k, Len(p) - 1, p)

HasPrefix(name, d) ==
    \/ IsRoot(d)
    \/ /\ Len(d) =< Len(name)
       /\ Front(d) = SubSeq(name, 1, Len(d) - 1)
       /\ IsPrefix(Last(d), name[Len(d)])

(* Longest first; sort.Slice leaves matches of one length in either order. *)
MatchPaths(name) ==
    LET matches == {d \in Points : table[d] # <<>> /\ HasPrefix(name, d)}
    IN  {s \in SetToSeqs(matches) :
            \A i \in 1 .. Len(s) - 1 : TextLen(s[i]) >= TextLen(s[i + 1])}

(* strings.Trim(strings.TrimPrefix(name, d), "/"): what is left of a name  *)
(* that only begins with the last name of d is a name of its own, and the  *)
(* root takes a leading dot away.                                          *)
RelativeName(name, d) ==
    IF IsRoot(d)
    THEN IF name # <<>> /\ Head(Head(name)) = Dot
         THEN <<Tail(Head(name))>> \o Tail(name) ELSE name
    ELSE LET over == SubSeq(name[Len(d)], Len(Last(d)) + 1, Len(name[Len(d)]))
         IN  (IF over = <<>> THEN <<>> ELSE <<over>>) \o SubSeq(name, Len(d) + 1, Len(name))

-----------------------------------------------------------------------------
(* NS.ResolveFS: the file system and path a name stands for, NS itself     *)
(* when no single one does.                                                *)

Unresolved(name) == [fs |-> NS, path |-> name]

At(ref, rel) == [fs |-> ref.fs, path |-> ref.path \o rel]

ResolveDirect(refs, name, readOnly) ==
    LET Creates(r) == r.fs \in Creators
        first == SelectInSeq(refs, Creates)
    IN  IF Len(refs) = 1 THEN [fs |-> refs[1].fs, path |-> refs[1].path]
        ELSE IF ~readOnly /\ first > 0 THEN [fs |-> refs[first].fs, path |-> refs[first].path]
        ELSE Unresolved(name)

Passes(at) == MapResolve(at.fs, at.path) # at

(* One matching binding: first the targets that pass the name on, then     *)
(* the ones that have it, then, to create it, the ones that have its       *)
(* directory.                                                              *)
ResolveUnder(refs, rel, op, otherwise) ==
    LET Moves(r)  == Passes(At(r, rel))
        Has(r)    == Look(r.fs, r.path \o rel) # "none"
        Dirs(r)   == Look(r.fs, Parent(r.path \o rel)) # "none"
        moves == SelectInSeq(refs, Moves)
        has   == SelectInSeq(refs, Has)
        dirs  == SelectInSeq(refs, Dirs)
    IN  CASE moves > 0 -> MapResolve(refs[moves].fs, refs[moves].path \o rel)
          [] moves = 0 /\ has > 0 -> At(refs[has], rel)
          [] moves = 0 /\ has = 0 /\ op = "create" /\ dirs > 0 -> At(refs[dirs], rel)
          [] OTHER -> otherwise

ResolveFS(name, order, readOnly, op) ==
    IF name \in Points /\ table[name] # <<>>
    THEN ResolveDirect(table[name], name, readOnly)
    ELSE LET Try(d, otherwise) == ResolveUnder(table[d], RelativeName(name, d), op, otherwise)
         IN  FoldRight(Try, order, Unresolved(name))

-----------------------------------------------------------------------------
(* NS.OpenContext: the first file, or the union of the directories with    *)
(* the bindings below the name.                                            *)

Nothing == [kind |-> "none"]
Failed == [kind |-> "error"]
File(at) == [kind |-> "file", at |-> MapResolve(at.fs, at.path)]
Dir(names) == [kind |-> "dir", names |-> names]

(* Mutant of Candidates: a direct binding hides the ones above it.         *)
CandidatesDirect(name, order) ==
    LET Direct == IF name \in Points THEN table[name] ELSE <<>>
        Looked(r) == [at |-> [fs |-> r.fs, path |-> r.path], kind |-> r.kind]
        Under(d) == [i \in DOMAIN table[d] |->
                       LET at == At(table[d][i], RelativeName(name, d))
                       IN  [at |-> at, kind |-> Look(at.fs, at.path)]]
    IN  IF Direct # <<>> THEN [i \in DOMAIN Direct |-> Looked(Direct[i])]
        ELSE FlattenSeq([i \in DOMAIN order |-> Under(order[i])])

(* The targets OpenContext looks at, in order: the direct ones, then those *)
(* of every match.  known is the kind a target had when it was bound.      *)
Candidates(name, order) ==
    LET Direct == IF name \in Points THEN table[name] ELSE <<>>
        Looked(r) == [at |-> [fs |-> r.fs, path |-> r.path], kind |-> r.kind]
        Under(d) == [i \in DOMAIN table[d] |->
                       LET at == At(table[d][i], RelativeName(name, d))
                       IN  [at |-> at, kind |-> Look(at.fs, at.path)]]
    IN  [i \in DOMAIN Direct |-> Looked(Direct[i])]
            \o FlattenSeq([i \in DOMAIN order |-> Under(order[i])])

(* Names of bindings right below name, and of directories on the way to    *)
(* deeper ones.                                                            *)
Synthesized(name) ==
    {d[Len(name) + 1] : d \in {e \in Points : /\ table[e] # <<>>
                                            /\ Len(e) > Len(name)
                                            /\ SubSeq(e, 1, Len(name)) = name}}

Hidden(n) == Head(n) = "#"

Listed(dirs, name) ==
    {n \in UNION {Children(c.at.fs, c.at.path) : c \in dirs} \cup Synthesized(name) : ~Hidden(n)}

OpenContext(name, order) ==
    LET seen  == Candidates(name, order)
        Ends(c) == \/ c.kind = "file" /\ Look(c.at.fs, c.at.path) # "none"
                   \/ c.kind = "dir" /\ Look(c.at.fs, c.at.path) # "dir"
        stop  == SelectInSeq(seen, Ends)
        dirs  == {c \in Range(seen) : c.kind = "dir"}
    IN  IF stop > 0 /\ seen[stop].kind = "file" THEN File(seen[stop].at)
        ELSE IF stop > 0 THEN Failed
        ELSE IF /\ ~IsRoot(name)
                /\ dirs = {}
                /\ Synthesized(name) = {}
        THEN Nothing
        ELSE Dir(Listed(dirs, name))

(* NS.StatContext: the kind it reports, from the table where it can.       *)
StatContext(name, order) ==
    IF IsRoot(name) THEN "dir"
    ELSE IF name \in Points /\ table[name] # <<>> THEN table[name][1].kind
    ELSE LET at == ResolveFS(name, order, TRUE, "stat")
         IN  IF at.fs = NS THEN OpenContext(name, order).kind ELSE Look(at.fs, at.path)

-----------------------------------------------------------------------------
Init ==
    /\ table = [d \in Points |-> <<>>]
    /\ tree = Trees

BindsMade == FoldFunction(LAMBDA refs, k : Len(refs) + k, 0, table)

(* NS.Bind of a target that can be opened; its kind is kept with it.       *)
Bind(d, src, mode) ==
    /\ BindsMade < MaxBinds
    /\ Look(src.fs, src.path) # "none"
    /\ LET ref == [fs |-> src.fs, path |-> src.path, kind |-> Look(src.fs, src.path)]
       IN  table' = [table EXCEPT ![d] = IF mode = "after" THEN <<ref>> \o @ ELSE Append(@, ref)]
    /\ UNCHANGED tree

(* fs.Create of a name of the namespace: ResolveTo a file system that can  *)
(* create, whose directory must exist (memfs.Create).                      *)
Creation(name, order) ==
    LET at == ResolveFS(name, order, FALSE, "create")
    IN  IF at.fs = NS THEN at ELSE MapResolve(at.fs, at.path)

Creatable(at) ==
    /\ at.fs \in Creators
    /\ ~IsRoot(at.path)
    /\ Node(at.fs, Parent(at.path)) # "none"
    /\ Node(at.fs, at.path) # "dir"

(* Mutant of Create: the file system is resolved but not the name.         *)
CreateUnresolved(name) ==
    \E order \in MatchPaths(name) :
        LET at == Creation(name, order) IN
        /\ Creatable(at)
        /\ tree' = [tree EXCEPT ![at.fs] = (name :> "file") @@ @]
        /\ UNCHANGED table

Create(name) ==
    \E order \in MatchPaths(name) :
        LET at == Creation(name, order) IN
        /\ Creatable(at)
        /\ tree' = [tree EXCEPT ![at.fs] = (at.path :> "file") @@ @]
        /\ UNCHANGED table

(* A leaf of a file system is removed, by whatever way it was reached.     *)
RemoveLeaf(f, p) ==
    /\ ~IsRoot(p)
    /\ p \in DOMAIN tree[f]
    /\ \A q \in DOMAIN tree[f] : Len(q) > Len(p) => SubSeq(q, 1, Len(p)) # p
    /\ tree' = [tree EXCEPT ![f] = [q \in DOMAIN @ \ {p} |-> @[q]]]
    /\ UNCHANGED table

Next ==
    \/ \E d \in Points, src \in Sources, mode \in {"after", "before"} : Bind(d, src, mode)
    \/ \E name \in Queries : Create(name)
    \/ \E f \in Creators : \E p \in DOMAIN tree[f] : RemoveLeaf(f, p)

Spec == Init /\ [][Next]_vars

-----------------------------------------------------------------------------
(* What the answers ought to be.                                           *)

(* The places a name stands for by the meaning of bindings: below every    *)
(* target bound to it or to a directory above it.                          *)
Places(name) ==
    LET above == {d \in Points : Len(d) =< Len(name) /\ SubSeq(name, 1, Len(d)) = d}
    IN  UNION {{At(table[d][i], SubSeq(name, Len(d) + 1, Len(name))) : i \in DOMAIN table[d]} :
                 d \in above}

Kinds(name) ==
    ({Look(at.fs, at.path) : at \in Places(name)}
        \cup IF Synthesized(name) # {} \/ IsRoot(name) THEN {"dir"} ELSE {}) \ {"none"}

(* What is taken for granted of a table: no name stands for a file and a   *)
(* directory, or is passed on to a mount by one target and is there in     *)
(* another (ResolveFS prefers the mount even if it lacks the name), and no *)
(* bound target changed its kind since.                                    *)
Orderly ==
    /\ \A name \in Queries \cup {Append(q, n) : q \in Queries, n \in Names} :
          /\ Cardinality(Kinds(name)) =< 1
          /\ (\E at \in Places(name) : Passes(at)) =>
               \A at \in Places(name) : Passes(at) \/ Look(at.fs, at.path) = "none"
    /\ \A d \in Points : \A i \in DOMAIN table[d] :
          table[d][i].kind = Look(table[d][i].fs, table[d][i].path)

(* Open finds a name exactly if it stands for something, and lists of a    *)
(* directory every name that stands for something below it.                *)
OpenIsTheUnion ==
    Orderly =>
        \A name \in Queries : \A order \in MatchPaths(name) :
            LET got == OpenContext(name, order)
            IN  /\ {got.kind} \ {"none"} = Kinds(name)
                /\ got.kind = "dir" =>
                     got.names = {n \in Names : ~Hidden(n) /\ Kinds(Append(name, n)) # {}}

(* Stat, which tries not to use Open, says what Open and Stat would.       *)
StatIsOpen ==
    Orderly =>
        \A name \in Queries : \A order \in MatchPaths(name) :
            StatContext(name, order) = OpenContext(name, order).kind

(* A file created under a name that stood for nothing is what Open finds   *)
(* under it from then on.                                                  *)
CreatedIsFound ==
    [][\A name \in Queries :
          Create(name) /\ Orderly /\ Kinds(name) = {} =>
              \A order \in MatchPaths(name) :
                  OpenContext(name, order)' = File(Creation(name, order))]_vars
=============================================================================
