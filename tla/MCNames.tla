------------------------------ MODULE MCNames ------------------------------
(***************************************************************************)
(* Namespaces in two halves, one of them in a behaviour: how their tables  *)
(* change under concurrent calls (Namespace), and what one table makes of  *)
(* a name (Resolution).                                                    *)
(***************************************************************************)
EXTENDS Namespace, TLC

CONSTANTS NS, Bound, Creating, Mounts, Trees, Letters, Points, Sources, Queries, MaxBinds

VARIABLES table, tree, part

allvars == <<vars, table, tree, part>>

R == INSTANCE Resolution WITH Systems <- Bound, Creators <- Creating, Names <- Letters

MCInit == Init /\ R!Init /\ part \in {"tables", "names"}

OfTables == part = "tables" /\ Next /\ UNCHANGED <<table, tree, part>>
OfNames == part = "names" /\ R!Next /\ UNCHANGED <<vars, part>>

MCSpec ==
    /\ MCInit
    /\ [][OfTables \/ OfNames]_allvars
    /\ \A t \in Threads :
          /\ WF_allvars(Continue(t) /\ UNCHANGED <<table, tree, part>>)
          /\ SF_allvars(Lock(t) /\ UNCHANGED <<table, tree, part>>)

(* Open finds a name exactly if it stands for something, and lists of a    *)
(* directory every name that stands for something below it, in whatever    *)
(* order equal matches come.  (vfs.go, OpenContext.)                       *)
OpenIsTheUnion == part = "names" => R!OpenIsTheUnion

(* Stat, which tries not to use Open, says what Open would.  (vfs.go,      *)
(* StatContext.)                                                           *)
StatIsOpen == part = "names" => R!StatIsOpen

(* A file created under a name that stood for nothing is what Open finds   *)
(* under it from then on.  (vfs.go, ResolveFS for a create.)               *)
CreatedIsFound == R!CreatedIsFound

-----------------------------------------------------------------------------
ab == <<"a", "b">>
cd == <<"c", "d">>
xy == <<"x", "y">>
hid == <<"#", "h">>

MapMounts == [f \in {"rom", "map", "mem"} |-> IF f = "map" THEN cd :> "mem" ELSE <<>>]

RomTrees == [f \in {"rom", "map", "mem"} |->
    IF f = "rom" THEN (<<>> :> "dir") @@ (<<ab>> :> "dir") @@ (<<ab, xy>> :> "file") @@ (<<hid>> :> "file")
    ELSE <<>> :> "dir"]

TwoLetters == {ab, cd, xy, hid}
Points2 == {<<>>, <<ab>>, <<ab, cd>>}
RomSources == {[fs |-> "rom", path |-> <<>>], [fs |-> "rom", path |-> <<ab, xy>>],
               [fs |-> "map", path |-> <<>>], [fs |-> "mem", path |-> <<>>]}
Queries2 == {<<>>, <<ab>>, <<cd>>, <<hid>>, <<ab, cd>>, <<ab, xy>>, <<cd, xy>>, <<ab, cd, xy>>}
=============================================================================
