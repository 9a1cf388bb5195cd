----------------------------- MODULE BindTable -----------------------------
(***************************************************************************)
(* What a set of namespaces (fs/vfs.NS) promises to its users: every       *)
(* namespace is one table from names to ordered lists of bound targets,    *)
(* every Bind, Unbind and UnbindAll changes one table in one step, and a   *)
(* clone starts as the table of its parent and is never touched by it      *)
(* again.  Namespace.tla describes how vfs.go gets there with snapshots,   *)
(* private copies and one pointer swap, and implements this module.        *)
(***************************************************************************)
EXTENDS Integers, Sequences, FiniteSets

CONSTANTS
    Spaces,     \* the namespaces that may come to exist
    Main,       \* the one that exists first
    Names,      \* the names a target may be bound to
    Kept,       \* the names UnbindAll leaves alone (those that start with #)
    Targets,    \* what may be bound
    Unborn      \* the table of a namespace that does not exist yet

VARIABLE table

Empty == [d \in Names |-> <<>>]

(* The targets that are not gone, in the order they had.                   *)
Without(refs, gone) ==
    LET stay   == {k \in DOMAIN refs : refs[k] \notin gone}
        Nth(j) == CHOOSE k \in stay : Cardinality({i \in stay : i =< k}) = j
    IN  [j \in 1 .. Cardinality(stay) |-> refs[Nth(j)]]

(* A mode decides on which side of the targets bound before the new one    *)
(* goes, or that it takes their place.                                     *)
Placed(refs, r, mode) ==
    CASE mode = "after"   -> <<r>> \o refs
      [] mode = "before"  -> refs \o <<r>>
      [] mode = "replace" -> <<r>>

Init == table = [n \in Spaces |-> IF n = Main THEN Empty ELSE Unborn]

BoundAt(n, d) == {table[n][d][k] : k \in DOMAIN table[n][d]}

Bind(n, d, r, mode) ==
    table' = [table EXCEPT ![n][d] = Placed(@, r, mode)]

Unbind(n, d, gone) ==
    table' = [table EXCEPT ![n][d] = Without(@, gone)]

UnbindAll(n) ==
    table' = [table EXCEPT ![n] = [d \in Names |-> IF d \in Kept THEN @[d] ELSE <<>>]]

Clone(n, c) ==
    /\ table[c] = Unborn
    /\ table' = [table EXCEPT ![c] = table[n]]

Next ==
    \E n \in Spaces :
        /\ table[n] # Unborn
        /\ \/ \E d \in Names, r \in Targets, mode \in {"after", "before", "replace"} :
                 Bind(n, d, r, mode)
           \/ \E d \in Names : \E gone \in SUBSET BoundAt(n, d) : Unbind(n, d, gone)
           \/ UnbindAll(n)
           \/ \E c \in Spaces : Clone(n, c)

Spec == Init /\ [][Next]_table
=============================================================================
