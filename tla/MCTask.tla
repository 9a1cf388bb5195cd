------------------------------- MODULE MCTask -------------------------------
(* Instances of Task for TLC. *)
EXTENDS Task, TLC

Symmetry == Permutations(Threads)
=============================================================================
