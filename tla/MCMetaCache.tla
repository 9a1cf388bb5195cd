---------------------------- MODULE MCMetaCache ----------------------------
(* Instances of MetaCache for TLC. *)
EXTENDS MetaCache, TLC

TreePaths == {<<>>, <<"a">>, <<"a", "x">>, <<"b">>}

Trees == {[p \in TreePaths |-> CASE p = <<>> \/ p = <<"a">> -> Dir [] p = <<"a", "x">> -> "v1" [] OTHER -> None]}

Symmetry == Permutations(Clients)
=============================================================================
