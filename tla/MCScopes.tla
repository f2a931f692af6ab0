------------------------------ MODULE MCScopes ------------------------------
(* Scripts of up to eight constructs over two names. *)
EXTENDS Scopes, TLC

Symmetry == Permutations(Names)
=============================================================================
