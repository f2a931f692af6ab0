----------------------------- MODULE MCAggregates -----------------------------
(* Two variables, two contents of up to two elements. *)
EXTENDS Aggregates
=============================================================================
