----------------------------- MODULE MCClosures -----------------------------
(* Closures with a main that has one variable and functions that have two: *)
(* enough for a closure to outlive its frame, to be copied into another    *)
(* variable of the frame and to be called from a frame above it.           *)
EXTENDS Closures
=============================================================================
