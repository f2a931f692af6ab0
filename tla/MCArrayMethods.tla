--------------------------- MODULE MCArrayMethods ---------------------------
(* Arrays of up to four elements over two values. *)
EXTENDS ArrayMethods
=============================================================================
