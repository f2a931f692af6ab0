----------------------------- MODULE MCStateApi -----------------------------
(* Two modules, so that an abort meets global expressions before the last   *)
(* module is set up; four levels hold a loop in a function called inside of *)
(* another loop; two statements let a caller go on after an abort.          *)
EXTENDS StateApi
=============================================================================
