---------------------------- MODULE MCStatements ----------------------------
(* Five frames hold a function in a loop in a try block in a loop in main,  *)
(* or two functions with a loop in each; five statements can enter them     *)
(* all and still jump.                                                      *)
EXTENDS Statements
=============================================================================
