--------------------------- MODULE MCModuleLoader ---------------------------
(* All projects of three files with at most two import statements each:    *)
(* chains, diamonds, double imports, self imports and cycles of length two *)
(* and three, through the first and through a later import.                *)
EXTENDS ModuleLoader
=============================================================================
