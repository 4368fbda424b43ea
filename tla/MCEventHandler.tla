--------------------------- MODULE MCEventHandler ---------------------------
(***************************************************************************)
(* EventHandler for TLC: two threads that call the handler.                 *)
(***************************************************************************)
EXTENDS EventHandler, TLC

CONSTANTS c1, c2

MCOps == {"start", "stop", "release"}
MCAllOps == {"start", "stop", "clear", "release"}

Symmetry == Permutations(Controllers)
=============================================================================
