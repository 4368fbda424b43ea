--------------------------- MODULE MCEthereumSync ---------------------------
(***************************************************************************)
(* EthereumSync for TLC: a chain that is longer than two offsets, and ids   *)
(* enough for the requests of every scan that can be aborted.               *)
(***************************************************************************)
EXTENDS EthereumSync

MCRids == 1 .. 2 * (MaxEvents + 2)
=============================================================================
