---------------------------- MODULE MCClientSync ----------------------------
(***************************************************************************)
(* ClientSync for TLC: two transactions in a row of addresses, of which    *)
(* the wallet knows only the first when it starts.                         *)
(***************************************************************************)
EXTENDS ClientSync

CONSTANTS first, second

MCAddress == [t \in Txs |-> IF t = first THEN 0 ELSE 1]
=============================================================================
