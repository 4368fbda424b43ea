---------------------------- MODULE MCPeerChain -----------------------------
(***************************************************************************)
(* PeerChain for TLC.  Blocks 0 to 6 follow each other, 15 and 16 are a     *)
(* fork of the heights 5 and 6, and 13 is a block of height 3 that is not   *)
(* the checkpoint there.  A difficulty interval has three blocks.           *)
(***************************************************************************)
EXTENDS PeerChain, TLC

CONSTANTS both, stale, fork

MCHeight == [b \in Block |-> b % 10]
MCPrev == [b \in Block |-> IF b = 0 THEN None ELSE IF b \in {13, 15} THEN b - 11 ELSE b - 1]

\* A transaction that both chains confirm, and one that each confirms alone.
MCTxs ==
    [b \in Block |-> CASE b = 5 -> {both, stale} [] b = 16 -> {both} [] b = 15 -> {fork} [] OTHER -> {}]

MCPeers == Permutations(Peers)
=============================================================================
