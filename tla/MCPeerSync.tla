----------------------------- MODULE MCPeerSync -----------------------------
(***************************************************************************)
(* PeerSync for TLC: one peer at a time, as with BRPeerManagerSetFixedPeer, *)
(* a chain of one block and one submission of the transaction.              *)
(***************************************************************************)
EXTENDS PeerSync

CONSTANTS p, first
=============================================================================
