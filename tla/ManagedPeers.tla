---------------------------- MODULE ManagedPeers ----------------------------
(***************************************************************************)
(* What the two models of the bitcoin peer manager (bitcoin/BRPeerManager.c) *)
(* have in common: PeerManager, of its peers, and PeerChain, of its chain.  *)
(***************************************************************************)

CONSTANT
    Peers             \* places for peers

VARIABLES
    downloadPeer,     \* manager->downloadPeer
    estimatedHeight   \* manager->estimatedHeight
=============================================================================
