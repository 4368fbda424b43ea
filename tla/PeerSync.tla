------------------------------ MODULE PeerSync ------------------------------
(***************************************************************************)
(* The sync manager for the bitcoin network (bitcoin/BRSyncManager.c,       *)
(* CRYPTO_SYNC_MODE_P2P_ONLY) as the owner of a peer manager.  It turns     *)
(* syncStarted, syncStopped and a tick into events of the connection and of *)
(* a full scan, which are told as its flags change.  Each of the three takes *)
(* its lock, and what BRPeerManagerConnectStatus tells is of that moment.   *)
(***************************************************************************)
EXTENDS PeerManager

VARIABLES
    isConnected, isFullScan      \* what its events have told the owner

sync == <<isConnected, isFullScan>>

SyncInit == Init /\ isConnected = FALSE /\ isFullScan = FALSE

\* BRPeerManagerConnectStatus is not BRPeerStatusDisconnected.
SeemsConnected ==
    downloadPeer # NoPeer \/ \E p \in connectedPeers : status[p] # "Disconnected"

\* _BRPeerSyncManagerSyncStarted
Started(x) ==
    /\ CallsBack(x, "Started")
    /\ isConnected' = TRUE /\ isFullScan' = TRUE

\* _BRPeerSyncManagerSyncStopped
Stopped(x) ==
    /\ CallsBack(x, "Stopped")
    /\ isConnected' = SeemsConnected /\ isFullScan' = FALSE

\* BRPeerSyncManagerTickTock
\* Mutant: the scan that the connection took with it is not ended.
TickTock_KeepsScan ==
    /\ Idle /\ isConnected /\ ~SeemsConnected
    /\ isConnected' = FALSE /\ isFullScan' = isFullScan
    /\ UNCHANGED vars

TickTock ==
    /\ Idle /\ isConnected /\ ~SeemsConnected
    /\ isConnected' = FALSE /\ isFullScan' = FALSE
    /\ UNCHANGED vars

SyncNext ==
    \/ Works /\ UNCHANGED sync
    \/ \E x \in Threads : Started(x) \/ Stopped(x)
    \/ TickTock

syncVars == <<vars, sync>>

Proceeds(x) == (todo[x] # <<>> /\ Goes(x) /\ UNCHANGED sync) \/ Started(x) \/ Stopped(x)

\* Threads run: a call goes on, a handler is left, and a thread whose socket was
\* closed sees it.  The tick is a periodic event; it gets the lock some time.
Fairness ==
    /\ WF_syncVars((Returns /\ UNCHANGED sync) \/ Proceeds(User))
    /\ \A p \in Peers : /\ WF_syncVars((Handles(p) /\ UNCHANGED sync) \/ Proceeds(p))
                        /\ WF_syncVars(Closed(p) /\ End(p) /\ UNCHANGED sync)
    /\ SF_syncVars(TickTock)

SyncSpec == SyncInit /\ [][SyncNext]_syncVars /\ Fairness

-----------------------------------------------------------------------------
\* A disconnect waits for threads, which call back and connect anew: it returns.
DisconnectEnds == todo[User] = <<"Wait">> ~> todo[User] # <<"Wait">>

\* "a fallback in case that callback has not occurred" (BRSyncManager.c, 1777): the
\* owner does not take a connection that is lost for one, or a scan that went with it.
LossIsTold == isConnected /\ ~SeemsConnected ~> SeemsConnected \/ ~(isConnected \/ isFullScan)
=============================================================================
