----------------------------- MODULE SyncEvents -----------------------------
(***************************************************************************)
(* What a sync manager (bitcoin/BRSyncManager.h) promises the owner it      *)
(* reports to: its events of the connection and of full scans come in an    *)
(* order from which the owner can tell how things stand.  The owner's       *)
(* wallet manager (crypto/BRCryptoWalletManagerClient.c) sets its state by  *)
(* the last event alone; Confused stands for an event that contradicts the  *)
(* state it finds.  ClientSync (block chain service) is checked against it. *)
(***************************************************************************)
CONSTANT Confused

Owner == {"disconnected", "connected", "syncing", Confused}

\* The owner's state o after the event e.
After(o, e) ==
    CASE e = "CONNECTED" /\ o = "disconnected" -> "connected"
      [] e = "DISCONNECTED" /\ o = "connected" -> "disconnected"
      [] e = "SYNC_STARTED" /\ o = "connected" -> "syncing"
      [] e = "SYNC_STOPPED" /\ o = "syncing" -> "connected"
      [] OTHER -> Confused

\* The same when the event is sent only if "need..." is set.
Told(o, e, need) == IF need THEN After(o, e) ELSE o
=============================================================================
