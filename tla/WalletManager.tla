--------------------------- MODULE WalletManager ---------------------------
(***************************************************************************)
(* How a bitcoin transaction is told of (bitcoin/BRWalletManager.c and the  *)
(* bitcoin part of crypto/BRCryptoWalletManagerClient.c): from the wallet,  *)
(* whose callbacks save it and signal an event, over the record the wallet  *)
(* manager keeps of it, to the transfer that the application sees.  Beside  *)
(* it runs a submission, over the peers or over the client, and its answer. *)
(*                                                                          *)
(* Everything is handed on in one queue (EventHandler), whose thread holds  *)
(* the manager's lock; the wallet is called under the peer manager's lock   *)
(* or by the event thread, so one call at a time.  A call is one step with  *)
(* its callbacks.  All transactions are the wallet's own (Wallet has the    *)
(* others); removal of dependents is some more removals.  A timestamp is 0  *)
(* or not as the height is none or is.  The assertions of the code end the  *)
(* process.                                                                 *)
(***************************************************************************)
EXTENDS Integers, FiniteSets, Sequences, SequencesExt

CONSTANTS
    Tx,            \* transactions
    Made,          \* those the user may make
    MaxHeight,     \* bound: the blocks of the chain
    MaxQueue,      \* bound: what waits when others than its thread signal
    MaxSubmits,    \* bound: submissions of a transaction
    MaxRestarts    \* bound: restarts

ASSUME ConstantsAssumption ==
    /\ IsFiniteSet(Tx) /\ Made \subseteq Tx
    /\ {MaxHeight, MaxQueue, MaxSubmits, MaxRestarts} \subseteq Nat

Unconfirmed == MaxHeight + 1     \* TX_UNCONFIRMED; the client has 0 for none
Blocks == 1 .. MaxHeight

VARIABLES
    mode,        \* "P2P" or "API"
    wallet,      \* the BRWallet: known (allTx), listed, height; saved on file
    record,      \* [Tx -> BRTransactionWithState]
    queue,       \* of the event handler
    transfer,    \* [Tx -> BRCryptoTransferState; "none" for no transfer]
    published,   \* [Tx -> "no"; "listed" in publishedTx; "pending" with callback]
    answers,     \* callbacks of publications a peer's thread has taken
    requests,    \* submissions the client has to answer
    submits,     \* [Tx -> submissions by this process]
    network,     \* transactions that others have
    failed,      \* the assertion that failed
    restarts

vars == <<mode, wallet, record, queue, transfer, published, answers, requests, submits,
          network, failed, restarts>>
book == <<record, transfer>>
submission == <<published, answers, requests, submits>>
process == <<mode, failed, restarts>>

NoRecord == [is |-> "none", refed |-> FALSE, height |-> Unconfirmed]

Event(name, t, h) == [name |-> name, tx |-> t, height |-> h]

Running == failed = "none"
Room == Running /\ Len(queue) < MaxQueue
Signal(events) == queue' = queue \o events

Init ==
    /\ mode \in {"P2P", "API"}
    /\ wallet = [known |-> {}, listed |-> {}, saved |-> {}, height |-> [t \in Tx |-> Unconfirmed]]
    /\ record = [t \in Tx |-> NoRecord] /\ transfer = [t \in Tx |-> "none"]
    /\ queue = <<>>
    /\ published = [t \in Tx |-> "no"] /\ answers = {} /\ requests = {}
    /\ submits = [t \in Tx |-> 0]
    /\ network = Tx \ Made
    /\ failed = "none" /\ restarts = 0

-----------------------------------------------------------------------------
\* The wallet's calls, and the events its callbacks signal.

\* BRWalletRegisterTransaction
Registered(w, t) ==
    IF t \in w.known THEN w
    ELSE [w EXCEPT !.known = @ \cup {t}, !.listed = @ \cup {t}, !.saved = @ \cup {t}]

\* Mutant: the callback is made for a transaction that is known.
Added_Always(w, t) == <<Event("TxAdded", t, w.height[t])>>
Added(w, t) == IF t \in w.known THEN <<>> ELSE <<Event("TxAdded", t, w.height[t])>>

\* BRWalletUpdateTransactions and _BRWalletManagerTxUpdated, which saves.
Updated(w, txs, h) ==
    [w EXCEPT !.saved = @ \cup txs, !.height = [t \in Tx |-> IF t \in txs THEN h ELSE @[t]]]

UpdatedEvents(txs, h) == SetToSeq({Event("TxUpdated", t, h) : t \in txs})

Changed(w, txs, h) == {t \in txs \cap w.known : w.height[t] # h}

-----------------------------------------------------------------------------
\* The peers, under the peer manager's lock.

Peers(signals) == Running /\ mode = "P2P" /\ (signals => Room)

\* A peer has the transaction, and is counted as its relay.  The callback of the
\* publication is made when the lock is let go of.
Taken(t, outcome) ==
    /\ wallet' = Registered(wallet, t)
    /\ Signal(Added(wallet, t))
    /\ published' = [published EXCEPT ![t] =
                        IF @ # "no" \/ wallet.height[t] = Unconfirmed THEN "listed" ELSE "no"]
    /\ answers' = answers \cup {[tx |-> x, outcome |-> outcome] : x \in {y \in {t} : published[y] = "pending"}}
    /\ network' = network \cup {t}
    /\ UNCHANGED <<book, requests, submits, process>>

\* _peerRequestedTx; EINVAL if a conflict makes it invalid.
RequestedTx(t) ==
    /\ Peers(TRUE) /\ published[t] # "no"
    /\ Taken(t, "relayed") \/ Taken(t, "conflict")

\* _peerRelayedTx, _peerHasTx
RelayedTx(t) == Peers(TRUE) /\ t \in network /\ Taken(t, "relayed")

\* The publication is given up: _peerDisconnected.
PublishFails(t) ==
    /\ Peers(FALSE) /\ published[t] = "pending"
    /\ published' = [published EXCEPT ![t] = "listed"]
    /\ answers' = answers \cup {[tx |-> t, outcome |-> "given up"]}
    /\ UNCHANGED <<wallet, book, queue, requests, submits, network, process>>

\* _BRPeerSyncManagerTxPublished
SubmitEvent(t, error) == <<Event(IF error THEN "SUBMIT_FAILED" ELSE "SUBMIT_SUCCEEDED", t, 0)>>

TxPublished(a) ==
    /\ Peers(FALSE) /\ a \in answers
    /\ answers' = answers \ {a}
    /\ Signal(SubmitEvent(a.tx, a.outcome # "relayed"))
    /\ UNCHANGED <<wallet, book, published, requests, submits, network, process>>

\* _peerRelayedBlock, on a chain that a rescan may have left.
RelayedBlock(txs, h) ==
    /\ Peers(TRUE) /\ txs # {} /\ Changed(wallet, txs, h) = txs
    /\ wallet' = Updated(wallet, txs, h)
    /\ Signal(UpdatedEvents(txs, h))
    /\ UNCHANGED <<book, submission, network, process>>

\* Relays and rejections change the timestamp only.
RelayCounted(t) ==
    /\ Peers(TRUE) /\ t \in wallet.known /\ wallet.height[t] = Unconfirmed
    /\ wallet' = Updated(wallet, {t}, Unconfirmed)
    /\ Signal(UpdatedEvents({t}, Unconfirmed))
    /\ UNCHANGED <<book, submission, network, process>>

\* BRWalletSetTxUnconfirmedAfter

\* Mutant: the manager is not called back.
UnconfirmedAfter_Silent(txs) == <<>>
UnconfirmedAfter(txs) == UpdatedEvents(txs, Unconfirmed)

Reorganisation(h) ==
    LET txs == {t \in wallet.listed : wallet.height[t] > h}
    IN  /\ Peers(TRUE) /\ txs # {}
        /\ wallet' = Updated(wallet, txs, Unconfirmed)
        /\ Signal(UnconfirmedAfter(txs))
        /\ UNCHANGED <<book, submission, network, process>>

\* BRWalletRemoveTransaction, for what no peer relays (_requestUnrelayedTxGetdataDone).
RemoveTransaction(t) ==
    /\ Peers(TRUE) /\ t \in wallet.listed
    /\ wallet.height[t] = Unconfirmed /\ published[t] # "pending"
    /\ \A a \in answers : a.tx = t => a.outcome = "given up"
    /\ wallet' = [wallet EXCEPT !.listed = @ \ {t}, !.saved = @ \ {t}]
    /\ Signal(<<Event("TxDeleted", t, 0)>>)
    /\ UNCHANGED <<book, submission, network, process>>

-----------------------------------------------------------------------------
\* The client, whose answers are events too.  The service it asks takes a
\* submission before, after or without an answer.

Accepted(t) ==
    /\ t \in requests \ network
    /\ network' = network \cup {t}
    /\ UNCHANGED <<wallet, book, queue, submission, process>>

\* bwmAnnounceSubmit
AnnounceSubmit(t, error) ==
    /\ Room /\ t \in requests /\ (error \/ t \in network)
    /\ requests' = requests \ {t}
    /\ Signal(<<Event(IF error THEN "Rejected" ELSE "Submitted", t, 0)>>)
    /\ UNCHANGED <<wallet, book, published, answers, submits, network, process>>

\* bwmAnnounceTransaction, for a request that is current or not.
AnnounceTransaction(t, h, current) ==
    /\ Room /\ mode = "API" /\ t \in network /\ h \in {0} \cup Blocks
    /\ Signal(<<Event(IF current THEN "Transaction" ELSE "LateTransaction", t, h)>>)
    /\ UNCHANGED <<wallet, book, submission, network, process>>

-----------------------------------------------------------------------------
\* The user.

\* BRWalletManagerCreateTransaction
Create(t) ==
    /\ Room /\ t \in Made \ network /\ record[t].is = "none"
    /\ record' = [record EXCEPT ![t].is = "unsigned"]
    /\ Signal(<<Event("CREATED", t, 0)>>)
    /\ UNCHANGED <<wallet, transfer, submission, network, process>>

\* BRWalletManagerSignTransaction
Sign(t) ==
    /\ Room /\ record[t].is = "unsigned"
    /\ record' = [record EXCEPT ![t].is = "signed"]
    /\ Signal(<<Event("SIGNED", t, 0)>>)
    /\ UNCHANGED <<wallet, transfer, submission, network, process>>

\* BRWalletManagerSubmitTransaction, the first time or after an error.
Submits(t) ==
    /\ Room /\ t \in Made /\ record[t].is = "signed" /\ submits[t] < MaxSubmits
    /\ (submits[t] = 0 /\ ~record[t].refed) \/ transfer[t] = "ERRORED"
    /\ submits' = [submits EXCEPT ![t] = @ + 1]
    /\ UNCHANGED <<wallet, book, answers, network, process>>

\* Neither of the sync managers is connected.
SubmitOffline(t) ==
    /\ Submits(t)
    /\ Signal(SubmitEvent(t, TRUE))
    /\ UNCHANGED <<published, requests>>

\* BRClientSyncManagerSubmit
SubmitToClient(t) ==
    /\ Submits(t) /\ mode = "API"
    /\ requests' = requests \cup {t}
    /\ UNCHANGED <<queue, published>>

\* BRPeerManagerPublishTx: what is listed already keeps the callback it has.
PublishTx(t) ==
    /\ Submits(t) /\ mode = "P2P"
    /\ published' = [published EXCEPT ![t] =
                        IF @ = "no" /\ record[t].height = Unconfirmed THEN "pending" ELSE @]
    /\ UNCHANGED <<queue, requests>>

\* BRWalletManagerSetMode waits for the peers' threads.  What is pending without
\* a peer goes with the manager.
SetMode ==
    /\ Running /\ answers = {}
    /\ mode' = IF mode = "P2P" THEN "API" ELSE "P2P"
    /\ published' = [t \in Tx |-> "no"]
    /\ UNCHANGED <<wallet, book, queue, answers, requests, submits, network, failed, restarts>>

\* BRWalletManagerNew on what is on file, after the process or the manager ended.

\* Mutant: loaded transactions are not told of.
Loaded_Silent(txs) == <<>>
Loaded(txs) ==
    [i \in 1 .. 2 * Cardinality(txs) |->
         LET t == SetToSeq(txs)[(i + 1) \div 2]
         IN  IF i % 2 = 1 THEN Event("ADDED", t, 0) ELSE Event("UPDATED", t, wallet.height[t])]

Restart ==
    /\ restarts < MaxRestarts
    /\ restarts' = restarts + 1
    /\ mode' \in {"P2P", "API"}
    /\ LET w  == wallet.saved
           at == [t \in Tx |-> IF t \in w THEN wallet.height[t] ELSE Unconfirmed]
       IN  /\ wallet' = [known |-> w, listed |-> w, saved |-> w, height |-> at]
           /\ record' = [t \in Tx |-> IF t \in w THEN [is |-> "signed", refed |-> TRUE, height |-> at[t]]
                                      ELSE NoRecord]
           /\ queue' = Loaded(w)
    /\ transfer' = [t \in Tx |-> "none"]
    /\ published' = [t \in Tx |-> "no"] /\ answers' = {} /\ requests' = {}
    /\ submits' = [t \in Tx |-> 0]
    /\ \E arrived \in SUBSET requests : network' = network \cup arrived
    /\ failed' = "none"

-----------------------------------------------------------------------------
\* The event thread.  A handler takes its event; what it signals goes behind
\* all that waits.  An assertion that does not hold ends the process.

e == Head(queue)
Handles(name) == Running /\ queue # <<>> /\ e.name = name
Handled(events) == queue' = Tail(queue) \o events
Asserts(holds, assertion) == failed' = IF holds THEN failed ELSE assertion

\* bwmHandleTxAdded
TxAdded ==
    /\ Handles("TxAdded")
    /\ Asserts(record[e.tx].is = "signed" => ~record[e.tx].refed, "referenced")
    /\ record' = [record EXCEPT ![e.tx] = [is |-> "signed", refed |-> TRUE, height |-> e.height]]
    /\ Handled(<<Event("ADDED", e.tx, 0), Event("UPDATED", e.tx, e.height)>>)
    /\ UNCHANGED <<mode, wallet, transfer, submission, network, restarts>>

\* bwmHandleTxUpdated, bwmHandleTxDeleted
TxUpdated ==
    /\ Handles("TxUpdated")
    /\ Asserts(record[e.tx].is = "signed", "recorded")
    /\ record' = [record EXCEPT ![e.tx].height = e.height]
    /\ Handled(<<Event("UPDATED", e.tx, e.height)>>)
    /\ UNCHANGED <<mode, wallet, transfer, submission, network, restarts>>

TxDeleted ==
    /\ Handles("TxDeleted")
    /\ Asserts(record[e.tx].is = "signed", "recorded")
    /\ record' = [record EXCEPT ![e.tx].is = "deleted"]
    /\ Handled(<<Event("DELETED", e.tx, 0)>>)
    /\ UNCHANGED <<mode, wallet, transfer, submission, network, restarts>>

\* A transfer's state after an UPDATED at height h.

\* Mutant: a transfer that is included stays so.
StateAt_Final(state, h) == IF h \in Blocks THEN "INCLUDED" ELSE
                           IF state = "INCLUDED" THEN state ELSE "SUBMITTED"
StateAt(state, h) == IF h \in Blocks THEN "INCLUDED" ELSE "SUBMITTED"

\* cwmTransactionEventAsBTC: the events that create, change and delete a
\* transfer, as the condition that is asserted and the state that is set.
TransferStep ==
    LET old == transfer[e.tx]
        Becomes(holds, assertion, new) ==
            /\ Asserts(holds, assertion)
            /\ transfer' = [transfer EXCEPT ![e.tx] = new]
    IN  /\ \/ Handles("CREATED") /\ Becomes(old = "none", "found", "CREATED")
           \/ Handles("SIGNED")  /\ Becomes(old \notin {"none", "SIGNED"}, "found", "SIGNED")
           \/ Handles("ADDED")   /\ Becomes(TRUE, "", IF old = "none" THEN "CREATED" ELSE old)
           \/ Handles("UPDATED") /\ Becomes(old # "none", "found", StateAt(old, e.height))
           \/ Handles("DELETED") /\ Becomes(old # "none", "found", "none")
        /\ Handled(<<>>)
        /\ UNCHANGED <<mode, wallet, record, submission, network, restarts>>

\* cwmWalletEventAsBTC
SubmitAnswered ==
    LET old == transfer[e.tx]
    IN  /\ \/ /\ Handles("SUBMIT_SUCCEEDED")
              /\ Asserts(old \notin {"none", "SUBMITTED"}, IF old = "none" THEN "answered" ELSE "submitted")
              /\ transfer' = [transfer EXCEPT ![e.tx] = "SUBMITTED"]
           \/ /\ Handles("SUBMIT_FAILED")
              /\ Asserts(old # "none", "answered")
              /\ transfer' = [transfer EXCEPT ![e.tx] = "ERRORED"]
        /\ Handled(<<>>)
        /\ UNCHANGED <<mode, wallet, record, submission, network, restarts>>

\* bwmHandleAnnounceSubmit, which the sync manager over peers ignores.
HandleAnnounceSubmit ==
    LET success == e.name = "Submitted"
        heard   == mode = "API" /\ record[e.tx].is = "signed"
    IN  /\ Handles("Submitted") \/ Handles("Rejected")
        /\ wallet' = IF heard /\ success THEN Registered(wallet, e.tx) ELSE wallet
        /\ Handled(IF ~heard THEN <<>>
                   ELSE (IF success THEN Added(wallet, e.tx) ELSE <<>>) \o SubmitEvent(e.tx, ~success))
        /\ UNCHANGED <<book, submission, network, process>>

\* bwmHandleAnnounceTransaction: an answer that comes late may update only.
HandleAnnounceTransaction ==
    LET w   == IF e.name = "Transaction" THEN Registered(wallet, e.tx) ELSE wallet
        txs == Changed(w, {e.tx}, e.height)
    IN  /\ Handles("Transaction") \/ Handles("LateTransaction")
        /\ wallet' = IF mode = "API" THEN Updated(w, txs, e.height) ELSE wallet
        /\ Handled(IF mode # "API" THEN <<>>
                   ELSE (IF w = wallet THEN <<>> ELSE Added(wallet, e.tx)) \o UpdatedEvents(txs, e.height))
        /\ UNCHANGED <<book, submission, network, process>>

Dispatch ==
    \/ TxAdded \/ TxUpdated \/ TxDeleted \/ TransferStep \/ SubmitAnswered
    \/ HandleAnnounceSubmit \/ HandleAnnounceTransaction

-----------------------------------------------------------------------------
Next ==
    \/ \E t \in Tx : \/ RequestedTx(t) \/ RelayedTx(t) \/ PublishFails(t)
                     \/ RelayCounted(t) \/ RemoveTransaction(t) \/ Accepted(t)
                     \/ Create(t) \/ Sign(t)
                     \/ SubmitOffline(t) \/ SubmitToClient(t) \/ PublishTx(t)
    \/ \E a \in answers : TxPublished(a)
    \/ \E txs \in SUBSET Tx, h \in Blocks : RelayedBlock(txs, h)
    \/ \E h \in 0 .. MaxHeight : Reorganisation(h)
    \/ \E t \in Tx, error \in BOOLEAN : AnnounceSubmit(t, error)
    \/ \E t \in Tx, h \in 0 .. MaxHeight, current \in BOOLEAN : AnnounceTransaction(t, h, current)
    \/ SetMode
    \/ Restart
    \/ Dispatch

\* The event thread goes on while the process does.
Spec == Init /\ [][Next]_vars /\ WF_vars(Dispatch)

-----------------------------------------------------------------------------
\* Properties

Waits(t, names) == \E i \in 1 .. Len(queue) : queue[i].tx = t /\ queue[i].name \in names

WalletEvents == {"TxAdded", "TxUpdated", "TxDeleted"}
TransferEvents == {"CREATED", "SIGNED", "ADDED", "UPDATED", "DELETED"}

\* A transaction is added once and every event about a transfer finds it as the
\* assertions of the handlers demand, whoever makes, relays, submits, removes
\* or announces it, in whatever order.  (The ones left out are broken, see
\* SubmittedOnce, and the record of a removed transaction that is updated.)
AssertionsKept == failed \notin {"referenced", "found"}

\* Once the wallet's callbacks are handled the records are those of the
\* wallet's transactions, at its heights: what the wallet manager answers from
\* them (the send to sync from) is about the chain the wallet is on.
RecordsAgree ==
    \A t \in Tx : Running /\ ~Waits(t, WalletEvents) =>
        /\ t \in wallet.listed <=> record[t].is = "signed" /\ record[t].refed
        /\ t \in wallet.listed => record[t].height = wallet.height[t]

\* When nothing waits, the application is shown what the wallet has: each
\* transaction as a transfer, included when it is in a block, and none but those
\* and the ones the user makes.
TransfersAgree ==
    \A t \in Tx : Running /\ submits[t] = 0 /\ ~Waits(t, WalletEvents \cup TransferEvents) =>
        IF t \in wallet.listed
        THEN transfer[t] = IF wallet.height[t] \in Blocks THEN "INCLUDED" ELSE "SUBMITTED"
        ELSE \/ record[t].is = "unsigned" /\ transfer[t] = "CREATED"
             \/ record[t].is = "signed" /\ transfer[t] = "SIGNED"
             \/ record[t].is \notin {"unsigned", "signed"} /\ transfer[t] = "none"

\* The application learns of every transaction the wallet keeps, after a
\* restart too, unless an assertion ends the process first.
EveryTxIsTold ==
    \A t \in Tx : t \in wallet.listed ~>
        (transfer[t] # "none" \/ t \notin wallet.listed \/ failed # "none")

\* "assert (CRYPTO_TRANSFER_STATE_SUBMITTED != oldState.type)": a success is
\* reported for what is not shown as submitted yet.
SubmittedOnce == failed # "submitted"
=============================================================================
