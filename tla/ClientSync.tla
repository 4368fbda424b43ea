----------------------------- MODULE ClientSync -----------------------------
(***************************************************************************)
(* The sync manager that asks a block chain service, through a client of   *)
(* the application, for the wallet's transactions (bitcoin/BRSyncManager.c, *)
(* CRYPTO_SYNC_MODE_API_ONLY), with the wallet manager that owns it         *)
(* (bitcoin/BRWalletManager.c).  Every operation here runs under the wallet *)
(* manager's lock, whether a caller or the event handler makes it, so it is *)
(* one step.  The client answers a request when it likes, at most once, or  *)
(* never; it announces transactions one at a time and then completion, and  *)
(* the service may lag Lag blocks behind the chain.                         *)
(*                                                                          *)
(* The wallet is the set of transactions registered and one chain of        *)
(* addresses, numbered from 0 in the order in which they are derived; a     *)
(* transaction uses one address.  Epoch, crossed and skipped are history:   *)
(* epoch numbers the sync managers that one wallet manager makes.           *)
(*                                                                          *)
(* An operator X_Y is X with the mistake Y in it; no specification uses it. *)
(***************************************************************************)
EXTENDS Integers, FiniteSets, FiniteSetsExt, SyncEvents

CONSTANTS
    Txs,          \* the wallet's transactions, past and future
    Address,      \* [Txs -> Nat]: the address each of them uses
    Gap,          \* SEQUENCE_GAP_LIMIT_EXTERNAL
    Offset,       \* BWM_BRD_SYNC_START_BLOCK_OFFSET
    Lag,          \* how far the service may be behind
    Checkpoint,   \* height of the checkpoint before earliestKeyTime
    MaxHeight,    \* bound: blocks that are mined
    MaxRid,       \* bound: requests a sync manager makes
    MaxEpochs,    \* bound: changes of mode
    MaxDue        \* bound: requests that wait for the client; one submission does

ASSUME ConstantsAssumption ==
    /\ Address \in [Txs -> Nat] /\ Gap \in Nat \ {0}
    /\ {Offset, Lag, Checkpoint, MaxHeight, MaxRid, MaxEpochs, MaxDue} \subseteq Nat
    /\ Lag <= Offset /\ Checkpoint <= MaxHeight /\ IsFiniteSet(Txs)

VARIABLES
    mode,      \* manager->mode of the wallet manager: "api" or "p2p"
    m,         \* the client sync manager
    told,      \* what its events have told the owner
    wallet,    \* the transactions that the wallet has registered
    requests,  \* getTransactions requests that are not completed
    sent,      \* transactions submitted and not yet announced
    tip,       \* height of the chain
    mined,     \* [Txs -> height, 0 if not in a block]
    epoch,     \* sync managers made so far
    crossed,   \* an answer to one sync manager was taken by another
    skipped    \* a scan of the manager began above a block that the service may
               \* not have looked up for the scan before

vars == <<mode, m, told, wallet, requests, sent, tip, mined, epoch, crossed, skipped>>
chain == <<tip, mined>>

Unbounded == MaxHeight + 1      \* BLOCK_HEIGHT_UNBOUND
Least(a, b) == IF a < b THEN a ELSE b
Greatest(a, b) == IF a > b THEN a ELSE b

FirstUnused(w) == IF w = {} THEN 0 ELSE Max({Address[t] : t \in w}) + 1
Derived(w) == 0 .. FirstUnused(w) + Gap - 1

NoScan == [rid |-> 0, beg |-> 0, end |-> 0, full |-> FALSE, first |-> 0, known |-> {}]

NewManager(blockHeight) ==
    [connected |-> FALSE,
     init      |-> Least(Checkpoint, blockHeight),
     network   |-> Greatest(Checkpoint, blockHeight),
     synced    |-> Least(Checkpoint, blockHeight),
     rid       |-> 0,
     scan      |-> NoScan]

\* Nothing of the wallet is in the blocks up to the checkpoint.
Init ==
    /\ mode = "api"
    /\ \E h \in 0 .. Checkpoint : m = NewManager(h)
    /\ told = "disconnected" /\ wallet = {} /\ requests = {} /\ sent = {}
    /\ tip = Checkpoint /\ mined = [t \in Txs |-> 0]
    /\ epoch = 1 /\ crossed = FALSE /\ skipped = FALSE

-----------------------------------------------------------------------------
\* The parts that the operations share: asking for the height, and starting a
\* scan unless one is in progress.

BlockNumberAsked(n) == IF n.connected THEN [n EXCEPT !.rid = @ + 1] ELSE n

ScanEnd(n) == Greatest(n.synced, n.network) + 1
ScanBegin(n) == Least(n.synced, IF ScanEnd(n) >= Offset THEN ScanEnd(n) - Offset ELSE 0)

NewScan(n) ==
    [rid   |-> n.rid + 1,
     beg   |-> ScanBegin(n),
     end   |-> ScanEnd(n),
     full  |-> ScanEnd(n) - ScanBegin(n) > Offset,
     first |-> FirstUnused(wallet),
     known |-> Derived(wallet)]

Query(scan, addresses) ==
    [rid |-> scan.rid, epoch |-> epoch, addresses |-> addresses, beg |-> scan.beg,
     end |-> IF scan.full THEN scan.end ELSE Unbounded, answered |-> FALSE, todo |-> {}]

ScansNow(n) == n.connected /\ n.scan.rid = 0

\* The service may have been Lag blocks behind when n came to its height: the new
\* scan leaves out some of them.
Skips(n) == ScanBegin(n) > Greatest(n.synced - Lag, Checkpoint) + 1

\* BRClientSyncManagerUpdateBlockNumber and ...UpdateTransactions, for a manager
\* n and an owner in state o.
Update(n, o) ==
    LET b    == BlockNumberAsked(n)
        scan == NewScan(b)
    IN  IF ScansNow(b)
        THEN /\ m' = [b EXCEPT !.rid = @ + 1, !.scan = scan]
             /\ told' = Told(o, "SYNC_STARTED", scan.full)
             /\ requests' = requests \cup {Query(scan, scan.known)}
             /\ skipped' = (skipped \/ Skips(b))
        ELSE /\ m' = b
             /\ told' = o
             /\ UNCHANGED <<requests, skipped>>

RidsLeft == m.rid + 2 <= MaxRid /\ Cardinality(requests) < MaxDue

-----------------------------------------------------------------------------
\* What the owner calls.

Connect ==
    /\ mode = "api" /\ RidsLeft
    /\ Update([m EXCEPT !.connected = TRUE], Told(told, "CONNECTED", ~m.connected))
    /\ UNCHANGED <<mode, wallet, sent, chain, epoch, crossed>>

\* The owner after a scan that ends, and after a connection that ends with it.
ScanStopped == Told(told, "SYNC_STOPPED", m.scan.full)
Dropped_NoStop == Told(told, "DISCONNECTED", m.connected)
Dropped == Told(ScanStopped, "DISCONNECTED", m.connected)

Wiped(n) == [n EXCEPT !.scan = NoScan]
Disconnected_Renumbers == Wiped([m EXCEPT !.connected = FALSE, !.rid = 0])
Disconnected == Wiped([m EXCEPT !.connected = FALSE])

Disconnect ==
    /\ mode = "api" /\ m.connected
    /\ m' = Disconnected
    /\ told' = Dropped
    /\ UNCHANGED <<mode, wallet, requests, sent, chain, epoch, crossed, skipped>>

\* The heights a scan may be asked to go back to: the creation, the last trusted
\* block or the last confirmed send.
Depths == {0, Checkpoint} \cup {mined[t] : t \in wallet}

Rewound(n, depth) == [n EXCEPT !.synced = Greatest(n.init, Least(depth, @))]

ScanToDepth ==
    /\ mode = "api" /\ RidsLeft
    /\ IF m.connected
       THEN \E d \in Depths :
                Update(Rewound(Wiped(m), d), After(Dropped, "CONNECTED"))
       ELSE Update(m, told)
    /\ UNCHANGED <<mode, wallet, sent, chain, epoch, crossed>>

TickTock ==
    /\ mode = "api" /\ RidsLeft
    /\ Update(m, told)
    /\ UNCHANGED <<mode, wallet, sent, chain, epoch, crossed>>

\* A transaction of the wallet's own; its change goes to an unused address.
Submit ==
    /\ mode = "api" /\ m.connected /\ m.rid < MaxRid /\ sent = {}
    /\ \E t \in Txs \ (wallet \cup sent) :
           /\ mined[t] = 0 /\ Address[t] = FirstUnused(wallet)
           /\ sent' = sent \cup {t}
    /\ m' = [m EXCEPT !.rid = @ + 1]
    /\ UNCHANGED <<mode, told, wallet, requests, chain, epoch, crossed, skipped>>

\* The mode changes to the bitcoin network's and back.  Meanwhile the height may
\* have grown; the manager that is made then knows no request of the old one.
SetMode ==
    \/ /\ mode = "api" /\ epoch < MaxEpochs
       /\ mode' = "p2p" /\ m' = Disconnected /\ told' = Dropped
       /\ UNCHANGED <<wallet, requests, sent, chain, epoch, crossed, skipped>>
    \/ /\ mode = "p2p"
       /\ mode' = "api"
       /\ \E h \in m.network .. tip : m' = NewManager(h)
       /\ epoch' = epoch + 1 /\ skipped' = FALSE
       /\ UNCHANGED <<told, wallet, requests, sent, chain, crossed>>

-----------------------------------------------------------------------------
\* What the client announces.

AnnounceGetBlockNumber ==
    /\ mode = "api" /\ m.connected
    /\ \E h \in m.network + 1 .. tip : m' = [m EXCEPT !.network = h]
    /\ UNCHANGED <<mode, told, wallet, requests, sent, chain, epoch, crossed, skipped>>

\* Registers what uses an address of the wallet and ignores the rest.
Registered(w, t) == IF Address[t] \in Derived(w) THEN w \cup {t} ELSE w

IsCurrent(q) == mode = "api" /\ q.rid = m.scan.rid /\ m.connected

Crosses(q) == crossed \/ (IsCurrent(q) /\ q.epoch # epoch)

\* The service looks up the transactions in the range, up to its own height.
Answer(q) ==
    /\ ~q.answered
    /\ \E h \in Greatest(0, tip - Lag) .. tip :
           LET found == {t \in Txs : /\ Address[t] \in q.addresses
                                     /\ mined[t] \in Greatest(1, q.beg) .. Least(h, q.end - 1)}
           IN  requests' = (requests \ {q}) \cup {[q EXCEPT !.answered = TRUE, !.todo = found]}
    /\ UNCHANGED <<mode, m, told, wallet, sent, chain, epoch, crossed, skipped>>

AnnounceGetTransactionsItem(q) ==
    /\ \E t \in q.todo :
           /\ wallet' = IF IsCurrent(q) THEN Registered(wallet, t) ELSE wallet
           /\ requests' = (requests \ {q}) \cup {[q EXCEPT !.todo = @ \ {t}]}
    /\ crossed' = Crosses(q)
    /\ UNCHANGED <<mode, m, told, sent, chain, epoch, skipped>>

\* Addresses derived since they were last looked at, or none if no address was
\* used in between.
NewAddresses_None == {}
NewAddresses == IF FirstUnused(wallet) = m.scan.first THEN {} ELSE Derived(wallet) \ m.scan.known

\* The scan goes on with the addresses that it brought to light.
Requeries(q) ==
    /\ m' = [m EXCEPT !.scan.first = FirstUnused(wallet), !.scan.known = @ \cup Derived(wallet)]
    /\ requests' = (requests \ {q}) \cup {Query(m.scan, NewAddresses)}
    /\ UNCHANGED told

Completes_Silent(q) ==
    /\ m' = Wiped([m EXCEPT !.synced = m.scan.end - 1])
    /\ requests' = requests \ {q}
    /\ UNCHANGED told

Completes(q) ==
    /\ m' = Wiped([m EXCEPT !.synced = m.scan.end - 1])
    /\ told' = ScanStopped
    /\ requests' = requests \ {q}

Fails(q) ==
    /\ m' = Disconnected
    /\ told' = Dropped
    /\ requests' = requests \ {q}

Ignored(q) ==
    /\ requests' = requests \ {q}
    /\ UNCHANGED <<m, told>>

AnnounceGetTransactionsDone(q) ==
    /\ \/ /\ q.answered /\ q.todo = {} /\ IsCurrent(q) /\ NewAddresses # {}
          /\ Requeries(q)
       \/ /\ q.answered /\ q.todo = {} /\ IsCurrent(q) /\ NewAddresses = {}
          /\ Completes(q)
       \/ IsCurrent(q) /\ Fails(q)
       \/ ~IsCurrent(q) /\ Ignored(q)
    /\ crossed' = Crosses(q)
    /\ UNCHANGED <<mode, wallet, sent, chain, epoch, skipped>>

\* Does not look at the request; in the other mode it goes unnoticed.
AnnounceSubmitTransaction ==
    \E t \in sent, error \in BOOLEAN :
        /\ sent' = sent \ {t}
        /\ wallet' = IF mode = "api" /\ ~error THEN Registered(wallet, t) ELSE wallet
        /\ UNCHANGED <<mode, m, told, requests, chain, epoch, crossed, skipped>>

-----------------------------------------------------------------------------
\* A block is mined.  Payments reach addresses that a wallet with the same seed
\* has handed out by then.
Mine ==
    /\ tip < MaxHeight
    /\ tip' = tip + 1
    /\ \E new \in SUBSET {t \in Txs : mined[t] = 0} :
           /\ \A t \in new :
                 Address[t] \in Derived(wallet \cup {u \in Txs : mined[u] # 0}
                                       \cup {u \in new : Address[u] < Address[t]})
           /\ mined' = [t \in Txs |-> IF t \in new THEN tip + 1 ELSE mined[t]]
    /\ UNCHANGED <<mode, m, told, wallet, requests, sent, epoch, crossed, skipped>>

Owns == Connect \/ Disconnect \/ ScanToDepth \/ TickTock \/ Submit \/ SetMode

Answers ==
    \E q \in requests :
        Answer(q) \/ AnnounceGetTransactionsItem(q) \/ AnnounceGetTransactionsDone(q)

Next == Owns \/ AnnounceGetBlockNumber \/ Answers \/ AnnounceSubmitTransaction \/ Mine

\* The client answers in the end; what it announces waits in the queue of the
\* wallet manager's event handler, whose thread runs.
Fairness == WF_vars(Answers)

Spec == Init /\ [][Next]_vars /\ Fairness

-----------------------------------------------------------------------------
\* Whatever the order of calls and answers, the state that the last event gave the
\* owner (BRCryptoWalletManagerClient.c, 225-285) is the manager's: no event is
\* missing, sent twice or out of its turn, also when a scan is cut short.
OwnerAgrees ==
    told = (IF ~m.connected THEN "disconnected" ELSE IF m.scan.full THEN "syncing" ELSE "connected")

\* A sync manager waits for one answer to a number at most, although a scan asks
\* again under its number when it has found new addresses.
OneAnswerDue ==
    ~crossed => \A p, q \in requests : p.epoch = epoch /\ q.epoch = epoch /\ p.rid = q.rid => p = q

\* What a scan reports as done is done.  Up to the height synced, less the blocks
\* the service may lag, the wallet has every transaction of its chain of addresses,
\* those too that were only derived while it scanned (BRSyncManager.c, 1281-1311).
\* A scan that skips blocks (1487) may miss what is in them.
NothingMissed ==
    ~crossed /\ ~skipped
        => \A t \in Txs : mined[t] # 0 /\ mined[t] + Lag <= m.synced => t \in wallet

\* A full scan that was announced ends, and the owner is told (BRSyncManager.c, 1306
\* and 1318), if the client answers.
ScansEnd == told = "syncing" ~> told # "syncing"
=============================================================================
