---------------------------- MODULE PeerManager ----------------------------
(***************************************************************************)
(* The peer manager of the bitcoin network (bitcoin/BRPeerManager.c) and the *)
(* threads of its peers (bitcoin/BRPeer.c).  Its caller holds a lock, so    *)
(* there is one at a time.  What is done under the peer manager's lock is a *)
(* step.  What a thread does after it has let go of the lock is in todo, in *)
(* order: callbacks of the owner, and connecting anew.                      *)
(*                                                                          *)
(* A peer is a place for one: it is free again when its thread has ended.   *)
(* Chains are heights.  There is one transaction; each submission of it has *)
(* a number.  Creating a thread does not fail.                              *)
(***************************************************************************)
EXTENDS Integers, FiniteSets, SequencesExt, ManagedPeers

CONSTANTS
    User,            \* the thread of the caller
    NoPeer,
    MaxPeers,        \* PEER_MAX_CONNECTIONS
    MaxFailures,     \* MAX_CONNECT_FAILURES
    Submissions,     \* of the transaction
    NoSubmission,
    MaxHeight,       \* bound: blocks of the chain
    MaxCalls         \* bound: calls of the caller

\* What a thread has to do next is one of these, or to report a submission.
AnyError == {"ECONNRESET", "ETIMEDOUT", "EPROTO"}
Steps == {"Connected", "Message", "LoadFilterFailed", "Cleanup", "Started", "Stopped",
          "Connect", "Continue", "LookedUp", "Wait", "List"} \cup AnyError

ASSUME ConstantsAssumption ==
    /\ IsFiniteSet(Peers) /\ NoPeer \notin Peers /\ User \notin Peers
    /\ NoSubmission \notin Submissions /\ Submissions \cap Steps = {}
    /\ {MaxPeers, MaxFailures, MaxHeight, MaxCalls} \subseteq Nat
    /\ MaxPeers \in 1 .. Cardinality(Peers) /\ MaxFailures > 0

VARIABLES
    connectedPeers, connectFailureCount, maxConnectCount,
    syncing,          \* syncStartHeight > 0
    lastHeight,       \* lastBlock->height
    peerThreadCount,
    published,        \* the transaction is in publishedTx
    callback,         \* the submission whose callback is there, or NoSubmission
    status,           \* [Peers -> BRPeerStatus]
    thread,           \* [Peers -> what the peer's thread is at]
    lastblock,        \* [Peers -> height the peer reported]
    timer,            \* [Peers -> a sync or publish timeout is scheduled]
    awaited,          \* [Peers -> callbacks that wait for its pong or its mempool]
    online,           \* isNetworkReachable
    todo,             \* [Threads -> what the thread does next without the lock]
    submitted,        \* submissions made
    reports,          \* [Submissions -> times they were reported]
    calls             \* the caller made

pm == <<downloadPeer, connectFailureCount, maxConnectCount, syncing, lastHeight,
        estimatedHeight>>
peer == <<connectedPeers, peerThreadCount, status, thread, lastblock, timer, awaited>>
publish == <<published, callback, submitted, reports>>
vars == <<pm, peer, publish, online, todo, calls>>

Threads == Peers \cup {User}

\* A thread is none, starting (it has no socket yet), opening, up or ending.
Alive(p) == thread[p] # "none"
HasSocket(p) == thread[p] \in {"opening", "up"}

Init ==
    /\ connectedPeers = {} /\ downloadPeer = NoPeer /\ connectFailureCount = 0
    /\ maxConnectCount = MaxPeers /\ syncing = FALSE /\ lastHeight = 0
    /\ estimatedHeight = 0 /\ peerThreadCount = 0
    /\ published = FALSE /\ callback = NoSubmission
    /\ status = [p \in Peers |-> "Disconnected"] /\ thread = [p \in Peers |-> "none"]
    /\ lastblock = [p \in Peers |-> 0] /\ timer = [p \in Peers |-> FALSE]
    /\ awaited = [p \in Peers |-> {}]
    /\ online \in BOOLEAN
    /\ todo = [x \in Threads |-> <<>>]
    /\ calls = 0 /\ submitted = {} /\ reports = [s \in Submissions |-> 0]

-----------------------------------------------------------------------------
\* Parts of the handlers.

Does(x, what) == todo[x] # <<>> /\ Head(todo[x]) = what
Idle == todo[User] = <<>>
Called == Idle /\ calls < MaxCalls /\ calls' = calls + 1
Then(x, next) ==
    todo' = [todo EXCEPT ![x] = next \o (IF @ = <<>> THEN <<>> ELSE Tail(@))]
Calls(next) == todo' = [todo EXCEPT ![User] = next]

\* BRPeerDisconnect for the peers of a set: one without a socket does not notice.
Disconnected(ps) ==
    [p \in Peers |-> IF p \in ps /\ HasSocket(p) THEN "Disconnected" ELSE status[p]]

Timer(p, on) == timer' = [timer EXCEPT ![p] = on]

\* _BRPeerManagerSyncStopped; it keeps the timeout of a publication.
SyncStopped ==
    /\ syncing' = FALSE
    /\ IF downloadPeer = NoPeer \/ callback # NoSubmission
       THEN UNCHANGED timer
       ELSE Timer(downloadPeer, FALSE)

\* BRPeerConnect for the peers of a set, which are disconnected or waiting.
Connecting(ps) ==
    /\ status' = [p \in Peers |-> IF p \in ps THEN "Connecting" ELSE status[p]]
    /\ thread' = [p \in Peers |-> IF p \in ps /\ online THEN "starting" ELSE thread[p]]

-----------------------------------------------------------------------------
\* BRPeerManagerConnect, which the caller and the threads of peers run.

\* The caller connects when it likes, and goes on when it has asked for a rescan.
Connects(x) == (Does(x, "Connect") /\ UNCHANGED calls) \/ (x = User /\ Called)

Retried ==
    IF connectFailureCount >= MaxFailures THEN 0 ELSE connectFailureCount

StartsSync == ~syncing /\ (downloadPeer = NoPeer \/ lastHeight < estimatedHeight)

StartSync(x) ==
    /\ Connects(x) /\ StartsSync
    /\ connectFailureCount' = Retried
    /\ syncing' = TRUE
    /\ Then(x, <<"Started", "Continue">>)
    /\ UNCHANGED <<downloadPeer, maxConnectCount, lastHeight, estimatedHeight, peer,
                   publish, online>>

WaitsForNetwork == {p \in connectedPeers : status[p] = "Connecting" /\ ~Alive(p)}

\* Peers are taken on while there is room, as far as some are known.
TakesOn(x, retried) ==
    \E new \in SUBSET {p \in Peers \ connectedPeers : ~Alive(p)} :
        /\ new # {} => Cardinality(connectedPeers \cup new) <= maxConnectCount
        /\ connectedPeers' = connectedPeers \cup new
        /\ peerThreadCount' = peerThreadCount + Cardinality(new)
        /\ Connecting(new \cup retried)
        /\ IF connectedPeers \cup new = {}
           THEN SyncStopped /\ Then(x, <<"Stopped">>)
           ELSE Then(x, <<>>) /\ UNCHANGED <<syncing, timer>>

\* Those that wait for the network are tried again.  The lock is let go of if addresses
\* have to be looked up.
ConnectPeers(x) ==
    /\ \/ Connects(x) /\ ~StartsSync /\ connectFailureCount' = Retried
       \/ Does(x, "Continue") /\ UNCHANGED <<connectFailureCount, calls>>
    /\ \/ TakesOn(x, WaitsForNetwork)
       \/ /\ Cardinality(connectedPeers) < maxConnectCount
          /\ Connecting(WaitsForNetwork)
          /\ Then(x, <<"LookedUp">>)
          /\ UNCHANGED <<connectedPeers, peerThreadCount, syncing, timer>>
    /\ UNCHANGED <<downloadPeer, maxConnectCount, lastHeight, estimatedHeight, lastblock,
                   awaited, publish, online>>

FindPeers(x) ==
    /\ Does(x, "LookedUp")
    /\ TakesOn(x, {})
    /\ UNCHANGED <<downloadPeer, connectFailureCount, maxConnectCount, lastHeight,
                   estimatedHeight, lastblock, awaited, publish, online, calls>>

-----------------------------------------------------------------------------
\* What a thread tells the owner.

\* syncStarted, syncStopped; the owner is PeerSync.
CallsBack(x, what) ==
    /\ Does(x, what)
    /\ Then(x, <<>>)
    /\ UNCHANGED <<pm, peer, publish, online, calls>>

\* The callback of a submission.
TxPublished(x) ==
    /\ \E s \in Submissions :
           Does(x, s) /\ reports' = [reports EXCEPT ![s] = @ + 1]
    /\ Then(x, <<>>)
    /\ UNCHANGED <<pm, peer, published, callback, submitted, online, calls>>

-----------------------------------------------------------------------------
\* The thread of a peer and what the peer sends.

OpenSocket(p) ==
    /\ thread[p] = "starting"
    /\ thread' = [thread EXCEPT ![p] = "opening"]
    /\ UNCHANGED <<pm, connectedPeers, peerThreadCount, status, lastblock, timer, awaited,
                   publish, online, todo, calls>>

\* _BRPeerDidConnect
DidConnect(p) ==
    /\ thread[p] = "opening" /\ status[p] = "Connecting"
    /\ thread' = [thread EXCEPT ![p] = "up"]
    /\ status' = [status EXCEPT ![p] = "Connected"]
    /\ Timer(p, FALSE)
    /\ \E h \in 0 .. MaxHeight : lastblock' = [lastblock EXCEPT ![p] = h]
    /\ todo' = [todo EXCEPT ![p] = <<"Connected">>]
    /\ UNCHANGED <<pm, connectedPeers, peerThreadCount, awaited, publish, online, calls>>

\* A message is read; it is handled even if the socket is closed meanwhile.
Read(p) ==
    /\ thread[p] = "up" /\ status[p] = "Connected" /\ todo[p] = <<>>
    /\ todo' = [todo EXCEPT ![p] = <<"Message">>]
    /\ UNCHANGED <<pm, peer, publish, online, calls>>

\* BRPeerSendFilterload with a ping, and BRPeerSendMempool, which is for once per
\* filter: another request is told that it failed, and its sender does nothing.
FilterLoaded(a) == (a \ {"asked"}) \cup {"LoadFilter"}
MempoolAsked(a) == IF a \cap {"asked", "Mempool"} = {} THEN a \cup {"asked", "Mempool"}
                   ELSE a \cup {"asked"}

\* _BRPeerManagerLoadMempools with download peer d and the peers in ps connected;
\* those in updated get a new filter first.  a is what is awaited, t the timeouts.
LoadMempools(d, ps, a, t) ==
    \E updated \in {ps, ps \ {d}} :
        /\ awaited' = [p \in Peers |->
               CASE p \in updated -> FilterLoaded(a[p])
                 [] p \in ps \ updated -> MempoolAsked(a[p])
                 [] OTHER -> a[p]]
        /\ timer' = [p \in Peers |-> t[p] \/ (p \in updated /\ callback # NoSubmission)]

Connected(st) == {p \in connectedPeers : st[p] = "Connected"}

\* _peerConnected: the peer may be of no use, or keep beside the download peer, or
\* one of those with the longest chain becomes the download peer.
PeerRefused(p) ==
    /\ status' = Disconnected({p})
    /\ UNCHANGED <<pm, connectedPeers, peerThreadCount, lastblock, timer, awaited>>

Sticks(p) ==
    /\ downloadPeer # NoPeer
    /\ lastblock[p] <= lastblock[downloadPeer] \/ lastblock[p] <= lastHeight

PeerKept(p) ==
    /\ IF lastblock[p] <= lastHeight
       THEN /\ connectFailureCount' = 0
            /\ awaited' = [awaited EXCEPT ![p] = FilterLoaded(@)]
            /\ Timer(p, timer[p] \/ callback # NoSubmission)
       ELSE UNCHANGED <<connectFailureCount, awaited, timer>>
    /\ UNCHANGED <<downloadPeer, maxConnectCount, syncing, lastHeight, estimatedHeight,
                   connectedPeers, peerThreadCount, status, thread, lastblock>>

PeerSelected(p) ==
    \E d \in Connected(status) \cup {p} :
        /\ \A q \in Connected(status) \cup {p} : lastblock[q] <= lastblock[d]
        /\ status' = Disconnected({downloadPeer})
        /\ downloadPeer' = d
        /\ estimatedHeight' = lastblock[d]
        /\ LET a == [awaited EXCEPT ![d] = @ \ {"asked"}]
               t == [timer EXCEPT ![d] = @ \/ callback # NoSubmission]
           IN  IF lastHeight < lastblock[d]
               THEN /\ Timer(d, TRUE) /\ awaited' = a
                    /\ UNCHANGED connectFailureCount
               ELSE /\ connectFailureCount' = 0
                    /\ LoadMempools(d, Connected(status'), a, t)
        /\ UNCHANGED <<maxConnectCount, syncing, lastHeight, connectedPeers,
                       peerThreadCount, thread, lastblock>>

PeerConnected(p) ==
    /\ Does(p, "Connected")
    /\ \/ PeerRefused(p) /\ UNCHANGED thread
       \/ Sticks(p) /\ PeerKept(p)
       \/ ~Sticks(p) /\ PeerSelected(p)
    /\ Then(p, <<>>)
    /\ UNCHANGED <<publish, online, calls>>

\* _loadBloomFilterDone, with the peer's pong.
LoadFilterDone(p) ==
    /\ Does(p, "Message") /\ "LoadFilter" \in awaited[p]
    /\ awaited' = [awaited EXCEPT ![p] = MempoolAsked(@ \ {"LoadFilter"})]
    /\ Then(p, <<>>)
    /\ UNCHANGED <<pm, connectedPeers, peerThreadCount, status, thread, lastblock, timer,
                   publish, online, calls>>

\* _mempoolDone
MempoolDone(p) ==
    /\ Does(p, "Message") /\ "Mempool" \in awaited[p]
    /\ awaited' = [awaited EXCEPT ![p] = @ \ {"Mempool"}]
    /\ IF syncing
       THEN SyncStopped /\ Then(p, <<"Stopped">>)
       ELSE Then(p, <<>>) /\ UNCHANGED <<syncing, timer>>
    /\ UNCHANGED <<downloadPeer, connectFailureCount, maxConnectCount, lastHeight,
                   estimatedHeight, connectedPeers, peerThreadCount, status, thread,
                   lastblock, publish, online, calls>>

\* _peerRelayedBlock, for a block that extends the main chain.  Bound: MaxHeight.
RelayedBlock(p) ==
    /\ Does(p, "Message") /\ lastHeight < MaxHeight
    /\ lastHeight' = lastHeight + 1
    /\ estimatedHeight' = IF lastHeight' > estimatedHeight THEN lastHeight' ELSE estimatedHeight
    /\ CASE lastHeight' < estimatedHeight /\ p = downloadPeer ->
              Timer(p, TRUE) /\ connectFailureCount' = 0 /\ UNCHANGED awaited
         [] lastHeight' = estimatedHeight ->
              LoadMempools(downloadPeer, Connected(status), awaited, timer)
              /\ UNCHANGED connectFailureCount
         [] OTHER -> UNCHANGED <<timer, connectFailureCount, awaited>>
    /\ Then(p, <<>>)
    /\ UNCHANGED <<downloadPeer, maxConnectCount, syncing, connectedPeers, peerThreadCount,
                   status, thread, lastblock, publish, online, calls>>

\* _BRPeerManagerPeerMisbehavin, for a block or a rejection that gives it away.
Misbehaves(p) ==
    /\ Does(p, "Message")
    /\ status' = Disconnected({p})
    /\ Then(p, <<>>)
    /\ UNCHANGED <<pm, connectedPeers, peerThreadCount, thread, lastblock, timer, awaited,
                   publish, online, calls>>

\* _peerHasTx, _peerRelayedTx and _peerRequestedTx, for the transaction.
Pending == IF callback = NoSubmission THEN <<>> ELSE <<callback>>

\* Mutant: the callback is called and stays.
HasTx_Keeps(p) ==
    /\ Does(p, "Message") /\ published
    /\ \E again \in BOOLEAN :
           Timer(p, syncing /\ p = downloadPeer /\ (timer[p] \/ again))
    /\ Then(p, Pending)
    /\ UNCHANGED <<pm, connectedPeers, peerThreadCount, status, thread, lastblock, awaited,
                   published, callback, submitted, reports, online, calls>>

HasTx(p) ==
    /\ Does(p, "Message") /\ published
    /\ callback' = NoSubmission
    /\ \E again \in BOOLEAN :
           Timer(p, syncing /\ p = downloadPeer /\ (timer[p] \/ again))
    /\ Then(p, Pending)
    /\ UNCHANGED <<pm, connectedPeers, peerThreadCount, status, thread, lastblock, awaited,
                   published, submitted, reports, online, calls>>

-----------------------------------------------------------------------------
\* The thread of a peer ends, with an error; one whose socket was closed soon does.
Closed(p) == HasSocket(p) /\ status[p] = "Disconnected"

Errors(p) ==
    {"ECONNRESET"}
        \cup (IF thread[p] = "opening" \/ timer[p] THEN {"ETIMEDOUT"} ELSE {})
        \cup (IF HasSocket(p) THEN {"EPROTO"} ELSE {})

End(p) ==
    /\ Alive(p) /\ thread[p] # "ending" /\ todo[p] = <<>>
    /\ thread' = [thread EXCEPT ![p] = "ending"]
    /\ status' = [status EXCEPT ![p] = "Disconnected"]
    /\ \E error \in Errors(p) :
           todo' = [todo EXCEPT ![p] = IF "LoadFilter" \in awaited[p]
                                       THEN <<"LoadFilterFailed", error>> ELSE <<error>>]
    /\ UNCHANGED <<pm, connectedPeers, peerThreadCount, lastblock, timer, awaited,
                   publish, online, calls>>

\* _loadBloomFilterDone, when the thread ends before the pong.
LoadFilterFailed(p) ==
    /\ Does(p, "LoadFilterFailed")
    /\ IF p = downloadPeer
       THEN SyncStopped /\ Then(p, <<"Stopped">>)
       ELSE Then(p, <<>>) /\ UNCHANGED <<syncing, timer>>
    /\ UNCHANGED <<downloadPeer, connectFailureCount, maxConnectCount, lastHeight,
                   estimatedHeight, connectedPeers, peerThreadCount, status, thread,
                   lastblock, awaited, publish, online, calls>>

\* _peerDisconnected; nothing is left of the peer.
Failures(p, error) ==
    LET n == connectFailureCount + (IF error = "EPROTO" THEN 0 ELSE 1)
    IN  IF p = downloadPeer /\ n > MaxFailures THEN MaxFailures ELSE n

\* Mutant: the pointer to the download peer outlives the peer.
Left_Dangling(p) == downloadPeer
Left(p) == IF p = downloadPeer THEN NoPeer ELSE downloadPeer

GivesUp(p, error) == Left(p) = NoPeer /\ Failures(p, error) = MaxFailures

Cancels(p, error) ==
    \/ GivesUp(p, error)
    \/ /\ error = "ETIMEDOUT"
       /\ p # downloadPeer \/ ~syncing \/ Cardinality(connectedPeers) = 1

PeerDisconnected(p, error) ==
    /\ Does(p, error)
    /\ connectFailureCount' = Failures(p, error)
    /\ downloadPeer' = Left(p)
    /\ syncing' = (syncing /\ ~GivesUp(p, error))
    /\ connectedPeers' = connectedPeers \ {p}
    /\ callback' = IF Cancels(p, error) THEN NoSubmission ELSE callback
    /\ Then(p, (IF Cancels(p, error) THEN Pending ELSE <<>>)
                \o (IF GivesUp(p, error) THEN <<"Stopped">>
                    ELSE IF Failures(p, error) < MaxFailures THEN <<"Connect">> ELSE <<>>)
                \o <<"Cleanup">>)
    /\ lastblock' = [lastblock EXCEPT ![p] = 0]
    /\ awaited' = [awaited EXCEPT ![p] = {}]
    /\ Timer(p, FALSE)
    /\ UNCHANGED <<maxConnectCount, lastHeight, estimatedHeight, peerThreadCount, status,
                   thread, published, submitted, reports, online, calls>>

\* _peerThreadCleanup
ThreadCleanup(p) ==
    /\ Does(p, "Cleanup")
    /\ peerThreadCount' = peerThreadCount - 1
    /\ thread' = [thread EXCEPT ![p] = "none"]
    /\ Then(p, <<>>)
    /\ UNCHANGED <<pm, connectedPeers, status, lastblock, timer, awaited, publish, online, calls>>

-----------------------------------------------------------------------------
\* What the caller asks for.

\* BRPeerManagerDisconnect.  A peer that is still connecting after it was told to
\* disconnect is taken to wait for the network, without a thread.

\* Mutant: such a peer stays in the count, and its thread is waited for.
Waiting_Counted == {}
Waiting == {p \in connectedPeers : Disconnected(connectedPeers)[p] = "Connecting"}

Disconnect ==
    /\ Called
    /\ maxConnectCount' = 0
    /\ connectFailureCount' = IF connectedPeers = {} THEN connectFailureCount ELSE MaxFailures
    /\ status' = Disconnected(connectedPeers)
    /\ peerThreadCount' = peerThreadCount - Cardinality(Waiting)
    /\ Calls(<<"Wait">>)
    /\ UNCHANGED <<downloadPeer, syncing, lastHeight, estimatedHeight, connectedPeers,
                   thread, lastblock, timer, awaited, publish, online>>

DisconnectReturns ==
    /\ Does(User, "Wait") /\ peerThreadCount <= 0
    /\ maxConnectCount' = MaxPeers
    /\ Calls(<<>>)
    /\ UNCHANGED <<downloadPeer, connectFailureCount, syncing, lastHeight, estimatedHeight,
                   peer, publish, online, calls>>

\* BRPeerSyncManagerScanToDepth and BRPeerManagerRescanFromBlockNumber.
Rescan ==
    /\ Called /\ downloadPeer # NoPeer
    /\ lastHeight' \in 0 .. lastHeight
    /\ status' = Disconnected({downloadPeer})
    /\ syncing' = FALSE
    /\ Calls(<<"Connect">>)
    /\ UNCHANGED <<downloadPeer, connectFailureCount, maxConnectCount, estimatedHeight,
                   connectedPeers, peerThreadCount, thread, lastblock, timer, awaited,
                   publish, online>>

\* BRPeerManagerPublishTx.  A transaction that is listed keeps the callback it has.
AddToPublishList(s) ==
    /\ published' = TRUE
    /\ callback' = IF published THEN callback ELSE s
    /\ LET up   == Connected(status)
           to   == IF Cardinality(up) = 1 THEN up ELSE up \ {downloadPeer}
       IN  timer' = [p \in Peers |-> timer[p] \/ (p \in to /\ callback' # NoSubmission)]

PublishTx(s) ==
    /\ Called /\ s \notin submitted
    /\ submitted' = submitted \cup {s}
    /\ \/ /\ downloadPeer # NoPeer
          /\ AddToPublishList(s)
          /\ UNCHANGED todo
       \/ /\ downloadPeer = NoPeer
          /\ Calls(IF connectFailureCount >= MaxFailures \/ ~online THEN <<s>>
                   ELSE <<"List", s>>)
          /\ UNCHANGED <<published, callback, timer>>
    /\ UNCHANGED <<pm, connectedPeers, peerThreadCount, status, thread, lastblock, awaited,
                   reports, online>>

\* The lock was let go of to ask whether the network is reachable.
PublishTxListed ==
    /\ Does(User, "List")
    /\ AddToPublishList(todo[User][2])
    /\ Calls(<<>>)
    /\ UNCHANGED <<pm, connectedPeers, peerThreadCount, status, thread, lastblock, awaited,
                   submitted, reports, online, calls>>

SetNetworkReachable ==
    /\ Called
    /\ online' = ~online
    /\ UNCHANGED <<pm, peer, publish, todo>>

-----------------------------------------------------------------------------
\* What a thread has to do next: without and with the callbacks of its owner.
Goes(x) == StartSync(x) \/ ConnectPeers(x) \/ FindPeers(x) \/ TxPublished(x)

Handles(p) ==
    \/ PeerConnected(p) \/ LoadFilterDone(p) \/ MempoolDone(p) \/ RelayedBlock(p)
    \/ Misbehaves(p) \/ HasTx(p) \/ LoadFilterFailed(p) \/ ThreadCleanup(p)
    \/ \E error \in AnyError : PeerDisconnected(p, error)

Returns == DisconnectReturns \/ PublishTxListed

Works ==
    \/ Disconnect \/ Rescan \/ (\E s \in Submissions : PublishTx(s))
    \/ SetNetworkReachable \/ Returns \/ Goes(User)
    \/ \E p \in Peers : OpenSocket(p) \/ DidConnect(p) \/ Read(p) \/ End(p)
                          \/ Handles(p) \/ Goes(p)

Next == Works \/ \E x \in Threads, what \in {"Started", "Stopped"} : CallsBack(x, what)

Spec == Init /\ [][Next]_vars

-----------------------------------------------------------------------------
\* A peer is freed by its own thread as that ends (_peerDisconnected).  So nothing
\* is left that points to it: it is no longer the download peer or a connected one.
\* A connected peer without a thread waits for the network.
PeersLive ==
    /\ downloadPeer # NoPeer => downloadPeer \in connectedPeers
    /\ \A p \in connectedPeers : Alive(p) \/ status[p] = "Connecting"

\* However peers that have the transaction, timeouts and lost connections race, a
\* submission is reported at most once: the callback frees what it is given
\* (BRSyncManager.c, 2073).
Reporting(x, s) == \E i \in 1 .. Len(todo[x]) : todo[x][i] = s

ReportedOnce ==
    \A s \in Submissions :
        reports[s] + Cardinality({x \in Threads : Reporting(x, s)})
            + (IF callback = s THEN 1 ELSE 0) <= 1
=============================================================================
