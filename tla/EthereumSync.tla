---------------------------- MODULE EthereumSync ----------------------------
(***************************************************************************)
(* How the Ethereum wallet manager scans the chain with a block chain       *)
(* service, through the application's client (ethereum/ewm/BREthereumEWM.c, *)
(* CRYPTO_SYNC_MODE_API_ONLY).  A scan asks for the account's transactions  *)
(* and for its logs, between two blocks; when both requests have completed  *)
(* the next scan begins Offset blocks before where this one ended.          *)
(*                                                                          *)
(* The event handler dispatches under ewm->lock, which ewmConnect,          *)
(* ewmDisconnect and ewmSyncToDepth take too: each is one step.  The client *)
(* answers every request once, at any time: also after the scan was aborted *)
(* or the manager disconnected.  What it announces is in the queue before   *)
(* its completion is, and is handled whatever the request's id; so the two  *)
(* are one step, Completes.  The ids of other requests are left out.        *)
(*                                                                          *)
(* An operator X_Y is X with the mistake Y in it; no specification uses it. *)
(***************************************************************************)
EXTENDS Integers, FiniteSets

CONSTANTS
    Offset,        \* EWM_BRD_SYNC_START_BLOCK_OFFSET
    Rids,          \* values of requestId; those not in use are as good as new
    Unknown,       \* EWM_REQUEST_ID_UNKNOWN
    FirstHead,     \* the height of the chain when the manager is created
    MaxHeight,     \* bound: blocks of the chain
    MaxEvents      \* bound: disconnects, syncs to a depth, failures, blocks, reorganisations

ASSUME ConstantsAssumption ==
    /\ {Offset, FirstHead, MaxHeight, MaxEvents} \subseteq Nat
    /\ FirstHead <= MaxHeight /\ Unknown \notin Rids

VARIABLES
    state,         \* ewm->state
    blockHeight,   \* ewm->blockHeight
    brdSync,       \* ewm->brdSync
    shown,         \* the state that the manager's events have told, or "Torn"
    requests,      \* what the service is asked for
    answers,       \* what it answers, until the event handler handles it
    numbers,       \* block numbers that it answers
    head,          \* the height of the chain
    told,          \* [Kinds -> blocks whose items have been announced]
    past,          \* history: what became of the scans
    events         \* how many of MaxEvents there were

vars == <<state, blockHeight, brdSync, shown, requests, answers, numbers, head, told, past, events>>
service == <<requests, answers, numbers, head, told>>

Kinds == {"transactions", "logs"}
Blocks == 1 .. MaxHeight

\* One of the events that MaxEvents bounds.
Occurs == events < MaxEvents /\ events' = events + 1

Least(a, b) == IF a < b THEN a ELSE b
Greatest(a, b) == IF a > b THEN a ELSE b
All(v) == [k \in Kinds |-> v]

Init ==
    /\ head = FirstHead /\ blockHeight \in {0, head}
    /\ state = "CREATED" /\ shown = "CREATED"
    /\ brdSync = [rid |-> All(Unknown), beg |-> 0, end |-> blockHeight, completed |-> All(TRUE)]
    /\ requests = {} /\ answers = {} /\ numbers = {} /\ told = All({})
    /\ past = [bad |-> FALSE, slipped |-> FALSE, late |-> FALSE]
    /\ events = 0

-----------------------------------------------------------------------------
\* EWM_EVENT_CHANGED from one state to another, for an owner that was told s.
Changed(s, old, new) == IF s = old THEN new ELSE "Torn"

Scanning(b) == \E k \in Kinds : ~b.completed[k]

\* ewmIsNotAnOngoingSync: the difference is of unsigned integers.
IsNotOngoing(b) == b.end < b.beg \/ b.end - b.beg > Offset + Offset \div 10

\* A scan is signalled, and its end, unless it is an ongoing one.
Begun(b, s) == IF IsNotOngoing(b) THEN Changed(s, "CONNECTED", "SYNCING") ELSE s
Ended(b, s) == IF IsNotOngoing(b) THEN Changed(s, "SYNCING", "CONNECTED") ELSE s

InUse(b) == {b.rid[k] : k \in Kinds} \cup {r.rid : r \in requests \cup answers}
FreshRids(b) ==
    {f \in [Kinds -> Rids \ InUse(b)] : f["transactions"] # f["logs"]}

Requests(b) == {[kind |-> k, rid |-> b.rid[k], beg |-> b.beg, end |-> b.end] : k \in Kinds}

\* ewmHandleSyncAPI, when brdSync is b and the owner was told s.
HandleSyncAPI(b, s) ==
    \/ /\ state # "CONNECTED"
       /\ brdSync' = b /\ shown' = s
       /\ UNCHANGED <<numbers, requests, past>>
    \/ /\ state = "CONNECTED" /\ Scanning(b)
       /\ numbers' = numbers \cup {head}
       /\ brdSync' = b /\ shown' = s
       /\ UNCHANGED <<requests, past>>
    \/ /\ state = "CONNECTED" /\ ~Scanning(b)
       /\ numbers' = numbers \cup {head}
       /\ LET n == [b EXCEPT !.end = blockHeight]
          IN  \/ /\ n.beg = n.end
                 /\ brdSync' = n /\ shown' = s
                 /\ UNCHANGED <<requests, past>>
              \/ /\ n.beg # n.end /\ FreshRids(b) # {}
                 /\ brdSync' = [n EXCEPT !.rid = CHOOSE f \in FreshRids(b) : TRUE,
                                         !.completed = All(FALSE)]
                 /\ shown' = Begun(n, s)
                 /\ requests' = requests \cup Requests(brdSync')
                 /\ past' = [past EXCEPT !.bad = FALSE, !.slipped = @ /\ n.beg # 0]

-----------------------------------------------------------------------------
\* What the application calls.  A scan in progress is ended by two of the calls.

\* Mutant: it is not asked whether one is in progress.
EndShown_Unasked == Ended(brdSync, shown)
EndShown == IF Scanning(brdSync) THEN Ended(brdSync, shown) ELSE shown

\* ewmConnect signals an event for which the timer's does as well: SyncAPI.
Connect ==
    /\ state # "CONNECTED"
    /\ state' = "CONNECTED" /\ shown' = Changed(shown, state, "CONNECTED")
    /\ UNCHANGED <<blockHeight, brdSync, service, past, events>>

\* The ids of the requests stay.
Disconnect ==
    /\ Occurs /\ state = "CONNECTED"
    /\ state' = "DISCONNECTED"
    /\ shown' = Changed(EndShown, "CONNECTED", "DISCONNECTED")
    /\ IF Scanning(brdSync)
       THEN /\ brdSync' = [brdSync EXCEPT !.beg = 0, !.end = blockHeight, !.completed = All(TRUE)]
            /\ past' = [past EXCEPT !.bad = TRUE, !.slipped = FALSE]
       ELSE UNCHANGED <<brdSync, past>>
    /\ UNCHANGED <<blockHeight, service>>

\* A scan in progress is aborted: its answers are not to complete anything.
Aborted(b) ==
    IF Scanning(b) THEN [b EXCEPT !.rid = All(Unknown), !.completed = All(TRUE)] ELSE b

\* ewmSyncToDepth: the state is looked at before the lock is taken, so the manager
\* may have disconnected since.
SyncToDepth(depth) ==
    /\ Occurs /\ state # "CREATED"
    /\ LET b == Aborted(brdSync)
       IN  HandleSyncAPI([b EXCEPT !.beg = Least(@, Least(depth, blockHeight))], EndShown)
    /\ UNCHANGED <<state, blockHeight, answers, head, told>>

-----------------------------------------------------------------------------
\* What the event handler dispatches.

\* ewmPeriodicDispatcher, and the event that ewmConnect signals.
SyncAPI ==
    /\ HandleSyncAPI(brdSync, shown)
    /\ UNCHANGED <<state, blockHeight, answers, head, told, events>>

\* ewmHandleAnnounceBlockNumber
AnnounceBlockNumber(n) ==
    /\ n \in numbers
    /\ numbers' = numbers \ {n} /\ blockHeight' = n
    /\ UNCHANGED <<state, brdSync, shown, requests, answers, head, told, past, events>>

NextBegin(b) == IF b.end >= Offset THEN b.end - Offset ELSE 0

\* ewmHandleAnnounceComplete: the scan has been completed by a; it advances as a says.
\* Mutant: blocks that were scanned are not scanned again.
Advanced_NextBlock(b, a) == IF a.ok THEN [b EXCEPT !.beg = b.end + 1] ELSE b
Advanced(b, a) == IF a.ok THEN [b EXCEPT !.beg = NextBegin(b)] ELSE b

\* Mutant: a scan that failed does not complete.
Matches_OkOnly(a) == a.ok /\ a.rid = brdSync.rid[a.kind]
Matches(a) == a.rid = brdSync.rid[a.kind]

\* What a does to the history: an answer after the scan was ended is late, and the scan
\* slips if it advances in spite of it, or of an answer that failed.
Judged(b, a) ==
    LET bad == past.bad \/ ~a.ok
    IN  [bad     |-> bad,
         slipped |-> b.beg # 0 /\ (past.slipped \/ (a.ok /\ bad)),
         late    |-> past.late \/ brdSync.completed[a.kind]]

Completes(a) ==
    /\ a \in answers
    /\ answers' = answers \ {a}
    /\ told' = [told EXCEPT ![a.kind] = @ \cup a.blocks]
    /\ IF ~Matches(a) THEN UNCHANGED <<brdSync, shown, past>>
       ELSE LET b == [brdSync EXCEPT !.completed[a.kind] = TRUE]
            IN  IF Scanning(b)
                THEN /\ brdSync' = b
                     /\ past' = [past EXCEPT !.bad = @ \/ ~a.ok]
                     /\ UNCHANGED shown
                ELSE /\ brdSync' = Advanced(b, a)
                     /\ shown' = Ended(b, shown)
                     /\ past' = Judged(brdSync', a)
    /\ UNCHANGED <<state, blockHeight, requests, numbers, head, events>>

-----------------------------------------------------------------------------
\* The service and its chain, as the client passes requests on to it.

\* The answer to a request, which no block above the head has items for.
Answers(r) ==
    /\ r \in requests
    /\ requests' = requests \ {r}
    /\ \/ /\ answers' = answers \cup {[kind |-> r.kind, rid |-> r.rid, ok |-> TRUE,
                                       blocks |-> Blocks \cap (r.beg .. Least(r.end, head))]}
          /\ UNCHANGED events
       \/ /\ Occurs
          /\ answers' = answers \cup {[kind |-> r.kind, rid |-> r.rid, ok |-> FALSE, blocks |-> {}]}
    /\ UNCHANGED <<state, blockHeight, brdSync, shown, numbers, head, told, past>>

Mine ==
    /\ Occurs /\ head < MaxHeight /\ head' = head + 1
    /\ UNCHANGED <<state, blockHeight, brdSync, shown, requests, answers, numbers, told, past>>

\* Up to Offset blocks are replaced by others, whose items nobody has announced.
Reorganize(b) ==
    /\ Occurs /\ b \in 1 .. head /\ b + Offset > head
    /\ told' = [k \in Kinds |-> {n \in told[k] : n < b}]
    /\ answers' = {[a EXCEPT !.blocks = {n \in @ : n < b}] : a \in answers}
    /\ UNCHANGED <<state, blockHeight, brdSync, shown, requests, numbers, head, past>>

Next ==
    \/ Connect \/ Disconnect \/ SyncAPI \/ Mine
    \/ \E h \in 0 .. MaxHeight : SyncToDepth(h) \/ AnnounceBlockNumber(h)
    \/ \E a \in answers : Completes(a)
    \/ \E r \in requests : Answers(r)
    \/ \E b \in Blocks : Reorganize(b)

\* The timer fires, the handler works its queue off, and the client answers.
Fairness ==
    /\ WF_vars(SyncAPI)
    /\ WF_vars(\E a \in answers : Completes(a))
    /\ WF_vars(\E r \in requests : Answers(r))
    /\ \A h \in 0 .. MaxHeight : WF_vars(AnnounceBlockNumber(h))

Spec == Init /\ [][Next]_vars /\ Fairness

-----------------------------------------------------------------------------
\* "so that we don't have a situation where we miss transfers" (BREthereumEWM.c, 979): the
\* scans that come leave out no block whose transactions and logs were not announced.
NothingMissed == \A b \in 1 .. brdSync.beg - 1 : \A k \in Kinds : b \in told[k]

\* The only way in which blocks are missed: the answer that completes a scan moves it on
\* although the other answer failed, or although the scan had been ended.  Aborted scans,
\* answers in any order, block numbers that go back and reorganisations do no harm.
MissedOnlyBySlip == NothingMissed \/ past.slipped

\* The owner is told of changes that follow one another, until an answer comes for a scan
\* that a disconnect has ended.
TornOnlyByLateAnswer == shown = "Torn" => past.late

\* A manager that stays connected scans until the next scan would begin Offset blocks
\* below the head: no scan lasts forever, and none is put off forever.
CatchesUp == <>[](state = "CONNECTED") => <>[](brdSync.beg = NextBegin([end |-> head]))
=============================================================================
