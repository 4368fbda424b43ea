---------------------------- MODULE EventHandler ----------------------------
(***************************************************************************)
(* The event handler every wallet manager of the library runs on            *)
(* (ethereum/event/BREvent.c and BREventQueue.c): a queue of pending events *)
(* behind a mutex and a condition variable, one handler thread that waits   *)
(* on it and dispatches, an optional periodic alarm that queues timeout     *)
(* events, and the calls that start, stop, clear and release the handler.   *)
(*                                                                          *)
(* Each action is one critical section of the code, or one step between two *)
(* of them.  The queue's mutex is a leaf lock, so what is done under it is  *)
(* atomic; the handler's lock, the lock on dispatch and the join of the     *)
(* thread block, so they are program counters.                              *)
(*                                                                          *)
(* An operator X_Y is X with the mistake Y in it; no specification uses it. *)
(* It stands for a bug that some property below must catch.                 *)
(***************************************************************************)
EXTENDS Naturals, Sequences, FiniteSets

CONSTANTS
    Controllers,   \* the threads that call eventHandlerStart, Stop, ...
    Ops,           \* the calls they make, a subset of CallNames
    HasTimeout,    \* has eventHandlerSetTimeoutDispatcher been called?
    LocksDispatch, \* was a lockOnDispatch given to eventHandlerCreate?
    MaxEvents,     \* bound: how many events are ever signalled
    MaxThreads,    \* bound: how many times the handler thread is created
    None           \* no thread, no holder: PTHREAD_NULL, an unlocked mutex

CallNames == {"start", "stop", "clear", "release"}
Threads == 1..MaxThreads
Client == 0        \* any other thread that takes the lock on dispatch

Kinds == {"tail", "oob", "timeout"}
Event == [id : 1..MaxEvents, kind : Kinds]

ASSUME HandlerAssumption ==
    /\ Ops \subseteq CallNames
    /\ HasTimeout \in BOOLEAN /\ LocksDispatch \in BOOLEAN
    /\ MaxEvents \in Nat /\ MaxThreads \in Nat
    /\ Controllers \cap Nat = {}
    /\ None \notin Controllers \cup Nat \cup Event

VARIABLES
    pending,       \* queue->pending, head first
    abort,         \* queue->abort
    scratch,       \* handler->scratch, the event being dispatched
    thread,        \* handler->thread
    tpc,           \* where each created handler thread is
    born,          \* how many handler threads pthread_create has made
    handlerLock,   \* who holds handler->lock
    dispatchLock,  \* who holds *handler->lockOnDispatch
    alarm,         \* is handler->timeoutAlarmId registered with the clock?
    cpc,           \* where each controller is in its call
    goal,          \* the call it makes
    alive,         \* FALSE once eventHandlerDestroy has freed the handler
    nextId,        \* history: events are numbered as they are signalled
    dispatched,    \* history: the events dispatched, in order
    destroyed      \* history: the events given to their destroyer

queueVars == <<pending, abort>>
threadVars == <<scratch, thread, tpc, born>>
lockVars == <<handlerLock, dispatchLock>>
callVars == <<cpc, goal>>
history == <<nextId, dispatched, destroyed>>
vars == <<queueVars, threadVars, lockVars, alarm, callVars, alive, history>>

ThreadStates == {"unborn", "test", "wait", "got", "dispatch", "exited"}
CallStates ==
    {"idle", "startLock", "addAlarm", "create", "assign", "stopLock", "remAlarm",
     "abort", "join", "reset", "clear", "unlock", "lockManager", "destroy"}
-----------------------------------------------------------------------------
Init ==
    /\ pending = <<>> /\ abort = FALSE
    /\ scratch = None /\ thread = None /\ born = 0
    /\ tpc = [t \in Threads |-> "unborn"]
    /\ handlerLock = None /\ dispatchLock = None
    /\ alarm = FALSE
    /\ cpc = [c \in Controllers |-> "idle"]
    /\ goal = [c \in Controllers |-> "start"]
    /\ alive = TRUE
    /\ nextId = 1 /\ dispatched = <<>> /\ destroyed = {}

(* pthread_cond_signal: at most one thread ever waits (AtMostOneThread), so *)
(* waking all of them is waking one.                                        *)
Wake == tpc' = [t \in Threads |-> IF tpc[t] = "wait" THEN "test" ELSE tpc[t]]

Enqueue_TailOnly(kind) ==
    /\ nextId <= MaxEvents
    /\ pending' = Append(pending, [id |-> nextId, kind |-> kind])
    /\ nextId' = nextId + 1
    /\ Wake
    /\ UNCHANGED <<abort, scratch, thread, born, lockVars, alarm, callVars, alive,
                   dispatched, destroyed>>

Enqueue_NoSignal(kind) ==
    /\ nextId <= MaxEvents
    /\ pending' = Append(pending, [id |-> nextId, kind |-> kind])
    /\ nextId' = nextId + 1
    /\ UNCHANGED <<abort, threadVars, lockVars, alarm, callVars, alive,
                   dispatched, destroyed>>

(***************************************************************************)
(* eventQueueEnqueue: to the tail, or out of band to the head, and signal.  *)
(***************************************************************************)
Enqueue(kind) ==
    /\ nextId <= MaxEvents
    /\ LET e == [id |-> nextId, kind |-> kind]
       IN  pending' = IF kind = "tail" THEN Append(pending, e) ELSE <<e>> \o pending
    /\ nextId' = nextId + 1
    /\ Wake
    /\ UNCHANGED <<abort, scratch, thread, born, lockVars, alarm, callVars, alive,
                   dispatched, destroyed>>

(* eventHandlerSignalEvent and eventHandlerSignalEventOOB, by any thread,   *)
(* a dispatcher included.  As the comment of eventHandlerStop asks, nobody  *)
(* signals a handler that has been destroyed.                               *)
SignalEvent == alive /\ Enqueue("tail")
SignalEventOOB == alive /\ Enqueue("oob")

(* The clock's thread expires the periodic alarm and calls                  *)
(* eventHandlerAlarmCallback, all under the clock's lock.  The alarm stays  *)
(* registered, since it is periodic.                                        *)
AlarmCallback == alarm /\ Enqueue("timeout")
-----------------------------------------------------------------------------
(***************************************************************************)
(* The handler thread: eventHandlerThread and eventQueueDequeueWait.        *)
(***************************************************************************)
At(t, from, to) == tpc[t] = from /\ tpc' = [tpc EXCEPT ![t] = to]

DequeueAbort(t) ==
    /\ abort
    /\ At(t, "test", "exited")
    /\ UNCHANGED <<queueVars, scratch, thread, born, lockVars, alarm, callVars, alive,
                   history>>

DequeueEvent(t) ==
    /\ ~abort /\ pending # <<>>
    /\ At(t, "test", "got")
    /\ scratch' = Head(pending)
    /\ pending' = Tail(pending)
    /\ UNCHANGED <<abort, thread, born, lockVars, alarm, callVars, alive, history>>

DequeueWait(t) ==
    /\ ~abort /\ pending = <<>>
    /\ At(t, "test", "wait")
    /\ UNCHANGED <<queueVars, scratch, thread, born, lockVars, alarm, callVars, alive,
                   history>>

(* pthread_cond_wait may return unsignalled, or fail: WAIT_ERROR, "just try *)
(* again".                                                                  *)
SpuriousWake(t) ==
    /\ At(t, "wait", "test")
    /\ UNCHANGED <<queueVars, scratch, thread, born, lockVars, alarm, callVars, alive,
                   history>>

LockOnDispatch(t) ==
    /\ At(t, "got", "dispatch")
    /\ LocksDispatch => dispatchLock = None
    /\ dispatchLock' = IF LocksDispatch THEN t ELSE dispatchLock
    /\ UNCHANGED <<queueVars, scratch, thread, born, handlerLock, alarm, callVars, alive,
                   history>>

Dispatch(t) ==
    /\ At(t, "dispatch", "test")
    /\ dispatched' = Append(dispatched, scratch)
    /\ dispatchLock' = IF LocksDispatch THEN None ELSE dispatchLock
    /\ UNCHANGED <<queueVars, scratch, thread, born, handlerLock, alarm, callVars, alive,
                   nextId, destroyed>>

ThreadStep(t) ==
    \/ DequeueAbort(t) \/ DequeueEvent(t) \/ DequeueWait(t)
    \/ LockOnDispatch(t) \/ Dispatch(t)

(* Another thread of the wallet manager takes its lock for a while: the     *)
(* lock on dispatch is the manager's own.                                   *)
ClientLock ==
    /\ alive /\ LocksDispatch /\ dispatchLock = None
    /\ dispatchLock' = Client
    /\ UNCHANGED <<queueVars, threadVars, handlerLock, alarm, callVars, alive, history>>

ClientUnlock ==
    /\ dispatchLock = Client
    /\ dispatchLock' = None
    /\ UNCHANGED <<queueVars, threadVars, handlerLock, alarm, callVars, alive, history>>
-----------------------------------------------------------------------------
(***************************************************************************)
(* The calls of a controller.  A call takes one of Ops; a release is made   *)
(* once, when the manager's reference count is zero, so no other call is in *)
(* progress or follows.                                                     *)
(***************************************************************************)
Goto(c, from, to) == cpc[c] = from /\ cpc' = [cpc EXCEPT ![c] = to]

Starting == {d \in Controllers : goal[d] = "start" /\ cpc[d] # "idle"}

FirstState_FreeOnly(op) ==
    CASE op = "start" -> "startLock"
      [] op = "clear" -> "clear"
      [] op = "release" -> "lockManager"
      [] OTHER -> "stopLock"

FirstState(op) ==
    CASE op = "start" -> "startLock"
      [] op = "clear" -> "clear"
      [] OTHER -> "stopLock"

Call(c, op) ==
    /\ alive /\ op \in Ops
    /\ op = "start" => born + Cardinality(Starting) < MaxThreads
    /\ \A d \in Controllers :
           op = "release" \/ goal[d] \in {"release", "free"} => cpc[d] = "idle"
    /\ Goto(c, "idle", FirstState(op))
    /\ goal' = [goal EXCEPT ![c] = op]
    /\ UNCHANGED <<queueVars, threadVars, lockVars, alarm, alive, history>>

StartLock_NoThreadCheck(c) ==
    /\ handlerLock = None
    /\ Goto(c, "startLock", "addAlarm")
    /\ handlerLock' = c
    /\ UNCHANGED <<queueVars, threadVars, dispatchLock, alarm, goal, alive, history>>

(* eventHandlerStart: nothing to do when there is a thread.                 *)
StartLock(c) ==
    /\ handlerLock = None
    /\ Goto(c, "startLock", IF thread = None THEN "addAlarm" ELSE "unlock")
    /\ handlerLock' = c
    /\ UNCHANGED <<queueVars, threadVars, dispatchLock, alarm, goal, alive, history>>

AddAlarm(c) ==
    /\ Goto(c, "addAlarm", "create")
    /\ alarm' = (alarm \/ HasTimeout)
    /\ UNCHANGED <<queueVars, threadVars, lockVars, goal, alive, history>>

(* pthread_create: the new thread may run before its id is stored.          *)
Create(c) ==
    /\ born < MaxThreads
    /\ Goto(c, "create", "assign")
    /\ born' = born + 1
    /\ tpc' = [tpc EXCEPT ![born + 1] = "test"]
    /\ UNCHANGED <<queueVars, scratch, thread, lockVars, alarm, goal, alive, history>>

Assign(c) ==
    /\ Goto(c, "assign", "unlock")
    /\ thread' = born
    /\ UNCHANGED <<queueVars, scratch, tpc, born, lockVars, alarm, goal, alive, history>>

(* eventHandlerStop: nothing to do when there is no thread.                 *)
StopLock(c) ==
    /\ handlerLock = None
    /\ Goto(c, "stopLock", IF thread = None THEN "unlock" ELSE "remAlarm")
    /\ handlerLock' = c
    /\ UNCHANGED <<queueVars, threadVars, dispatchLock, alarm, goal, alive, history>>

RemAlarm_Kept(c) ==
    /\ Goto(c, "remAlarm", "abort")
    /\ UNCHANGED <<queueVars, threadVars, lockVars, alarm, goal, alive, history>>

RemAlarm(c) ==
    /\ Goto(c, "remAlarm", "abort")
    /\ alarm' = FALSE
    /\ UNCHANGED <<queueVars, threadVars, lockVars, goal, alive, history>>

DequeueWaitAbort(c) ==
    /\ Goto(c, "abort", "join")
    /\ abort' = TRUE
    /\ Wake
    /\ UNCHANGED <<pending, scratch, thread, born, lockVars, alarm, goal, alive, history>>

Join_NoWait(c) ==
    /\ Goto(c, "join", "reset")
    /\ thread' = None
    /\ UNCHANGED <<queueVars, scratch, tpc, born, lockVars, alarm, goal, alive, history>>

Join(c) ==
    /\ Goto(c, "join", "reset")
    /\ tpc[thread] = "exited"
    /\ thread' = None
    /\ UNCHANGED <<queueVars, scratch, tpc, born, lockVars, alarm, goal, alive, history>>

DequeueWaitAbortReset(c) ==
    /\ Goto(c, "reset", "clear")
    /\ abort' = FALSE
    /\ Wake
    /\ UNCHANGED <<pending, scratch, thread, born, lockVars, alarm, goal, alive, history>>

PendingEvents == {pending[i] : i \in DOMAIN pending}

Clear_NoDestroyer(c) ==
    /\ Goto(c, "clear", IF goal[c] = "clear" THEN "idle" ELSE "unlock")
    /\ pending' = <<>>
    /\ UNCHANGED <<abort, threadVars, lockVars, alarm, goal, alive, history>>

(* eventQueueClear, at the end of a stop or as eventHandlerClear: the       *)
(* destroyer of each pending event, then an empty list.                     *)
Clear(c) ==
    /\ Goto(c, "clear", IF goal[c] = "clear" THEN "idle" ELSE "unlock")
    /\ destroyed' = destroyed \cup PendingEvents
    /\ pending' = <<>>
    /\ UNCHANGED <<abort, threadVars, lockVars, alarm, goal, alive, nextId, dispatched>>

(* The end of eventHandlerStart and eventHandlerStop.  A release, having    *)
(* stopped the handler (cryptoWalletManagerStop), goes on to                *)
(* BRWalletManagerFree: that takes the manager's lock and stops again.      *)
Unlock(c) ==
    /\ handlerLock' = None
    /\ Goto(c, "unlock", CASE goal[c] = "release" -> "lockManager"
                           [] goal[c] = "free" -> "destroy"
                           [] OTHER -> "idle")
    /\ UNCHANGED <<queueVars, threadVars, dispatchLock, alarm, goal, alive, history>>

LockManager(c) ==
    /\ LocksDispatch => dispatchLock = None
    /\ Goto(c, "lockManager", "stopLock")
    /\ dispatchLock' = IF LocksDispatch THEN c ELSE dispatchLock
    /\ goal' = [goal EXCEPT ![c] = "free"]
    /\ UNCHANGED <<queueVars, threadVars, handlerLock, alarm, alive, history>>

(* eventHandlerDestroy after its stop: the queue is cleared and freed.      *)
Destroy(c) ==
    /\ Goto(c, "destroy", "idle")
    /\ alive' = FALSE
    /\ destroyed' = destroyed \cup PendingEvents
    /\ pending' = <<>>
    /\ dispatchLock' = IF LocksDispatch THEN None ELSE dispatchLock
    /\ UNCHANGED <<abort, threadVars, handlerLock, alarm, goal, nextId, dispatched>>

CallStep(c) ==
    \/ StartLock(c) \/ AddAlarm(c) \/ Create(c) \/ Assign(c)
    \/ StopLock(c) \/ RemAlarm(c) \/ DequeueWaitAbort(c) \/ Join(c)
    \/ DequeueWaitAbortReset(c) \/ Clear(c) \/ Unlock(c)
    \/ LockManager(c) \/ Destroy(c)
-----------------------------------------------------------------------------
Next ==
    \/ SignalEvent \/ SignalEventOOB \/ AlarmCallback
    \/ ClientLock \/ ClientUnlock
    \/ \E t \in Threads : ThreadStep(t) \/ SpuriousWake(t)
    \/ \E c \in Controllers : CallStep(c) \/ \E op \in CallNames : Call(c, op)

Spec == Init /\ [][Next]_vars

(* A thread that can run does run, and a mutex somebody waits for, being    *)
(* released over and over, is eventually his.  Nobody has to call, to       *)
(* signal or to let the alarm expire.                                       *)
Fairness ==
    /\ \A t \in Threads : WF_vars(ThreadStep(t)) /\ SF_vars(LockOnDispatch(t))
    /\ \A c \in Controllers :
           /\ WF_vars(CallStep(c))
           /\ SF_vars(StartLock(c)) /\ SF_vars(StopLock(c)) /\ SF_vars(LockManager(c))
    /\ WF_vars(ClientUnlock)

FairSpec == Spec /\ Fairness
-----------------------------------------------------------------------------
Live == {t \in Threads : tpc[t] \notin {"unborn", "exited"}}
Serving == {t \in Threads : tpc[t] \in {"got", "dispatch"}}

TypeOK ==
    /\ pending \in Seq(Event) /\ abort \in BOOLEAN
    /\ scratch \in Event \cup {None} /\ thread \in Threads \cup {None}
    /\ tpc \in [Threads -> ThreadStates] /\ born \in 0..MaxThreads
    /\ handlerLock \in Controllers \cup {None}
    /\ dispatchLock \in Threads \cup Controllers \cup {Client, None}
    /\ alarm \in BOOLEAN
    /\ cpc \in [Controllers -> CallStates]
    /\ goal \in [Controllers -> CallNames \cup {"free"}]
    /\ alive \in BOOLEAN
    /\ nextId \in 1..(MaxEvents + 1) /\ dispatched \in Seq(Event) /\ destroyed \subseteq Event
    /\ Serving # {} => scratch \in Event

(* At most one handler thread exists at any time, however calls of start    *)
(* and stop interleave: scratch and the dispatchers are never shared by two *)
(* threads, even for a handler without a lock on dispatch.                  *)
AtMostOneThread == \A t, u \in Live : t = u

(* No wakeup is lost: the handler thread waits on the condition variable    *)
(* only while there is neither an event for it nor an abort.                *)
NoLostWakeup ==
    \A t \in Threads : tpc[t] = "wait" => pending = <<>> /\ ~abort

(* A stopped handler keeps no timeout: once a stop has returned, the alarm  *)
(* is off and no timeout event is queued for the next start to find.        *)
NoStaleTimeout ==
    handlerLock = None /\ thread = None =>
        /\ ~alarm
        /\ \A i \in DOMAIN pending : pending[i].kind # "timeout"

(* The abort of a stop reaches only the thread it is meant for: with nobody *)
(* stopping, abort is off, so the thread of the next start does not quit.   *)
AbortOnlyInStop ==
    abort => \E c \in Controllers : handlerLock = c /\ cpc[c] \in {"join", "reset"}

(* Memory of a released handler is not touched: no thread runs on it, the   *)
(* clock's callback no longer knows it and nobody holds its locks.          *)
QuietAfterRelease ==
    ~alive => /\ Live = {} /\ ~alarm /\ pending = <<>>
              /\ handlerLock = None /\ dispatchLock = None

Ids(events) == {e.id : e \in events}
ServingIds == IF Serving = {} THEN {} ELSE {scratch.id}
DispatchedEvents == {dispatched[i] : i \in DOMAIN dispatched}

(* Every event signalled is, at any time, in exactly one place: pending,    *)
(* being dispatched, dispatched once, or destroyed once (what the event     *)
(* owns is neither leaked nor freed twice).                                 *)
EachEventOnce ==
    LET p == Ids(PendingEvents)  d == Ids(DispatchedEvents)  x == Ids(destroyed)
    IN  /\ p \cup ServingIds \cup d \cup x = 1..(nextId - 1)
        /\ Len(pending) + Cardinality(ServingIds) + Len(dispatched)
               + Cardinality(x) = nextId - 1

(* How many of the events are ahead of the first one signalled at the tail. *)
Ahead(events) ==
    CHOOSE n \in 0..Len(events) :
        /\ n = Len(events) \/ events[n + 1].kind = "tail"
        /\ \A i \in 1..n : events[i].kind # "tail"

(* What the component promises: EventDelivery, a server that takes urgent   *)
(* events first, the others in order, one at a time.                        *)
Delivery == INSTANCE EventDelivery WITH
    Urgent <- {e \in Event : e.kind # "tail"},
    urgent <- SubSeq(pending, 1, Ahead(pending)),
    normal <- SubSeq(pending, Ahead(pending) + 1, Len(pending)),
    serving <- IF Serving = {} THEN None ELSE scratch,
    served <- dispatched,
    dropped <- destroyed

(* A handler serves as EventDelivery promises, however threads signal it,   *)
(* start, stop, clear and release it.                                       *)
ImplementsDelivery == Delivery!Spec

(* Every call returns: no stop waits forever for a thread to join, whatever *)
(* the thread was doing and whoever held the lock on dispatch.              *)
CallsReturn == \A c \in Controllers : cpc[c] # "idle" ~> cpc[c] = "idle"

(* An event pending while the handler runs does not stay: it is dispatched, *)
(* or a stop or a clear destroys it.                                        *)
EventsConsumed ==
    \A id \in 1..MaxEvents :
        (id \in Ids(PendingEvents) /\ thread # None) ~> (id \notin Ids(PendingEvents))
-----------------------------------------------------------------------------
(***************************************************************************)
(* The inductive invariant behind AtMostOneThread, NoLostWakeup,            *)
(* NoStaleTimeout, AbortOnlyInStop and QuietAfterRelease.                   *)
(***************************************************************************)
InStart(c) == cpc[c] \in {"addAlarm", "create", "assign"}
InStop(c) == cpc[c] \in {"remAlarm", "abort", "join", "reset"}
InStopClear(c) == cpc[c] = "clear" /\ goal[c] # "clear"
Holding(c) == InStart(c) \/ InStop(c) \/ InStopClear(c) \/ cpc[c] = "unlock"

LockInv ==
    /\ \A c \in Controllers : Holding(c) <=> handlerLock = c
    /\ \A c \in Controllers : goal[c] = "clear" => cpc[c] \in {"idle", "clear"}

ThreadInv ==
    /\ \A t \in Threads : tpc[t] = "unborn" <=> t > born
    /\ \A t \in Live : t = thread \/ \E c \in Controllers : cpc[c] = "assign" /\ t = born
    /\ \A c \in Controllers :
           /\ InStart(c) \/ cpc[c] = "reset" \/ InStopClear(c) => thread = None
           /\ cpc[c] \in {"remAlarm", "abort", "join"} => thread # None
           /\ cpc[c] = "assign" => born > 0

TimeoutPending == \E i \in DOMAIN pending : pending[i].kind = "timeout"

AlarmInv ==
    /\ alarm => thread # None \/ \E c \in Controllers : cpc[c] \in {"create", "assign"}
    /\ \A c \in Controllers : cpc[c] \in {"abort", "join"} => ~alarm
    /\ TimeoutPending =>
           \/ thread # None
           \/ \E c \in Controllers :
                  cpc[c] \in {"create", "assign", "reset"} \/ InStopClear(c)

Releasing(c) == goal[c] \in {"release", "free"} /\ cpc[c] # "idle"

ReleaseInv ==
    /\ \A c, d \in Controllers : Releasing(c) /\ d # c => cpc[d] = "idle"
    /\ \A c \in Controllers :
           /\ goal[c] = "release" =>
                  ~InStart(c) /\ cpc[c] \notin {"startLock", "destroy"}
           /\ goal[c] = "release" /\ cpc[c] \in {"unlock", "lockManager"} => thread = None
           /\ goal[c] = "free" /\ cpc[c] # "idle" =>
                  /\ cpc[c] \in {"stopLock", "unlock", "destroy"}
                  /\ thread = None
                  /\ LocksDispatch => dispatchLock = c
           /\ cpc[c] \in {"lockManager", "destroy"} => Releasing(c)
    /\ \A t \in Threads : LocksDispatch /\ tpc[t] = "dispatch" => dispatchLock = t
    /\ ~LocksDispatch => dispatchLock = None
    /\ ~alive => /\ \A c \in Controllers : cpc[c] = "idle"
                 /\ thread = None /\ pending = <<>> /\ dispatchLock = None

(* The handler's invariant: who holds which lock, which threads live, where *)
(* a timeout may be and what a release excludes, at every step of a call.   *)
IInv ==
    TypeOK /\ LockInv /\ ThreadInv /\ NoLostWakeup /\ AbortOnlyInStop /\ AlarmInv
           /\ ReleaseInv
=============================================================================
