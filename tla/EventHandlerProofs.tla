------------------------- MODULE EventHandlerProofs -------------------------
(***************************************************************************)
(* Proofs about EventHandler for any number of controllers, threads and     *)
(* events: its invariants, that each event is in one place, and that it     *)
(* implements EventDelivery.                                                *)
(***************************************************************************)
EXTENDS EventHandler, FiniteSetTheorems, SequenceTheorems, TLAPS

\* A handler starts, as eventHandlerCreate leaves it, with every variable in
\* its type.
LEMMA InitType == Init => TypeOK
  <1> SUFFICES ASSUME Init PROVE TypeOK
    OBVIOUS
  <1> USE HandlerAssumption DEF Init
  <1>1. pending \in Seq(Event)
    OBVIOUS
  <1>2. scratch \in Event \cup {None} /\ thread \in Threads \cup {None}
    OBVIOUS
  <1>3. tpc \in [Threads -> ThreadStates] /\ born \in 0..MaxThreads
    BY DEF ThreadStates
  <1>4. handlerLock \in Controllers \cup {None}
    OBVIOUS
  <1>5. dispatchLock \in Threads \cup Controllers \cup {Client, None}
    OBVIOUS
  <1>6. cpc \in [Controllers -> CallStates]
    BY DEF CallStates
  <1>7. goal \in [Controllers -> CallNames \cup {"free"}]
    BY DEF CallNames
  <1>8. abort \in BOOLEAN /\ alarm \in BOOLEAN /\ alive \in BOOLEAN
    OBVIOUS
  <1>9. nextId \in 1..(MaxEvents + 1) /\ dispatched \in Seq(Event) /\ destroyed \subseteq Event
    OBVIOUS
  <1>10. Serving = {}
    BY DEF Serving
  <1> QED
    BY <1>10, <1>1, <1>2, <1>3, <1>4, <1>5, <1>6, <1>7, <1>8, <1>9 DEF TypeOK

\* Every call and every step of a thread keeps the types; that the thread's
\* place fits the call that waits for it is what scratch needs.
LEMMA TypeStep == TypeOK /\ ThreadInv /\ [Next]_vars => TypeOK'
  <1> SUFFICES ASSUME TypeOK /\ ThreadInv, [Next]_vars PROVE TypeOK'
    OBVIOUS
  <1> USE HandlerAssumption
  <1>1. CASE SignalEvent
    <2>1. nextId \in 1..(MaxEvents + 1) /\ pending \in Seq(Event)
      BY DEF TypeOK
    <2>2. pending' \in Seq(Event) /\ nextId' \in 1..(MaxEvents + 1)
      BY <1>1, <2>1 DEF SignalEvent, Enqueue, Event, Kinds
    <2> QED
      BY <1>1, <2>2
      DEF SignalEvent, Enqueue, Wake, lockVars, callVars, TypeOK, ThreadStates,
          Serving
  <1>2. CASE SignalEventOOB
    <2>1. nextId \in 1..(MaxEvents + 1) /\ pending \in Seq(Event)
      BY DEF TypeOK
    <2>2. pending' \in Seq(Event) /\ nextId' \in 1..(MaxEvents + 1)
      BY <1>2, <2>1 DEF SignalEventOOB, Enqueue, Event, Kinds
    <2> QED
      BY <1>2, <2>2
      DEF SignalEventOOB, Enqueue, Wake, lockVars, callVars, TypeOK, ThreadStates,
          Serving
  <1>3. CASE AlarmCallback
    <2>1. nextId \in 1..(MaxEvents + 1) /\ pending \in Seq(Event)
      BY DEF TypeOK
    <2>2. pending' \in Seq(Event) /\ nextId' \in 1..(MaxEvents + 1)
      BY <1>3, <2>1 DEF AlarmCallback, Enqueue, Event, Kinds
    <2> QED
      BY <1>3, <2>2
      DEF AlarmCallback, Enqueue, Wake, lockVars, callVars, TypeOK, ThreadStates,
          Serving
  <1>4. CASE ClientLock
    BY <1>4
    DEF ClientLock, queueVars, threadVars, callVars, history, TypeOK, ThreadStates,
        CallStates, CallNames, Threads, Client, Serving
  <1>5. CASE ClientUnlock
    BY <1>5
    DEF ClientUnlock, queueVars, threadVars, callVars, history, TypeOK,
        ThreadStates, CallStates, CallNames, Threads, Client, Serving
  <1>6. ASSUME NEW t \in Threads, DequeueAbort(t) PROVE TypeOK'
    BY <1>6
    DEF DequeueAbort, At, queueVars, lockVars, callVars, history, TypeOK,
        ThreadStates, CallStates, CallNames, Threads, Client, Serving
  <1>7. ASSUME NEW t \in Threads, DequeueEvent(t) PROVE TypeOK'
    <2>1. scratch' \in Event /\ pending' \in Seq(Event)
      BY <1>7 DEF DequeueEvent, TypeOK
    <2> QED
      BY <1>7, <2>1
      DEF DequeueEvent, At, lockVars, callVars, history, TypeOK, ThreadStates
  <1>8. ASSUME NEW t \in Threads, DequeueWait(t) PROVE TypeOK'
    BY <1>8
    DEF DequeueWait, At, queueVars, lockVars, callVars, history, TypeOK,
        ThreadStates, CallStates, CallNames, Threads, Client, Serving
  <1>9. ASSUME NEW t \in Threads, SpuriousWake(t) PROVE TypeOK'
    BY <1>9
    DEF SpuriousWake, At, queueVars, lockVars, callVars, history, TypeOK,
        ThreadStates, CallStates, CallNames, Threads, Client, Serving
  <1>10. ASSUME NEW t \in Threads, LockOnDispatch(t) PROVE TypeOK'
    BY <1>10
    DEF LockOnDispatch, At, queueVars, callVars, history, TypeOK, ThreadStates,
        CallStates, CallNames, Threads, Client, Serving
  <1>11. ASSUME NEW t \in Threads, Dispatch(t) PROVE TypeOK'
    <2>1. dispatched' \in Seq(Event)
      BY <1>11 DEF Dispatch, At, TypeOK, Serving
    <2> QED
      BY <1>11, <2>1
      DEF Dispatch, At, queueVars, callVars, TypeOK, ThreadStates, Threads, Serving
  <1>12. ASSUME NEW c \in Controllers, StartLock(c) PROVE TypeOK'
    BY <1>12
    DEF StartLock, Goto, queueVars, threadVars, history, TypeOK, ThreadStates,
        CallStates, CallNames, Threads, Client, Serving
  <1>13. ASSUME NEW c \in Controllers, AddAlarm(c) PROVE TypeOK'
    BY <1>13
    DEF AddAlarm, Goto, queueVars, threadVars, lockVars, history, TypeOK,
        ThreadStates, CallStates, CallNames, Threads, Client, Serving
  <1>14. ASSUME NEW c \in Controllers, Create(c) PROVE TypeOK'
    BY <1>14
    DEF Create, Goto, queueVars, lockVars, history, TypeOK, ThreadStates,
        CallStates, CallNames, Threads, Client, Serving
  <1>15. ASSUME NEW c \in Controllers, Assign(c) PROVE TypeOK'
    <2>1. thread' \in Threads
      BY <1>15 DEF Assign, Goto, TypeOK, ThreadInv, Threads
    <2> QED
      BY <1>15, <2>1
      DEF Assign, Goto, queueVars, lockVars, history, TypeOK, CallStates, Serving
  <1>16. ASSUME NEW c \in Controllers, StopLock(c) PROVE TypeOK'
    BY <1>16
    DEF StopLock, Goto, queueVars, threadVars, history, TypeOK, ThreadStates,
        CallStates, CallNames, Threads, Client, Serving
  <1>17. ASSUME NEW c \in Controllers, RemAlarm(c) PROVE TypeOK'
    BY <1>17
    DEF RemAlarm, Goto, queueVars, threadVars, lockVars, history, TypeOK,
        ThreadStates, CallStates, CallNames, Threads, Client, Serving
  <1>18. ASSUME NEW c \in Controllers, DequeueWaitAbort(c) PROVE TypeOK'
    BY <1>18
    DEF DequeueWaitAbort, Goto, Wake, lockVars, history, TypeOK, ThreadStates,
        CallStates, CallNames, Threads, Client, Serving
  <1>19. ASSUME NEW c \in Controllers, Join(c) PROVE TypeOK'
    BY <1>19
    DEF Join, Goto, queueVars, lockVars, history, TypeOK, ThreadStates, CallStates,
        CallNames, Threads, Client, Serving
  <1>20. ASSUME NEW c \in Controllers, DequeueWaitAbortReset(c) PROVE TypeOK'
    BY <1>20
    DEF DequeueWaitAbortReset, Goto, Wake, lockVars, history, TypeOK, ThreadStates,
        CallStates, CallNames, Threads, Client, Serving
  <1>21. ASSUME NEW c \in Controllers, Clear(c) PROVE TypeOK'
    <2>1. PendingEvents \subseteq Event
      BY DEF TypeOK, PendingEvents
    <2> QED
      BY <1>21, <2>1
      DEF Clear, Goto, threadVars, lockVars, TypeOK, CallStates, Threads, Serving
  <1>22. ASSUME NEW c \in Controllers, Unlock(c) PROVE TypeOK'
    BY <1>22
    DEF Unlock, Goto, queueVars, threadVars, history, TypeOK, ThreadStates,
        CallStates, CallNames, Threads, Client, Serving
  <1>23. ASSUME NEW c \in Controllers, LockManager(c) PROVE TypeOK'
    BY <1>23
    DEF LockManager, Goto, queueVars, threadVars, history, TypeOK, ThreadStates,
        CallStates, CallNames, Threads, Client, Serving
  <1>24. ASSUME NEW c \in Controllers, Destroy(c) PROVE TypeOK'
    <2>1. destroyed' \subseteq Event
      BY <1>24 DEF Destroy, TypeOK, PendingEvents
    <2>2. dispatchLock' \in Threads \cup Controllers \cup {Client, None}
      BY <1>24 DEF Destroy, TypeOK
    <2>3. alive' \in BOOLEAN
      BY <1>24 DEF Destroy
    <2>4. pending' \in Seq(Event)
      BY <1>24 DEF Destroy
    <2> QED
      BY <1>24, <2>1, <2>2, <2>3, <2>4
      DEF Destroy, Goto, threadVars, TypeOK, CallStates, Serving
  <1>25. ASSUME NEW c \in Controllers, NEW op \in CallNames, Call(c, op) PROVE TypeOK'
    BY <1>25
    DEF Call, Goto, FirstState, Starting, queueVars, threadVars, lockVars, history,
        TypeOK, ThreadStates, CallStates, CallNames, Threads, Client, Serving
  <1>26. CASE UNCHANGED vars
    BY <1>26
    DEF vars, queueVars, threadVars, lockVars, callVars, history, TypeOK,
        ThreadStates, CallStates, CallNames, Threads, Client, Serving
  <1> QED
    BY <1>1, <1>2, <1>3, <1>4, <1>5, <1>6, <1>7, <1>8, <1>9, <1>10, <1>11, <1>12, <1>13, <1>14, <1>15, <1>16, <1>17, <1>18, <1>19, <1>20, <1>21, <1>22, <1>23, <1>24, <1>25, <1>26
    DEF Next, ThreadStep, CallStep

\* handler->lock and the lock on dispatch belong to exactly the calls and the
\* threads whose place in the code lies between the lock and the unlock.
LEMMA LockStep == TypeOK /\ LockInv /\ [Next]_vars => LockInv'
  <1> SUFFICES ASSUME TypeOK /\ LockInv, [Next]_vars PROVE LockInv'
    OBVIOUS
  <1> USE HandlerAssumption
  <1>1. CASE SignalEvent
    BY <1>1
    DEF SignalEvent, Enqueue, Wake, lockVars, callVars, TypeOK, LockInv, Holding,
        InStart, InStop, InStopClear
  <1>2. CASE SignalEventOOB
    BY <1>2
    DEF SignalEventOOB, Enqueue, Wake, lockVars, callVars, TypeOK, LockInv, Holding,
        InStart, InStop, InStopClear
  <1>3. CASE AlarmCallback
    BY <1>3
    DEF AlarmCallback, Enqueue, Wake, lockVars, callVars, TypeOK, LockInv, Holding,
        InStart, InStop, InStopClear
  <1>4. CASE ClientLock
    BY <1>4
    DEF ClientLock, queueVars, threadVars, callVars, history, TypeOK, LockInv,
        Holding, InStart, InStop, InStopClear
  <1>5. CASE ClientUnlock
    BY <1>5
    DEF ClientUnlock, queueVars, threadVars, callVars, history, TypeOK, LockInv,
        Holding, InStart, InStop, InStopClear
  <1>6. ASSUME NEW t \in Threads, DequeueAbort(t) PROVE LockInv'
    BY <1>6
    DEF DequeueAbort, At, queueVars, lockVars, callVars, history, TypeOK, LockInv,
        Holding, InStart, InStop, InStopClear
  <1>7. ASSUME NEW t \in Threads, DequeueEvent(t) PROVE LockInv'
    BY <1>7
    DEF DequeueEvent, At, lockVars, callVars, history, TypeOK, LockInv, Holding,
        InStart, InStop, InStopClear
  <1>8. ASSUME NEW t \in Threads, DequeueWait(t) PROVE LockInv'
    BY <1>8
    DEF DequeueWait, At, queueVars, lockVars, callVars, history, TypeOK, LockInv,
        Holding, InStart, InStop, InStopClear
  <1>9. ASSUME NEW t \in Threads, SpuriousWake(t) PROVE LockInv'
    BY <1>9
    DEF SpuriousWake, At, queueVars, lockVars, callVars, history, TypeOK, LockInv,
        Holding, InStart, InStop, InStopClear
  <1>10. ASSUME NEW t \in Threads, LockOnDispatch(t) PROVE LockInv'
    BY <1>10
    DEF LockOnDispatch, At, queueVars, callVars, history, TypeOK, LockInv, Holding,
        InStart, InStop, InStopClear
  <1>11. ASSUME NEW t \in Threads, Dispatch(t) PROVE LockInv'
    BY <1>11
    DEF Dispatch, At, queueVars, callVars, TypeOK, LockInv, Holding, InStart,
        InStop, InStopClear
  <1>12. ASSUME NEW c \in Controllers, StartLock(c) PROVE LockInv'
    BY <1>12
    DEF StartLock, Goto, queueVars, threadVars, history, TypeOK, LockInv, Holding,
        InStart, InStop, InStopClear
  <1>13. ASSUME NEW c \in Controllers, AddAlarm(c) PROVE LockInv'
    BY <1>13
    DEF AddAlarm, Goto, queueVars, threadVars, lockVars, history, TypeOK, LockInv,
        Holding, InStart, InStop, InStopClear
  <1>14. ASSUME NEW c \in Controllers, Create(c) PROVE LockInv'
    BY <1>14
    DEF Create, Goto, queueVars, lockVars, history, TypeOK, LockInv, Holding,
        InStart, InStop, InStopClear
  <1>15. ASSUME NEW c \in Controllers, Assign(c) PROVE LockInv'
    BY <1>15
    DEF Assign, Goto, queueVars, lockVars, history, TypeOK, LockInv, Holding,
        InStart, InStop, InStopClear
  <1>16. ASSUME NEW c \in Controllers, StopLock(c) PROVE LockInv'
    BY <1>16
    DEF StopLock, Goto, queueVars, threadVars, history, TypeOK, LockInv, Holding,
        InStart, InStop, InStopClear
  <1>17. ASSUME NEW c \in Controllers, RemAlarm(c) PROVE LockInv'
    BY <1>17
    DEF RemAlarm, Goto, queueVars, threadVars, lockVars, history, TypeOK, LockInv,
        Holding, InStart, InStop, InStopClear
  <1>18. ASSUME NEW c \in Controllers, DequeueWaitAbort(c) PROVE LockInv'
    BY <1>18
    DEF DequeueWaitAbort, Goto, Wake, lockVars, history, TypeOK, LockInv, Holding,
        InStart, InStop, InStopClear
  <1>19. ASSUME NEW c \in Controllers, Join(c) PROVE LockInv'
    BY <1>19
    DEF Join, Goto, queueVars, lockVars, history, TypeOK, LockInv, Holding, InStart,
        InStop, InStopClear
  <1>20. ASSUME NEW c \in Controllers, DequeueWaitAbortReset(c) PROVE LockInv'
    BY <1>20
    DEF DequeueWaitAbortReset, Goto, Wake, lockVars, history, TypeOK, LockInv,
        Holding, InStart, InStop, InStopClear
  <1>21. ASSUME NEW c \in Controllers, Clear(c) PROVE LockInv'
    BY <1>21
    DEF Clear, Goto, PendingEvents, threadVars, lockVars, TypeOK, LockInv, Holding,
        InStart, InStop, InStopClear
  <1>22. ASSUME NEW c \in Controllers, Unlock(c) PROVE LockInv'
    BY <1>22
    DEF Unlock, Goto, queueVars, threadVars, history, TypeOK, LockInv, Holding,
        InStart, InStop, InStopClear
  <1>23. ASSUME NEW c \in Controllers, LockManager(c) PROVE LockInv'
    BY <1>23
    DEF LockManager, Goto, queueVars, threadVars, history, TypeOK, LockInv, Holding,
        InStart, InStop, InStopClear
  <1>24. ASSUME NEW c \in Controllers, Destroy(c) PROVE LockInv'
    BY <1>24
    DEF Destroy, Goto, PendingEvents, threadVars, TypeOK, LockInv, Holding, InStart,
        InStop, InStopClear
  <1>25. ASSUME NEW c \in Controllers, NEW op \in CallNames, Call(c, op) PROVE LockInv'
    BY <1>25
    DEF Call, Goto, FirstState, Starting, queueVars, threadVars, lockVars, history,
        TypeOK, LockInv, Holding, InStart, InStop, InStopClear
  <1>26. CASE UNCHANGED vars
    BY <1>26
    DEF vars, queueVars, threadVars, lockVars, callVars, history, TypeOK, LockInv,
        Holding, InStart, InStop, InStopClear
  <1> QED
    BY <1>1, <1>2, <1>3, <1>4, <1>5, <1>6, <1>7, <1>8, <1>9, <1>10, <1>11, <1>12, <1>13, <1>14, <1>15, <1>16, <1>17, <1>18, <1>19, <1>20, <1>21, <1>22, <1>23, <1>24, <1>25, <1>26
    DEF Next, ThreadStep, CallStep

\* A live thread is the one handler->thread names, or one that a start has
\* created and not yet stored.
LEMMA ThreadInvStep == TypeOK /\ LockInv /\ ThreadInv /\ [Next]_vars => ThreadInv'
  <1> SUFFICES ASSUME TypeOK /\ LockInv /\ ThreadInv, [Next]_vars PROVE ThreadInv'
    OBVIOUS
  <1> USE HandlerAssumption
  <1>1. CASE SignalEvent
    BY <1>1
    DEF SignalEvent, Enqueue, Wake, lockVars, callVars, TypeOK, LockInv, Holding,
        InStart, InStop, InStopClear, ThreadInv, Live, Threads
  <1>2. CASE SignalEventOOB
    BY <1>2
    DEF SignalEventOOB, Enqueue, Wake, lockVars, callVars, TypeOK, LockInv, Holding,
        InStart, InStop, InStopClear, ThreadInv, Live, Threads
  <1>3. CASE AlarmCallback
    BY <1>3
    DEF AlarmCallback, Enqueue, Wake, lockVars, callVars, TypeOK, LockInv, Holding,
        InStart, InStop, InStopClear, ThreadInv, Live, Threads
  <1>4. CASE ClientLock
    BY <1>4
    DEF ClientLock, queueVars, threadVars, callVars, history, TypeOK, LockInv,
        Holding, InStart, InStop, InStopClear, ThreadInv, Live, Threads
  <1>5. CASE ClientUnlock
    BY <1>5
    DEF ClientUnlock, queueVars, threadVars, callVars, history, TypeOK, LockInv,
        Holding, InStart, InStop, InStopClear, ThreadInv, Live, Threads
  <1>6. ASSUME NEW t \in Threads, DequeueAbort(t) PROVE ThreadInv'
    BY <1>6
    DEF DequeueAbort, At, queueVars, lockVars, callVars, history, TypeOK, LockInv,
        Holding, InStart, InStop, InStopClear, ThreadInv, Live, Threads
  <1>7. ASSUME NEW t \in Threads, DequeueEvent(t) PROVE ThreadInv'
    BY <1>7
    DEF DequeueEvent, At, lockVars, callVars, history, TypeOK, LockInv, Holding,
        InStart, InStop, InStopClear, ThreadInv, Live, Threads
  <1>8. ASSUME NEW t \in Threads, DequeueWait(t) PROVE ThreadInv'
    BY <1>8
    DEF DequeueWait, At, queueVars, lockVars, callVars, history, TypeOK, LockInv,
        Holding, InStart, InStop, InStopClear, ThreadInv, Live, Threads
  <1>9. ASSUME NEW t \in Threads, SpuriousWake(t) PROVE ThreadInv'
    BY <1>9
    DEF SpuriousWake, At, queueVars, lockVars, callVars, history, TypeOK, LockInv,
        Holding, InStart, InStop, InStopClear, ThreadInv, Live, Threads
  <1>10. ASSUME NEW t \in Threads, LockOnDispatch(t) PROVE ThreadInv'
    BY <1>10
    DEF LockOnDispatch, At, queueVars, callVars, history, TypeOK, LockInv, Holding,
        InStart, InStop, InStopClear, ThreadInv, Live, Threads
  <1>11. ASSUME NEW t \in Threads, Dispatch(t) PROVE ThreadInv'
    BY <1>11
    DEF Dispatch, At, queueVars, callVars, TypeOK, LockInv, Holding, InStart,
        InStop, InStopClear, ThreadInv, Live, Threads
  <1>12. ASSUME NEW c \in Controllers, StartLock(c) PROVE ThreadInv'
    BY <1>12
    DEF StartLock, Goto, queueVars, threadVars, history, TypeOK, LockInv, Holding,
        InStart, InStop, InStopClear, ThreadInv, Live, Threads
  <1>13. ASSUME NEW c \in Controllers, AddAlarm(c) PROVE ThreadInv'
    BY <1>13
    DEF AddAlarm, Goto, queueVars, threadVars, lockVars, history, TypeOK, LockInv,
        Holding, InStart, InStop, InStopClear, ThreadInv, Live, Threads
  <1>14. ASSUME NEW c \in Controllers, Create(c) PROVE ThreadInv'
    BY <1>14
    DEF Create, Goto, queueVars, lockVars, history, TypeOK, LockInv, Holding,
        InStart, InStop, InStopClear, ThreadInv, Live, Threads
  <1>15. ASSUME NEW c \in Controllers, Assign(c) PROVE ThreadInv'
    BY <1>15
    DEF Assign, Goto, queueVars, lockVars, history, TypeOK, LockInv, Holding,
        InStart, InStop, InStopClear, ThreadInv, Live, Threads
  <1>16. ASSUME NEW c \in Controllers, StopLock(c) PROVE ThreadInv'
    BY <1>16
    DEF StopLock, Goto, queueVars, threadVars, history, TypeOK, LockInv, Holding,
        InStart, InStop, InStopClear, ThreadInv, Live, Threads
  <1>17. ASSUME NEW c \in Controllers, RemAlarm(c) PROVE ThreadInv'
    BY <1>17
    DEF RemAlarm, Goto, queueVars, threadVars, lockVars, history, TypeOK, LockInv,
        Holding, InStart, InStop, InStopClear, ThreadInv, Live, Threads
  <1>18. ASSUME NEW c \in Controllers, DequeueWaitAbort(c) PROVE ThreadInv'
    BY <1>18
    DEF DequeueWaitAbort, Goto, Wake, lockVars, history, TypeOK, LockInv, Holding,
        InStart, InStop, InStopClear, ThreadInv, Live, Threads
  <1>19. ASSUME NEW c \in Controllers, Join(c) PROVE ThreadInv'
    BY <1>19
    DEF Join, Goto, queueVars, lockVars, history, TypeOK, LockInv, Holding, InStart,
        InStop, InStopClear, ThreadInv, Live, Threads
  <1>20. ASSUME NEW c \in Controllers, DequeueWaitAbortReset(c) PROVE ThreadInv'
    BY <1>20
    DEF DequeueWaitAbortReset, Goto, Wake, lockVars, history, TypeOK, LockInv,
        Holding, InStart, InStop, InStopClear, ThreadInv, Live, Threads
  <1>21. ASSUME NEW c \in Controllers, Clear(c) PROVE ThreadInv'
    BY <1>21
    DEF Clear, Goto, PendingEvents, threadVars, lockVars, TypeOK, LockInv, Holding,
        InStart, InStop, InStopClear, ThreadInv, Live, Threads
  <1>22. ASSUME NEW c \in Controllers, Unlock(c) PROVE ThreadInv'
    BY <1>22
    DEF Unlock, Goto, queueVars, threadVars, history, TypeOK, LockInv, Holding,
        InStart, InStop, InStopClear, ThreadInv, Live, Threads
  <1>23. ASSUME NEW c \in Controllers, LockManager(c) PROVE ThreadInv'
    BY <1>23
    DEF LockManager, Goto, queueVars, threadVars, history, TypeOK, LockInv, Holding,
        InStart, InStop, InStopClear, ThreadInv, Live, Threads
  <1>24. ASSUME NEW c \in Controllers, Destroy(c) PROVE ThreadInv'
    BY <1>24
    DEF Destroy, Goto, PendingEvents, threadVars, TypeOK, LockInv, Holding, InStart,
        InStop, InStopClear, ThreadInv, Live, Threads
  <1>25. ASSUME NEW c \in Controllers, NEW op \in CallNames, Call(c, op) PROVE ThreadInv'
    BY <1>25
    DEF Call, Goto, FirstState, Starting, queueVars, threadVars, lockVars, history,
        TypeOK, LockInv, Holding, InStart, InStop, InStopClear, ThreadInv, Live,
        Threads
  <1>26. CASE UNCHANGED vars
    BY <1>26
    DEF vars, queueVars, threadVars, lockVars, callVars, history, TypeOK, LockInv,
        Holding, InStart, InStop, InStopClear, ThreadInv, Live, Threads
  <1> QED
    BY <1>1, <1>2, <1>3, <1>4, <1>5, <1>6, <1>7, <1>8, <1>9, <1>10, <1>11, <1>12, <1>13, <1>14, <1>15, <1>16, <1>17, <1>18, <1>19, <1>20, <1>21, <1>22, <1>23, <1>24, <1>25, <1>26
    DEF Next, ThreadStep, CallStep

\* Queueing an event or an abort signals the condition variable, so that no
\* thread stays asleep beside either.
LEMMA WakeupStep == TypeOK /\ NoLostWakeup /\ [Next]_vars => NoLostWakeup'
  <1> SUFFICES ASSUME TypeOK /\ NoLostWakeup, [Next]_vars PROVE NoLostWakeup'
    OBVIOUS
  <1> USE HandlerAssumption
  <1>1. CASE SignalEvent
    BY <1>1 DEF SignalEvent, Enqueue, Wake, lockVars, callVars, TypeOK, NoLostWakeup
  <1>2. CASE SignalEventOOB
    BY <1>2 DEF SignalEventOOB, Enqueue, Wake, lockVars, callVars, TypeOK, NoLostWakeup
  <1>3. CASE AlarmCallback
    BY <1>3 DEF AlarmCallback, Enqueue, Wake, lockVars, callVars, TypeOK, NoLostWakeup
  <1>4. CASE ClientLock
    BY <1>4
    DEF ClientLock, queueVars, threadVars, callVars, history, TypeOK, NoLostWakeup
  <1>5. CASE ClientUnlock
    BY <1>5
    DEF ClientUnlock, queueVars, threadVars, callVars, history, TypeOK, NoLostWakeup
  <1>6. ASSUME NEW t \in Threads, DequeueAbort(t) PROVE NoLostWakeup'
    BY <1>6
    DEF DequeueAbort, At, queueVars, lockVars, callVars, history, TypeOK,
        NoLostWakeup
  <1>7. ASSUME NEW t \in Threads, DequeueEvent(t) PROVE NoLostWakeup'
    BY <1>7 DEF DequeueEvent, At, lockVars, callVars, history, TypeOK, NoLostWakeup
  <1>8. ASSUME NEW t \in Threads, DequeueWait(t) PROVE NoLostWakeup'
    BY <1>8
    DEF DequeueWait, At, queueVars, lockVars, callVars, history, TypeOK,
        NoLostWakeup
  <1>9. ASSUME NEW t \in Threads, SpuriousWake(t) PROVE NoLostWakeup'
    BY <1>9
    DEF SpuriousWake, At, queueVars, lockVars, callVars, history, TypeOK,
        NoLostWakeup
  <1>10. ASSUME NEW t \in Threads, LockOnDispatch(t) PROVE NoLostWakeup'
    BY <1>10 DEF LockOnDispatch, At, queueVars, callVars, history, TypeOK, NoLostWakeup
  <1>11. ASSUME NEW t \in Threads, Dispatch(t) PROVE NoLostWakeup'
    BY <1>11 DEF Dispatch, At, queueVars, callVars, TypeOK, NoLostWakeup
  <1>12. ASSUME NEW c \in Controllers, StartLock(c) PROVE NoLostWakeup'
    BY <1>12 DEF StartLock, Goto, queueVars, threadVars, history, TypeOK, NoLostWakeup
  <1>13. ASSUME NEW c \in Controllers, AddAlarm(c) PROVE NoLostWakeup'
    BY <1>13
    DEF AddAlarm, Goto, queueVars, threadVars, lockVars, history, TypeOK,
        NoLostWakeup
  <1>14. ASSUME NEW c \in Controllers, Create(c) PROVE NoLostWakeup'
    BY <1>14 DEF Create, Goto, queueVars, lockVars, history, TypeOK, NoLostWakeup
  <1>15. ASSUME NEW c \in Controllers, Assign(c) PROVE NoLostWakeup'
    BY <1>15 DEF Assign, Goto, queueVars, lockVars, history, TypeOK, NoLostWakeup
  <1>16. ASSUME NEW c \in Controllers, StopLock(c) PROVE NoLostWakeup'
    BY <1>16 DEF StopLock, Goto, queueVars, threadVars, history, TypeOK, NoLostWakeup
  <1>17. ASSUME NEW c \in Controllers, RemAlarm(c) PROVE NoLostWakeup'
    BY <1>17
    DEF RemAlarm, Goto, queueVars, threadVars, lockVars, history, TypeOK,
        NoLostWakeup
  <1>18. ASSUME NEW c \in Controllers, DequeueWaitAbort(c) PROVE NoLostWakeup'
    BY <1>18 DEF DequeueWaitAbort, Goto, Wake, lockVars, history, TypeOK, NoLostWakeup
  <1>19. ASSUME NEW c \in Controllers, Join(c) PROVE NoLostWakeup'
    BY <1>19 DEF Join, Goto, queueVars, lockVars, history, TypeOK, NoLostWakeup
  <1>20. ASSUME NEW c \in Controllers, DequeueWaitAbortReset(c) PROVE NoLostWakeup'
    BY <1>20
    DEF DequeueWaitAbortReset, Goto, Wake, lockVars, history, TypeOK, NoLostWakeup
  <1>21. ASSUME NEW c \in Controllers, Clear(c) PROVE NoLostWakeup'
    BY <1>21 DEF Clear, Goto, PendingEvents, threadVars, lockVars, TypeOK, NoLostWakeup
  <1>22. ASSUME NEW c \in Controllers, Unlock(c) PROVE NoLostWakeup'
    BY <1>22 DEF Unlock, Goto, queueVars, threadVars, history, TypeOK, NoLostWakeup
  <1>23. ASSUME NEW c \in Controllers, LockManager(c) PROVE NoLostWakeup'
    BY <1>23 DEF LockManager, Goto, queueVars, threadVars, history, TypeOK, NoLostWakeup
  <1>24. ASSUME NEW c \in Controllers, Destroy(c) PROVE NoLostWakeup'
    BY <1>24 DEF Destroy, Goto, PendingEvents, threadVars, TypeOK, NoLostWakeup
  <1>25. ASSUME NEW c \in Controllers, NEW op \in CallNames, Call(c, op) PROVE NoLostWakeup'
    BY <1>25
    DEF Call, Goto, FirstState, Starting, queueVars, threadVars, lockVars, history,
        TypeOK, NoLostWakeup
  <1>26. CASE UNCHANGED vars
    BY <1>26
    DEF vars, queueVars, threadVars, lockVars, callVars, history, TypeOK,
        NoLostWakeup
  <1> QED
    BY <1>1, <1>2, <1>3, <1>4, <1>5, <1>6, <1>7, <1>8, <1>9, <1>10, <1>11, <1>12, <1>13, <1>14, <1>15, <1>16, <1>17, <1>18, <1>19, <1>20, <1>21, <1>22, <1>23, <1>24, <1>25, <1>26
    DEF Next, ThreadStep, CallStep

\* Only eventHandlerStop raises the abort flag, and it lowers it again before
\* it gives up handler->lock.
LEMMA AbortStep == TypeOK /\ LockInv /\ AbortOnlyInStop /\ [Next]_vars => AbortOnlyInStop'
  <1> SUFFICES ASSUME TypeOK /\ LockInv /\ AbortOnlyInStop, [Next]_vars PROVE AbortOnlyInStop'
    OBVIOUS
  <1> USE HandlerAssumption
  <1>1. CASE SignalEvent
    BY <1>1
    DEF SignalEvent, Enqueue, Wake, lockVars, callVars, TypeOK, AbortOnlyInStop,
        LockInv, Holding, InStart, InStop, InStopClear
  <1>2. CASE SignalEventOOB
    BY <1>2
    DEF SignalEventOOB, Enqueue, Wake, lockVars, callVars, TypeOK, AbortOnlyInStop,
        LockInv, Holding, InStart, InStop, InStopClear
  <1>3. CASE AlarmCallback
    BY <1>3
    DEF AlarmCallback, Enqueue, Wake, lockVars, callVars, TypeOK, AbortOnlyInStop,
        LockInv, Holding, InStart, InStop, InStopClear
  <1>4. CASE ClientLock
    BY <1>4
    DEF ClientLock, queueVars, threadVars, callVars, history, TypeOK,
        AbortOnlyInStop, LockInv, Holding, InStart, InStop, InStopClear
  <1>5. CASE ClientUnlock
    BY <1>5
    DEF ClientUnlock, queueVars, threadVars, callVars, history, TypeOK,
        AbortOnlyInStop, LockInv, Holding, InStart, InStop, InStopClear
  <1>6. ASSUME NEW t \in Threads, DequeueAbort(t) PROVE AbortOnlyInStop'
    BY <1>6
    DEF DequeueAbort, At, queueVars, lockVars, callVars, history, TypeOK,
        AbortOnlyInStop, LockInv, Holding, InStart, InStop, InStopClear
  <1>7. ASSUME NEW t \in Threads, DequeueEvent(t) PROVE AbortOnlyInStop'
    BY <1>7
    DEF DequeueEvent, At, lockVars, callVars, history, TypeOK, AbortOnlyInStop,
        LockInv, Holding, InStart, InStop, InStopClear
  <1>8. ASSUME NEW t \in Threads, DequeueWait(t) PROVE AbortOnlyInStop'
    BY <1>8
    DEF DequeueWait, At, queueVars, lockVars, callVars, history, TypeOK,
        AbortOnlyInStop, LockInv, Holding, InStart, InStop, InStopClear
  <1>9. ASSUME NEW t \in Threads, SpuriousWake(t) PROVE AbortOnlyInStop'
    BY <1>9
    DEF SpuriousWake, At, queueVars, lockVars, callVars, history, TypeOK,
        AbortOnlyInStop, LockInv, Holding, InStart, InStop, InStopClear
  <1>10. ASSUME NEW t \in Threads, LockOnDispatch(t) PROVE AbortOnlyInStop'
    BY <1>10
    DEF LockOnDispatch, At, queueVars, callVars, history, TypeOK, AbortOnlyInStop,
        LockInv, Holding, InStart, InStop, InStopClear
  <1>11. ASSUME NEW t \in Threads, Dispatch(t) PROVE AbortOnlyInStop'
    BY <1>11
    DEF Dispatch, At, queueVars, callVars, TypeOK, AbortOnlyInStop, LockInv,
        Holding, InStart, InStop, InStopClear
  <1>12. ASSUME NEW c \in Controllers, StartLock(c) PROVE AbortOnlyInStop'
    BY <1>12
    DEF StartLock, Goto, queueVars, threadVars, history, TypeOK, AbortOnlyInStop,
        LockInv, Holding, InStart, InStop, InStopClear
  <1>13. ASSUME NEW c \in Controllers, AddAlarm(c) PROVE AbortOnlyInStop'
    BY <1>13
    DEF AddAlarm, Goto, queueVars, threadVars, lockVars, history, TypeOK,
        AbortOnlyInStop, LockInv, Holding, InStart, InStop, InStopClear
  <1>14. ASSUME NEW c \in Controllers, Create(c) PROVE AbortOnlyInStop'
    BY <1>14
    DEF Create, Goto, queueVars, lockVars, history, TypeOK, AbortOnlyInStop,
        LockInv, Holding, InStart, InStop, InStopClear
  <1>15. ASSUME NEW c \in Controllers, Assign(c) PROVE AbortOnlyInStop'
    BY <1>15
    DEF Assign, Goto, queueVars, lockVars, history, TypeOK, AbortOnlyInStop,
        LockInv, Holding, InStart, InStop, InStopClear
  <1>16. ASSUME NEW c \in Controllers, StopLock(c) PROVE AbortOnlyInStop'
    BY <1>16
    DEF StopLock, Goto, queueVars, threadVars, history, TypeOK, AbortOnlyInStop,
        LockInv, Holding, InStart, InStop, InStopClear
  <1>17. ASSUME NEW c \in Controllers, RemAlarm(c) PROVE AbortOnlyInStop'
    BY <1>17
    DEF RemAlarm, Goto, queueVars, threadVars, lockVars, history, TypeOK,
        AbortOnlyInStop, LockInv, Holding, InStart, InStop, InStopClear
  <1>18. ASSUME NEW c \in Controllers, DequeueWaitAbort(c) PROVE AbortOnlyInStop'
    BY <1>18
    DEF DequeueWaitAbort, Goto, Wake, lockVars, history, TypeOK, AbortOnlyInStop,
        LockInv, Holding, InStart, InStop, InStopClear
  <1>19. ASSUME NEW c \in Controllers, Join(c) PROVE AbortOnlyInStop'
    BY <1>19
    DEF Join, Goto, queueVars, lockVars, history, TypeOK, AbortOnlyInStop, LockInv,
        Holding, InStart, InStop, InStopClear
  <1>20. ASSUME NEW c \in Controllers, DequeueWaitAbortReset(c) PROVE AbortOnlyInStop'
    BY <1>20
    DEF DequeueWaitAbortReset, Goto, Wake, lockVars, history, TypeOK,
        AbortOnlyInStop, LockInv, Holding, InStart, InStop, InStopClear
  <1>21. ASSUME NEW c \in Controllers, Clear(c) PROVE AbortOnlyInStop'
    BY <1>21
    DEF Clear, Goto, PendingEvents, threadVars, lockVars, TypeOK, AbortOnlyInStop,
        LockInv, Holding, InStart, InStop, InStopClear
  <1>22. ASSUME NEW c \in Controllers, Unlock(c) PROVE AbortOnlyInStop'
    BY <1>22
    DEF Unlock, Goto, queueVars, threadVars, history, TypeOK, AbortOnlyInStop,
        LockInv, Holding, InStart, InStop, InStopClear
  <1>23. ASSUME NEW c \in Controllers, LockManager(c) PROVE AbortOnlyInStop'
    BY <1>23
    DEF LockManager, Goto, queueVars, threadVars, history, TypeOK, AbortOnlyInStop,
        LockInv, Holding, InStart, InStop, InStopClear
  <1>24. ASSUME NEW c \in Controllers, Destroy(c) PROVE AbortOnlyInStop'
    BY <1>24
    DEF Destroy, Goto, PendingEvents, threadVars, TypeOK, AbortOnlyInStop, LockInv,
        Holding, InStart, InStop, InStopClear
  <1>25. ASSUME NEW c \in Controllers, NEW op \in CallNames, Call(c, op) PROVE AbortOnlyInStop'
    BY <1>25
    DEF Call, Goto, FirstState, Starting, queueVars, threadVars, lockVars, history,
        TypeOK, AbortOnlyInStop, LockInv, Holding, InStart, InStop, InStopClear
  <1>26. CASE UNCHANGED vars
    BY <1>26
    DEF vars, queueVars, threadVars, lockVars, callVars, history, TypeOK,
        AbortOnlyInStop, LockInv, Holding, InStart, InStop, InStopClear
  <1> QED
    BY <1>1, <1>2, <1>3, <1>4, <1>5, <1>6, <1>7, <1>8, <1>9, <1>10, <1>11, <1>12, <1>13, <1>14, <1>15, <1>16, <1>17, <1>18, <1>19, <1>20, <1>21, <1>22, <1>23, <1>24, <1>25, <1>26
    DEF Next, ThreadStep, CallStep

\* There is an alarm only beside a thread or in a start, none while a stop
\* joins, and a timeout event only until that stop has cleared the queue.
LEMMA AlarmStep == TypeOK /\ LockInv /\ ThreadInv /\ AlarmInv /\ [Next]_vars => AlarmInv'
  <1> SUFFICES ASSUME TypeOK /\ LockInv /\ ThreadInv /\ AlarmInv, [Next]_vars PROVE AlarmInv'
    OBVIOUS
  <1> USE HandlerAssumption
  <1>1. CASE SignalEvent
    BY <1>1
    DEF SignalEvent, Enqueue, Wake, lockVars, callVars, TypeOK, AlarmInv,
        TimeoutPending, ThreadInv, LockInv, Holding, InStart, InStop, InStopClear
  <1>2. CASE SignalEventOOB
    BY <1>2
    DEF SignalEventOOB, Enqueue, Wake, lockVars, callVars, TypeOK, AlarmInv,
        TimeoutPending, ThreadInv, LockInv, Holding, InStart, InStop, InStopClear
  <1>3. CASE AlarmCallback
    BY <1>3
    DEF AlarmCallback, Enqueue, Wake, lockVars, callVars, TypeOK, AlarmInv,
        TimeoutPending, ThreadInv, LockInv, Holding, InStart, InStop, InStopClear
  <1>4. CASE ClientLock
    BY <1>4
    DEF ClientLock, queueVars, threadVars, callVars, history, TypeOK, AlarmInv,
        TimeoutPending, ThreadInv, LockInv, Holding, InStart, InStop, InStopClear
  <1>5. CASE ClientUnlock
    BY <1>5
    DEF ClientUnlock, queueVars, threadVars, callVars, history, TypeOK, AlarmInv,
        TimeoutPending, ThreadInv, LockInv, Holding, InStart, InStop, InStopClear
  <1>6. ASSUME NEW t \in Threads, DequeueAbort(t) PROVE AlarmInv'
    BY <1>6
    DEF DequeueAbort, At, queueVars, lockVars, callVars, history, TypeOK, AlarmInv,
        TimeoutPending, ThreadInv, LockInv, Holding, InStart, InStop, InStopClear
  <1>7. ASSUME NEW t \in Threads, DequeueEvent(t) PROVE AlarmInv'
    BY <1>7
    DEF DequeueEvent, At, lockVars, callVars, history, TypeOK, AlarmInv,
        TimeoutPending, ThreadInv, LockInv, Holding, InStart, InStop, InStopClear
  <1>8. ASSUME NEW t \in Threads, DequeueWait(t) PROVE AlarmInv'
    BY <1>8
    DEF DequeueWait, At, queueVars, lockVars, callVars, history, TypeOK, AlarmInv,
        TimeoutPending, ThreadInv, LockInv, Holding, InStart, InStop, InStopClear
  <1>9. ASSUME NEW t \in Threads, SpuriousWake(t) PROVE AlarmInv'
    BY <1>9
    DEF SpuriousWake, At, queueVars, lockVars, callVars, history, TypeOK, AlarmInv,
        TimeoutPending, ThreadInv, LockInv, Holding, InStart, InStop, InStopClear
  <1>10. ASSUME NEW t \in Threads, LockOnDispatch(t) PROVE AlarmInv'
    BY <1>10
    DEF LockOnDispatch, At, queueVars, callVars, history, TypeOK, AlarmInv,
        TimeoutPending, ThreadInv, LockInv, Holding, InStart, InStop, InStopClear
  <1>11. ASSUME NEW t \in Threads, Dispatch(t) PROVE AlarmInv'
    BY <1>11
    DEF Dispatch, At, queueVars, callVars, TypeOK, AlarmInv, TimeoutPending,
        ThreadInv, LockInv, Holding, InStart, InStop, InStopClear
  <1>12. ASSUME NEW c \in Controllers, StartLock(c) PROVE AlarmInv'
    BY <1>12
    DEF StartLock, Goto, queueVars, threadVars, history, TypeOK, AlarmInv,
        TimeoutPending, ThreadInv, LockInv, Holding, InStart, InStop, InStopClear
  <1>13. ASSUME NEW c \in Controllers, AddAlarm(c) PROVE AlarmInv'
    BY <1>13
    DEF AddAlarm, Goto, queueVars, threadVars, lockVars, history, TypeOK, AlarmInv,
        TimeoutPending, ThreadInv, LockInv, Holding, InStart, InStop, InStopClear
  <1>14. ASSUME NEW c \in Controllers, Create(c) PROVE AlarmInv'
    BY <1>14
    DEF Create, Goto, queueVars, lockVars, history, TypeOK, AlarmInv,
        TimeoutPending, ThreadInv, LockInv, Holding, InStart, InStop, InStopClear
  <1>15. ASSUME NEW c \in Controllers, Assign(c) PROVE AlarmInv'
    BY <1>15
    DEF Assign, Goto, queueVars, lockVars, history, TypeOK, AlarmInv,
        TimeoutPending, ThreadInv, LockInv, Holding, InStart, InStop, InStopClear
  <1>16. ASSUME NEW c \in Controllers, StopLock(c) PROVE AlarmInv'
    BY <1>16
    DEF StopLock, Goto, queueVars, threadVars, history, TypeOK, AlarmInv,
        TimeoutPending, ThreadInv, LockInv, Holding, InStart, InStop, InStopClear
  <1>17. ASSUME NEW c \in Controllers, RemAlarm(c) PROVE AlarmInv'
    BY <1>17
    DEF RemAlarm, Goto, queueVars, threadVars, lockVars, history, TypeOK, AlarmInv,
        TimeoutPending, ThreadInv, LockInv, Holding, InStart, InStop, InStopClear
  <1>18. ASSUME NEW c \in Controllers, DequeueWaitAbort(c) PROVE AlarmInv'
    BY <1>18
    DEF DequeueWaitAbort, Goto, Wake, lockVars, history, TypeOK, AlarmInv,
        TimeoutPending, ThreadInv, LockInv, Holding, InStart, InStop, InStopClear
  <1>19. ASSUME NEW c \in Controllers, Join(c) PROVE AlarmInv'
    BY <1>19
    DEF Join, Goto, queueVars, lockVars, history, TypeOK, AlarmInv, TimeoutPending,
        ThreadInv, LockInv, Holding, InStart, InStop, InStopClear
  <1>20. ASSUME NEW c \in Controllers, DequeueWaitAbortReset(c) PROVE AlarmInv'
    BY <1>20
    DEF DequeueWaitAbortReset, Goto, Wake, lockVars, history, TypeOK, AlarmInv,
        TimeoutPending, ThreadInv, LockInv, Holding, InStart, InStop, InStopClear
  <1>21. ASSUME NEW c \in Controllers, Clear(c) PROVE AlarmInv'
    BY <1>21
    DEF Clear, Goto, PendingEvents, threadVars, lockVars, TypeOK, AlarmInv,
        TimeoutPending, ThreadInv, LockInv, Holding, InStart, InStop, InStopClear
  <1>22. ASSUME NEW c \in Controllers, Unlock(c) PROVE AlarmInv'
    BY <1>22
    DEF Unlock, Goto, queueVars, threadVars, history, TypeOK, AlarmInv,
        TimeoutPending, ThreadInv, LockInv, Holding, InStart, InStop, InStopClear
  <1>23. ASSUME NEW c \in Controllers, LockManager(c) PROVE AlarmInv'
    BY <1>23
    DEF LockManager, Goto, queueVars, threadVars, history, TypeOK, AlarmInv,
        TimeoutPending, ThreadInv, LockInv, Holding, InStart, InStop, InStopClear
  <1>24. ASSUME NEW c \in Controllers, Destroy(c) PROVE AlarmInv'
    BY <1>24
    DEF Destroy, Goto, PendingEvents, threadVars, TypeOK, AlarmInv, TimeoutPending,
        ThreadInv, LockInv, Holding, InStart, InStop, InStopClear
  <1>25. ASSUME NEW c \in Controllers, NEW op \in CallNames, Call(c, op) PROVE AlarmInv'
    BY <1>25
    DEF Call, Goto, FirstState, Starting, queueVars, threadVars, lockVars, history,
        TypeOK, AlarmInv, TimeoutPending, ThreadInv, LockInv, Holding, InStart,
        InStop, InStopClear
  <1>26. CASE UNCHANGED vars
    BY <1>26
    DEF vars, queueVars, threadVars, lockVars, callVars, history, TypeOK, AlarmInv,
        TimeoutPending, ThreadInv, LockInv, Holding, InStart, InStop, InStopClear
  <1> QED
    BY <1>1, <1>2, <1>3, <1>4, <1>5, <1>6, <1>7, <1>8, <1>9, <1>10, <1>11, <1>12, <1>13, <1>14, <1>15, <1>16, <1>17, <1>18, <1>19, <1>20, <1>21, <1>22, <1>23, <1>24, <1>25, <1>26
    DEF Next, ThreadStep, CallStep

\* Nothing that is allowed to begin after the release still needs the handler.
LEMMA ReleaseStep == TypeOK /\ LockInv /\ ThreadInv /\ AlarmInv /\ ReleaseInv /\ [Next]_vars => ReleaseInv'
  <1> SUFFICES ASSUME TypeOK /\ LockInv /\ ThreadInv /\ AlarmInv /\ ReleaseInv, [Next]_vars PROVE ReleaseInv'
    OBVIOUS
  <1> USE HandlerAssumption
  <1>1. CASE SignalEvent
    BY <1>1
    DEF SignalEvent, Enqueue, Wake, lockVars, callVars, TypeOK, ReleaseInv,
        Releasing, CallNames, Client, Threads, ThreadInv, AlarmInv, LockInv,
        Holding, InStart, InStop, InStopClear
  <1>2. CASE SignalEventOOB
    BY <1>2
    DEF SignalEventOOB, Enqueue, Wake, lockVars, callVars, TypeOK, ReleaseInv,
        Releasing, CallNames, Client, Threads, ThreadInv, AlarmInv, LockInv,
        Holding, InStart, InStop, InStopClear
  <1>3. CASE AlarmCallback
    BY <1>3
    DEF AlarmCallback, Enqueue, Wake, lockVars, callVars, TypeOK, ReleaseInv,
        Releasing, CallNames, Client, Threads, ThreadInv, AlarmInv, LockInv,
        Holding, InStart, InStop, InStopClear
  <1>4. CASE ClientLock
    BY <1>4
    DEF ClientLock, queueVars, threadVars, callVars, history, TypeOK, ReleaseInv,
        Releasing, CallNames, Client, Threads, ThreadInv, AlarmInv, LockInv,
        Holding, InStart, InStop, InStopClear
  <1>5. CASE ClientUnlock
    BY <1>5
    DEF ClientUnlock, queueVars, threadVars, callVars, history, TypeOK, ReleaseInv,
        Releasing, CallNames, Client, Threads, ThreadInv, AlarmInv, LockInv,
        Holding, InStart, InStop, InStopClear
  <1>6. ASSUME NEW t \in Threads, DequeueAbort(t) PROVE ReleaseInv'
    BY <1>6
    DEF DequeueAbort, At, queueVars, lockVars, callVars, history, TypeOK,
        ReleaseInv, Releasing, CallNames, Client, Threads, ThreadInv, AlarmInv,
        LockInv, Holding, InStart, InStop, InStopClear
  <1>7. ASSUME NEW t \in Threads, DequeueEvent(t) PROVE ReleaseInv'
    BY <1>7
    DEF DequeueEvent, At, lockVars, callVars, history, TypeOK, ReleaseInv,
        Releasing, CallNames, Client, Threads, ThreadInv, AlarmInv, LockInv,
        Holding, InStart, InStop, InStopClear
  <1>8. ASSUME NEW t \in Threads, DequeueWait(t) PROVE ReleaseInv'
    BY <1>8
    DEF DequeueWait, At, queueVars, lockVars, callVars, history, TypeOK, ReleaseInv,
        Releasing, CallNames, Client, Threads, ThreadInv, AlarmInv, LockInv,
        Holding, InStart, InStop, InStopClear
  <1>9. ASSUME NEW t \in Threads, SpuriousWake(t) PROVE ReleaseInv'
    BY <1>9
    DEF SpuriousWake, At, queueVars, lockVars, callVars, history, TypeOK,
        ReleaseInv, Releasing, CallNames, Client, Threads, ThreadInv, AlarmInv,
        LockInv, Holding, InStart, InStop, InStopClear
  <1>10. ASSUME NEW t \in Threads, LockOnDispatch(t) PROVE ReleaseInv'
    <2>1. tpc[t] \in {"got", "dispatch"} /\ tpc' = [tpc EXCEPT ![t] = "dispatch"]
      BY <1>10 DEF LockOnDispatch, At
    <2>2. ASSUME NEW u \in Threads, LocksDispatch, tpc'[u] = "dispatch"
          PROVE  dispatchLock' = u
      <3>1. CASE u = t
        BY <1>10, <2>1, <2>2, <3>1 DEF LockOnDispatch, TypeOK
      <3>2. CASE u # t
        <4>1. tpc[u] = "dispatch"
          BY <2>1, <2>2, <3>2 DEF TypeOK
        <4>2. dispatchLock = u
          BY <2>2, <4>1 DEF ReleaseInv
        <4> QED
          BY <1>10, <2>2, <3>2, <4>2 DEF LockOnDispatch, At, ReleaseInv, Threads
      <3> QED
        BY <3>1, <3>2
    <2>3. ASSUME NEW c \in Controllers, goal[c] = "free", cpc[c] # "idle"
          PROVE  ~LocksDispatch
      <3>1. LocksDispatch => dispatchLock = c
        BY <2>3 DEF ReleaseInv
      <3> QED
        BY <1>10, <3>1 DEF LockOnDispatch, At, ReleaseInv, Threads
    <2>4. alive
      <3>1. t \in Live
        BY <2>1 DEF Live
      <3>2. ~alive => thread = None /\ \A c \in Controllers : cpc[c] = "idle"
        BY DEF ReleaseInv
      <3>3. ~alive => Live = {}
        BY <3>1, <3>2 DEF ThreadInv, Threads, Live
      <3> QED
        BY <3>1, <3>3
    <2> QED
      BY <1>10, <2>2, <2>3, <2>4
      DEF LockOnDispatch, queueVars, callVars, history, ReleaseInv, Releasing, InStart
  <1>11. ASSUME NEW t \in Threads, Dispatch(t) PROVE ReleaseInv'
    <2>1. tpc[t] \in {"got", "dispatch"} /\ tpc' = [tpc EXCEPT ![t] = "test"]
      BY <1>11 DEF Dispatch, At
    <2>2. ASSUME NEW u \in Threads, LocksDispatch, tpc'[u] = "dispatch"
          PROVE  dispatchLock' = u
      <3>1. CASE u = t
        BY <1>11, <2>1, <2>2, <3>1 DEF Dispatch, TypeOK
      <3>2. CASE u # t
        <4>1. tpc[u] = "dispatch"
          BY <2>1, <2>2, <3>2 DEF TypeOK
        <4>2. dispatchLock = u
          BY <2>2, <4>1 DEF ReleaseInv
        <4> QED
          BY <1>11, <2>2, <3>2, <4>2 DEF Dispatch, At, ReleaseInv, Threads
      <3> QED
        BY <3>1, <3>2
    <2>3. ASSUME NEW c \in Controllers, goal[c] = "free", cpc[c] # "idle"
          PROVE  ~LocksDispatch
      <3>1. LocksDispatch => dispatchLock = c
        BY <2>3 DEF ReleaseInv
      <3> QED
        BY <1>11, <3>1 DEF Dispatch, At, ReleaseInv, Threads
    <2>4. alive
      <3>1. t \in Live
        BY <2>1 DEF Live
      <3>2. ~alive => thread = None /\ \A c \in Controllers : cpc[c] = "idle"
        BY DEF ReleaseInv
      <3>3. ~alive => Live = {}
        BY <3>1, <3>2 DEF ThreadInv, Threads, Live
      <3> QED
        BY <3>1, <3>3
    <2> QED
      BY <1>11, <2>2, <2>3, <2>4
      DEF Dispatch, queueVars, callVars, ReleaseInv, Releasing, InStart
  <1>12. ASSUME NEW c \in Controllers, StartLock(c) PROVE ReleaseInv'
    BY <1>12
    DEF StartLock, Goto, queueVars, threadVars, history, TypeOK, ReleaseInv,
        Releasing, CallNames, Client, Threads, ThreadInv, AlarmInv, LockInv,
        Holding, InStart, InStop, InStopClear
  <1>13. ASSUME NEW c \in Controllers, AddAlarm(c) PROVE ReleaseInv'
    BY <1>13
    DEF AddAlarm, Goto, queueVars, threadVars, lockVars, history, TypeOK,
        ReleaseInv, Releasing, CallNames, Client, Threads, ThreadInv, AlarmInv,
        LockInv, Holding, InStart, InStop, InStopClear
  <1>14. ASSUME NEW c \in Controllers, Create(c) PROVE ReleaseInv'
    BY <1>14
    DEF Create, Goto, queueVars, lockVars, history, TypeOK, ReleaseInv, Releasing,
        CallNames, Client, Threads, ThreadInv, AlarmInv, LockInv, Holding, InStart,
        InStop, InStopClear
  <1>15. ASSUME NEW c \in Controllers, Assign(c) PROVE ReleaseInv'
    BY <1>15
    DEF Assign, Goto, queueVars, lockVars, history, TypeOK, ReleaseInv, Releasing,
        CallNames, Client, Threads, ThreadInv, AlarmInv, LockInv, Holding, InStart,
        InStop, InStopClear
  <1>16. ASSUME NEW c \in Controllers, StopLock(c) PROVE ReleaseInv'
    BY <1>16
    DEF StopLock, Goto, queueVars, threadVars, history, TypeOK, ReleaseInv,
        Releasing, CallNames, Client, Threads, ThreadInv, AlarmInv, LockInv,
        Holding, InStart, InStop, InStopClear
  <1>17. ASSUME NEW c \in Controllers, RemAlarm(c) PROVE ReleaseInv'
    BY <1>17
    DEF RemAlarm, Goto, queueVars, threadVars, lockVars, history, TypeOK,
        ReleaseInv, Releasing, CallNames, Client, Threads, ThreadInv, AlarmInv,
        LockInv, Holding, InStart, InStop, InStopClear
  <1>18. ASSUME NEW c \in Controllers, DequeueWaitAbort(c) PROVE ReleaseInv'
    BY <1>18
    DEF DequeueWaitAbort, Goto, Wake, lockVars, history, TypeOK, ReleaseInv,
        Releasing, CallNames, Client, Threads, ThreadInv, AlarmInv, LockInv,
        Holding, InStart, InStop, InStopClear
  <1>19. ASSUME NEW c \in Controllers, Join(c) PROVE ReleaseInv'
    BY <1>19
    DEF Join, Goto, queueVars, lockVars, history, TypeOK, ReleaseInv, Releasing,
        CallNames, Client, Threads, ThreadInv, AlarmInv, LockInv, Holding, InStart,
        InStop, InStopClear
  <1>20. ASSUME NEW c \in Controllers, DequeueWaitAbortReset(c) PROVE ReleaseInv'
    BY <1>20
    DEF DequeueWaitAbortReset, Goto, Wake, lockVars, history, TypeOK, ReleaseInv,
        Releasing, CallNames, Client, Threads, ThreadInv, AlarmInv, LockInv,
        Holding, InStart, InStop, InStopClear
  <1>21. ASSUME NEW c \in Controllers, Clear(c) PROVE ReleaseInv'
    BY <1>21
    DEF Clear, Goto, PendingEvents, threadVars, lockVars, TypeOK, ReleaseInv,
        Releasing, CallNames, Client, Threads, ThreadInv, AlarmInv, LockInv,
        Holding, InStart, InStop, InStopClear
  <1>22. ASSUME NEW c \in Controllers, Unlock(c) PROVE ReleaseInv'
    BY <1>22
    DEF Unlock, Goto, queueVars, threadVars, history, TypeOK, ReleaseInv, Releasing,
        CallNames, Client, Threads, ThreadInv, AlarmInv, LockInv, Holding, InStart,
        InStop, InStopClear
  <1>23. ASSUME NEW c \in Controllers, LockManager(c) PROVE ReleaseInv'
    BY <1>23
    DEF LockManager, Goto, queueVars, threadVars, history, TypeOK, ReleaseInv,
        Releasing, CallNames, Client, Threads, ThreadInv, AlarmInv, LockInv,
        Holding, InStart, InStop, InStopClear
  <1>24. ASSUME NEW c \in Controllers, Destroy(c) PROVE ReleaseInv'
    BY <1>24, SMTT(60)
    DEF Destroy, Goto, PendingEvents, threadVars, TypeOK, ReleaseInv, Releasing,
        CallNames, Client, Threads, ThreadInv, AlarmInv, LockInv, Holding, InStart,
        InStop, InStopClear
  <1>25. ASSUME NEW c \in Controllers, NEW op \in CallNames, Call(c, op) PROVE ReleaseInv'
    BY <1>25
    DEF Call, Goto, FirstState, Starting, queueVars, threadVars, lockVars, history,
        TypeOK, ReleaseInv, Releasing, CallNames, Client, Threads, ThreadInv,
        AlarmInv, LockInv, Holding, InStart, InStop, InStopClear
  <1>26. CASE UNCHANGED vars
    BY <1>26
    DEF vars, queueVars, threadVars, lockVars, callVars, history, TypeOK,
        ReleaseInv, Releasing, CallNames, Client, Threads, ThreadInv, AlarmInv,
        LockInv, Holding, InStart, InStop, InStopClear
  <1> QED
    BY <1>1, <1>2, <1>3, <1>4, <1>5, <1>6, <1>7, <1>8, <1>9, <1>10, <1>11, <1>12, <1>13, <1>14, <1>15, <1>16, <1>17, <1>18, <1>19, <1>20, <1>21, <1>22, <1>23, <1>24, <1>25, <1>26
    DEF Next, ThreadStep, CallStep
-----------------------------------------------------------------------------
\* The inductive invariant holds of a handler that was just created.
LEMMA InitInv == Init => IInv
  <1> SUFFICES ASSUME Init PROVE IInv
    OBVIOUS
  <1> USE HandlerAssumption
  <1>1. TypeOK
    BY InitType
  <1>2. LockInv
    BY DEF Init, LockInv, Holding, InStart, InStop, InStopClear
  <1>3. ThreadInv
    BY DEF Init, ThreadInv, Live, InStart, InStopClear, Threads
  <1>4. NoLostWakeup /\ AbortOnlyInStop /\ AlarmInv
    BY DEF Init, NoLostWakeup, AbortOnlyInStop, AlarmInv, TimeoutPending
  <1>5. ReleaseInv
    BY DEF Init, ReleaseInv, Releasing, InStart
  <1> QED
    BY <1>1, <1>2, <1>3, <1>4, <1>5 DEF IInv

\* The inductive invariant is kept by every step: the lemmas above together.
LEMMA StepInv == IInv /\ [Next]_vars => IInv'
  BY TypeStep, LockStep, ThreadInvStep, WakeupStep, AbortStep, AlarmStep, ReleaseStep
  DEF IInv

(* The invariant of the handler holds of every behaviour, whatever the      *)
(* number of controllers, of handler threads and of events.                 *)
THEOREM Invariance == Spec => []IInv
  BY InitInv, StepInv, PTL DEF Spec

(* Every variable of the handler keeps its type; an event is in scratch     *)
(* whenever a thread is about to dispatch.                                  *)
THEOREM TypeCorrect == Spec => []TypeOK
  <1>1. IInv => TypeOK
    BY DEF IInv
  <1> QED
    BY Invariance, <1>1, PTL

\* A live thread is the handler's, or the one that a start has made and not stored.
LEMMA OneLiveThread == IInv => AtMostOneThread
  <1> SUFFICES ASSUME IInv, NEW t \in Live, NEW u \in Live PROVE t = u
    BY DEF AtMostOneThread
  <1>1. CASE \E c \in Controllers : cpc[c] = "assign"
    <2>1. thread = None
      BY <1>1 DEF IInv, ThreadInv, InStart
    <2>2. t # None /\ u # None
      BY HandlerAssumption DEF Live, Threads
    <2> QED
      BY <2>1, <2>2 DEF IInv, ThreadInv
  <1>2. CASE \A c \in Controllers : cpc[c] # "assign"
    BY <1>2 DEF IInv, ThreadInv
  <1> QED
    BY <1>1, <1>2

(* However eventHandlerStart and eventHandlerStop interleave, a handler     *)
(* never has two live threads, so its scratch event has one user.           *)
THEOREM OneThread == Spec => []AtMostOneThread
  BY Invariance, OneLiveThread, PTL

(* A handler thread never sleeps while an event is pending or a stop waits  *)
(* for it: no signal on the queue's condition variable is lost.             *)
THEOREM WakeupsArrive == Spec => []NoLostWakeup
  <1>1. IInv => NoLostWakeup
    BY DEF IInv
  <1> QED
    BY Invariance, <1>1, PTL

(* Between calls, a handler without a thread has no alarm and no queued     *)
(* timeout: eventHandlerStop removes the alarm before it clears the queue.  *)
THEOREM StopsTimeouts == Spec => []NoStaleTimeout
  <1>1. IInv => NoStaleTimeout
    <2> SUFFICES ASSUME IInv, handlerLock = None, thread = None
                 PROVE  ~alarm /\ ~TimeoutPending
      BY DEF NoStaleTimeout, TimeoutPending
    <2>1. \A c \in Controllers : ~Holding(c)
      BY HandlerAssumption DEF IInv, LockInv
    <2>2. \A c \in Controllers :
             cpc[c] \notin {"create", "assign", "reset"} /\ ~InStopClear(c)
      BY <2>1 DEF Holding, InStart, InStop
    <2> QED
      BY <2>2 DEF IInv, AlarmInv
  <1> QED
    BY Invariance, <1>1, PTL

(* The abort flag of the queue is on only while the stop that set it waits  *)
(* for the thread: a later thread never finds it on and quits.              *)
THEOREM AbortIsLocal == Spec => []AbortOnlyInStop
  <1>1. IInv => AbortOnlyInStop
    BY DEF IInv
  <1> QED
    BY Invariance, <1>1, PTL

(* Once a release has freed the handler, no thread runs on it, no alarm     *)
(* calls it back, and none of its locks is held.                            *)
THEOREM ReleaseIsQuiet == Spec => []QuietAfterRelease
  <1>1. IInv => QuietAfterRelease
    <2> SUFFICES ASSUME IInv, ~alive PROVE QuietAfterRelease
      BY DEF QuietAfterRelease
    <2>1. /\ \A c \in Controllers : cpc[c] = "idle"
          /\ thread = None /\ pending = <<>> /\ dispatchLock = None
      BY DEF IInv, ReleaseInv
    <2>2. Live = {}
      <3>1. \A t \in Live : t = None
        BY <2>1 DEF IInv, ThreadInv
      <3> QED
        BY <3>1, HandlerAssumption DEF Live, Threads
    <2>3. ~alarm
      BY <2>1 DEF IInv, AlarmInv
    <2>4. handlerLock = None
      BY <2>1 DEF IInv, TypeOK, LockInv, Holding, InStart, InStop, InStopClear
    <2> QED
      BY <2>1, <2>2, <2>3, <2>4 DEF QuietAfterRelease
  <1> QED
    BY Invariance, <1>1, PTL

-----------------------------------------------------------------------------
(***************************************************************************)
(* Each event the handler is given is in one place: pending, in the hands   *)
(* of the handler's thread, dispatched, or destroyed.  It rests on the      *)
(* invariant above: with at most one live thread, a thread that takes an    *)
(* event from the queue does not overwrite one that is being dispatched.    *)
(***************************************************************************)
IdsOf(s) == {s[i].id : i \in 1..Len(s)}

Distinct(s) == \A i, j \in 1..Len(s) : s[i].id = s[j].id => i = j

\* The inductive invariant: where events are, by their numbers.
InOnePlace ==
    /\ nextId > 0
    /\ Distinct(pending) /\ Distinct(dispatched)
    /\ IdsOf(pending) \cup ServingIds \cup IdsOf(dispatched) \cup Ids(destroyed)
           = 1..(nextId - 1)
    /\ IdsOf(pending) \cap (ServingIds \cup IdsOf(dispatched) \cup Ids(destroyed)) = {}
    /\ ServingIds \cap (IdsOf(dispatched) \cup Ids(destroyed)) = {}
    /\ IdsOf(dispatched) \cap Ids(destroyed) = {}

-----------------------------------------------------------------------------
\* An event added at either end of a sequence, or taken from its head.
LEMMA AppendIds ==
    ASSUME NEW s \in Seq(Event), NEW e \in Event, Distinct(s), e.id \notin IdsOf(s)
    PROVE  Distinct(Append(s, e)) /\ IdsOf(Append(s, e)) = IdsOf(s) \cup {e.id}
  <1> DEFINE r == Append(s, e)
  <1>1. /\ Len(s) \in Nat /\ Len(r) = Len(s) + 1 /\ r[Len(s) + 1] = e
        /\ \A i \in 1..Len(s) : r[i] = s[i]
    BY AppendProperties, LenProperties
  <1> HIDE DEF r
  <1>2. \A i \in 1..Len(r) : i \in 1..Len(s) \/ i = Len(s) + 1
    BY <1>1
  <1>3. Distinct(r)
    BY <1>1, <1>2 DEF Distinct, IdsOf
  <1>4. IdsOf(r) = IdsOf(s) \cup {e.id}
    <2>1. IdsOf(r) \subseteq IdsOf(s) \cup {e.id}
      BY <1>1, <1>2 DEF IdsOf
    <2>2. \A i \in 1..Len(s) : i \in 1..Len(r)
      BY <1>1
    <2>3. Len(s) + 1 \in 1..Len(r)
      BY <1>1
    <2> QED BY <1>1, <2>1, <2>2, <2>3 DEF IdsOf
  <1> QED BY <1>3, <1>4 DEF r

LEMMA HeadIds ==
    ASSUME NEW s \in Seq(Event), NEW e \in Event, Distinct(s), e.id \notin IdsOf(s)
    PROVE  Distinct(<<e>> \o s) /\ IdsOf(<<e>> \o s) = IdsOf(s) \cup {e.id}
  <1> DEFINE z == <<e>>
             r == z \o s
  <1>1. z \in Seq(Event) /\ Len(z) = 1 /\ z[1] = e
    OBVIOUS
  <1> HIDE DEF z
  <1>2. /\ Len(s) \in Nat /\ Len(r) = Len(z) + Len(s)
        /\ \A i \in 1..(Len(z) + Len(s)) : r[i] = IF i <= Len(z) THEN z[i] ELSE s[i - Len(z)]
    BY <1>1, ConcatProperties, LenProperties
  <1> HIDE DEF r
  <1>3. Len(r) = Len(s) + 1 /\ r[1] = e /\ \A i \in 1..Len(s) : i + 1 \in 1..Len(r) /\ r[i + 1] = s[i]
    BY <1>1, <1>2
  <1>4. \A i \in 1..Len(r) : i = 1 \/ (i - 1 \in 1..Len(s) /\ r[i] = s[i - 1])
    BY <1>1, <1>2, <1>3
  <1>5. Distinct(r)
    <2> SUFFICES ASSUME NEW i \in 1..Len(r), NEW j \in 1..Len(r), r[i].id = r[j].id
                 PROVE  i = j
      BY DEF Distinct
    <2>1. \A k \in 1..Len(s) : s[k].id # e.id
      BY DEF IdsOf
    <2>2. CASE i = 1 \/ j = 1
      BY <1>3, <1>4, <2>1, <2>2, SMTT(60)
    <2>3. CASE i # 1 /\ j # 1
      <3>1. i - 1 \in 1..Len(s) /\ j - 1 \in 1..Len(s) /\ s[i - 1].id = s[j - 1].id
        BY <1>4, <2>3
      <3>2. i - 1 = j - 1
        BY <3>1 DEF Distinct
      <3> QED BY <1>2, <3>2
    <2> QED BY <2>2, <2>3
  <1>6. IdsOf(r) = IdsOf(s) \cup {e.id}
    <2>1. IdsOf(r) \subseteq IdsOf(s) \cup {e.id}
      BY <1>3, <1>4 DEF IdsOf
    <2>2. 1 \in 1..Len(r)
      BY <1>2, <1>3
    <2>3. e.id \in IdsOf(r)
      BY <1>3, <2>2 DEF IdsOf
    <2>4. ASSUME NEW i \in 1..Len(s)
          PROVE  s[i].id \in IdsOf(r)
      BY <1>3 DEF IdsOf
    <2> QED BY <2>1, <2>3, <2>4 DEF IdsOf
  <1> QED BY <1>5, <1>6 DEF r, z

LEMMA TailIds ==
    ASSUME NEW s \in Seq(Event), s # <<>>, Distinct(s)
    PROVE  /\ Distinct(Tail(s)) /\ IdsOf(Tail(s)) = IdsOf(s) \ {Head(s).id}
           /\ Head(s).id \in IdsOf(s)
  <1> DEFINE r == Tail(s)
  <1>1. /\ Len(s) \in Nat /\ Len(r) = Len(s) - 1 /\ Head(s) = s[1] /\ 1 \in 1..Len(s)
        /\ \A i \in 1..Len(r) : r[i] = s[i + 1]
    BY HeadTailProperties, LenProperties, EmptySeq
  <1> HIDE DEF r
  <1>2. \A i \in 1..Len(r) : i + 1 \in 1..Len(s)
    BY <1>1
  <1>3. \A i \in 1..Len(s) : i = 1 \/ (i - 1 \in 1..Len(r) /\ s[i] = r[i - 1])
    BY <1>1
  <1>4. Distinct(r)
    BY <1>1, <1>2 DEF Distinct
  <1>5. IdsOf(r) \subseteq IdsOf(s) \ {s[1].id}
    BY <1>1, <1>2 DEF IdsOf, Distinct
  <1>6. IdsOf(s) \ {s[1].id} \subseteq IdsOf(r)
    BY <1>3 DEF IdsOf
  <1> QED BY <1>1, <1>4, <1>5, <1>6 DEF r, IdsOf

\* What EachEventOnce calls the ids of the pending and of the dispatched events.
LEMMA IdsOfPlaces ==
    ASSUME TypeOK
    PROVE  Ids(PendingEvents) = IdsOf(pending) /\ Ids(DispatchedEvents) = IdsOf(dispatched)
  <1>1. DOMAIN pending = 1..Len(pending) /\ DOMAIN dispatched = 1..Len(dispatched)
    BY LenProperties DEF TypeOK
  <1> QED BY <1>1 DEF Ids, IdsOf, PendingEvents, DispatchedEvents

-----------------------------------------------------------------------------
\* A step that moves no event.
LEMMA NothingMoves ==
    ASSUME InOnePlace, UNCHANGED <<pending, dispatched, destroyed, nextId, scratch>>,
           Serving' = Serving
    PROVE  InOnePlace'
  <1>1. ServingIds' = ServingIds /\ Ids(destroyed') = Ids(destroyed)
    BY DEF ServingIds
  <1>2. /\ IdsOf(pending') = IdsOf(pending) /\ Distinct(pending') = Distinct(pending)
        /\ IdsOf(dispatched') = IdsOf(dispatched)
        /\ Distinct(dispatched') = Distinct(dispatched)
    OBVIOUS
  <1> QED BY <1>1, <1>2 DEF InOnePlace

LEMMA InitOnce ==
    Init => InOnePlace
  <1> SUFFICES ASSUME Init PROVE InOnePlace
    OBVIOUS
  <1>1. Serving = {}
    BY DEF Init, Serving
  <1> QED BY <1>1 DEF Init, InOnePlace, ServingIds, IdsOf, Distinct, Ids

LEMMA WakeServesNone ==
    ASSUME Wake, TypeOK
    PROVE  Serving' = Serving
  BY DEF Wake, Serving

LEMMA EnqueueOnce ==
    ASSUME InOnePlace, TypeOK, NEW kind \in Kinds, Enqueue(kind)
    PROVE  InOnePlace'
  <1> DEFINE e == [id |-> nextId, kind |-> kind]
  <1>1. e \in Event /\ e.id = nextId /\ nextId \in Nat
    BY HandlerAssumption DEF Event, TypeOK, Enqueue
  <1>2. nextId \notin IdsOf(pending) /\ pending \in Seq(Event)
    BY <1>1 DEF InOnePlace, TypeOK
  <1>3. pending' = Append(pending, e) \/ pending' = <<e>> \o pending
    BY DEF Enqueue
  <1> HIDE DEF e
  <1>4. Distinct(pending') /\ IdsOf(pending') = IdsOf(pending) \cup {nextId}
    <2>1. Distinct(pending) /\ e.id \notin IdsOf(pending)
      BY <1>1, <1>2 DEF InOnePlace
    <2>2. CASE pending' = Append(pending, e)
      BY <1>1, <1>2, <2>1, <2>2, AppendIds
    <2>3. CASE pending' = <<e>> \o pending
      BY <1>1, <1>2, <2>1, <2>3, HeadIds
    <2> QED BY <1>3, <2>2, <2>3
  <1>5. nextId' = nextId + 1 /\ UNCHANGED <<dispatched, destroyed, scratch>> /\ Serving' = Serving
    BY WakeServesNone DEF Enqueue
  <1>6. /\ IdsOf(dispatched') = IdsOf(dispatched) /\ Ids(destroyed') = Ids(destroyed)
        /\ ServingIds' = ServingIds /\ Distinct(dispatched')
    BY <1>5 DEF InOnePlace, IdsOf, Ids, ServingIds
  <1>7. 1..(nextId' - 1) = 1..(nextId - 1) \cup {nextId} /\ nextId \notin 1..(nextId - 1)
    BY <1>1, <1>5 DEF InOnePlace
  <1>8. nextId \notin ServingIds \cup IdsOf(dispatched) \cup Ids(destroyed)
    BY <1>7 DEF InOnePlace
  <1>9. nextId' > 0
    BY <1>1, <1>5
  <1> QED BY <1>4, <1>6, <1>7, <1>8, <1>9, Zenon DEF InOnePlace

\* A thread takes an event when none is being served.
LEMMA DequeueOnce ==
    ASSUME InOnePlace, IInv, NEW t \in Threads, DequeueEvent(t)
    PROVE  InOnePlace'
  <1>1. /\ pending # <<>> /\ pending \in Seq(Event) /\ tpc \in [Threads -> ThreadStates]
        /\ tpc[t] = "test" /\ tpc' = [tpc EXCEPT ![t] = "got"]
        /\ scratch' = Head(pending) /\ pending' = Tail(pending)
    BY DEF DequeueEvent, At, IInv, TypeOK
  <1>2. Serving = {}
    <2> SUFFICES ASSUME NEW u \in Serving PROVE FALSE
      OBVIOUS
    <2>1. t \in Live /\ u \in Live /\ t # u
      BY <1>1 DEF Live, Serving
    <2> QED BY <2>1, OneLiveThread DEF AtMostOneThread
  <1>3. Serving' = {t}
    BY <1>1, <1>2 DEF Serving
  <1>4. ServingIds = {} /\ ServingIds' = {Head(pending).id}
    BY <1>1, <1>2, <1>3 DEF ServingIds
  <1>5. /\ Distinct(pending') /\ IdsOf(pending') = IdsOf(pending) \ {Head(pending).id}
        /\ Head(pending).id \in IdsOf(pending)
    BY <1>1, TailIds DEF InOnePlace
  <1>6. UNCHANGED <<dispatched, destroyed, nextId>>
    BY DEF DequeueEvent, history
  <1>7. /\ IdsOf(dispatched') = IdsOf(dispatched) /\ Ids(destroyed') = Ids(destroyed)
        /\ Distinct(dispatched') = Distinct(dispatched)
    BY <1>6 DEF Ids
  <1> QED BY <1>4, <1>5, <1>6, <1>7, ZenonT(60) DEF InOnePlace

\* The thread that dispatches is the one that serves.
LEMMA DispatchOnce ==
    ASSUME InOnePlace, IInv, NEW t \in Threads, Dispatch(t)
    PROVE  InOnePlace'
  <1>1. /\ tpc \in [Threads -> ThreadStates] /\ dispatched \in Seq(Event)
        /\ tpc[t] = "dispatch" /\ tpc' = [tpc EXCEPT ![t] = "test"]
        /\ dispatched' = Append(dispatched, scratch)
    BY DEF Dispatch, At, IInv, TypeOK
  <1>2. t \in Serving /\ \A u \in Serving : u = t
    <2>1. t \in Serving /\ Serving \subseteq Live
      BY <1>1 DEF Live, Serving
    <2> QED BY <2>1, OneLiveThread DEF AtMostOneThread
  <1>3. Serving' = {}
    BY <1>1, <1>2 DEF Serving
  <1>4. ServingIds = {scratch.id} /\ ServingIds' = {}
    BY <1>2, <1>3 DEF ServingIds
  <1>5. scratch \in Event
    BY <1>2 DEF IInv, TypeOK
  <1>6. Distinct(dispatched') /\ IdsOf(dispatched') = IdsOf(dispatched) \cup {scratch.id}
    BY <1>1, <1>4, <1>5, AppendIds DEF InOnePlace
  <1>7. UNCHANGED <<pending, destroyed, nextId>>
    BY DEF Dispatch, queueVars
  <1>8. /\ IdsOf(pending') = IdsOf(pending) /\ Ids(destroyed') = Ids(destroyed)
        /\ Distinct(pending') = Distinct(pending)
    BY <1>7 DEF Ids
  <1> QED BY <1>4, <1>6, <1>7, <1>8, Zenon DEF InOnePlace

\* The pending events are destroyed, all of them.
LEMMA ClearOnce ==
    ASSUME InOnePlace, IInv, NEW c \in Controllers, Clear(c) \/ Destroy(c)
    PROVE  InOnePlace'
  <1>1. /\ pending' = <<>> /\ destroyed' = destroyed \cup PendingEvents
        /\ UNCHANGED <<dispatched, nextId, scratch, tpc>>
    BY DEF Clear, Destroy, threadVars
  <1>2. IdsOf(pending') = {} /\ Distinct(pending')
    BY <1>1 DEF IdsOf, Distinct
  <1>3. Ids(PendingEvents) = IdsOf(pending)
    BY IdsOfPlaces DEF IInv
  <1>4. Ids(destroyed') = Ids(destroyed) \cup IdsOf(pending)
    BY <1>1, <1>3 DEF Ids
  <1>5. Serving' = Serving
    BY <1>1 DEF Serving
  <1>6. /\ ServingIds' = ServingIds /\ IdsOf(dispatched') = IdsOf(dispatched)
        /\ Distinct(dispatched') = Distinct(dispatched)
    BY <1>1, <1>5 DEF ServingIds
  <1> QED BY <1>1, <1>2, <1>4, <1>6, Zenon DEF InOnePlace

\* The other steps move a thread, a lock, the alarm or a call.
OtherStep ==
    \/ ClientLock \/ ClientUnlock \/ UNCHANGED vars
    \/ \E t \in Threads : DequeueAbort(t) \/ DequeueWait(t) \/ SpuriousWake(t)
                            \/ LockOnDispatch(t)
    \/ \E c \in Controllers :
           \/ StartLock(c) \/ AddAlarm(c) \/ Create(c) \/ Assign(c)
           \/ StopLock(c) \/ RemAlarm(c) \/ DequeueWaitAbort(c) \/ Join(c)
           \/ DequeueWaitAbortReset(c) \/ Unlock(c) \/ LockManager(c)
           \/ \E op \in CallNames : Call(c, op)

LEMMA OthersMoveNothing ==
    ASSUME IInv, OtherStep
    PROVE  UNCHANGED <<pending, dispatched, destroyed, nextId, scratch>> /\ Serving' = Serving
  <1> USE DEF queueVars, threadVars, lockVars, callVars, history, vars
  <1>1. TypeOK /\ ThreadInv /\ tpc \in [Threads -> ThreadStates]
    BY DEF IInv, TypeOK
  <1>2. CASE ClientLock \/ ClientUnlock \/ UNCHANGED vars
    <2>1. UNCHANGED <<pending, dispatched, destroyed, nextId, scratch, tpc>>
      BY <1>2 DEF ClientLock, ClientUnlock
    <2>2. Serving' = Serving
      BY <2>1 DEF Serving
    <2> QED BY <2>1, <2>2
  <1>3. ASSUME NEW t \in Threads,
               DequeueAbort(t) \/ DequeueWait(t) \/ SpuriousWake(t) \/ LockOnDispatch(t)
        PROVE  UNCHANGED <<pending, dispatched, destroyed, nextId, scratch>> /\ Serving' = Serving
    <2>1. UNCHANGED <<pending, dispatched, destroyed, nextId, scratch>>
      BY <1>3 DEF DequeueAbort, DequeueWait, SpuriousWake, LockOnDispatch
    <2>2. Serving' = Serving
      BY <1>1, <1>3
         DEF DequeueAbort, DequeueWait, SpuriousWake, LockOnDispatch, At, Serving
    <2> QED BY <2>1, <2>2
  <1>4. ASSUME NEW c \in Controllers,
               \/ StartLock(c) \/ AddAlarm(c) \/ Assign(c) \/ StopLock(c)
               \/ RemAlarm(c) \/ Join(c) \/ Unlock(c) \/ LockManager(c)
               \/ \E op \in CallNames : Call(c, op)
        PROVE  UNCHANGED <<pending, dispatched, destroyed, nextId, scratch>> /\ Serving' = Serving
    <2>1. UNCHANGED <<pending, dispatched, destroyed, nextId, scratch, tpc>>
      BY <1>4 DEF StartLock, AddAlarm, Assign, StopLock, RemAlarm, Join, Unlock,
                  LockManager, Call
    <2>2. Serving' = Serving
      BY <2>1 DEF Serving
    <2> QED BY <2>1, <2>2
  <1>5. ASSUME NEW c \in Controllers, DequeueWaitAbort(c) \/ DequeueWaitAbortReset(c)
        PROVE  UNCHANGED <<pending, dispatched, destroyed, nextId, scratch>> /\ Serving' = Serving
    <2>1. UNCHANGED <<pending, dispatched, destroyed, nextId, scratch>> /\ Wake
      BY <1>5 DEF DequeueWaitAbort, DequeueWaitAbortReset
    <2> QED BY <1>1, <2>1, WakeServesNone
  <1>6. ASSUME NEW c \in Controllers, Create(c)
        PROVE  UNCHANGED <<pending, dispatched, destroyed, nextId, scratch>> /\ Serving' = Serving
    <2>1. /\ UNCHANGED <<pending, dispatched, destroyed, nextId, scratch>>
          /\ tpc' = [tpc EXCEPT ![born + 1] = "test"]
      BY <1>6 DEF Create
    <2>2. ASSUME born + 1 \in Threads
          PROVE  tpc[born + 1] = "unborn"
      BY <1>1, <2>2, HandlerAssumption DEF TypeOK, ThreadInv, Threads
    <2>3. Serving' = Serving
      BY <1>1, <2>1, <2>2 DEF Serving
    <2> QED BY <2>1, <2>3
  <1> QED BY <1>2, <1>3, <1>4, <1>5, <1>6 DEF OtherStep

-----------------------------------------------------------------------------
LEMMA NextOnce ==
    ASSUME InOnePlace, IInv, [Next]_vars
    PROVE  InOnePlace'
  <1>1. CASE SignalEvent \/ SignalEventOOB \/ AlarmCallback
    BY <1>1, EnqueueOnce DEF SignalEvent, SignalEventOOB, AlarmCallback, Kinds, IInv
  <1>2. CASE \E t \in Threads : DequeueEvent(t) \/ Dispatch(t)
    BY <1>2, DequeueOnce, DispatchOnce
  <1>3. CASE \E c \in Controllers : Clear(c) \/ Destroy(c)
    BY <1>3, ClearOnce
  <1>4. CASE OtherStep
    BY <1>4, OthersMoveNothing, NothingMoves
  <1> QED BY <1>1, <1>2, <1>3, <1>4 DEF Next, ThreadStep, CallStep, OtherStep

\* A sequence of distinct ids has as many as it has members.
LEMMA DistinctCount ==
    ASSUME NEW s \in Seq(Event), Distinct(s)
    PROVE  IsFiniteSet(IdsOf(s)) /\ Cardinality(IdsOf(s)) = Len(s)
  <1> DEFINE f == [i \in 1..Len(s) |-> s[i].id]
  <1>1. Len(s) \in Nat
    BY LenProperties
  <1>2. IsFiniteSet(1..Len(s)) /\ Cardinality(1..Len(s)) = Len(s)
    BY <1>1, FS_Interval
  <1>3. f \in Bijection(1..Len(s), IdsOf(s))
    <2>1. f \in [1..Len(s) -> IdsOf(s)]
      BY DEF IdsOf
    <2>2. IsInjective(f)
      BY DEF Distinct, IsInjective
    <2>3. \A x \in IdsOf(s) : \E i \in 1..Len(s) : f[i] = x
      BY DEF IdsOf
    <2> QED BY <2>1, <2>2, <2>3 DEF Bijection, Injection, Surjection
  <1>4. ExistsBijection(1..Len(s), IdsOf(s))
    BY <1>3 DEF ExistsBijection
  <1> QED BY <1>2, <1>4, FS_Bijection

\* Disjoint places hold together as many events as each of them.
LEMMA PlacesAddUp ==
    ASSUME TypeOK, InOnePlace
    PROVE  EachEventOnce
  <1> DEFINE p == IdsOf(pending)  v == ServingIds  d == IdsOf(dispatched)  x == Ids(destroyed)
  <1>1. nextId \in Nat /\ nextId > 0 /\ pending \in Seq(Event) /\ dispatched \in Seq(Event)
    BY HandlerAssumption DEF TypeOK, InOnePlace
  <1>2. /\ p \cup v \cup d \cup x = 1..(nextId - 1)
        /\ p \cap (v \cup d \cup x) = {} /\ v \cap (d \cup x) = {} /\ d \cap x = {}
        /\ Distinct(pending) /\ Distinct(dispatched)
    BY DEF InOnePlace
  <1>3. Ids(PendingEvents) = p /\ Ids(DispatchedEvents) = d
    BY IdsOfPlaces
  <1>4. IsFiniteSet(1..(nextId - 1)) /\ Cardinality(1..(nextId - 1)) = nextId - 1
    BY <1>1, FS_Interval
  <1> HIDE DEF p, v, d, x
  <1>5. IsFiniteSet(p) /\ IsFiniteSet(v) /\ IsFiniteSet(d) /\ IsFiniteSet(x)
    <2>1. /\ p \in SUBSET (1..(nextId - 1)) /\ v \in SUBSET (1..(nextId - 1))
          /\ d \in SUBSET (1..(nextId - 1)) /\ x \in SUBSET (1..(nextId - 1))
      BY <1>2
    <2> QED BY <1>4, <2>1, FS_Subset
  <1>6. Cardinality(p) = Len(pending) /\ Cardinality(d) = Len(dispatched)
    BY <1>1, <1>2, DistinctCount DEF p, d
  <1>7. IsFiniteSet(d \cup x) /\ Cardinality(d \cup x) = Cardinality(d) + Cardinality(x)
    <2>1. /\ IsFiniteSet(d \cup x)
          /\ Cardinality(d \cup x) = Cardinality(d) + Cardinality(x) - Cardinality(d \cap x)
      BY <1>5, FS_Union
    <2>2. Cardinality(d \cap x) = 0 /\ Cardinality(d) \in Nat /\ Cardinality(x) \in Nat
      BY <1>2, <1>5, FS_EmptySet, FS_CardinalityType
    <2> QED BY <2>1, <2>2
  <1>8. /\ IsFiniteSet(v \cup (d \cup x))
        /\ Cardinality(v \cup (d \cup x)) = Cardinality(v) + Cardinality(d \cup x)
    <2>1. /\ IsFiniteSet(v \cup (d \cup x))
          /\ Cardinality(v \cup (d \cup x))
                = Cardinality(v) + Cardinality(d \cup x) - Cardinality(v \cap (d \cup x))
      BY <1>5, <1>7, FS_Union
    <2>2. Cardinality(v \cap (d \cup x)) = 0 /\ Cardinality(v) \in Nat /\ Cardinality(d \cup x) \in Nat
      BY <1>2, <1>5, <1>7, FS_EmptySet, FS_CardinalityType
    <2> QED BY <2>1, <2>2
  <1>9. Cardinality(p \cup (v \cup (d \cup x))) = Cardinality(p) + Cardinality(v \cup (d \cup x))
    <2>1. Cardinality(p \cup (v \cup (d \cup x)))
                = Cardinality(p) + Cardinality(v \cup (d \cup x))
                      - Cardinality(p \cap (v \cup (d \cup x)))
      BY <1>5, <1>8, FS_Union
    <2>2. /\ Cardinality(p \cap (v \cup (d \cup x))) = 0
          /\ Cardinality(p) \in Nat /\ Cardinality(v \cup (d \cup x)) \in Nat
      <3>1. p \cap (v \cup (d \cup x)) = {}
        BY <1>2
      <3> QED BY <3>1, <1>5, <1>8, FS_EmptySet, FS_CardinalityType
    <2> QED BY <2>1, <2>2
  <1>10. p \cup (v \cup (d \cup x)) = 1..(nextId - 1)
    BY <1>2
  <1>11. Cardinality(p) + (Cardinality(v) + (Cardinality(d) + Cardinality(x))) = nextId - 1
    BY <1>4, <1>7, <1>8, <1>9, <1>10
  <1>12. /\ Cardinality(p) \in Nat /\ Cardinality(v) \in Nat /\ Cardinality(d) \in Nat
         /\ Cardinality(x) \in Nat
    BY <1>5, FS_CardinalityType
  <1>13. Len(pending) + Cardinality(v) + Len(dispatched) + Cardinality(x) = nextId - 1
    BY <1>6, <1>11, <1>12
  <1> QED BY <1>2, <1>3, <1>13 DEF EachEventOnce, v, x

\* Each event given to an event handler is in one place, however threads signal it,
\* dispatch, clear, stop and release it: none is lost, dispatched twice, or destroyed
\* and dispatched.
THEOREM EventsAreKept == Spec => []EachEventOnce
  <1>1. Init => IInv /\ InOnePlace
    BY InitInv, InitOnce
  <1>2. IInv /\ InOnePlace /\ [Next]_vars => IInv' /\ InOnePlace'
    BY StepInv, NextOnce
  <1>3. IInv /\ InOnePlace => EachEventOnce
    BY PlacesAddUp DEF IInv
  <1> QED BY <1>1, <1>2, <1>3, PTL DEF Spec

-----------------------------------------------------------------------------
(***************************************************************************)
(* EventHandler implements EventDelivery.  The events out of band are ahead *)
(* of the others in the queue, so its two parts are the abstract queues;    *)
(* with at most one live thread, nothing is being served when a thread      *)
(* takes an event; and an event signalled has a number no other has.        *)
(***************************************************************************)
\* The first n events of s are out of band, and no other is.
SplitAt(s, n) ==
    /\ n \in 0..Len(s)
    /\ \A i \in 1..Len(s) : s[i].kind # "tail" <=> i <= n

UrgentFirst == \E n \in 0..Len(pending) : SplitAt(pending, n)

Front(s, n) == SubSeq(s, 1, n)
Back(s, n) == SubSeq(s, n + 1, Len(s))

LEMMA SplitParts ==
    ASSUME NEW s \in Seq(Event), NEW n \in 0..Len(s)
    PROVE  /\ Front(s, n) \in Seq(Event) /\ Len(Front(s, n)) = n
           /\ \A i \in 1..n : Front(s, n)[i] = s[i]
           /\ Back(s, n) \in Seq(Event) /\ Len(Back(s, n)) = Len(s) - n
           /\ \A i \in 1..(Len(s) - n) : Back(s, n)[i] = s[n + i]
  <1>1. Len(s) \in Nat /\ n \in Nat /\ \A i \in 1..Len(s) : s[i] \in Event
    BY LenProperties, ElementOfSeq
  <1>2. \A i \in 1..n : s[i] \in Event
    BY <1>1
  <1>3. /\ SubSeq(s, 1, n) \in Seq(Event)
        /\ Len(SubSeq(s, 1, n)) = IF 1 <= n THEN n - 1 + 1 ELSE 0
        /\ \A i \in 1..(n - 1 + 1) : SubSeq(s, 1, n)[i] = s[1 + i - 1]
    BY <1>1, <1>2, SubSeqProperties
  <1>4. \A i \in (n + 1)..Len(s) : s[i] \in Event
    BY <1>1
  <1>5. /\ SubSeq(s, n + 1, Len(s)) \in Seq(Event)
        /\ Len(SubSeq(s, n + 1, Len(s))) = IF n + 1 <= Len(s) THEN Len(s) - (n + 1) + 1 ELSE 0
        /\ \A i \in 1..(Len(s) - (n + 1) + 1) :
               SubSeq(s, n + 1, Len(s))[i] = s[(n + 1) + i - 1]
    <2> DEFINE m == n + 1  k == Len(s)
    <2>1. m \in Int /\ k \in Int /\ \A i \in m..k : s[i] \in Event
      BY <1>1, <1>4
    <2> HIDE DEF m, k
    <2>2. /\ SubSeq(s, m, k) \in Seq(Event)
          /\ Len(SubSeq(s, m, k)) = IF m <= k THEN k - m + 1 ELSE 0
          /\ \A i \in 1..(k - m + 1) : SubSeq(s, m, k)[i] = s[m + i - 1]
      BY <2>1, SubSeqProperties
    <2> QED BY <2>2 DEF m, k
  <1>6. /\ Len(Front(s, n)) = n /\ Front(s, n) \in Seq(Event)
        /\ \A i \in 1..n : Front(s, n)[i] = s[i]
    BY <1>1, <1>3 DEF Front
  <1>7. \A i \in 1..(Len(s) - n) : (n + 1) + i - 1 = n + i /\ i \in 1..(Len(s) - (n + 1) + 1)
    BY <1>1
  <1>8. Len(Back(s, n)) = Len(s) - n /\ Back(s, n) \in Seq(Event)
    BY <1>1, <1>5 DEF Back
  <1>9. \A i \in 1..(Len(s) - n) : Back(s, n)[i] = s[n + i]
    BY <1>5, <1>7 DEF Back
  <1> QED BY <1>6, <1>8, <1>9

\* The place of the split is the one EventHandler maps with.
LEMMA AheadIs ==
    ASSUME NEW s \in Seq(Event), NEW n \in 0..Len(s), SplitAt(s, n)
    PROVE  /\ SubSeq(s, 1, Ahead(s)) = Front(s, n)
           /\ SubSeq(s, Ahead(s) + 1, Len(s)) = Back(s, n)
  <1> DEFINE P(m) == /\ m = Len(s) \/ s[m + 1].kind = "tail"
                     /\ \A i \in 1..m : s[i].kind # "tail"
  <1>1. Len(s) \in Nat
    BY LenProperties
  <1>2. P(n)
    <2>1. \A i \in 1..n : i \in 1..Len(s) /\ i <= n
      BY <1>1
    <2>2. CASE n # Len(s)
      <3>1. n + 1 \in 1..Len(s) /\ ~(n + 1 <= n)
        BY <1>1, <2>2
      <3> QED BY <2>1, <3>1 DEF SplitAt
    <2> QED BY <2>1, <2>2 DEF SplitAt
  <1>3. ASSUME NEW m \in 0..Len(s), P(m) PROVE m = n
    <2>1. CASE m < n
      <3>1. m + 1 \in 1..Len(s) /\ m + 1 <= n /\ m # Len(s)
        BY <1>1, <2>1
      <3> QED BY <1>3, <3>1 DEF SplitAt
    <2>2. CASE n < m
      <3>1. n + 1 \in 1..Len(s) /\ ~(n + 1 <= n) /\ n + 1 \in 1..m
        BY <1>1, <2>2
      <3> QED BY <1>3, <3>1 DEF SplitAt
    <2> QED BY <1>1, <2>1, <2>2
  <1> HIDE DEF P
  <1>4. Ahead(s) = CHOOSE m \in 0..Len(s) : P(m)
    BY DEF Ahead, P
  <1>5. Ahead(s) = n
    BY <1>2, <1>3, <1>4
  <1> QED BY <1>5 DEF Front, Back

-----------------------------------------------------------------------------
\* What the three moves of the queue do to its two parts.
LEMMA AppendSplit ==
    ASSUME NEW s \in Seq(Event), NEW n \in 0..Len(s), SplitAt(s, n),
           NEW e \in Event, e.kind = "tail"
    PROVE  /\ n \in 0..Len(Append(s, e)) /\ SplitAt(Append(s, e), n)
           /\ Front(Append(s, e), n) = Front(s, n)
           /\ Back(Append(s, e), n) = Append(Back(s, n), e)
  <1> DEFINE r == Append(s, e)
             b == Append(Back(s, n), e)
  <1>1. /\ r \in Seq(Event) /\ Len(s) \in Nat /\ Len(r) = Len(s) + 1 /\ r[Len(s) + 1] = e
        /\ \A i \in 1..Len(s) : r[i] = s[i]
    BY AppendProperties, LenProperties
  <1>2. /\ Front(s, n) \in Seq(Event) /\ Len(Front(s, n)) = n
        /\ \A i \in 1..n : Front(s, n)[i] = s[i]
        /\ Back(s, n) \in Seq(Event) /\ Len(Back(s, n)) = Len(s) - n
        /\ \A i \in 1..(Len(s) - n) : Back(s, n)[i] = s[n + i]
    BY SplitParts
  <1>3. /\ b \in Seq(Event) /\ Len(b) = Len(s) - n + 1 /\ b[Len(s) - n + 1] = e
        /\ \A i \in 1..(Len(s) - n) : b[i] = s[n + i]
    BY <1>2, AppendProperties
  <1> HIDE DEF r, b
  <1>4. n \in 0..Len(r)
    BY <1>1
  <1>5. /\ Front(r, n) \in Seq(Event) /\ Len(Front(r, n)) = n
        /\ \A i \in 1..n : Front(r, n)[i] = r[i]
        /\ Back(r, n) \in Seq(Event) /\ Len(Back(r, n)) = Len(r) - n
        /\ \A i \in 1..(Len(r) - n) : Back(r, n)[i] = r[n + i]
    BY <1>1, <1>4, SplitParts
  <1>6. SplitAt(r, n)
    <2>1. \A i \in 1..Len(r) : i \in 1..Len(s) \/ (i = Len(s) + 1 /\ ~(i <= n))
      BY <1>1
    <2> QED BY <1>1, <1>4, <2>1 DEF SplitAt
  <1>7. Front(r, n) = Front(s, n)
    <2>1. ASSUME NEW i \in 1..n PROVE Front(r, n)[i] = Front(s, n)[i]
      <3>1. i \in 1..Len(s)
        BY <1>1
      <3> QED BY <1>1, <1>2, <1>5, <3>1
    <2> QED BY <1>2, <1>5, <2>1, SeqEqual
  <1>8. Back(r, n) = b
    <2>1. ASSUME NEW i \in 1..(Len(s) - n + 1) PROVE Back(r, n)[i] = b[i]
      <3>1. Back(r, n)[i] = r[n + i]
        BY <1>1, <1>5
      <3>2. CASE i \in 1..(Len(s) - n)
        <4>1. n + i \in 1..Len(s)
          BY <1>1, <3>2
        <4> QED BY <1>1, <1>3, <3>1, <3>2, <4>1
      <3>3. CASE i = Len(s) - n + 1
        <4>1. n + i = Len(s) + 1
          BY <1>1, <3>3
        <4> QED BY <1>1, <1>3, <3>1, <3>3, <4>1
      <3> QED BY <1>1, <3>2, <3>3
    <2>2. Len(Back(r, n)) = Len(s) - n + 1
      BY <1>1, <1>5
    <2> QED BY <1>3, <1>5, <2>1, <2>2, SeqEqual
  <1> QED BY <1>4, <1>6, <1>7, <1>8 DEF r, b

LEMMA PrependSplit ==
    ASSUME NEW s \in Seq(Event), NEW n \in 0..Len(s), SplitAt(s, n),
           NEW e \in Event, e.kind # "tail"
    PROVE  \E m \in 0..Len(<<e>> \o s) :
               /\ SplitAt(<<e>> \o s, m)
               /\ Front(<<e>> \o s, m) = <<e>> \o Front(s, n)
               /\ Back(<<e>> \o s, m) = Back(s, n)
  <1> DEFINE z == <<e>>
             r == z \o s
             f == z \o Front(s, n)
             m == n + 1
  <1>1. z \in Seq(Event) /\ Len(z) = 1 /\ z[1] = e /\ Len(s) \in Nat
    BY LenProperties
  <1>2. /\ Front(s, n) \in Seq(Event) /\ Len(Front(s, n)) = n
        /\ \A i \in 1..n : Front(s, n)[i] = s[i]
        /\ Back(s, n) \in Seq(Event) /\ Len(Back(s, n)) = Len(s) - n
        /\ \A i \in 1..(Len(s) - n) : Back(s, n)[i] = s[n + i]
    BY SplitParts
  <1> HIDE DEF z
  <1>3. /\ r \in Seq(Event) /\ Len(r) = 1 + Len(s)
        /\ \A i \in 1..(1 + Len(s)) : r[i] = IF i <= 1 THEN e ELSE s[i - 1]
    <2>1. /\ r \in Seq(Event) /\ Len(r) = Len(z) + Len(s)
          /\ \A i \in 1..(Len(z) + Len(s)) : r[i] = IF i <= Len(z) THEN z[i] ELSE s[i - Len(z)]
      BY <1>1, ConcatProperties
    <2>2. \A i \in 1..(1 + Len(s)) : i <= 1 => i = 1
      BY <1>1
    <2> QED BY <1>1, <2>1, <2>2
  <1>4. /\ f \in Seq(Event) /\ Len(f) = 1 + n
        /\ \A i \in 1..(1 + n) : f[i] = IF i <= 1 THEN e ELSE Front(s, n)[i - 1]
    <2>1. /\ f \in Seq(Event) /\ Len(f) = Len(z) + Len(Front(s, n))
          /\ \A i \in 1..(Len(z) + Len(Front(s, n))) :
                 f[i] = IF i <= Len(z) THEN z[i] ELSE Front(s, n)[i - Len(z)]
      BY <1>1, <1>2, ConcatProperties
    <2>2. \A i \in 1..(1 + n) : i <= 1 => i = 1
      OBVIOUS
    <2> QED BY <1>1, <1>2, <2>1, <2>2
  <1> HIDE DEF r, f
  <1>5. m \in 0..Len(r) /\ m \in Nat
    BY <1>1, <1>3
  <1> HIDE DEF m
  <1>6. /\ Front(r, m) \in Seq(Event) /\ Len(Front(r, m)) = m
        /\ \A i \in 1..m : Front(r, m)[i] = r[i]
        /\ Back(r, m) \in Seq(Event) /\ Len(Back(r, m)) = Len(r) - m
        /\ \A i \in 1..(Len(r) - m) : Back(r, m)[i] = r[m + i]
    BY <1>3, <1>5, SplitParts
  <1>7. SplitAt(r, m)
    <2>1. ASSUME NEW i \in 1..Len(r) PROVE r[i].kind # "tail" <=> i <= m
      <3>1. CASE i = 1
        BY <1>1, <1>3, <3>1 DEF m
      <3>2. CASE i # 1
        <4>1. i - 1 \in 1..Len(s) /\ ~(i <= 1) /\ i \in 1..(1 + Len(s))
          BY <1>1, <1>3, <3>2
        <4>2. r[i] = s[i - 1] /\ (i - 1 <= n <=> i <= m)
          BY <1>3, <4>1 DEF m
        <4> QED BY <4>1, <4>2 DEF SplitAt
      <3> QED BY <3>1, <3>2
    <2> QED BY <1>5, <2>1 DEF SplitAt
  <1>8. Front(r, m) = f
    <2>1. ASSUME NEW i \in 1..m PROVE Front(r, m)[i] = f[i]
      <3>1. CASE i <= 1
        BY <1>1, <1>3, <1>4, <1>6, <3>1 DEF m
      <3>2. CASE ~(i <= 1)
        <4>1. i - 1 \in 1..n /\ i \in 1..(1 + n) /\ i \in 1..(1 + Len(s))
          BY <1>1, <3>2 DEF m
        <4>2. f[i] = s[i - 1]
          BY <1>2, <1>4, <3>2, <4>1
        <4> QED BY <1>3, <1>6, <3>2, <4>1, <4>2
      <3> QED BY <3>1, <3>2
    <2>2. Len(f) = m
      BY <1>4 DEF m
    <2> QED BY <1>4, <1>6, <2>1, <2>2, SeqEqual
  <1>9. Back(r, m) = Back(s, n)
    <2>1. Len(r) - m = Len(s) - n
      BY <1>1, <1>3 DEF m
    <2>2. ASSUME NEW i \in 1..(Len(s) - n) PROVE Back(r, m)[i] = Back(s, n)[i]
      <3>1. m + i \in 1..(1 + Len(s)) /\ ~(m + i <= 1) /\ (m + i) - 1 = n + i
        BY <1>1 DEF m
      <3>2. r[m + i] = s[n + i]
        BY <1>3, <3>1
      <3> QED BY <1>2, <1>6, <2>1, <3>2
    <2>3. Len(Back(r, m)) = Len(Back(s, n))
      BY <1>2, <1>6, <2>1
    <2>4. \A i \in 1..Len(Back(r, m)) : Back(r, m)[i] = Back(s, n)[i]
      BY <1>2, <2>2, <2>3
    <2> QED BY <1>2, <1>6, <2>3, <2>4, SeqEqual
  <1> QED BY <1>5, <1>7, <1>8, <1>9 DEF r, f, z

\* The head of the queue is urgent if an event is.
LEMMA TailSplit ==
    ASSUME NEW s \in Seq(Event), s # <<>>, NEW n \in 0..Len(s), SplitAt(s, n)
    PROVE  \E m \in 0..Len(Tail(s)) :
               /\ SplitAt(Tail(s), m)
               /\ \/ /\ Front(s, n) # <<>> /\ Head(s) = Head(Front(s, n))
                     /\ Front(Tail(s), m) = Tail(Front(s, n))
                     /\ Back(Tail(s), m) = Back(s, n)
                  \/ /\ Front(s, n) = <<>> /\ Back(s, n) # <<>>
                     /\ Head(s) = Head(Back(s, n))
                     /\ Front(Tail(s), m) = Front(s, n)
                     /\ Back(Tail(s), m) = Tail(Back(s, n))
  <1> DEFINE r == Tail(s)
  <1>1. /\ r \in Seq(Event) /\ Len(s) \in Nat /\ Len(r) = Len(s) - 1 /\ Head(s) = s[1]
        /\ 1 \in 1..Len(s) /\ \A i \in 1..Len(r) : r[i] = s[i + 1]
    BY HeadTailProperties, LenProperties, EmptySeq
  <1>2. /\ Front(s, n) \in Seq(Event) /\ Len(Front(s, n)) = n
        /\ \A i \in 1..n : Front(s, n)[i] = s[i]
        /\ Back(s, n) \in Seq(Event) /\ Len(Back(s, n)) = Len(s) - n
        /\ \A i \in 1..(Len(s) - n) : Back(s, n)[i] = s[n + i]
    BY SplitParts
  <1> HIDE DEF r
  <1>3. CASE n = 0
    <2>1. 0 \in 0..Len(r)
      BY <1>1
    <2>2. /\ Front(r, 0) \in Seq(Event) /\ Len(Front(r, 0)) = 0
          /\ Back(r, 0) \in Seq(Event) /\ Len(Back(r, 0)) = Len(r) - 0
          /\ \A i \in 1..(Len(r) - 0) : Back(r, 0)[i] = r[0 + i]
      BY <1>1, <2>1, SplitParts
    <2>3. Front(s, n) = <<>> /\ Front(r, 0) = <<>>
      BY <1>2, <1>3, <2>2, EmptySeq
    <2>4. Back(s, n) # <<>> /\ Head(Back(s, n)) = s[1] /\ Head(s) = Head(Back(s, n))
      BY <1>1, <1>2, <1>3
    <2>5. /\ Tail(Back(s, n)) \in Seq(Event) /\ Len(Tail(Back(s, n))) = Len(s) - 1
          /\ \A i \in 1..(Len(s) - 1) : Tail(Back(s, n))[i] = Back(s, n)[i + 1]
      BY <1>1, <1>2, <1>3, <2>4, HeadTailProperties
    <2>6. ASSUME NEW i \in 1..(Len(s) - 1) PROVE Tail(Back(s, n))[i] = Back(r, 0)[i]
      <3>1. i + 1 \in 1..(Len(s) - n) /\ i \in 1..Len(r) /\ i \in 1..(Len(r) - 0)
            /\ 0 + i = i /\ n + (i + 1) = i + 1
        BY <1>1, <1>3
      <3> QED BY <1>1, <1>2, <2>2, <2>5, <3>1
    <2>7. Tail(Back(s, n)) = Back(r, 0)
      <3>1. Len(Back(r, 0)) = Len(s) - 1
        BY <1>1, <2>2
      <3> QED BY <2>2, <2>5, <2>6, <3>1, SeqEqual
    <2>8. SplitAt(r, 0)
      <3>1. \A i \in 1..Len(r) : i + 1 \in 1..Len(s) /\ ~(i + 1 <= n) /\ ~(i <= 0)
        BY <1>1, <1>3
      <3> QED BY <1>1, <2>1, <3>1 DEF SplitAt
    <2> QED BY <2>1, <2>3, <2>4, <2>7, <2>8 DEF r
  <1>4. CASE n # 0
    <2> DEFINE m == n - 1
    <2>1. m \in 0..Len(r) /\ m \in Nat /\ n = m + 1
      BY <1>1, <1>4
    <2> HIDE DEF m
    <2>2. /\ Front(r, m) \in Seq(Event) /\ Len(Front(r, m)) = m
          /\ \A i \in 1..m : Front(r, m)[i] = r[i]
          /\ Back(r, m) \in Seq(Event) /\ Len(Back(r, m)) = Len(r) - m
          /\ \A i \in 1..(Len(r) - m) : Back(r, m)[i] = r[m + i]
      BY <1>1, <2>1, SplitParts
    <2>3. Front(s, n) # <<>> /\ Head(Front(s, n)) = s[1]
      BY <1>1, <1>2, <1>4
    <2>4. /\ Tail(Front(s, n)) \in Seq(Event) /\ Len(Tail(Front(s, n))) = m
          /\ \A i \in 1..m : Tail(Front(s, n))[i] = Front(s, n)[i + 1]
      BY <1>2, <2>1, <2>3, HeadTailProperties
    <2>5. Tail(Front(s, n)) = Front(r, m)
      <3>1. ASSUME NEW i \in 1..m PROVE Tail(Front(s, n))[i] = Front(r, m)[i]
        <4>1. i + 1 \in 1..n /\ i \in 1..Len(r)
          BY <1>1, <2>1
        <4>2. Front(r, m)[i] = s[i + 1]
          BY <1>1, <2>2, <4>1
        <4> QED BY <1>2, <2>4, <4>1, <4>2
      <3> QED BY <2>2, <2>4, <3>1, SeqEqual
    <2>6. Back(r, m) = Back(s, n)
      <3>1. Len(r) - m = Len(s) - n
        BY <1>1, <2>1
      <3>2. ASSUME NEW i \in 1..(Len(s) - n) PROVE Back(r, m)[i] = Back(s, n)[i]
        <4>1. m + i \in 1..Len(r) /\ (m + i) + 1 = n + i
          BY <1>1, <2>1
        <4>2. r[m + i] = s[n + i]
          BY <1>1, <4>1
        <4>3. Back(r, m)[i] = r[m + i]
          BY <2>2, <3>1
        <4> QED BY <1>2, <4>2, <4>3
      <3> QED BY <1>2, <2>2, <3>1, <3>2, SeqEqual
    <2>7. SplitAt(r, m)
      <3>1. \A i \in 1..Len(r) : i + 1 \in 1..Len(s) /\ (i + 1 <= n <=> i <= m)
        BY <1>1, <2>1
      <3> QED BY <1>1, <2>1, <3>1 DEF SplitAt
    <2> QED BY <1>1, <2>1, <2>3, <2>5, <2>6, <2>7 DEF r
  <1> QED BY <1>3, <1>4

-----------------------------------------------------------------------------
\* The events that wait, in either queue, are the pending ones.
LEMMA WaitingIs ==
    ASSUME TypeOK, UrgentFirst
    PROVE  Delivery!Waiting = PendingEvents
  <1>1. PICK n \in 0..Len(pending) : SplitAt(pending, n)
    BY DEF UrgentFirst
  <1> DEFINE f == Front(pending, n)
             b == Back(pending, n)
  <1>2. pending \in Seq(Event) /\ Len(pending) \in Nat /\ DOMAIN pending = 1..Len(pending)
    BY LenProperties DEF TypeOK
  <1>3. /\ f \in Seq(Event) /\ Len(f) = n /\ \A i \in 1..n : f[i] = pending[i]
        /\ b \in Seq(Event) /\ Len(b) = Len(pending) - n
        /\ \A i \in 1..(Len(pending) - n) : b[i] = pending[n + i]
    BY <1>2, SplitParts
  <1>4. Delivery!Waiting = {f[i] : i \in DOMAIN f} \cup {b[i] : i \in DOMAIN b}
    BY <1>1, <1>2, AheadIs DEF Delivery!Waiting
  <1> HIDE DEF f, b
  <1>5. DOMAIN f = 1..n /\ DOMAIN b = 1..(Len(pending) - n)
    BY <1>3, LenProperties
  <1>6. \A i \in 1..n : i \in 1..Len(pending)
    BY <1>2
  <1>7. \A i \in 1..(Len(pending) - n) : n + i \in 1..Len(pending)
    BY <1>2
  <1>8. \A i \in 1..Len(pending) :
            i \in 1..n \/ (i - n \in 1..(Len(pending) - n) /\ n + (i - n) = i)
    BY <1>2
  <1>9. {f[i] : i \in DOMAIN f} \cup {b[i] : i \in DOMAIN b} \subseteq PendingEvents
    <2>1. \A i \in DOMAIN f : f[i] \in PendingEvents
      BY <1>2, <1>3, <1>5, <1>6 DEF PendingEvents
    <2>2. \A i \in DOMAIN b : b[i] \in PendingEvents
      BY <1>2, <1>3, <1>5, <1>7 DEF PendingEvents
    <2> QED BY <2>1, <2>2
  <1>10. ASSUME NEW i \in 1..Len(pending)
         PROVE  pending[i] \in {f[j] : j \in DOMAIN f} \cup {b[j] : j \in DOMAIN b}
    <2>1. CASE i \in 1..n
      BY <1>3, <1>5, <2>1
    <2>2. CASE i - n \in 1..(Len(pending) - n) /\ n + (i - n) = i
      <3>1. b[i - n] = pending[i]
        BY <1>3, <2>2
      <3> QED BY <1>5, <2>2, <3>1
    <2> QED BY <1>8, <2>1, <2>2
  <1> QED BY <1>2, <1>4, <1>9, <1>10 DEF PendingEvents

LEMMA InitRefines ==
    Init => Delivery!Init /\ UrgentFirst
  <1> SUFFICES ASSUME Init PROVE Delivery!Init /\ UrgentFirst
    OBVIOUS
  <1>1. pending = <<>> /\ dispatched = <<>> /\ destroyed = {} /\ Serving = {}
    BY DEF Init, Serving
  <1>2. 0 \in 0..Len(pending) /\ SplitAt(pending, 0) /\ pending \in Seq(Event)
    BY <1>1 DEF SplitAt
  <1>3. /\ SubSeq(pending, 1, Ahead(pending)) = Front(pending, 0)
        /\ SubSeq(pending, Ahead(pending) + 1, Len(pending)) = Back(pending, 0)
    BY <1>2, AheadIs
  <1>4. Front(pending, 0) = <<>> /\ Back(pending, 0) = <<>>
    <2>1. /\ Len(Front(pending, 0)) = 0 /\ Front(pending, 0) \in Seq(Event)
          /\ Len(Back(pending, 0)) = Len(pending) - 0 /\ Back(pending, 0) \in Seq(Event)
      BY <1>2, SplitParts
    <2>2. Len(pending) = 0
      BY <1>1
    <2> QED BY <2>1, <2>2, EmptySeq
  <1> QED BY <1>1, <1>2, <1>3, <1>4 DEF Delivery!Init, UrgentFirst

\* An event signalled has been signalled before nowhere.
LEMMA SignalIsFresh ==
    ASSUME TypeOK, InOnePlace, UrgentFirst, NEW e \in Event, e.id = nextId
    PROVE  e \notin Delivery!Waiting \cup Delivery!Gone
  <1>1. nextId \in Nat /\ nextId \notin 1..(nextId - 1)
    BY HandlerAssumption DEF TypeOK
  <1>2. /\ nextId \notin IdsOf(pending) /\ nextId \notin ServingIds
        /\ nextId \notin IdsOf(dispatched) /\ nextId \notin Ids(destroyed)
    BY <1>1 DEF InOnePlace
  <1>3. e \notin PendingEvents /\ e \notin DispatchedEvents
    BY <1>2, IdsOfPlaces DEF Ids
  <1>4. e \notin destroyed
    BY <1>2 DEF Ids
  <1>5. e # (IF Serving = {} THEN None ELSE scratch)
    <2>1. e # None
      BY HandlerAssumption
    <2>2. CASE Serving # {}
      BY <1>2, <2>2 DEF ServingIds
    <2> QED BY <2>1, <2>2
  <1>6. e \notin Delivery!Gone
    BY <1>3, <1>4, <1>5 DEF Delivery!Gone, DispatchedEvents
  <1> QED BY <1>3, <1>6, WaitingIs

LEMMA EnqueueRefines ==
    ASSUME IInv, InOnePlace, UrgentFirst, NEW kind \in Kinds, Enqueue(kind)
    PROVE  UrgentFirst' /\ Delivery!Next
  <1> DEFINE e == [id |-> nextId, kind |-> kind]
  <1>1. /\ e \in Event /\ e.id = nextId /\ e.kind = kind
        /\ TypeOK /\ pending \in Seq(Event)
    BY HandlerAssumption DEF Event, IInv, TypeOK, Enqueue
  <1>2. PICK n \in 0..Len(pending) : SplitAt(pending, n)
    BY DEF UrgentFirst
  <1>3. pending' = IF kind = "tail" THEN Append(pending, e) ELSE <<e>> \o pending
    BY DEF Enqueue
  <1> HIDE DEF e
  <1>4. e \notin Delivery!Waiting \cup Delivery!Gone
    BY <1>1, SignalIsFresh
  <1>5. UNCHANGED <<dispatched, destroyed, scratch>> /\ Serving' = Serving
    BY <1>1, WakeServesNone DEF Enqueue
  <1>6. pending' \in Seq(Event)
    <2>1. <<e>> \in Seq(Event)
      BY <1>1
    <2> QED BY <1>1, <1>3, <2>1, AppendProperties, ConcatProperties
  <1>7. PICK m \in 0..Len(pending') :
            /\ SplitAt(pending', m)
            /\ \/ /\ kind = "tail" /\ Front(pending', m) = Front(pending, n)
                  /\ Back(pending', m) = Append(Back(pending, n), e)
               \/ /\ kind # "tail" /\ Front(pending', m) = <<e>> \o Front(pending, n)
                  /\ Back(pending', m) = Back(pending, n)
    <2>1. CASE kind = "tail"
      BY <1>1, <1>2, <1>3, <2>1, AppendSplit
    <2>2. CASE kind # "tail"
      BY <1>1, <1>2, <1>3, <2>2, PrependSplit
    <2> QED BY <2>1, <2>2
  <1>8. /\ SubSeq(pending, 1, Ahead(pending)) = Front(pending, n)
        /\ SubSeq(pending, Ahead(pending) + 1, Len(pending)) = Back(pending, n)
        /\ SubSeq(pending', 1, Ahead(pending')) = Front(pending', m)
        /\ SubSeq(pending', Ahead(pending') + 1, Len(pending')) = Back(pending', m)
    BY <1>1, <1>2, <1>6, <1>7, AheadIs
  <1>9. Delivery!Signal(e)
    <2>1. CASE kind = "tail"
      <3>1. e \notin {x \in Event : x.kind # "tail"}
        BY <1>1, <2>1
      <3> QED BY <1>4, <1>5, <1>7, <1>8, <2>1, <3>1 DEF Delivery!Signal
    <2>2. CASE kind # "tail"
      <3>1. e \in {x \in Event : x.kind # "tail"}
        BY <1>1, <2>2
      <3> QED BY <1>4, <1>5, <1>7, <1>8, <2>2, <3>1 DEF Delivery!Signal
    <2> QED BY <2>1, <2>2
  <1> QED BY <1>1, <1>7, <1>9 DEF UrgentFirst, Delivery!Next

\* A thread takes an event when it serves none, and no other thread does.
LEMMA DequeueRefines ==
    ASSUME IInv, UrgentFirst, NEW t \in Threads, DequeueEvent(t)
    PROVE  UrgentFirst' /\ Delivery!Next
  <1>1. /\ pending # <<>> /\ pending \in Seq(Event) /\ tpc \in [Threads -> ThreadStates]
        /\ tpc[t] = "test" /\ tpc' = [tpc EXCEPT ![t] = "got"]
        /\ scratch' = Head(pending) /\ pending' = Tail(pending)
        /\ UNCHANGED <<dispatched, destroyed>>
    BY DEF DequeueEvent, At, IInv, TypeOK, history
  <1>2. Serving = {}
    <2> SUFFICES ASSUME NEW u \in Serving PROVE FALSE
      OBVIOUS
    <2>1. t \in Live /\ u \in Live /\ t # u
      BY <1>1 DEF Live, Serving
    <2> QED BY <2>1, OneLiveThread DEF AtMostOneThread
  <1>3. Serving' = {t}
    BY <1>1, <1>2 DEF Serving
  <1>4. PICK n \in 0..Len(pending) : SplitAt(pending, n)
    BY DEF UrgentFirst
  <1>5. PICK m \in 0..Len(Tail(pending)) :
            /\ SplitAt(Tail(pending), m)
            /\ \/ /\ Front(pending, n) # <<>> /\ Head(pending) = Head(Front(pending, n))
                  /\ Front(Tail(pending), m) = Tail(Front(pending, n))
                  /\ Back(Tail(pending), m) = Back(pending, n)
               \/ /\ Front(pending, n) = <<>> /\ Back(pending, n) # <<>>
                  /\ Head(pending) = Head(Back(pending, n))
                  /\ Front(Tail(pending), m) = Front(pending, n)
                  /\ Back(Tail(pending), m) = Tail(Back(pending, n))
    BY <1>1, <1>4, TailSplit
  <1>6. Tail(pending) \in Seq(Event)
    BY <1>1, HeadTailProperties
  <1>7. /\ SubSeq(pending, 1, Ahead(pending)) = Front(pending, n)
        /\ SubSeq(pending, Ahead(pending) + 1, Len(pending)) = Back(pending, n)
        /\ SubSeq(pending', 1, Ahead(pending')) = Front(pending', m)
        /\ SubSeq(pending', Ahead(pending') + 1, Len(pending')) = Back(pending', m)
    BY <1>1, <1>4, <1>5, <1>6, AheadIs
  <1>8. Delivery!Take
    BY <1>1, <1>2, <1>3, <1>5, <1>7 DEF Delivery!Take
  <1> QED BY <1>1, <1>5, <1>8 DEF UrgentFirst, Delivery!Next

LEMMA DispatchRefines ==
    ASSUME IInv, UrgentFirst, NEW t \in Threads, Dispatch(t)
    PROVE  UrgentFirst' /\ Delivery!Next
  <1>1. /\ tpc \in [Threads -> ThreadStates]
        /\ tpc[t] = "dispatch" /\ tpc' = [tpc EXCEPT ![t] = "test"]
        /\ dispatched' = Append(dispatched, scratch) /\ UNCHANGED <<pending, destroyed>>
    BY DEF Dispatch, At, IInv, TypeOK, queueVars
  <1>2. t \in Serving /\ \A u \in Serving : u = t
    <2>1. t \in Serving /\ Serving \subseteq Live
      BY <1>1 DEF Live, Serving
    <2> QED BY <2>1, OneLiveThread DEF AtMostOneThread
  <1>3. Serving # {} /\ Serving' = {}
    BY <1>1, <1>2 DEF Serving
  <1>4. scratch # None
    BY <1>3, HandlerAssumption DEF IInv, TypeOK
  <1>5. Delivery!Finish
    BY <1>1, <1>3, <1>4 DEF Delivery!Finish
  <1> QED BY <1>1, <1>5 DEF UrgentFirst, Delivery!Next

\* eventQueueClear drops all that waits; what is being served is not touched.
LEMMA ClearRefines ==
    ASSUME IInv, UrgentFirst, NEW c \in Controllers, Clear(c) \/ Destroy(c)
    PROVE  UrgentFirst' /\ Delivery!Next
  <1>1. /\ pending' = <<>> /\ destroyed' = destroyed \cup PendingEvents
        /\ UNCHANGED <<dispatched, scratch, tpc>>
    BY DEF Clear, Destroy, threadVars
  <1>2. Serving' = Serving
    BY <1>1 DEF Serving
  <1>3. destroyed' = destroyed \cup Delivery!Waiting
    BY <1>1, WaitingIs DEF IInv
  <1>4. 0 \in 0..Len(pending') /\ SplitAt(pending', 0) /\ pending' \in Seq(Event)
    BY <1>1 DEF SplitAt
  <1>5. /\ SubSeq(pending', 1, Ahead(pending')) = Front(pending', 0)
        /\ SubSeq(pending', Ahead(pending') + 1, Len(pending')) = Back(pending', 0)
    BY <1>4, AheadIs
  <1>6. Front(pending', 0) = <<>> /\ Back(pending', 0) = <<>>
    <2>1. /\ Len(Front(pending', 0)) = 0 /\ Front(pending', 0) \in Seq(Event)
          /\ Len(Back(pending', 0)) = Len(pending') - 0 /\ Back(pending', 0) \in Seq(Event)
      BY <1>4, SplitParts
    <2>2. Len(pending') = 0
      BY <1>1
    <2> QED BY <2>1, <2>2, EmptySeq
  <1>7. Delivery!Drop
    BY <1>1, <1>2, <1>3, <1>5, <1>6 DEF Delivery!Drop
  <1> QED BY <1>4, <1>7 DEF UrgentFirst, Delivery!Next

LEMMA StepRefines ==
    ASSUME IInv, InOnePlace, UrgentFirst, [Next]_vars
    PROVE  UrgentFirst' /\ [Delivery!Next]_(Delivery!deliveryVars)
  <1>1. CASE SignalEvent \/ SignalEventOOB \/ AlarmCallback
    BY <1>1, EnqueueRefines DEF SignalEvent, SignalEventOOB, AlarmCallback, Kinds
  <1>2. CASE \E t \in Threads : DequeueEvent(t) \/ Dispatch(t)
    BY <1>2, DequeueRefines, DispatchRefines
  <1>3. CASE \E c \in Controllers : Clear(c) \/ Destroy(c)
    BY <1>3, ClearRefines
  <1>4. CASE OtherStep
    <2>1. UNCHANGED <<pending, dispatched, destroyed, scratch>> /\ Serving' = Serving
      BY <1>4, OthersMoveNothing
    <2>2. UNCHANGED Delivery!deliveryVars
      BY <2>1 DEF Delivery!deliveryVars
    <2> QED BY <2>1, <2>2 DEF UrgentFirst
  <1> QED BY <1>1, <1>2, <1>3, <1>4 DEF Next, ThreadStep, CallStep, OtherStep

\* An event handler serves as EventDelivery promises, for any number of threads that
\* signal, start, stop, clear and release it: what is out of band first, the rest in
\* the order it was signalled, one event at a time, and nothing but what waits is
\* dropped.
THEOREM Delivers == Spec => ImplementsDelivery
  <1>1. Init => IInv /\ InOnePlace /\ UrgentFirst /\ Delivery!Init
    BY InitInv, InitOnce, InitRefines
  <1>2. /\ IInv /\ InOnePlace /\ UrgentFirst /\ [Next]_vars
        => /\ IInv' /\ InOnePlace' /\ UrgentFirst'
           /\ [Delivery!Next]_(Delivery!deliveryVars)
    BY StepInv, NextOnce, StepRefines
  <1> QED BY <1>1, <1>2, PTL DEF Spec, ImplementsDelivery, Delivery!Spec
=============================================================================
