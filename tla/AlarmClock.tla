----------------------------- MODULE AlarmClock -----------------------------
(***************************************************************************)
(* The alarm clock all wallet managers share (ethereum/event/BREventAlarm.c)*)
(* a list of alarms sorted by expiration, a thread that sleeps until the    *)
(* first of them and calls it back, and the calls that add and remove       *)
(* alarms and start and stop the thread.                                    *)
(*                                                                          *)
(* What the thread does from the moment it holds clock->lock until it waits *)
(* again is one action; so is each call made under that lock.  Time is a    *)
(* bounded count of ticks.                                                  *)
(*                                                                          *)
(* An operator X_Y is X with the mistake Y in it; no specification uses it. *)
(***************************************************************************)
EXTENDS Naturals, Sequences, SequencesExt

CONSTANTS
    Controllers,   \* the threads that start and stop the clock
    Ops,           \* the calls they make: "stop", "recover" (and "start")
    Period,        \* the period of a periodic alarm, in ticks
    MaxAlarms,     \* bound: how many alarms are ever added
    MaxTime,       \* bound: the last tick
    None           \* nobody holds the lock; nothing has fired

ASSUME ClockAssumption ==
    /\ Period \in Nat \ {0} /\ MaxAlarms \in Nat /\ MaxTime \in Nat
    /\ Ops \subseteq {"start", "stop", "recover"}
    /\ None \notin Controllers

Forever == MaxTime + 1      \* LONG_MAX: no alarm to wait for
Time == 0..MaxTime

VARIABLES
    alarms,         \* clock->alarms
    identifier,     \* clock->identifier
    timeout,        \* clock->timeout
    thread,         \* clock->thread # PTHREAD_NULL
    tpc,            \* where the clock's thread is
    threadQuit,     \* clock->threadQuit
    startStopLock,  \* who holds clock->lockOnStartStop
    cpc,            \* where each controller is in its call
    goal,           \* the call it makes
    now,            \* getTime()
    removed,        \* history: the alarms RemAlarm was called for
    spent,          \* history: the one shot alarms that fired
    lastFired       \* history: the alarm that fired last, and when

alarmVars == <<alarms, identifier, removed, spent, lastFired>>
threadVars == <<timeout, tpc, threadQuit>>
callVars == <<thread, startStopLock, cpc, goal>>
vars == <<alarmVars, threadVars, callVars, now>>

AlarmIds == {alarms[i].id : i \in DOMAIN alarms}

Init ==
    /\ alarms = <<>> /\ identifier = 0
    /\ timeout = Forever /\ tpc = "none" /\ threadQuit = FALSE
    /\ thread = FALSE /\ startStopLock = None
    /\ cpc = [c \in Controllers |-> "idle"]
    /\ goal = [c \in Controllers |-> "start"]
    /\ now = 0
    /\ removed = {} /\ spent = {} /\ lastFired = None

(* pthread_cond_signal on clock->cond.                                      *)
Signal == tpc' = IF tpc = "wait" THEN "woken" ELSE tpc

(***************************************************************************)
(* alarmClockInsertAlarm: after the last alarm that does not expire later.  *)
(***************************************************************************)
InsertAlarm_AtEnd(list, a) == Append(list, a)

InsertAlarm(list, a) ==
    LET index == CHOOSE i \in 0..Len(list) :
                     /\ i = 0 \/ list[i].exp <= a.exp
                     /\ \A j \in (i + 1)..Len(list) : a.exp < list[j].exp
    IN  InsertAt(list, index + 1, a)
-----------------------------------------------------------------------------
AddAlarm(periodic, exp) ==
    /\ identifier < MaxAlarms
    /\ identifier' = identifier + 1
    /\ alarms' = InsertAlarm(alarms, [id |-> identifier', periodic |-> periodic, exp |-> exp])
    /\ Signal
    /\ UNCHANGED <<timeout, threadQuit, callVars, now, removed, spent, lastFired>>

(* alarmClockAddAlarmPeriodic: the first expiration is now.                 *)
AddAlarmPeriodic == AddAlarm(TRUE, now)
AddAlarmOneShot == \E exp \in Time : AddAlarm(FALSE, exp)

(* alarmClockRemAlarm, once per alarm: its owner forgets the id.            *)
RemAlarm_FirstOnly(id) ==
    /\ id \notin removed
    /\ alarms' = IF alarms # <<>> /\ alarms[1].id = id THEN Tail(alarms) ELSE alarms
    /\ removed' = removed \cup {id}
    /\ Signal
    /\ UNCHANGED <<identifier, timeout, threadQuit, callVars, now, spent, lastFired>>

RemAlarm(id) ==
    /\ id \notin removed
    /\ \/ id \notin AlarmIds /\ UNCHANGED alarms
       \/ \E i \in DOMAIN alarms :
              /\ alarms[i].id = id /\ \A j \in 1..(i - 1) : alarms[j].id # id
              /\ alarms' = RemoveAt(alarms, i)
    /\ removed' = removed \cup {id}
    /\ Signal
    /\ UNCHANGED <<identifier, timeout, threadQuit, callVars, now, spent, lastFired>>
-----------------------------------------------------------------------------
(***************************************************************************)
(* alarmClockThread.                                                        *)
(***************************************************************************)
(* Head of the loop: quit, or wait for the first alarm.                     *)
Loop(list, quit) ==
    IF quit
    THEN tpc' = "exited" /\ UNCHANGED timeout
    ELSE /\ tpc' = "wait"
         /\ timeout' = IF list = <<>> THEN Forever ELSE list[1].exp

(* The thread takes the lock for the first time and resets threadQuit.      *)
Begin ==
    /\ tpc = "begin"
    /\ threadQuit' = FALSE
    /\ Loop(alarms, FALSE)
    /\ UNCHANGED <<alarmVars, callVars, now>>

(* The wait times out; until the thread holds the lock again the alarms may *)
(* change.                                                                  *)
TimedOut ==
    /\ tpc = "wait" /\ timeout <= now
    /\ tpc' = "timedout"
    /\ UNCHANGED <<alarmVars, timeout, threadQuit, callVars, now>>

Woken ==
    /\ tpc = "woken"
    /\ Loop(alarms, threadQuit)
    /\ UNCHANGED <<alarmVars, threadQuit, callVars, now>>

(* The alarm the thread slept for is gone: "its alarm is for the birds".    *)
Ignore ==
    /\ tpc = "timedout"
    /\ alarms # <<>> => alarms[1].exp # timeout
    /\ Loop(alarms, threadQuit)
    /\ UNCHANGED <<alarmVars, threadQuit, callVars, now>>

(* alarmPeriodUpdate: a period later, but not in the past.                  *)
Reinsert_Always(rest, a) == InsertAlarm(rest, [a EXCEPT !.exp = a.exp + Period])

Reinsert(rest, a) ==
    IF a.periodic
    THEN InsertAlarm(rest, [a EXCEPT !.exp = IF a.exp + Period < now THEN now
                                                               ELSE a.exp + Period])
    ELSE rest

Expire_NoCheck ==
    /\ tpc = "timedout"
    /\ alarms # <<>>
    /\ LET a == alarms[1]
       IN  /\ alarms' = Reinsert(Tail(alarms), a)
           /\ lastFired' = [alarm |-> a, at |-> now]
           /\ spent' = IF a.periodic THEN spent ELSE spent \cup {a.id}
    /\ Loop(alarms', threadQuit)
    /\ UNCHANGED <<identifier, removed, threadQuit, callVars, now>>

(* Otherwise it fires: off the list, the callback, and back if periodic.    *)
Expire ==
    /\ tpc = "timedout"
    /\ alarms # <<>> /\ alarms[1].exp = timeout
    /\ LET a == alarms[1]
       IN  /\ alarms' = Reinsert(Tail(alarms), a)
           /\ lastFired' = [alarm |-> a, at |-> now]
           /\ spent' = IF a.periodic THEN spent ELSE spent \cup {a.id}
    /\ Loop(alarms', threadQuit)
    /\ UNCHANGED <<identifier, removed, threadQuit, callVars, now>>

ClockThread == Begin \/ TimedOut \/ Woken \/ Ignore \/ Expire
-----------------------------------------------------------------------------
(***************************************************************************)
(* alarmClockStart, alarmClockStop and alarmClockAssertRecovery.            *)
(***************************************************************************)
Goto(c, from, to) == cpc[c] = from /\ cpc' = [cpc EXCEPT ![c] = to]

Start(c) ==
    /\ "start" \in Ops /\ cpc[c] = "idle" /\ startStopLock = None
    /\ thread' = TRUE
    /\ tpc' = IF thread THEN tpc ELSE "begin"
    /\ UNCHANGED <<alarmVars, timeout, threadQuit, startStopLock, cpc, goal, now>>

Stop(c, op) ==
    /\ op \in Ops \ {"start"}
    /\ startStopLock = None
    /\ Goto(c, "idle", IF thread THEN "quit" ELSE "unlock")
    /\ startStopLock' = c
    /\ goal' = [goal EXCEPT ![c] = op]
    /\ UNCHANGED <<alarmVars, threadVars, thread, now>>

Quit(c) ==
    /\ Goto(c, "quit", "join")
    /\ threadQuit' = TRUE
    /\ Signal
    /\ UNCHANGED <<alarmVars, timeout, thread, startStopLock, goal, now>>

Join(c) ==
    /\ Goto(c, "join", "unlock")
    /\ tpc = "exited"
    /\ thread' = FALSE
    /\ UNCHANGED <<alarmVars, threadVars, startStopLock, goal, now>>

Unlock(c) ==
    /\ Goto(c, "unlock", IF goal[c] = "recover" THEN "recover" ELSE "idle")
    /\ startStopLock' = None
    /\ UNCHANGED <<alarmVars, threadVars, thread, goal, now>>

(* After its stop, the recovery takes the lock again and drops all alarms.  *)
Recover(c) ==
    /\ startStopLock = None
    /\ Goto(c, "recover", "idle")
    /\ alarms' = <<>>
    /\ removed' = removed \cup AlarmIds
    /\ UNCHANGED <<identifier, spent, lastFired, threadVars, thread, startStopLock, goal,
                   now>>

CallStep(c) == Quit(c) \/ Join(c) \/ Unlock(c) \/ Recover(c)

Tick ==
    /\ now < MaxTime
    /\ now' = now + 1
    /\ UNCHANGED <<alarmVars, threadVars, callVars>>
-----------------------------------------------------------------------------
Next ==
    \/ AddAlarmPeriodic \/ AddAlarmOneShot
    \/ \E id \in 1..identifier : RemAlarm(id)
    \/ ClockThread
    \/ \E c \in Controllers :
           Start(c) \/ CallStep(c) \/ \E op \in Ops : Stop(c, op)
    \/ Tick

Spec == Init /\ [][Next]_vars

(* The clock's thread and a call in progress are scheduled.                 *)
FairSpec == Spec /\ WF_vars(ClockThread) /\ \A c \in Controllers : WF_vars(CallStep(c))
-----------------------------------------------------------------------------
(* The thread never sleeps past the first alarm: an alarm added or removed  *)
(* while it waits wakes it, and the list stays sorted so that the first is  *)
(* the next to expire.                                                      *)
NeverOversleeps ==
    tpc = "wait" => \A i \in DOMAIN alarms : timeout <= alarms[i].exp

(* An alarm never fires before its expiration, even when the one the thread *)
(* slept for was removed and another took its place at the head.            *)
NeverEarly == lastFired # None => lastFired.alarm.exp <= lastFired.at

(* Each alarm added is on the list exactly once until it is removed or, if  *)
(* it is a one shot, fires: firing a periodic alarm does not lose it, and   *)
(* an alarm removed does not come back when the thread reinserts one.       *)
NoAlarmLost ==
    /\ AlarmIds = 1..identifier \ (removed \cup spent)
    /\ \A i, j \in DOMAIN alarms : alarms[i].id = alarms[j].id => i = j

(* After alarmClockRemAlarm returns, the callback is not called again: what *)
(* owns the alarm may be freed.                                             *)
SilentOnceRemoved ==
    [][lastFired' # lastFired => lastFired'.alarm.id \notin removed]_vars

Due(id) == \E i \in DOMAIN alarms : alarms[i].id = id /\ alarms[i].exp <= now

(* An alarm that has expired does not stay so: it fires, which moves its    *)
(* expiration past the present or ends it, unless it is removed or the      *)
(* clock is stopped.                                                        *)
DueAlarmsFire == \A id \in 1..MaxAlarms : Due(id) /\ thread ~> ~Due(id) \/ ~thread
=============================================================================
