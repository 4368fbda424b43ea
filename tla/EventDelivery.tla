---------------------------- MODULE EventDelivery ----------------------------
(***************************************************************************)
(* What an event handler promises (the comments of BREvent.h on             *)
(* eventHandlerSignalEvent and eventHandlerSignalEventOOB): an event is     *)
(* served at most once, one at a time; urgent events are served before the  *)
(* others, the last signalled first; the others in the order they were      *)
(* signalled.  Until it is taken, an event may be dropped, with all the     *)
(* other pending ones.                                                      *)
(***************************************************************************)
EXTENDS Naturals, Sequences

CONSTANTS
    Event,      \* the events that can be signalled
    Urgent,     \* those among them that are signalled out of band
    None        \* no event is being served

VARIABLES
    urgent,     \* pending, signalled out of band
    normal,     \* pending, signalled in band
    serving,    \* the event being served
    served,     \* history: the events served
    dropped     \* history: the events dropped

deliveryVars == <<urgent, normal, serving, served, dropped>>

Waiting == {urgent[i] : i \in DOMAIN urgent} \cup {normal[i] : i \in DOMAIN normal}
Gone == {served[i] : i \in DOMAIN served} \cup dropped \cup {serving}

Init ==
    /\ urgent = <<>> /\ normal = <<>> /\ serving = None
    /\ served = <<>> /\ dropped = {}

Signal(e) ==
    /\ e \notin Waiting \cup Gone
    /\ \/ e \in Urgent /\ urgent' = <<e>> \o urgent /\ UNCHANGED normal
       \/ e \notin Urgent /\ normal' = Append(normal, e) /\ UNCHANGED urgent
    /\ UNCHANGED <<serving, served, dropped>>

Take ==
    /\ serving = None
    /\ \/ /\ urgent # <<>>
          /\ serving' = Head(urgent) /\ urgent' = Tail(urgent)
          /\ UNCHANGED normal
       \/ /\ urgent = <<>> /\ normal # <<>>
          /\ serving' = Head(normal) /\ normal' = Tail(normal)
          /\ UNCHANGED urgent
    /\ UNCHANGED <<served, dropped>>

Finish ==
    /\ serving # None
    /\ served' = Append(served, serving)
    /\ serving' = None
    /\ UNCHANGED <<urgent, normal, dropped>>

Drop ==
    /\ dropped' = dropped \cup Waiting
    /\ urgent' = <<>> /\ normal' = <<>>
    /\ UNCHANGED <<serving, served>>

Next == (\E e \in Event : Signal(e)) \/ Take \/ Finish \/ Drop

Spec == Init /\ [][Next]_deliveryVars
=============================================================================
