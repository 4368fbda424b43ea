---------------------------- MODULE MCAlarmClock ----------------------------
(* AlarmClock for TLC: two controllers, model values.                       *)
EXTENDS AlarmClock, TLC

CONSTANTS c1, c2

MCOps == {"start", "stop", "recover"}
=============================================================================
