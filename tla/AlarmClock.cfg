SPECIFICATION FairSpec
CONSTANTS
    None = None
    c1 = c1
    c2 = c2
    Controllers = {c1, c2}
    Ops <- MCOps
    Period = 2
    MaxAlarms = 2
    MaxTime = 3
INVARIANTS
    NeverEarly
    NoAlarmLost
PROPERTIES
    SilentOnceRemoved
    DueAlarmsFire
CHECK_DEADLOCK FALSE
