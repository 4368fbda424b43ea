SPECIFICATION FairSpec
CONSTANTS
    None = None
    c1 = c1
    c2 = c2
    Controllers = {c1, c2}
    Ops <- MCOps
    HasTimeout = TRUE
    LocksDispatch = TRUE
    MaxEvents = 2
    MaxThreads = 1
PROPERTIES
    CallsReturn
    EventsConsumed
CHECK_DEADLOCK FALSE
