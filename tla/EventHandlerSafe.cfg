SPECIFICATION Spec
CONSTANTS
    None = None
    c1 = c1
    c2 = c2
    Controllers = {c1, c2}
    Ops <- MCAllOps
    HasTimeout = TRUE
    LocksDispatch = TRUE
    MaxEvents = 3
    MaxThreads = 2
SYMMETRY Symmetry
INVARIANTS
    AtMostOneThread
    NoStaleTimeout
    QuietAfterRelease
    EachEventOnce
PROPERTIES
    ImplementsDelivery
CHECK_DEADLOCK FALSE
