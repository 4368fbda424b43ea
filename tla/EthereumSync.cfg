SPECIFICATION Spec
CONSTANTS
    Offset = 1
    Rids <- MCRids
    Unknown = Unknown
    FirstHead = 2
    MaxHeight = 3
    MaxEvents = 2
INVARIANTS
    MissedOnlyBySlip
    TornOnlyByLateAnswer
PROPERTIES
    CatchesUp
CHECK_DEADLOCK FALSE
