SPECIFICATION SyncSpec
CHECK_DEADLOCK FALSE
CONSTANTS
    p = p
    first = first
    User = User
    NoPeer = NoPeer
    NoSubmission = NoSubmission
    Peers = {p}
    Submissions = {first}
    MaxPeers = 1
    MaxFailures = 2
    MaxHeight = 1
    MaxCalls = 5
INVARIANTS
    PeersLive
    ReportedOnce
PROPERTIES
    DisconnectEnds
    LossIsTold
