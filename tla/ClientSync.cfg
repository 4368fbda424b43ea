SPECIFICATION Spec
CONSTANTS
    first = first
    second = second
    Confused = Confused
    Txs = {first, second}
    Address <- MCAddress
    Gap = 1
    Offset = 2
    Lag = 2
    Checkpoint = 0
    MaxHeight = 3
    MaxRid = 4
    MaxEpochs = 2
    MaxDue = 2
INVARIANTS
    OwnerAgrees
    OneAnswerDue
    NothingMissed
PROPERTIES
    ScansEnd
CHECK_DEADLOCK FALSE
