SPECIFICATION Spec
CONSTANTS
    own = own
    other = other
    Tx <- MCTx
    Made <- MCMade
    MaxHeight = 2
    MaxQueue = 2
    MaxSubmits = 2
    MaxRestarts = 1
INVARIANTS
    AssertionsKept
    RecordsAgree
    TransfersAgree
PROPERTIES
    EveryTxIsTold
CHECK_DEADLOCK FALSE
