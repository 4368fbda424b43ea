SPECIFICATION Spec
CONSTANTS
    own = own
    other = other
    Tx <- MCTx
    Made <- MCMade
    MaxHeight = 2
    MaxQueue = 2
    MaxSubmits = 2
    MaxRestarts = 1
INVARIANTS
    SubmittedOnce
CHECK_DEADLOCK FALSE
