CONSTANTS
    g = g
    b1 = b1
    a2 = a2
    b2 = b2
    b3 = b3
    b4 = b4
    root = root
    tx = tx
    log = log
    Block <- MCBlock
    Genesis = g
    NoParent = root
    parent <- MCParent
    number <- MCNumber
    rank <- MCRank
    Inconsistent = {b2}
    Saved <- MCSaved
    Transfer = {tx, log}
    inBody <- MCInBody
    inReceipts <- MCInReceipts
    Matches = {b2}
    Roots = {}
    Own = {tx}
    OrphanAge = 0
    SaveCount = 2
    ReorgLimit = 2
    Heads = {3}
    Depths = {3}
    MaxSignals = 1
SPECIFICATION Spec
INVARIANTS NothingWithheld
PROPERTIES ChainGrowsByChildren OrphanedIsPending
CHECK_DEADLOCK FALSE
