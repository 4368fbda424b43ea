SPECIFICATION ChainSpec
CONSTANTS
    both = both
    stale = stale
    fork = fork
    None = None
    Block = {0, 1, 2, 3, 4, 5, 6, 13, 15, 16}
    Prev <- MCPrev
    Height <- MCHeight
    Txs <- MCTxs
    Tx = {both, stale, fork}
    Checkpoints = {0, 3}
    Start = 0
    Interval = 3
    SaveAhead = 2
    NotSynced = 1
    Peers = {p, q}
    Lasts = {4, 6}
    ReorgDepth = 1
    MaxOrphans = 2
    MaxRewinds = 1
SYMMETRY MCPeers
INVARIANTS
    WalksEnd
    TipIsHighest
    NoOrphanOnTip
    HeightsOnChain
PROPERTIES
    RestartResumes
CHECK_DEADLOCK FALSE
