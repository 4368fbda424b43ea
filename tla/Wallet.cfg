SPECIFICATION Spec
CONSTANTS
    receipt = receipt
    spend = spend
    double = double
    child = child
    Tx = {receipt, spend, double, child}
    Ins <- MCIns
    Outs <- MCOuts
    Replaceable = {double}
    Gap = 1
    GapExtended = 2
    MaxAddr = 2
    ReadOrders <- MCReadOrders
    MaxBlock = 2
    MaxHeight = 2
INVARIANTS
    SortedByHeight
    NoDoubleSpend
    ConfirmedCounts
    BalanceIsUnspent
PROPERTIES
    ReorgUnconfirms
    RemovalTakesDependents
CHECK_DEADLOCK FALSE
