SPECIFICATION Spec
CONSTANTS
    c1 = c1
    c2 = c2
    c3 = c3
    c4 = c4
    None = None
    Network = "evm"
    OrderType = "BUY"
    Call = {c1, c2, c3}
    MaxRunning = 2
SYMMETRY CallSymmetry
PROPERTIES
    CompletedOrderIsKept
CHECK_DEADLOCK FALSE
