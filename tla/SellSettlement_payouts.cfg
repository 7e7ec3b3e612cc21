SPECIFICATION Spec
CONSTANTS
    c1 = c1
    c2 = c2
    c3 = c3
    c4 = c4
    None = None
    Network = "evm"
    OrderType = "SELL"
    Call = {c1, c2, c3}
    MaxRunning = 2
    Channels = {"momo", "bank"}
SYMMETRY CallSymmetry
INVARIANTS
    TypeOK
    TxPaysOnce
    LostPayoutStaysClaimed
    RefundNeedsFailedPayout
    ShownRefundWasSent
PROPERTIES
    TransferMirrorsOrder
CHECK_DEADLOCK FALSE
