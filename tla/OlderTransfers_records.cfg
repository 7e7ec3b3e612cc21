\* The five transfer handlers, fiat accounts and keys: three calls at once.
SPECIFICATION Spec
CONSTANTS
    None = None
    c1 = c1
    c2 = c2
    c3 = c3
    e0 = e0
    Earlier = e0
    qIn = qIn
    qOut = qOut
    k1 = k1
    Call = {c1, c2, c3}
    Quote = {qIn, qOut}
    InQuote = {qIn}
    Key = {k1}
    Ops = {"fcIn", "fcOut", "createTransferIn", "createTransfer", "rawIn", "account", "deleteAccount"}
    MaxRunning = 3
SYMMETRY CallSymmetry
INVARIANTS
    DuplicatesOverlapped
    TypeOK
    RecordsAreTheTransfers
    UsedIsComplete
CHECK_DEADLOCK FALSE
