SPECIFICATION Spec
CONSTANTS
    c1 = c1  c2 = c2  c3 = c3
    None = None
    Call = {c1, c2, c3}
    Tx = {1, 2}
    WithoutTransfer = {c1}
    Ops = {"txCreate", "deposit", "withdraw", "trigger", "confirm", "confirmTx", "newStore", "removeStore", "switchStore", "addCallback", "removeActivity", "removeDeposits", "removeWithdraws"}
    MaxRunning = 2
SYMMETRY CallSymmetry
INVARIANTS TotalNeverOverstates LedgerIsExact TransactionDepositedOnce CredsGoWithStore
CHECK_DEADLOCK FALSE
