SPECIFICATION Spec
CONSTANTS
    c1 = c1  c2 = c2  c3 = c3
    Call = {c1, c2, c3}
    Networks = {"evm", "starknet", "lightning", "polkadot"}
    Price = {1, 2}
    MaxFunds = 1
SYMMETRY CallSymmetry
INVARIANTS KeepsContract RefusedOnlyByOverlap
CHECK_DEADLOCK FALSE
