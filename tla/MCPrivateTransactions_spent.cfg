SPECIFICATION Spec
CONSTANTS
    a = a
    b = b
    Caller = {a, b}
    Request <- MCRequest
    Deposits <- MCDeposits
    TreeSize = 4
    MaxInputs = 3
    LastTree = 2
    ShieldValue = {2}
    Quote = {1, 2}
    GasEstimate = 3
    FeeScale = 4
    CircuitMax = 2
    MaxShields = 1
    MaxFaults = 2
INVARIANTS
    SpentIsMarked
SYMMETRY Symmetry
CHECK_DEADLOCK FALSE
