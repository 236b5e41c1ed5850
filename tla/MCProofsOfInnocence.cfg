SPECIFICATION Spec
CONSTANTS
    in1 = in1
    in2 = in2
    s = s
    u = u
    b = b
    A = A
    B = B
    L1 = L1
    List = {L1}
    Active = {L1}
    Txo = {in1, in2}
    Event = {s, u, b}
    Tx = {A, B}
    In <- MCIn
    Out <- MCOut
    Shield = {in1}
    Unshield = {u}
    Refresher = {r1}
    r1 = r1
    MaxNode = 2
    MaxReorg = 1
INVARIANTS
    SpendableIsValid
    EventsMinedUnlessRaced
    ProofOwedUnlessMarked
CHECK_DEADLOCK FALSE
