SPECIFICATION Spec
CONSTANTS
    hA = hA
    hB = hB
    hC = hC
    hD = hD
    hE = hE
    t1 = t1
    t2 = t2
    t3 = t3
    TreeDepth = 2
    ZeroLeaf = ZeroLeaf
    Chains <- MCChains
    MaxBlock = 2
    MaxCrashes = 1
    MaxLeaves = 8
    NoLogIndex = NoLogIndex
    None = None
INVARIANTS
    ProofOpensCommitment
    RowsAreTheChains
PROPERTIES
    ImplementsLeafStore
CHECK_DEADLOCK FALSE
