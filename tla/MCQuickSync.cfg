SPECIFICATION QuickFairSpec
CONSTANTS
    a = a
    Commitment <- MCNotes
    Nullifier <- MCSpend
    Unshield <- MCNone
    RailgunTx <- MCNone
    VersionOf <- MCVersion
    KeyOf <- MCPosition
    Owner <- MCOwner
    Spends <- MCSpends
    TreeMaxItems = 2
    MaxBlock = 3
    Confirmations = 1
    Syncer = {a}
    ActiveVersions <- OnlyV2
    ChunkSize = 0
    Width = 8
    MaxLeaves = 0
    MaxFaults = 1
    GraphLag = 1
    MaxItems = 1
INVARIANTS
    IndexedUnlessSplit
PROPERTIES
    EventuallySynced
CHECK_DEADLOCK FALSE
