SPECIFICATION SessionSpec
CONSTANTS
    a = a
    Commitment <- TwoNotes
    Nullifier <- MCSpend
    Unshield <- MCNone
    RailgunTx <- MCNone
    VersionOf <- TwoVersion
    KeyOf <- TwoPosition
    Owner <- TwoOwner
    Spends <- MCSpends
    TreeMaxItems = 2
    MaxBlock = 2
    Confirmations = 0
    Syncer = {a}
    ActiveVersions <- V2ThenV3
    ChunkSize = 0
    Width = 8
    MaxLeaves = 0
    MaxFaults = 1
    MaxJobs = 2
    MaxDeep = 1
INVARIANTS
    IndexedUnlessOwed
    SpentUnlessOwed
CHECK_DEADLOCK FALSE
