SPECIFICATION SessionSpec
CONSTANTS
    a = a
    Commitment <- MCNote
    Nullifier <- MCSpend
    Unshield <- MCUnshield
    RailgunTx <- MCNone
    VersionOf <- MCVersion
    KeyOf <- MCPosition
    Owner <- MCOwner
    Spends <- MCSpends
    TreeMaxItems = 2
    MaxBlock = 2
    Confirmations = 0
    Syncer = {a}
    ActiveVersions <- V2ThenV3
    ChunkSize = 0
    Width = 8
    MaxLeaves = 0
    MaxFaults = 1
    MaxJobs = 2
    MaxDeep = 1
INVARIANTS
    IndexedUnlessOwed
    NoPhantomUnlessStale
    SpentUnlessOwed
CHECK_DEADLOCK FALSE
