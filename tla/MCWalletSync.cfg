SPECIFICATION Spec
CONSTANTS
    a = a
    b = b
    Commitment <- MCNote
    Nullifier <- MCSpend
    Unshield <- MCUnshield
    RailgunTx <- MCTx
    VersionOf <- MCBoth
    KeyOf <- FirstPosition
    Owner <- MCOwner
    Spends <- MCSpends
    TreeMaxItems = 2
    MaxBlock = 3
    Confirmations = 1
    Syncer = {a}
    ActiveVersions <- V2ThenV3
    ChunkSize = 1
    Width = 8
    MaxLeaves = 3
    MaxFaults = 1
INVARIANTS
    TypeOK
    IndexedBelowCheckpoint
    NoPhantomRows
    DerivedFromIndex
    TxidLeafBelowCheckpoint
PROPERTIES
    ImplementsLedgerBalance
CONSTRAINT OneLog
CHECK_DEADLOCK FALSE
