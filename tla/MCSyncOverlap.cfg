SPECIFICATION Spec
CONSTANTS
    a = a
    b = b
    Commitment <- MCNote
    Nullifier <- MCSpend
    Unshield <- MCNone
    RailgunTx <- MCNone
    VersionOf <- NotesBoth
    KeyOf <- NotesPosition
    Owner <- MCOwner
    Spends <- MCSpends
    TreeMaxItems = 2
    MaxBlock = 2
    Confirmations = 0
    Syncer = {a, b}
    ActiveVersions <- V2ThenV3
    ChunkSize = 1
    Width = 8
    MaxLeaves = 0
    MaxFaults = 0
INVARIANTS
    IndexedBelowCheckpoint
    DerivedFromIndex
CHECK_DEADLOCK FALSE
SYMMETRY MCSymmetry
