------------------------- MODULE WalletSync_proofs -------------------------
(***************************************************************************)
(* Theorems about WalletSync, for every set of events, chunk size,         *)
(* confirmation depth and bound: what holds of any number of overlapping   *)
(* Sync calls, then what holds when they are made one at a time.           *)
(***************************************************************************)
EXTENDS WalletSync, SequenceTheorems, TLAPS

-----------------------------------------------------------------------------
(* Facts about the operators.                                              *)

\* scanLogChunks: a chunk that starts inside the scan ends inside it.
LEMMA ChunkEndBounds ==
    ASSUME NEW from \in Nat \ {0}, NEW to \in Nat
    PROVE  /\ ChunkEnd(from, to) \in 0 .. to
           /\ from <= to => from <= ChunkEnd(from, to)
<1>. DEFINE end == (from + ChunkSize - 1) % Width
<1>1. CASE ChunkSize = 0
  BY <1>1 DEF ChunkEnd
<1>2. CASE ChunkSize # 0
  <2>1. from + ChunkSize - 1 \in Nat /\ Width \in Nat /\ Width > 0
    BY <1>2, ChainAssumption, SyncAssumption
  <2>2. end \in Nat
    BY <2>1
  <2>. HIDE DEF end
  <2>3. ChunkEnd(from, to) = IF end < from \/ end > to THEN to ELSE end
    BY <1>2 DEF ChunkEnd, end
  <2>. QED
    BY <2>2, <2>3
<1>. QED
  BY <1>1, <1>2

\* A call that goes on or returns keeps the type of its locals.
LEMMA NextVersionType ==
    ASSUME NEW o \in Call, o.queue # <<>>
    PROVE  /\ NextVersion(o) \in Call
           /\ NextVersion(o).pc # "idle" => NextVersion(o).queue # <<>>
           /\ NextVersion(o).pc \in {"idle", "start"}
           /\ NextVersion(o).todo = {}
           /\ NextVersion(o).current = {}
           /\ NextVersion(o).logs = {}
<1>1. Idle \in Call
  BY ChainAssumption, SyncAssumption DEF Idle, Call, PC, Version
<1>2. CASE Len(o.queue) = 1
  BY <1>1, <1>2 DEF NextVersion, Idle
<1>3. CASE Len(o.queue) # 1
  <2>1. o.queue \in Seq(Version)
    BY DEF Call
  <2>2. Tail(o.queue) \in Seq(Version) /\ Tail(o.queue) # <<>>
    <3>1. /\ Tail(o.queue) \in Seq(Version)
          /\ Len(Tail(o.queue)) = Len(o.queue) - 1
          /\ Len(o.queue) \in Nat
      BY <2>1, HeadTailProperties, EmptySeq
    <3>2. Len(Tail(o.queue)) # 0
      BY <1>3, <3>1
    <3>3. Len(<<>>) = 0
      OBVIOUS
    <3>4. Tail(o.queue) # <<>>
      BY ONLY <3>2, <3>3
    <3>. QED
      BY ONLY <3>1, <3>4
  <2>3. NextVersion(o) = [Idle EXCEPT !.pc = "start", !.queue = Tail(o.queue)]
    BY <1>3 DEF NextVersion
  <2>. QED
    BY <1>1, <2>2, <2>3 DEF Idle, Call, PC
<1>. QED
  BY <1>2, <1>3

\* Changing one call keeps the type of all of them.
LEMMA SetCall ==
    ASSUME op \in [Syncer -> Call], \A q \in Syncer : CallType(op[q]),
           NEW p \in Syncer, NEW o \in Call, CallType(o),
           op' = [op EXCEPT ![p] = o]
    PROVE  op' \in [Syncer -> Call] /\ \A q \in Syncer : CallType(op'[q])
  OBVIOUS

LEMMA EnterLoopType ==
    ASSUME NEW o \in Call, o.queue # <<>>, NEW loop \in Loops
    PROVE  EnterLoop(o, loop) \in Call /\ CallType(EnterLoop(o, loop))
<1>1. EnterLoop(o, loop) \in Call
  BY DEF EnterLoop, Call, Of, PC, Import
<1>2. EnterLoop(o, loop).pc = loop /\ EnterLoop(o, loop).queue = o.queue
  BY DEF EnterLoop, Call
<1>3. \A r \in EnterLoop(o, loop).todo : r.event \in LoopOver[loop]
  BY DEF EnterLoop, Call, Of
<1>4. TodoKind(EnterLoop(o, loop)) = LoopOver[loop]
  BY <1>2 DEF TodoKind, Loops
<1>. QED
  BY <1>1, <1>2, <1>3, <1>4 DEF CallType

LEMMA DoneType ==
    ASSUME NEW o \in Call, CallType(o), NEW r
    PROVE  /\ Done(o, r) \in Call
           /\ CallType(Done(o, r))
  BY DEF Done, Call, CallType, TodoKind

-----------------------------------------------------------------------------
(* Type correctness.                                                       *)

LEMMA IdleType == Idle \in Call /\ CallType(Idle)
  BY ChainAssumption, SyncAssumption
     DEF Idle, Call, CallType, PC, Version

LEMMA TypeInit == Init => TypeInv
<1>. SUFFICES ASSUME Init PROVE TypeInv
  OBVIOUS
<1>1. ChainTypeOK
  BY ChainAssumption DEF Init, ChainInit, ChainTypeOK
<1>2. checkpoint \in [Version -> 0 .. MaxBlock + 1] /\ faults \in 0 .. MaxFaults
  BY ChainAssumption, SyncAssumption DEF Init
<1>3. op \in [Syncer -> Call] /\ \A p \in Syncer : CallType(op[p])
  BY IdleType DEF Init
<1>4. spent \in [Received -> 0 .. MaxBlock]
  BY ChainAssumption DEF Init
<1>5. /\ rows \in [Store -> SUBSET Row] /\ txidTree = {} /\ skipped = {}
      /\ displaced \in [Store \cup {"marks"} -> SUBSET Event]
  BY DEF Init
<1>. QED
  BY <1>1, <1>2, <1>3, <1>4, <1>5 DEF TypeInv, TypeOK

\* The steps of the chain.
LEMMA TypeEnvironment ==
    ASSUME TypeInv, Environment
    PROVE  TypeInv'
<1>1. ChainTypeOK'
  <2>1. CASE Mine
    BY <2>1, ChainAssumption DEF Mine, TypeInv, TypeOK, ChainTypeOK, Block
  <2>2. CASE Reorg
    BY <2>2, ChainAssumption DEF Reorg, TypeInv, TypeOK, ChainTypeOK, Block
  <2>. QED
    BY <2>1, <2>2 DEF Environment
<1>. QED
  BY <1>1 DEF Environment, TypeInv, TypeOK, storeVars, CallType

\* The steps of a call up to its chunk's logs.
LEMMA TypeScan ==
    ASSUME TypeInv, NEW p \in Syncer,
           \/ BeginSync(p) \/ LoadCheckpoint(p)
           \/ ReadHead(p) \/ FetchLogs(p)
    PROVE  TypeInv'
<1>. USE DEF TypeInv
<1>. DEFINE o == op[p]
<1>1. o \in Call /\ CallType(o)
  BY DEF TypeOK
<1>2. UNCHANGED <<chainVars, storeVars, skipped, faults>>
  BY DEF BeginSync, LoadCheckpoint, ReadHead, FetchLogs
<1>3. SUFFICES \E n \in Call : CallType(n) /\ op' = [op EXCEPT ![p] = n]
  <2>1. op' \in [Syncer -> Call] /\ \A q \in Syncer : CallType(op'[q])
    BY SetCall, <1>3 DEF TypeOK
  <2>. QED
    BY <1>2, <2>1 DEF TypeOK, ChainTypeOK, chainVars, storeVars, CallType
<1>4. o.pc # "idle" => Syncing(p) \in Version
  BY <1>1, ElementOfSeq, EmptySeq DEF Call, CallType, Syncing
<1>5. CASE BeginSync(p)
  <2>. DEFINE n == [Idle EXCEPT !.pc = "start", !.queue = ActiveVersions]
  <2>1. n \in Call /\ CallType(n)
    BY IdleType, SyncAssumption DEF Call, CallType, Idle, PC
  <2>. QED
    BY <1>5, <2>1 DEF BeginSync
<1>6. CASE LoadCheckpoint(p)
  <2>. DEFINE n == [o EXCEPT !.pc = "head",
                             !.from = StartBlock(checkpoint[Syncing(p)])]
  <2>1. StartBlock(checkpoint[Syncing(p)]) \in 1 .. MaxBlock + 1
    BY <1>4, <1>6, ChainAssumption DEF LoadCheckpoint, StartBlock, TypeOK
  <2>2. n \in Call /\ CallType(n)
    BY <1>1, <1>6, <2>1 DEF Call, CallType, LoadCheckpoint, PC, TodoKind, Loops
  <2>3. op' = [op EXCEPT ![p] = n]
    BY <1>6 DEF LoadCheckpoint, TypeOK
  <2>. QED
    BY <2>2, <2>3
<1>7. CASE ReadHead(p)
  <2>. DEFINE n == IF ~Confirmed \/ ConfirmedHead < o.from
                     THEN NextVersion(o)
                     ELSE [o EXCEPT !.pc = "fetch", !.to = ConfirmedHead]
  <2>1. o.queue # <<>>
    BY <1>1, <1>7 DEF CallType, ReadHead
  <2>2. NextVersion(o) \in Call /\ CallType(NextVersion(o))
    BY <1>1, <2>1, NextVersionType DEF CallType
  <2>3. Confirmed => ConfirmedHead \in 0 .. MaxBlock
    BY ChainAssumption DEF Confirmed, ConfirmedHead, TypeOK, ChainTypeOK
  <2>4. n \in Call /\ CallType(n)
    BY <1>1, <1>7, <2>2, <2>3
       DEF Call, CallType, ReadHead, PC, TodoKind, Loops
  <2>. QED
    BY <1>7, <2>4 DEF ReadHead
<1>8. CASE FetchLogs(p)
  <2>. DEFINE end == ChunkEnd(o.from, o.to)
              n == [o EXCEPT !.pc = "leaves", !.chunkTo = end,
                             !.logs = LogsIn(Syncing(p), o.from, end)]
  <2>1. end \in 0 .. MaxBlock
    <3>1. o.from \in Nat \ {0} /\ o.to \in Nat /\ o.to \in 0 .. MaxBlock
      BY <1>1, ChainAssumption DEF Call
    <3>2. end \in 0 .. o.to
      BY <3>1, ChunkEndBounds
    <3>. HIDE DEF end
    <3>. QED
      BY <3>1, <3>2, ChainAssumption
  <2>2. n \in Call /\ CallType(n)
    <3>1. LogsIn(Syncing(p), o.from, end) \in SUBSET Row
      BY DEF LogsIn
    <3>2. o.todo = {}
      <4>1. TodoKind(o) = {}
        BY <1>8 DEF FetchLogs, TodoKind, Loops
      <4>. QED
        BY <1>1, <4>1 DEF CallType
    <3>. QED
      BY <1>1, <1>8, <2>1, <3>1, <3>2
         DEF Call, CallType, FetchLogs, PC, Import, Batches
  <2>3. op' = [op EXCEPT ![p] = n]
    BY <1>8 DEF FetchLogs, TypeOK
  <2>. QED
    BY <2>2, <2>3
<1>. QED
  BY <1>5, <1>6, <1>7, <1>8

\* The type invariant when only stores and one call change.
LEMMA TypeStep ==
    ASSUME TypeInv, NEW p \in Syncer,
           UNCHANGED chainVars,
           \E n \in Call : CallType(n) /\ op' = [op EXCEPT ![p] = n],
           rows' \in [Store -> SUBSET Row],
           spent' \in [Received -> 0 .. MaxBlock],
           txidTree' \subseteq [position : 0 .. MaxLeaves, row : Row],
           checkpoint' \in [Version -> 0 .. MaxBlock + 1],
           displaced' \in [Store \cup {"marks"} -> SUBSET Event],
           skipped' \subseteq Nullifier,
           faults' \in 0 .. MaxFaults
    PROVE  TypeInv'
<1>1. op' \in [Syncer -> Call] /\ \A q \in Syncer : CallType(op'[q])
  BY SetCall DEF TypeInv, TypeOK
<1>. QED
  BY <1>1 DEF TypeInv, TypeOK, ChainTypeOK, chainVars, CallType

\* A write puts rows into a store, and notes events as displaced.
LEMMA RowsType ==
    ASSUME TypeOK, NEW s \in Store, NEW new \in SUBSET Row
    PROVE  /\ Upsert(s, new) \in SUBSET Row
           /\ \A table \in InsertNew(s, new) : table \in SUBSET Row
           /\ \A table \in SUBSET Row : [rows EXCEPT ![s] = table] \in [Store -> SUBSET Row]
           /\ [rows EXCEPT ![s] = @ \cup new] \in [Store -> SUBSET Row]
           /\ Replaced(s, new) \in SUBSET Event
           /\ \A table : Refused(s, table, new) \in SUBSET Event
<1>1. rows \in [Store -> SUBSET Row] /\ \A r \in Row : r.event \in Event
  BY DEF TypeOK, Row
<1>2. Upsert(s, new) \in SUBSET Row /\ \A table \in InsertNew(s, new) : table \in SUBSET Row
  BY <1>1 DEF Upsert, InsertNew
<1>3. /\ Replaced(s, new) \in SUBSET Event
      /\ \A table : Refused(s, table, new) \in SUBSET Event
  BY <1>1 DEF Replaced, Refused
<1>. QED
  BY <1>1, <1>2, <1>3

LEMMA DisplacedType ==
    ASSUME TypeOK, NEW s \in Store \cup {"marks"}, NEW more \in SUBSET Event
    PROVE  [displaced EXCEPT ![s] = @ \cup more]
              \in [Store \cup {"marks"} -> SUBSET Event]
  BY DEF TypeOK

LEMMA ImportNoteType ==
    ASSUME TypeOK, NEW r \in Row, r.event \in Received, ImportNote(r)
    PROVE  /\ rows' \in [Store -> SUBSET Row]
           /\ spent' \in [Received -> 0 .. MaxBlock]
           /\ displaced' \in [Store \cup {"marks"} -> SUBSET Event]
<1>1. "txos" \in Store /\ {r} \in SUBSET Row
  BY DEF Store, Keeps
<1>2. rows' \in [Store -> SUBSET Row] /\ Replaced("txos", {r}) \in SUBSET Event
  BY <1>1, RowsType DEF ImportNote
<1>3. displaced' \in [Store \cup {"marks"} -> SUBSET Event]
  BY <1>1, <1>2, DisplacedType DEF ImportNote
<1>4. spent' \in [Received -> 0 .. MaxBlock]
  <2>1. spent' = [spent EXCEPT ![r.event] = 0]
    BY DEF ImportNote
  <2>2. spent \in [Received -> 0 .. MaxBlock] /\ 0 \in 0 .. MaxBlock
    BY ChainAssumption DEF TypeOK
  <2>. QED
    BY <2>1, <2>2
<1>. QED
  BY <1>2, <1>3, <1>4

LEMMA MarkType ==
    ASSUME TypeOK, NEW r \in Row, Mark(r)
    PROVE  /\ spent' \in [Received -> 0 .. MaxBlock]
           /\ displaced' \in [Store \cup {"marks"} -> SUBSET Event]
<1>1. "txos" \in Store /\ r.block \in 0 .. MaxBlock
  BY ChainAssumption DEF Store, Keeps, Row, Block
<1>2. NotesMarked(r) \ {Spends[r.event]} \in SUBSET Event
  BY <1>1 DEF NotesMarked, TypeOK, Row
<1>3. displaced' \in [Store \cup {"marks"} -> SUBSET Event]
  BY <1>2, DisplacedType DEF Mark
<1>. QED
  BY <1>1, <1>3 DEF Mark, TypeOK

LEMMA TypeBatch ==
    ASSUME TypeInv, NEW p \in Syncer,
           IndexLeaves(p) \/ IndexNullifiers(p) \/ IndexUnshields(p)
    PROVE  TypeInv'
<1>. DEFINE o == op[p]
<1>1. o \in Call /\ CallType(o) /\ rows \in [Store -> SUBSET Row]
  BY DEF TypeInv, TypeOK
<1>2. \A kind : Of(kind, o.logs) \in SUBSET Row
  BY <1>1 DEF Of, Call
<1>3. UNCHANGED <<chainVars, spent, txidTree, checkpoint, skipped, faults>>
  BY DEF IndexLeaves, IndexNullifiers, IndexUnshields
<1>4. {"leaves", "commitments", "nullifiers", "unshields"} \subseteq Store /\ TypeOK
  BY DEF Store, Keeps, TypeInv
<1>5. /\ rows' \in [Store -> SUBSET Row]
      /\ displaced' \in [Store \cup {"marks"} -> SUBSET Event]
  <2>1. CASE IndexLeaves(p)
    <3>. DEFINE new == Of(Commitment, o.logs)
    <3>1. /\ Upsert("leaves", new) \in SUBSET Row /\ Upsert("commitments", new) \in SUBSET Row
          /\ Replaced("leaves", new) \in SUBSET Event
          /\ Replaced("commitments", new) \in SUBSET Event
      BY <1>2, <1>4, RowsType
    <3>2. /\ rows' = [rows EXCEPT !.leaves = Upsert("leaves", new),
                                  !.commitments = Upsert("commitments", new)]
          /\ displaced' =
                [displaced EXCEPT !.leaves = @ \cup Replaced("leaves", new),
                                  !.commitments = @ \cup Replaced("commitments", new)]
      BY <2>1 DEF IndexLeaves
    <3>. HIDE DEF new
    <3>. QED
      BY <1>4, <3>1, <3>2 DEF TypeOK
  <2>2. CASE IndexNullifiers(p)
    <3>. DEFINE new == Of(Nullifier, o.logs)
    <3>1. /\ rows' = [rows EXCEPT !.nullifiers = Upsert("nullifiers", new)]
          /\ displaced' = [displaced EXCEPT !.nullifiers =
                              @ \cup Replaced("nullifiers", new)]
      BY <2>2 DEF IndexNullifiers
    <3>2. Upsert("nullifiers", new) \in SUBSET Row /\ Replaced("nullifiers", new) \in SUBSET Event
      BY <1>2, <1>4, RowsType
    <3>. HIDE DEF new
    <3>. QED
      BY <1>4, <3>1, <3>2 DEF TypeOK
  <2>3. CASE IndexUnshields(p)
    <3>. DEFINE new == Of(Unshield, o.logs)
    <3>1. PICK table \in InsertNew("unshields", new) :
            /\ rows' = [rows EXCEPT !.unshields = table]
            /\ displaced' = [displaced EXCEPT !.unshields =
                                @ \cup Refused("unshields", table, new)]
      BY <2>3 DEF IndexUnshields
    <3>2. table \in SUBSET Row /\ Refused("unshields", table, new) \in SUBSET Event
      BY <1>2, <1>4, RowsType
    <3>. HIDE DEF new
    <3>. QED
      BY <1>4, <3>1, <3>2 DEF TypeOK
  <2>. QED
    BY <2>1, <2>2, <2>3
<1>6. \E n \in Call : CallType(n) /\ op' = [op EXCEPT ![p] = n]
  <2>1. o.queue # <<>> /\ o.todo = {}
    <3>1. o.pc \in Batches /\ TodoKind(o) = {}
      BY DEF IndexLeaves, IndexNullifiers, IndexUnshields, Batches,
             TodoKind, Loops
    <3>. QED
      BY <1>1, <3>1 DEF CallType, Batches
  <2>2. \A pc \in PC : [o EXCEPT !.pc = pc] \in Call
                        /\ CallType([o EXCEPT !.pc = pc])
    BY <1>1, <2>1 DEF Call, CallType
  <2>3. CASE IndexLeaves(p)
    BY <2>2, <2>3 DEF IndexLeaves, PC, Import, Batches, TypeInv, TypeOK
  <2>4. CASE IndexNullifiers(p)
    BY <2>2, <2>4 DEF IndexNullifiers, PC, Import, Batches, TypeInv, TypeOK
  <2>5. CASE IndexUnshields(p)
    BY <1>1, <2>1, <2>5, EnterLoopType DEF IndexUnshields, Loops
  <2>. QED
    BY <2>3, <2>4, <2>5
<1>. QED
  BY <1>3, <1>5, <1>6, TypeStep DEF TypeInv, TypeOK

LEMMA TypeTransaction ==
    ASSUME TypeInv, NEW p \in Syncer,
           StoreTransaction(p) \/ ReadPosition(p) \/ WriteLeaf(p)
    PROVE  TypeInv'
<1>. DEFINE o == op[p]
<1>1. o \in Call /\ CallType(o) /\ TypeOK
  BY DEF TypeInv, TypeOK
<1>2. UNCHANGED <<chainVars, spent, checkpoint, displaced, skipped, faults>>
  BY DEF StoreTransaction, ReadPosition, WriteLeaf, storeVars
<1>3. CASE StoreTransaction(p)
  <2>1. PICK r \in o.todo :
          /\ rows' = [rows EXCEPT !.transactions = Upsert("transactions", {r})]
          /\ op' = [op EXCEPT ![p] = [Done(@, r) EXCEPT !.pc = "position",
                                                        !.current = {r}]]
    BY <1>3 DEF StoreTransaction
  <2>2. r \in Row /\ "transactions" \in Store
    BY <1>1 DEF Call, Store, Keeps
  <2>3. rows' \in [Store -> SUBSET Row]
    BY <1>1, <2>1, <2>2, RowsType DEF TypeOK
  <2>. DEFINE n == [Done(o, r) EXCEPT !.pc = "position", !.current = {r}]
  <2>4. Done(o, r) \in Call /\ CallType(Done(o, r))
    BY <1>1, DoneType
  <2>5. Done(o, r).queue # <<>> /\ \A x \in Done(o, r).todo : x.event \in RailgunTx
    <3>1. o.pc = "transactions"
      BY <1>3 DEF StoreTransaction
    <3>2. TodoKind(o) = RailgunTx
      BY <3>1 DEF TodoKind, Loops, LoopOver
    <3>3. Done(o, r).queue = o.queue /\ Done(o, r).todo \subseteq o.todo
      BY <1>1 DEF Done, Call
    <3>. QED
      BY <1>1, <3>1, <3>2, <3>3 DEF CallType
  <2>6. n \in Call /\ n.queue # <<>> /\ n.pc = "position"
        /\ n.todo = Done(o, r).todo
    BY <2>2, <2>4, <2>5 DEF Call, PC, Import
  <2>7. CallType(n)
    BY <2>5, <2>6 DEF CallType, TodoKind
  <2>. QED
    BY <1>1, <1>2, <1>3, <2>1, <2>3, <2>6, <2>7, TypeStep
       DEF TypeOK, StoreTransaction
<1>4. CASE ReadPosition(p)
  <2>1. PICK i \in 0 .. MaxLeaves - 1 :
          op' = [op EXCEPT ![p].pc = "leaf", ![p].position = i]
    BY <1>4 DEF ReadPosition
  <2>. DEFINE n == [o EXCEPT !.pc = "leaf", !.position = i]
  <2>2. i \in 0 .. MaxLeaves /\ o.pc = "position"
    BY <1>4, SyncAssumption DEF ReadPosition
  <2>3. n \in Call /\ CallType(n)
    BY <1>1, <2>2 DEF Call, CallType, PC, Import, TodoKind
  <2>4. op' = [op EXCEPT ![p] = n]
    BY <1>1, <2>1 DEF TypeOK
  <2>. QED
    BY <1>1, <1>2, <1>4, <2>3, <2>4, TypeStep
       DEF TypeOK, ReadPosition, storeVars
<1>5. CASE WriteLeaf(p)
  <2>. DEFINE n == [o EXCEPT !.pc = "transactions", !.current = {},
                             !.position = 0]
  <2>1. o.pc = "leaf" /\ o.position \in 0 .. MaxLeaves /\ 0 \in 0 .. MaxLeaves
    BY <1>1, <1>5, SyncAssumption DEF WriteLeaf, Call
  <2>2. n \in Call /\ CallType(n)
    BY <1>1, <2>1 DEF Call, CallType, PC, Import, Loops, LoopOver, TodoKind
  <2>3. txidTree' \subseteq [position : 0 .. MaxLeaves, row : Row]
    BY <1>1, <1>5, <2>1 DEF WriteLeaf, TypeOK, Call
  <2>4. op' = [op EXCEPT ![p] = n]
    BY <1>1, <1>5 DEF WriteLeaf, TypeOK
  <2>5. UNCHANGED rows
    BY <1>5 DEF WriteLeaf
  <2>. QED
    BY <1>1, <1>2, <2>2, <2>3, <2>4, <2>5, TypeStep DEF TypeOK
<1>. QED
  BY <1>3, <1>4, <1>5

LEMMA TypeImport ==
    ASSUME TypeInv, NEW p \in Syncer,
           \/ StoreUnshieldPOI(p) \/ ImportCommitment(p)
           \/ MarkSpent(p) \/ MarkSpentFails(p)
    PROVE  TypeInv'
<1>. DEFINE o == op[p]
<1>1. o \in Call /\ CallType(o) /\ TypeOK
  BY DEF TypeInv, TypeOK
<1>2. PICK r \in o.todo : op' = [op EXCEPT ![p] = Done(@, r)]
  BY DEF StoreUnshieldPOI, ImportCommitment, MarkSpent, MarkSpentFails
<1>3. \E n \in Call : CallType(n) /\ op' = [op EXCEPT ![p] = n]
  BY <1>1, <1>2, DoneType
<1>4. UNCHANGED <<chainVars, txidTree, checkpoint>>
  BY DEF StoreUnshieldPOI, ImportCommitment, MarkSpent, MarkSpentFails,
         storeVars
<1>5. \A x \in o.todo : x \in Row /\ x.event \in TodoKind(o)
  BY <1>1 DEF Call, CallType
<1>6. \A x \in Row : x.block \in 0 .. MaxBlock /\ 0 \in 0 .. MaxBlock
  BY ChainAssumption DEF Row, Block
<1>7. "poiEvents" \in Store
  BY DEF Store, Keeps
<1>8. CASE StoreUnshieldPOI(p)
  <2>1. rows' \in [Store -> SUBSET Row]
    BY <1>1, <1>5, <1>7, <1>8, RowsType DEF StoreUnshieldPOI
  <2>2. UNCHANGED <<spent, displaced, skipped, faults>>
    BY <1>8 DEF StoreUnshieldPOI
  <2>. QED
    BY <1>1, <1>3, <1>4, <2>1, <2>2, TypeStep DEF TypeOK
<1>9. CASE ImportCommitment(p)
  <2>1. PICK x \in o.todo :
          \/ x.event \in Received /\ ImportNote(x)
          \/ /\ rows' = [rows EXCEPT !.poiEvents = @ \cup {x}]
             /\ UNCHANGED <<spent, displaced>>
          \/ UNCHANGED <<rows, spent, displaced>>
    BY <1>9 DEF ImportCommitment
  <2>2. /\ rows' \in [Store -> SUBSET Row]
        /\ spent' \in [Received -> 0 .. MaxBlock]
        /\ displaced' \in [Store \cup {"marks"} -> SUBSET Event]
    <3>1. CASE x.event \in Received /\ ImportNote(x)
      <4>1. x \in Row
        BY <1>5
      <4>. QED
        BY <1>1, <3>1, <4>1, ImportNoteType
    <3>2. CASE rows' = [rows EXCEPT !.poiEvents = @ \cup {x}] /\ UNCHANGED <<spent, displaced>>
      BY <1>1, <1>5, <1>7, <3>2, RowsType DEF TypeOK
    <3>3. CASE UNCHANGED <<rows, spent, displaced>>
      BY <1>1, <3>3 DEF TypeOK
    <3>. QED
      BY <2>1, <3>1, <3>2, <3>3
  <2>3. UNCHANGED <<skipped, faults>>
    BY <1>9 DEF ImportCommitment
  <2>. QED
    BY <1>1, <1>3, <1>4, <2>2, <2>3, TypeStep DEF TypeOK
<1>10. CASE MarkSpent(p)
  <2>1. PICK x \in o.todo : Mark(x)
    BY <1>10 DEF MarkSpent
  <2>2. UNCHANGED <<rows, skipped, faults>>
    BY <1>10 DEF MarkSpent
  <2>3. /\ spent' \in [Received -> 0 .. MaxBlock]
        /\ displaced' \in [Store \cup {"marks"} -> SUBSET Event]
    BY <1>1, <1>5, <2>1, MarkType
  <2>. QED
    BY <1>1, <1>3, <1>4, <2>2, <2>3, TypeStep DEF TypeOK
<1>11. CASE MarkSpentFails(p)
  <2>1. TodoKind(o) = Nullifier
    BY <1>11 DEF MarkSpentFails, TodoKind, Loops, LoopOver
  <2>2. skipped' \subseteq Nullifier
    BY <1>1, <1>5, <1>11, <2>1 DEF MarkSpentFails, TypeOK
  <2>3. faults' \in 0 .. MaxFaults
    BY <1>1, <1>11, SyncAssumption DEF MarkSpentFails, TypeOK
  <2>4. UNCHANGED <<rows, spent, displaced>>
    BY <1>11 DEF MarkSpentFails, storeVars
  <2>. QED
    BY <1>1, <1>3, <1>4, <2>2, <2>3, <2>4, TypeStep DEF TypeOK
<1>. QED
  BY <1>8, <1>9, <1>10, <1>11

LEMMA TypeEndLoop ==
    ASSUME TypeInv, NEW p \in Syncer, EndLoop(p)
    PROVE  TypeInv'
<1>. DEFINE o == op[p]
<1>1. o \in Call /\ CallType(o) /\ TypeOK
  BY DEF TypeInv, TypeOK
<1>2. o.pc \in DOMAIN LoopAfter
      /\ op' = [op EXCEPT ![p] = EnterLoop(o, LoopAfter[o.pc])]
  BY DEF EndLoop
<1>3. o.queue # <<>> /\ LoopAfter[o.pc] \in Loops
  BY <1>1, <1>2 DEF CallType, LoopAfter, Loops
<1>4. \E n \in Call : CallType(n) /\ op' = [op EXCEPT ![p] = n]
  BY <1>1, <1>2, <1>3, EnterLoopType
<1>5. UNCHANGED <<chainVars, storeVars, skipped, faults>>
  BY DEF EndLoop
<1>. QED
  BY <1>1, <1>4, <1>5, TypeStep DEF TypeOK, storeVars

LEMMA TypeSave ==
    ASSUME TypeInv, NEW p \in Syncer, ReadCheckpoints(p) \/ SaveCheckpoint(p)
    PROVE  TypeInv'
<1>. DEFINE o == op[p]
<1>1. o \in Call /\ CallType(o) /\ TypeOK
  BY DEF TypeInv, TypeOK
<1>2. UNCHANGED <<chainVars, rows, spent, txidTree, displaced, skipped, faults>>
  BY DEF ReadCheckpoints, SaveCheckpoint, storeVars
<1>3. CASE ReadCheckpoints(p)
  <2>. DEFINE n == [o EXCEPT !.pc = "save", !.file = checkpoint]
  <2>1. n \in Call /\ n.pc = "save" /\ n.queue = o.queue /\ n.todo = o.todo
    BY <1>1 DEF Call, TypeOK, PC, Import
  <2>2. o.todo = {} /\ o.queue # <<>>
    BY <1>1, <1>3 DEF ReadCheckpoints, CallType
  <2>3. CallType(n)
    BY <2>1, <2>2 DEF CallType
  <2>4. op' = [op EXCEPT ![p] = n]
    BY <1>1, <1>3 DEF ReadCheckpoints, TypeOK
  <2>5. UNCHANGED checkpoint
    BY <1>3 DEF ReadCheckpoints, storeVars
  <2>. QED
    BY <1>1, <1>2, <2>1, <2>3, <2>4, <2>5, TypeStep DEF TypeOK
<1>4. CASE SaveCheckpoint(p)
  <2>. DEFINE more == [Idle EXCEPT !.pc = "fetch", !.queue = o.queue,
                                   !.from = o.chunkTo + 1, !.to = o.to]
              n == IF o.chunkTo = o.to THEN NextVersion(o) ELSE more
  <2>1. o.chunkTo + 1 \in 1 .. MaxBlock + 1 /\ o.to \in 0 .. MaxBlock
    BY <1>1, ChainAssumption DEF Call
  <2>2. o.queue # <<>> /\ o.queue \in Seq(Version)
    BY <1>1, <1>4 DEF SaveCheckpoint, CallType, Call
  <2>3. more \in Call /\ more.queue = o.queue /\ more.todo = {}
    BY <2>1, <2>2, IdleType DEF Call, PC, Idle
  <2>4. n \in Call /\ CallType(n)
    BY <1>1, <2>2, <2>3, NextVersionType DEF CallType
  <2>5. op' = [op EXCEPT ![p] = n]
    BY <1>4 DEF SaveCheckpoint
  <2>6. checkpoint' = [o.file EXCEPT ![Syncing(p)] = o.chunkTo + 1]
    BY <1>4 DEF SaveCheckpoint, NextBlock
  <2>7. o.chunkTo + 1 \in 0 .. MaxBlock + 1
    BY <2>1, ChainAssumption
  <2>8. checkpoint' \in [Version -> 0 .. MaxBlock + 1]
    BY <1>1, <2>6, <2>7 DEF Call
  <2>. QED
    BY <1>1, <1>2, <2>4, <2>5, <2>8, TypeStep DEF TypeOK
<1>. QED
  BY <1>3, <1>4

LEMMA TypeFailure ==
    ASSUME TypeInv, Crash \/ \E p \in Syncer : Abort(p)
    PROVE  TypeInv'
<1>1. op' \in [Syncer -> Call] /\ \A q \in Syncer : CallType(op'[q])
  <2>1. CASE Crash
    BY <2>1, IdleType DEF Crash
  <2>2. CASE \E p \in Syncer : Abort(p)
    BY <2>2, IdleType, SetCall DEF Abort, TypeInv, TypeOK
  <2>. QED
    BY <2>1, <2>2
<1>2. faults' \in 0 .. MaxFaults /\ UNCHANGED <<chainVars, storeVars, skipped>>
  BY SyncAssumption DEF Crash, Abort, TypeInv, TypeOK
<1>. QED
  BY <1>1, <1>2 DEF TypeInv, TypeOK, ChainTypeOK, chainVars, storeVars, CallType

LEMMA TypeNext == TypeInv /\ [Next]_vars => TypeInv'
<1>. SUFFICES ASSUME TypeInv, [Next]_vars PROVE TypeInv'
  OBVIOUS
<1>1. CASE UNCHANGED vars
  BY <1>1 DEF vars, chainVars, storeVars, TypeInv, TypeOK, ChainTypeOK,
              CallType
<1>2. ASSUME NEW p \in Syncer, BeginSync(p) \/ Progress(p) PROVE TypeInv'
  BY <1>2, TypeScan, TypeBatch, TypeTransaction, TypeImport, TypeEndLoop,
     TypeSave DEF Progress, ImportStep
<1>3. ASSUME NEW p \in Syncer, MarkSpentFails(p) PROVE TypeInv'
  BY <1>3, TypeImport
<1>. QED
  BY <1>1, <1>2, <1>3, TypeFailure, TypeEnvironment DEF Next, SyncNext

\* Whatever calls overlap, fail or crash: a block number never leaves its
\* range (the subtraction of syncFinalizedToBlock does not underflow, a chunk
\* does not pass its scan), and a call that runs has a version to sync.
THEOREM TypeCorrect == Spec => []TypeOK
<1>1. Init => TypeInv
  BY TypeInit
<1>2. TypeInv /\ [Next]_vars => TypeInv'
  BY TypeNext
<1>3. TypeInv => TypeOK
  BY DEF TypeInv
<1>. QED
  BY <1>1, <1>2, <1>3, PTL DEF Spec

-----------------------------------------------------------------------------
(* What a step keeps of the final blocks and of the stores.                *)

\* No store loses a row but to that of another event with its key, no key is let
\* go, and the final blocks stay as they are.
StableStep ==
    /\ \A s \in Store : Written(s) \subseteq Written(s)'
    /\ \A s \in Store : \A r \in rows[s] :
          \E q \in rows'[s] : SameKey(s, q.event, r.event)
    /\ \A s \in {"commitments", "transactions", "poiEvents"} : rows[s] \subseteq rows'[s]
    /\ \A b \in Block : b <= Finalized => chain'[b] = chain[b]
    /\ Finalized \in Int /\ Finalized' \in Int /\ Finalized <= Finalized'

\* What a write of the rows of n to store s makes of it and of what it displaces:
\* it is left alone, or the rows replace those with their keys, or give way to
\* them, or are just added.
Puts(s, n) ==
    \/ n = {} /\ rows'[s] = rows[s] /\ displaced'[s] = displaced[s]
    \/ /\ rows'[s] = Upsert(s, n)
       /\ displaced'[s] = displaced[s] \cup Replaced(s, n)
    \/ /\ rows'[s] \in InsertNew(s, n)
       /\ displaced'[s] = displaced[s] \cup Refused(s, rows'[s], n)
    \/ rows'[s] = rows[s] \cup n /\ displaced'[s] = displaced[s]

LEMMA StoreNames ==
    /\ Store = {"leaves", "commitments", "nullifiers", "unshields", "transactions",
                "poiEvents", "txos"}
    /\ Keeps.leaves = Commitment
    /\ Keeps.commitments = Commitment
    /\ Keeps.nullifiers = Nullifier
    /\ Keeps.unshields = Unshield
    /\ Keeps.transactions = RailgunTx
    /\ Keeps.poiEvents = Unshield \cup Sent
    /\ Keeps.txos = Received
  BY DEF Store, Keeps

\* Having one key is an equivalence.
LEMMA SameKeyOrder ==
    ASSUME NEW s, NEW e, NEW f, NEW g
    PROVE  /\ SameKey(s, e, e)
           /\ SameKey(s, e, f) => SameKey(s, f, e)
           /\ SameKey(s, e, f) /\ SameKey(s, f, g) => SameKey(s, e, g)
  BY DEF SameKey

LEMMA MinusMonotonic ==
    ASSUME NEW i \in Int, NEW j \in Int, NEW k \in Int, i <= j
    PROVE  i - k <= j - k /\ i - k \in Int /\ j - k \in Int
  OBVIOUS

LEMMA RowType == \A r \in Row : r.block \in Block /\ r.block \in Int /\ r.block >= 1
  BY ChainAssumption DEF Row, Block

\* A step of the chain that leaves the stores alone.
LEMMA StoresStill ==
    ASSUME UNCHANGED rows, \A s \in Store : displaced'[s] = displaced[s],
           \A b \in Block : b <= Finalized => chain'[b] = chain[b],
           Finalized \in Int, Finalized' \in Int, Finalized <= Finalized'
    PROVE  StableStep
<1>1. \A s \in Store : Written(s)' = Written(s)
  BY DEF Written
<1>2. \A s \in Store : \A r \in rows[s] : \E q \in rows'[s] : SameKey(s, q.event, r.event)
  BY SameKeyOrder
<1>. QED
  BY <1>1, <1>2 DEF StableStep

LEMMA EnvironmentStable ==
    ASSUME TypeInv, ChainInv, Environment
    PROVE  StableStep /\ ChainInv'
<1>. USE ChainAssumption DEF TypeInv, TypeOK, ChainTypeOK, ChainInv, Block,
                            Finalized
<1>0. UNCHANGED <<rows, displaced>>
  BY DEF Environment, storeVars
<1>1. CASE Mine
  <2>1. PICK new \in SUBSET (Event \ OnChain) :
          chain' = [chain EXCEPT ![head + 1] = new] /\ KeysOnce(OnChain \cup new)
    BY <1>1 DEF Mine
  <2>2. \A b \in Block : chain[b] \cap new = {}
    BY <2>1 DEF OnChain
  <2>3. \A b, c \in Block : b # c => chain'[b] \cap chain'[c] = {}
    BY <2>1, <2>2
  <2>4. head' = head + 1 /\ peak' \in 0 .. MaxBlock /\ peak <= peak'
        /\ peak' - Confirmations <= head' /\ head' <= peak'
    BY <1>1 DEF Mine
  <2>5. \A b \in Block : b <= peak - Confirmations => chain'[b] = chain[b]
    BY <2>1
  <2>6. KeysOnce(OnChain)'
    <3>1. OnChain' \subseteq OnChain \cup new
      BY <2>1 DEF OnChain
    <3>. QED
      BY <2>1, <3>1 DEF KeysOnce
  <2>7. peak \in Int /\ peak' \in Int /\ Confirmations \in Int /\ peak <= peak'
    BY <2>4
  <2>8. ChainInv'
    BY <2>3, <2>4, <2>6
  <2>9. Finalized \in Int /\ Finalized' \in Int /\ Finalized <= Finalized'
    BY ONLY <2>7, MinusMonotonic DEF Finalized
  <2>10. \A b \in Block : b <= Finalized => chain'[b] = chain[b]
    BY ONLY <2>5 DEF Finalized, Block
  <2>. QED
    BY ONLY <1>0, <2>8, <2>9, <2>10, StoresStill
<1>2. CASE Reorg
  <2>1. PICK b \in Block :
          /\ b <= head /\ b > Finalized
          /\ chain' = [c \in Block |-> IF c < b THEN chain[c] ELSE {}]
          /\ head' = b - 1
    BY <1>2 DEF Reorg
  <2>2. peak' = peak
    BY <1>2 DEF Reorg
  <2>3. \A c, d \in Block : c # d => chain'[c] \cap chain'[d] = {}
    BY <2>1
  <2>4. KeysOnce(OnChain)'
    <3>1. OnChain' \subseteq OnChain
      BY <2>1 DEF OnChain
    <3>. QED
      BY <3>1 DEF KeysOnce
  <2>5. Finalized' = Finalized /\ Finalized \in Int
    BY <2>2
  <2>6. ChainInv'
    BY <2>1, <2>2, <2>3, <2>4
  <2>7. \A c \in Block : c <= Finalized => chain'[c] = chain[c]
    BY <2>1
  <2>. HIDE DEF Finalized
  <2>. QED
    BY <1>0, <2>5, <2>6, <2>7, StoresStill
<1>. QED
  BY <1>1, <1>2 DEF Environment

\* With every event in one block, a write keeps a row, or notes its event as
\* displaced by the row of another, which is then in the store.
LEMMA PutKeeps ==
    ASSUME ChainInv, TypeOK, NEW s \in Store, NEW n \in SUBSET Row, Puts(s, n),
           \A r \in rows[s] \cup n : r.event \in chain[r.block]
    PROVE  /\ rows'[s] \subseteq rows[s] \cup n
           /\ displaced[s] \subseteq displaced'[s]
           /\ \A r \in rows[s] \cup n : r \in rows'[s] \/ r.event \in displaced'[s]
           /\ \A r \in rows[s] \cup n : \E q \in rows'[s] : SameKey(s, q.event, r.event)
           /\ \A e \in displaced'[s] \ displaced[s] :
                 \E r \in rows[s] \cup n, q \in rows'[s] : r.event = e /\ Rivals(s, q, r)
<1>1. rows[s] \in SUBSET Row
  BY DEF TypeOK
<1>2. \A q, r \in rows[s] \cup n : q.event = r.event => q = r
  <2>. TAKE q, r \in rows[s] \cup n
  <2>1. q \in Row /\ r \in Row /\ q.event \in chain[q.block] /\ r.event \in chain[r.block]
    BY <1>1
  <2>2. q.event = r.event => q.block = r.block
    BY <2>1 DEF ChainInv, Row
  <2>. QED
    BY <2>1, <2>2 DEF Row
<1>3. \A q, r : SameKey(s, q.event, r.event) => Rivals(s, q, r) \/ q.event = r.event
  BY DEF Rivals
<1>4. \A e, f, g : /\ SameKey(s, e, e)
                   /\ SameKey(s, e, f) => SameKey(s, f, e)
                   /\ SameKey(s, e, f) /\ SameKey(s, f, g) => SameKey(s, e, g)
  BY SameKeyOrder
<1>5. \A q, r : Rivals(s, q, r) => SameKey(s, q.event, r.event)
  BY DEF Rivals
<1>6. CASE rows'[s] = rows[s] \cup n /\ displaced'[s] = displaced[s]
  BY <1>4, <1>6
<1>7. CASE n = {} /\ rows'[s] = rows[s] /\ displaced'[s] = displaced[s]
  BY <1>4, <1>7
<1>8. CASE /\ rows'[s] = Upsert(s, n)
           /\ displaced'[s] = displaced[s] \cup Replaced(s, n)
  <2>1. n \subseteq rows'[s] /\ rows'[s] \subseteq rows[s] \cup n
        /\ displaced[s] \subseteq displaced'[s]
    BY <1>8 DEF Upsert
  <2>2. \A r \in rows[s] : r \in rows'[s] \/ \E q \in n : SameKey(s, q.event, r.event)
    BY <1>8 DEF Upsert
  <2>3. \A r \in rows[s], q \in n : Rivals(s, q, r) => r.event \in displaced'[s]
    BY <1>8 DEF Replaced
  <2>4. \A r \in rows[s] : r \in rows'[s] \/ r.event \in displaced'[s]
    BY <1>2, <1>3, <2>1, <2>2, <2>3
  <2>5. \A e \in displaced'[s] \ displaced[s] :
          \E r \in rows[s], q \in n : r.event = e /\ Rivals(s, q, r)
    BY <1>8 DEF Replaced
  <2>. QED
    BY <1>4, <2>1, <2>2, <2>4, <2>5
<1>9. CASE /\ rows'[s] \in InsertNew(s, n)
           /\ displaced'[s] = displaced[s] \cup Refused(s, rows'[s], n)
  <2>1. /\ rows[s] \subseteq rows'[s] /\ rows'[s] \subseteq rows[s] \cup n
        /\ \A r \in n : \E q \in rows'[s] : SameKey(s, q.event, r.event)
    BY <1>9 DEF InsertNew
  <2>2. \A r \in n, q \in rows'[s] : Rivals(s, q, r) => r.event \in displaced'[s]
    BY <1>9 DEF Refused
  <2>3. \A r \in n : r \in rows'[s] \/ r.event \in displaced'[s]
    BY <1>2, <1>3, <2>1, <2>2
  <2>4. \A e \in displaced'[s] \ displaced[s] :
          \E r \in n, q \in rows'[s] : r.event = e /\ Rivals(s, q, r)
    BY <1>9 DEF Refused
  <2>5. displaced[s] \subseteq displaced'[s]
    BY <1>9
  <2>. QED
    BY <1>4, <2>1, <2>3, <2>4, <2>5
<1>. QED
  BY <1>6, <1>7, <1>8, <1>9 DEF Puts

\* An import step adds rows of its chunk to the stores.
LEMMA WriteStable ==
    ASSUME NEW X, IInvBut(X), NEW p \in Syncer, op[p].pc \in Import, UNCHANGED chainVars,
           NEW new \in [Store -> SUBSET Row],
           \A s \in Store : new[s] \subseteq Of(Keeps[s], op[p].logs) /\ Puts(s, new[s])
    PROVE  /\ StableStep /\ ChainInv' /\ NoPhantomRows' /\ DisplacedInv'
           /\ \A s \in Store : new[s] \subseteq Written(s)'
           /\ \A s \in Store : rows'[s] \subseteq rows[s] \cup new[s]
           /\ \A s \in {"commitments", "transactions", "poiEvents"} :
                 new[s] \subseteq rows'[s]
<1>. DEFINE o == op[p]
<1>1. o \in Call /\ rows \in [Store -> SUBSET Row] /\ peak \in Int
  BY ChainAssumption DEF IInvBut, TypeInv, TypeOK, ChainTypeOK
<1>2. o.logs \subseteq LogsIn(o.queue[1], o.from, o.chunkTo)
      /\ o.chunkTo <= o.to /\ o.to <= Finalized
      /\ o.chunkTo \in Int /\ o.to \in Int /\ Finalized \in Int
  BY <1>1, ChainAssumption
     DEF IInvBut, CallBut, ScanBut, ChunkBut, Call, Finalized
<1>3. \A s \in Store : \A r \in rows[s] \cup new[s] :
          /\ r \in Row /\ r.event \in Keeps[s]
          /\ r.block <= Finalized /\ r.event \in chain[r.block]
  <2>. TAKE s \in Store
  <2>1. \A r \in new[s] : r \in o.logs /\ r.event \in Keeps[s]
    BY DEF Of
  <2>2. \A r \in new[s] : /\ r \in Row /\ r.event \in Keeps[s]
                          /\ r.block <= Finalized /\ r.event \in chain[r.block]
    BY <1>2, <2>1, RowType DEF LogsIn
  <2>3. \A r \in rows[s] : /\ r \in Row /\ r.event \in Keeps[s]
                           /\ r.block <= Finalized /\ r.event \in chain[r.block]
    BY <1>1 DEF IInvBut, NoPhantomRows
  <2>. QED
    BY <2>2, <2>3
<1>4. UNCHANGED <<chain, head, peak>> /\ Finalized' = Finalized
  BY DEF chainVars, Finalized
<1>5. ChainInv /\ TypeOK /\ DisplacedInv
  BY DEF IInvBut, TypeInv
<1>6. \A s \in Store :
        /\ rows'[s] \subseteq rows[s] \cup new[s]
        /\ displaced[s] \subseteq displaced'[s]
        /\ \A r \in rows[s] \cup new[s] : r \in rows'[s] \/ r.event \in displaced'[s]
        /\ \A r \in rows[s] \cup new[s] : \E q \in rows'[s] : SameKey(s, q.event, r.event)
        /\ \A e \in displaced'[s] \ displaced[s] :
              \E r \in rows[s] \cup new[s], q \in rows'[s] : r.event = e /\ Rivals(s, q, r)
  <2>. TAKE s \in Store
  <2>1. new[s] \in SUBSET Row /\ \A r \in rows[s] \cup new[s] : r.event \in chain[r.block]
    BY <1>3
  <2>. QED
    BY <1>5, <2>1, PutKeeps
<1>7. NoPhantomRows'
  BY <1>3, <1>4, <1>6 DEF NoPhantomRows
<1>8. ChainInv'
  <2>1. OnChain' = OnChain
    BY <1>4 DEF OnChain
  <2>. QED
    BY <1>4, <1>5, <2>1 DEF ChainInv, KeysOnce
<1>9. \A s \in {"commitments", "transactions", "poiEvents"} : displaced'[s] = {}
  <2>1. \A q, r : ~ Rivals("transactions", q, r) /\ ~ Rivals("poiEvents", q, r)
    BY DEF Rivals, SameKey
  <2>2. \A q, r \in rows["commitments"] \cup new["commitments"] : ~ Rivals("commitments", q, r)
    <3>. TAKE q, r \in rows["commitments"] \cup new["commitments"]
    <3>1. /\ q \in Row /\ r \in Row /\ q.event \in Commitment /\ r.event \in Commitment
          /\ q.event \in chain[q.block] /\ r.event \in chain[r.block]
      BY <1>3, StoreNames
    <3>2. q.event \in OnChain /\ r.event \in OnChain
      BY <3>1 DEF OnChain, Row
    <3>. QED
      BY <1>5, <3>1, <3>2 DEF ChainInv, KeysOnce, Rivals, SameKey
  <2>3. \A s \in {"commitments", "transactions", "poiEvents"} : s \in Store /\ displaced[s] = {}
    BY <1>5, StoreNames DEF DisplacedInv
  <2>4. \A s \in {"commitments", "transactions", "poiEvents"} :
          \A r, q \in rows[s] \cup new[s] : ~ Rivals(s, q, r)
    BY <2>1, <2>2
  <2>. QED
    BY <1>6, <2>3, <2>4
<1>10. DisplacedInv'
  <2>1. \A s \in Store : \A e \in displaced'[s] : \E q \in rows'[s] : SameKey(s, q.event, e)
    <3>. TAKE s \in Store
    <3>. TAKE e \in displaced'[s]
    <3>1. CASE e \in displaced[s]
      <4>1. PICK r \in rows[s] : SameKey(s, r.event, e)
        BY <1>5, <3>1 DEF DisplacedInv
      <4>2. PICK q \in rows'[s] : SameKey(s, q.event, r.event)
        BY <1>6
      <4>. QED
        BY <4>1, <4>2, SameKeyOrder
    <3>2. CASE e \notin displaced[s]
      BY <1>6, <3>2 DEF Rivals
    <3>. QED
      BY <3>1, <3>2
  <2>2. displaced'["txos"] \subseteq Contested'
    <3>1. FinalRows' = FinalRows
      BY <1>4 DEF FinalRows
    <3>2. Contested' = Contested
      BY <3>1 DEF Contested
    <3>3. ASSUME NEW e \in displaced'["txos"] \ displaced["txos"] PROVE e \in Contested
      <4>1. "txos" \in Store /\ Keeps["txos"] = Received
        BY StoreNames
      <4>2. PICK r \in rows["txos"] \cup new["txos"], q \in rows'["txos"] :
              r.event = e /\ Rivals("txos", q, r)
        BY <1>6, <3>3, <4>1
      <4>3. r.event \in Received /\ q.event \in Received /\ q \in FinalRows
        BY <1>3, <1>6, <4>1, <4>2 DEF FinalRows
      <4>4. q.event \in Received \ {e} /\ KeyOf[q.event] = KeyOf[e]
        BY <4>2, <4>3 DEF Rivals, SameKey
      <4>. QED
        BY <4>2, <4>3, <4>4 DEF Contested
    <3>. QED
      BY <1>5, <3>2, <3>3 DEF DisplacedInv
  <2>. QED
    BY <1>9, <2>1, <2>2 DEF DisplacedInv
<1>11. \A s \in Store : rows[s] \cup new[s] \subseteq Written(s)'
                        /\ Written(s) \subseteq Written(s)'
  BY <1>3, <1>6 DEF Written
<1>12. \A s \in {"commitments", "transactions", "poiEvents"} : rows[s] \cup new[s] \subseteq rows'[s]
  BY <1>6, <1>9, StoreNames
<1>13. StableStep
  BY <1>2, <1>4, <1>6, <1>11, <1>12 DEF StableStep
<1>. QED
  BY <1>6, <1>7, <1>8, <1>10, <1>11, <1>12, <1>13

\* The same, for one store.
LEMMA WriteOne ==
    ASSUME NEW X, IInvBut(X), NEW p \in Syncer, op[p].pc \in Import, UNCHANGED chainVars,
           NEW s \in Store, NEW n \in SUBSET Of(Keeps[s], op[p].logs), Puts(s, n),
           \A t \in Store \ {s} : rows'[t] = rows[t] /\ displaced'[t] = displaced[t]
    PROVE  /\ StableStep /\ ChainInv' /\ NoPhantomRows' /\ DisplacedInv'
           /\ n \subseteq Written(s)'
           /\ rows'[s] \subseteq rows[s] \cup n
<1>. DEFINE new == [t \in Store |-> IF t = s THEN n ELSE {}]
<1>1. n \in SUBSET Row
  BY DEF IInvBut, TypeInv, TypeOK, Call, Of
<1>2. new \in [Store -> SUBSET Row]
  BY <1>1
<1>3. \A t \in Store : new[t] = IF t = s THEN n ELSE {}
  OBVIOUS
<1>. HIDE DEF new
<1>4. \A t \in Store : new[t] \subseteq Of(Keeps[t], op[p].logs) /\ Puts(t, new[t])
  <2>. TAKE t \in Store
  <2>1. CASE t = s
    BY <1>3, <2>1
  <2>2. CASE t # s
    BY <1>3, <2>2 DEF Puts
  <2>. QED
    BY <2>1, <2>2
<1>. QED
  BY <1>2, <1>3, <1>4, WriteStable

\* What is written stays so.
LEMMA WrittenGrows ==
    ASSUME StableStep
    PROVE  /\ Written("leaves") \subseteq Written("leaves")'
           /\ Written("commitments") \subseteq Written("commitments")'
           /\ Written("nullifiers") \subseteq Written("nullifiers")'
           /\ Written("unshields") \subseteq Written("unshields")'
           /\ Written("transactions") \subseteq Written("transactions")'
           /\ Written("poiEvents") \subseteq Written("poiEvents")'
           /\ Written("txos") \subseteq Written("txos")'
           /\ rows.commitments \subseteq rows'.commitments
           /\ rows.transactions \subseteq rows'.transactions
<1>1. Store = {"leaves", "commitments", "nullifiers", "unshields", "transactions",
               "poiEvents", "txos"}
  BY StoreNames
<1>2. \A s \in Store : Written(s) \subseteq Written(s)'
  BY DEF StableStep
<1>3. \A s \in {"commitments", "transactions"} : rows[s] \subseteq rows'[s]
  BY DEF StableStep
<1>. QED
  BY <1>1, <1>2, <1>3

\* Where nothing is displaced, what is written is held.
LEMMA WrittenHeld ==
    ASSUME DisplacedInv
    PROVE  /\ Written("commitments") = rows.commitments
           /\ Written("transactions") = rows.transactions
           /\ Written("poiEvents") = rows.poiEvents
  BY DEF DisplacedInv, Written

\* The logs of final blocks never change.
LEMMA LogsStable ==
    ASSUME TypeInv, StableStep, NEW v, NEW lo \in Int, NEW hi \in Int,
           hi <= Finalized
    PROVE  LogsIn(v, lo, hi)' = LogsIn(v, lo, hi)
<1>1. \A r \in Row : r.block <= hi => chain'[r.block] = chain[r.block]
  BY RowType DEF StableStep
<1>. QED
  BY <1>1 DEF LogsIn

\* What is indexed stays indexed.
LEMMA IndexedStable ==
    ASSUME TypeInv, StableStep, NEW X, NEW v, NEW k \in Int,
           IndexedBut(X, v, k)
    PROVE  IndexedBut(X, v, k)'
<1>1. CASE k <= 1
  <2>1. LogsIn(v, 1, k - 1)' = {}
    BY <1>1, RowType DEF LogsIn
  <2>. QED
    BY <1>1, <2>1 DEF IndexedBut, Of
<1>2. CASE k - 1 <= Finalized /\ ~ k <= 1
  <2>1. LogsIn(v, 1, k - 1)' = LogsIn(v, 1, k - 1)
    BY <1>2, LogsStable
  <2>2. (k - 1 <= Finalized)'
    BY <1>2 DEF StableStep
  <2>. QED
    BY <2>1, <2>2 DEF IndexedBut, StableStep, Of
<1>. QED
  BY <1>1, <1>2 DEF IndexedBut

\* A call that does not move keeps its invariant.
LEMMA CallStable ==
    ASSUME NEW X, IInvBut(X), TypeInv', StableStep, NEW q \in Syncer, op'[q] = op[q]
    PROVE  CallBut(X, op[q])'
<1>. DEFINE o == op[q]
<1>1. o \in Call /\ CallBut(X, o) /\ TypeInv /\ CallType(o)
  BY DEF IInvBut, TypeInv, TypeOK
<1>2. Finalized \in Int /\ Finalized' \in Int /\ Finalized <= Finalized'
  BY DEF StableStep
<1>3. PICK v \in {o.queue[1]}, from \in {o.from} : TRUE
  OBVIOUS
<1>4. from \in Int /\ o.to \in Int /\ o.chunkTo \in Int
  BY <1>1, <1>3, ChainAssumption DEF Call
<1>5. IndexedBut(X, v, from) => IndexedBut(X, v, from)'
  BY <1>1, <1>4, IndexedStable
<1>6. ScanBut(X, op[q])'
  BY <1>1, <1>2, <1>3, <1>4, <1>5 DEF CallBut, ScanBut, IndexedBut
<1>7. ChunkBut(X, op[q])'
  <2>1. PICK to \in {o.chunkTo} : TRUE
    OBVIOUS
  <2>2. o.pc \in Import => LogsIn(v, from, to)' = LogsIn(v, from, to)
    BY <1>1, <1>2, <1>4, <2>1, LogsStable DEF CallBut, ScanBut, ChunkBut
  <2>. QED
    BY <1>1, <1>3, <2>1, <2>2 DEF CallBut, ChunkBut, LogsIn
<1>8. HeldBut(X, op[q])'
  <2>1. \A w \in Version, k \in Int : IndexedBut(X, w, k) => IndexedBut(X, w, k)'
    BY <1>1, IndexedStable
  <2>2. \A w \in Version : o.file[w] \in Int
    BY <1>1, ChainAssumption DEF Call
  <2>3. \A w \in Version : o.pc = "save" => IndexedBut(X, w, op[q].file[w])'
    <3>. TAKE w \in Version
    <3>1. PICK k \in Int : k = o.file[w]
      BY <2>2
    <3>2. o.pc = "save" => IndexedBut(X, w, k)'
      BY <1>1, <2>1, <3>1 DEF CallBut, HeldBut
    <3>. QED
      BY <3>1, <3>2 DEF IndexedBut
  <2>4. o.current \subseteq rows'.transactions
    BY <1>1, WrittenGrows DEF CallBut, HeldBut
  <2>. QED
    BY <1>1, <2>3, <2>4 DEF CallBut, HeldBut
<1>9. (op[q].pc \in Import => ChunkWritten(op[q]))'
  <2>1. o.pc \in Import => ChunkWritten(o)
    BY <1>1 DEF CallBut
  <2>. QED
    BY <2>1, WrittenGrows DEF ChunkWritten
<1>. QED
  BY <1>6, <1>7, <1>8, <1>9 DEF CallBut

LEMMA CheckpointStable ==
    ASSUME NEW X, IInvBut(X), StableStep, UNCHANGED checkpoint
    PROVE  \A v \in Version : IndexedBut(X, v, checkpoint[v])'
<1>. TAKE v \in Version
<1>1. PICK k \in Int : k = checkpoint[v]
  BY ChainAssumption DEF IInvBut, TypeInv, TypeOK
<1>2. IndexedBut(X, v, k)'
  BY <1>1, IndexedStable DEF IInvBut
<1>. QED
  BY <1>1, <1>2 DEF IndexedBut

\* A note that the stores cannot tell from others stays one.
LEMMA ContestedStable ==
    ASSUME StableStep
    PROVE  FinalRows \subseteq FinalRows' /\ Contested \subseteq Contested'
<1>1. \A r \in Row : r.block \in Block /\ r.block \in Int
  BY RowType
<1>2. FinalRows \subseteq FinalRows'
  BY <1>1 DEF FinalRows, StableStep
<1>. QED
  BY <1>2 DEF Contested

\* The stores that others are derived from lose no row but to that of another event.
LEMMA DerivedStable ==
    ASSUME NEW X, IInvBut(X), StableStep, UNCHANGED <<spent, txidTree>>,
           rows'.txos \subseteq rows.txos
    PROVE  DerivedFromIndex'
<1>1. DerivedFromIndex /\ {"leaves", "nullifiers"} \subseteq Store
  BY StoreNames DEF IInvBut
<1>2. rows'.txos \subseteq rows'.commitments
  BY <1>1, WrittenGrows DEF DerivedFromIndex
<1>3. \A t \in rows'.txos : /\ t \in Written("leaves")'
                            /\ \E l \in rows'.leaves : SameKey("leaves", l.event, t.event)
  <2>. TAKE t \in rows'.txos
  <2>1. t \in Written("leaves")'
    BY <1>1, WrittenGrows DEF DerivedFromIndex
  <2>2. PICK l \in rows.leaves : SameKey("leaves", l.event, t.event)
    BY <1>1 DEF DerivedFromIndex
  <2>3. PICK q \in rows'.leaves : SameKey("leaves", q.event, l.event)
    BY <1>1 DEF StableStep
  <2>4. SameKey("leaves", q.event, t.event)
    BY <2>2, <2>3, SameKeyOrder
  <2>. QED
    BY <2>1, <2>3, <2>4
<1>4. \A c \in Received : spent'[c] # 0 =>
          \E r \in Written("nullifiers")' \cap FinalRows' :
             /\ r.event \in Nullifier /\ r.block = spent'[c]
             /\ Spends[r.event] \in Received /\ MarkedKey[r.event] = KeyOf[c]
  BY <1>1, WrittenGrows, ContestedStable DEF DerivedFromIndex
<1>5. \A l \in txidTree' : l.row \in rows'.transactions
  BY <1>1, WrittenGrows DEF DerivedFromIndex
<1>. QED
  BY <1>2, <1>3, <1>4, <1>5 DEF DerivedFromIndex

LEMMA DisplacedStable ==
    ASSUME NEW X, IInvBut(X), StableStep, UNCHANGED rows,
           \A s \in Store : displaced'[s] = displaced[s]
    PROVE  DisplacedInv'
<1>1. {"txos", "commitments", "transactions", "poiEvents"} \subseteq Store
  BY StoreNames
<1>. QED
  BY <1>1, ContestedStable DEF IInvBut, DisplacedInv

\* A step that writes no row and does not touch the chain.
LEMMA StillStable ==
    ASSUME NEW X, IInvBut(X), UNCHANGED <<chainVars, rows>>,
           \A s \in Store : displaced'[s] = displaced[s]
    PROVE  StableStep /\ ChainInv' /\ NoPhantomRows' /\ DisplacedInv'
<1>1. Finalized' = Finalized /\ Finalized \in Int /\ UNCHANGED <<chain, head, peak>>
  BY ChainAssumption
     DEF IInvBut, TypeInv, TypeOK, ChainTypeOK, Finalized, chainVars
<1>2. StableStep
  BY <1>1, StoresStill
<1>3. ChainInv'
  <2>1. OnChain' = OnChain
    BY <1>1 DEF OnChain
  <2>. QED
    BY <1>1, <2>1 DEF IInvBut, ChainInv, KeysOnce
<1>4. NoPhantomRows'
  BY <1>1 DEF IInvBut, NoPhantomRows
<1>. QED
  BY <1>2, <1>3, <1>4, DisplacedStable

LEMMA QuietStable ==
    ASSUME NEW X, IInvBut(X), UNCHANGED <<chainVars, storeVars>>
    PROVE  /\ StableStep /\ ChainInv' /\ NoPhantomRows' /\ DerivedFromIndex' /\ DisplacedInv'
           /\ \A v \in Version : IndexedBut(X, v, checkpoint[v])'
<1>1. UNCHANGED <<chainVars, rows, spent, txidTree, checkpoint, displaced>>
  BY DEF storeVars
<1>2. StableStep /\ ChainInv' /\ NoPhantomRows' /\ DisplacedInv'
  BY <1>1, StillStable
<1>. QED
  BY <1>1, <1>2, CheckpointStable, DerivedStable

\* During the import of a chunk the scan and the chunk stay what they are.
LEMMA ChunkStable ==
    ASSUME NEW X, IInvBut(X), StableStep, NEW p \in Syncer,
           op[p].pc \in Import, op'[p].pc \in Import,
           op'[p].queue = op[p].queue, op'[p].from = op[p].from,
           op'[p].to = op[p].to, op'[p].chunkTo = op[p].chunkTo,
           op'[p].logs = op[p].logs
    PROVE  ScanBut(X, op[p])' /\ ChunkBut(X, op[p])'
<1>. DEFINE o == op[p]
<1>1. o \in Call /\ CallBut(X, o) /\ TypeInv
  BY DEF IInvBut, TypeInv, TypeOK
<1>2. Finalized \in Int /\ Finalized' \in Int /\ Finalized <= Finalized'
  BY DEF StableStep
<1>3. PICK v \in {o.queue[1]}, from \in {o.from}, to \in {o.chunkTo} : TRUE
  OBVIOUS
<1>4. from \in Int /\ to \in Int /\ o.to \in Int
  BY <1>1, <1>3, ChainAssumption DEF Call
<1>5. IndexedBut(X, v, from)'
  BY <1>1, <1>3, <1>4, IndexedStable DEF CallBut, ScanBut
<1>6. from <= to /\ to <= o.to /\ o.to <= Finalized
      /\ o.logs \subseteq LogsIn(v, from, to)
      /\ LogsIn(v, from, to) \subseteq o.logs \cup X
  BY <1>1, <1>3 DEF CallBut, ScanBut, ChunkBut
<1>7. LogsIn(v, from, to)' = LogsIn(v, from, to)
  BY <1>1, <1>2, <1>4, <1>6, LogsStable
<1>8. o.to <= Finalized' /\ from <= o.to
  BY <1>2, <1>4, <1>6
<1>9. ScanBut(X, op[p])'
  BY <1>3, <1>5, <1>8 DEF ScanBut, IndexedBut
<1>10. ChunkBut(X, op[p])'
  BY <1>3, <1>6, <1>7 DEF ChunkBut, LogsIn
<1>. QED
  BY <1>9, <1>10

\* What a step of the call of p leaves to prove.
LEMMA StepInv ==
    ASSUME NEW X, IInvBut(X), TypeInv', NEW p \in Syncer, NEW n,
           op' = [op EXCEPT ![p] = n],
           StableStep, ChainInv', NoPhantomRows', DerivedFromIndex', DisplacedInv',
           \A v \in Version : IndexedBut(X, v, checkpoint[v])',
           CallBut(X, op[p])'
    PROVE  IInvBut(X)'
<1>1. \A q \in Syncer \ {p} : op'[q] = op[q]
  BY DEF IInvBut, TypeInv, TypeOK
<1>2. \A q \in Syncer \ {p} : CallBut(X, op[q])'
  BY <1>1, CallStable
<1>. QED
  BY <1>2 DEF IInvBut

LEMMA IInvInit ==
    ASSUME NEW X, Init
    PROVE  IInvBut(X)
<1>1. TypeInv
  BY TypeInit
<1>2. ChainInv
  BY ChainAssumption DEF Init, ChainInit, ChainInv, Finalized, KeysOnce, OnChain
<1>3. NoPhantomRows
  BY DEF Init, NoPhantomRows
<1>4. DerivedFromIndex /\ DisplacedInv
  BY DEF Init, DerivedFromIndex, DisplacedInv, Store, Keeps
<1>5. \A v \in Version : IndexedBut(X, v, checkpoint[v])
  BY RowType DEF Init, ChainInit, IndexedBut, LogsIn, Of
<1>6. \A p \in Syncer : CallBut(X, op[p])
  BY DEF Init, CallBut, ScanBut, ChunkBut, HeldBut, Idle, Import, Batches, Loops
<1>. QED
  BY <1>1, <1>2, <1>3, <1>4, <1>5, <1>6 DEF IInvBut

-----------------------------------------------------------------------------
(* The steps of a call, one lemma per action or group of alike actions.    *)

LEMMA IdleInv ==
    ASSUME NEW X, IInvBut(X), TypeInv', NEW p \in Syncer, op'[p] = Idle
    PROVE  CallBut(X, op[p])'
  BY DEF CallBut, ScanBut, ChunkBut, HeldBut, Idle, Import, Batches, Loops

\* NextVersion holds no part of a chunk.
LEMMA NextVersionInv ==
    ASSUME NEW X, IInvBut(X), TypeInv', NEW p \in Syncer, op[p].pc # "idle",
           op'[p] = NextVersion(op[p])
    PROVE  CallBut(X, op[p])'
<1>1. op[p] \in Call /\ op[p].queue # <<>>
  BY DEF IInvBut, TypeInv, TypeOK, CallType
<1>2. op'[p].pc \in {"idle", "start"} /\ op'[p].todo = {}
      /\ op'[p].current = {}
  BY <1>1, NextVersionType
<1>. QED
  BY <1>2 DEF CallBut, ScanBut, ChunkBut, HeldBut, Import, Batches, Loops

LEMMA StepBegin ==
    ASSUME NEW X, IInvBut(X), TypeInv', NEW p \in Syncer, BeginSync(p)
    PROVE  IInvBut(X)'
<1>. DEFINE n == [Idle EXCEPT !.pc = "start", !.queue = ActiveVersions]
<1>1. op' = [op EXCEPT ![p] = n] /\ UNCHANGED <<chainVars, storeVars>>
  BY DEF BeginSync
<1>2. op'[p] = n
  BY <1>1 DEF IInvBut, TypeInv, TypeOK
<1>3. CallBut(X, op[p])'
  BY <1>2 DEF CallBut, ScanBut, ChunkBut, HeldBut, Idle, Import, Batches,
              Loops
<1>. QED
  BY <1>1, <1>3, QuietStable, StepInv

LEMMA StepLoad ==
    ASSUME NEW X, IInvBut(X), TypeInv', NEW p \in Syncer, LoadCheckpoint(p)
    PROVE  IInvBut(X)'
<1>. DEFINE o == op[p]
            k == StartBlock(checkpoint[Syncing(p)])
            n == [o EXCEPT !.pc = "head", !.from = k]
<1>1. o \in Call /\ CallBut(X, o) /\ CallType(o) /\ op \in [Syncer -> Call]
  BY DEF IInvBut, TypeInv, TypeOK
<1>2. op' = [op EXCEPT ![p] = n] /\ UNCHANGED <<chainVars, storeVars>>
      /\ o.pc = "start"
  BY <1>1 DEF LoadCheckpoint
<1>3. op'[p] = n /\ n.pc = "head" /\ n.queue = o.queue /\ n.from = k
      /\ n.todo = o.todo /\ n.logs = o.logs /\ n.current = o.current
  BY <1>1, <1>2 DEF Call
<1>4. PICK v \in Version : v = Syncing(p)
  BY <1>1, <1>2, ElementOfSeq, EmptySeq DEF Call, CallType, Syncing
<1>5. PICK j \in Int : j = k
  <2>1. checkpoint[v] \in Int
    BY ChainAssumption DEF IInvBut, TypeInv, TypeOK
  <2>2. StartBlock(checkpoint[v]) \in Int
    BY <2>1 DEF StartBlock
  <2>. QED
    BY <1>4, <2>2
<1>6. IndexedBut(X, v, j)
  <2>1. CASE checkpoint[v] # 0
    BY <1>4, <1>5, <2>1 DEF IInvBut, StartBlock
  <2>2. CASE checkpoint[v] = 0
    BY <1>4, <1>5, <2>2, RowType DEF StartBlock, IndexedBut, LogsIn, Of
  <2>. QED
    BY <2>1, <2>2
<1>7. StableStep /\ IndexedBut(X, v, j)'
  BY <1>2, <1>6, QuietStable, IndexedStable DEF IInvBut
<1>8. IndexedBut(X, op[p].queue[1], op[p].from)'
  BY <1>3, <1>4, <1>5, <1>7 DEF IndexedBut, Syncing
<1>9. CallBut(X, op[p])'
  BY <1>1, <1>2, <1>3, <1>8
     DEF CallBut, ScanBut, ChunkBut, HeldBut, Import, Batches, Loops, storeVars
<1>. QED
  BY <1>2, <1>9, QuietStable, StepInv

LEMMA StepHead ==
    ASSUME NEW X, IInvBut(X), TypeInv', NEW p \in Syncer, ReadHead(p)
    PROVE  IInvBut(X)'
<1>. DEFINE o == op[p]
            n == [o EXCEPT !.pc = "fetch", !.to = ConfirmedHead]
<1>1. o \in Call /\ CallBut(X, o) /\ CallType(o) /\ op \in [Syncer -> Call]
  BY DEF IInvBut, TypeInv, TypeOK
<1>2. UNCHANGED <<chainVars, storeVars>> /\ o.pc = "head"
  BY DEF ReadHead
<1>3. StableStep
  BY <1>2, QuietStable
<1>4. CASE ~Confirmed \/ ConfirmedHead < o.from
  <2>1. op' = [op EXCEPT ![p] = NextVersion(o)]
    BY <1>4 DEF ReadHead
  <2>2. CallBut(X, op[p])'
    BY <1>1, <1>2, <2>1, NextVersionInv
  <2>. QED
    BY <1>2, <2>1, <2>2, QuietStable, StepInv
<1>5. CASE Confirmed /\ ~ ConfirmedHead < o.from
  <2>1. op' = [op EXCEPT ![p] = n]
    BY <1>5 DEF ReadHead
  <2>2. op'[p] = n /\ n.pc = "fetch" /\ n.queue = o.queue /\ n.from = o.from
        /\ n.todo = o.todo /\ n.logs = o.logs /\ n.current = o.current
        /\ n.to = ConfirmedHead
    BY <1>1, <2>1 DEF Call
  <2>3. ConfirmedHead \in Int /\ ConfirmedHead <= Finalized
    BY <1>5, ChainAssumption, MinusMonotonic
       DEF Confirmed, ConfirmedHead, Finalized, IInvBut, TypeInv, TypeOK,
           ChainTypeOK, ChainInv
  <2>4. PICK v \in {o.queue[1]}, j \in Int : j = o.from
    BY <1>1, ChainAssumption DEF Call
  <2>5. IndexedBut(X, v, j)'
    BY <1>1, <1>2, <1>3, <2>4, IndexedStable DEF CallBut, ScanBut, IInvBut
  <2>6. IndexedBut(X, op[p].queue[1], op[p].from)'
    BY <2>2, <2>4, <2>5 DEF IndexedBut
  <2>7. op'[p].from <= op'[p].to /\ op'[p].to <= Finalized'
    BY <1>2, <1>5, <2>2, <2>3, <2>4 DEF chainVars, Finalized
  <2>8. CallBut(X, op[p])'
    BY <1>1, <1>2, <2>2, <2>6, <2>7
       DEF CallBut, ScanBut, ChunkBut, HeldBut, Import, Batches, Loops,
           storeVars
  <2>. QED
    BY <1>2, <2>1, <2>8, QuietStable, StepInv
<1>. QED
  BY <1>4, <1>5

LEMMA StepFetch ==
    ASSUME NEW X, IInvBut(X), TypeInv', NEW p \in Syncer, FetchLogs(p)
    PROVE  IInvBut(X)'
<1>. DEFINE o == op[p]
            end == ChunkEnd(o.from, o.to)
            logs == LogsIn(Syncing(p), o.from, end)
            n == [o EXCEPT !.pc = "leaves", !.chunkTo = end, !.logs = logs]
<1>1. o \in Call /\ CallBut(X, o) /\ CallType(o) /\ op \in [Syncer -> Call]
  BY DEF IInvBut, TypeInv, TypeOK
<1>2. UNCHANGED <<chainVars, storeVars>> /\ o.pc = "fetch"
      /\ op' = [op EXCEPT ![p] = n]
  BY <1>1 DEF FetchLogs
<1>3. StableStep
  BY <1>2, QuietStable
<1>4. op'[p] = n /\ n.pc = "leaves" /\ n.queue = o.queue /\ n.from = o.from
      /\ n.to = o.to /\ n.chunkTo = end /\ n.todo = o.todo /\ n.logs = logs
      /\ n.current = o.current
  BY <1>1, <1>2 DEF Call
<1>5. PICK v \in {o.queue[1]}, j \in Int : j = o.from
  BY <1>1, ChainAssumption DEF Call
<1>6. IndexedBut(X, v, j)'
  BY <1>1, <1>2, <1>3, <1>5, IndexedStable DEF CallBut, ScanBut, IInvBut
<1>7. IndexedBut(X, op[p].queue[1], op[p].from)'
  BY <1>4, <1>5, <1>6 DEF IndexedBut
<1>8. o.from <= o.to /\ o.to <= Finalized
      /\ o.from \in Nat \ {0} /\ o.to \in Nat
  BY <1>1, <1>2, ChainAssumption DEF CallBut, ScanBut, Call
<1>9. end \in 0 .. o.to /\ o.from <= end
  BY <1>8, ChunkEndBounds
<1>10. o.todo = {}
  <2>1. TodoKind(o) = {}
    BY <1>2 DEF TodoKind, Loops
  <2>. QED
    BY <1>1, <2>1 DEF CallType
<1>11. ScanBut(X, op[p])'
  BY <1>2, <1>4, <1>7, <1>8
     DEF ScanBut, chainVars, Finalized
<1>12. ChunkBut(X, op[p])'
  <2>1. PICK e \in Int : e = end /\ j <= e /\ e <= o.to
    BY <1>5, <1>8, <1>9
  <2>2. LogsIn(v, j, e)' = LogsIn(v, j, e)
    BY <1>2 DEF LogsIn, chainVars
  <2>3. op'[p].logs = LogsIn(v, j, e)
    BY <1>4, <1>5, <2>1 DEF Syncing
  <2>. HIDE DEF end, logs, n
  <2>4. op'[p].queue[1] = v /\ op'[p].from = j /\ op'[p].chunkTo = e
        /\ op'[p].to = o.to
    BY <1>4, <1>5, <2>1
  <2>. QED
    BY <2>1, <2>2, <2>3, <2>4 DEF ChunkBut, LogsIn
<1>13. HeldBut(X, op[p])' /\ ChunkWritten(op[p])'
  BY <1>1, <1>2, <1>4, <1>10
     DEF CallBut, HeldBut, ChunkWritten, Batches, storeVars
<1>14. CallBut(X, op[p])'
  BY <1>11, <1>12, <1>13 DEF CallBut
<1>. QED
  BY <1>2, <1>14, QuietStable, StepInv

\* What is left to prove of an import step that adds rows of the chunk to one
\* store and leaves the chunk as it is.
LEMMA ImportInv ==
    ASSUME NEW X, IInvBut(X), TypeInv', NEW p \in Syncer, NEW n \in Call,
           op[p].pc \in Import, n.pc \in Import \ {"save"},
           op' = [op EXCEPT ![p] = n], UNCHANGED <<chainVars, checkpoint>>,
           n.queue = op[p].queue, n.from = op[p].from, n.to = op[p].to,
           n.chunkTo = op[p].chunkTo, n.logs = op[p].logs,
           n.todo \subseteq n.logs, n.current \subseteq rows'.transactions,
           StableStep, ChainInv', NoPhantomRows', DerivedFromIndex', DisplacedInv',
           ChunkWritten(op[p])'
    PROVE  IInvBut(X)'
<1>1. op'[p] = n
  BY DEF IInvBut, TypeInv, TypeOK
<1>2. ScanBut(X, op[p])' /\ ChunkBut(X, op[p])'
  BY <1>1, ChunkStable
<1>3. HeldBut(X, op[p])'
  BY <1>1 DEF HeldBut
<1>4. CallBut(X, op[p])'
  BY <1>2, <1>3 DEF CallBut
<1>. QED
  BY <1>4, CheckpointStable, StepInv

LEMMA StepBatch ==
    ASSUME NEW X, IInvBut(X), TypeInv', NEW p \in Syncer,
           IndexLeaves(p) \/ IndexNullifiers(p) \/ IndexUnshields(p)
    PROVE  IInvBut(X)' /\ StableStep
<1>. DEFINE o == op[p]
<1>1. o \in Call /\ CallBut(X, o) /\ CallType(o) /\ op \in [Syncer -> Call]
      /\ rows \in [Store -> SUBSET Row]
      /\ displaced \in [Store \cup {"marks"} -> SUBSET Event]
  BY DEF IInvBut, TypeInv, TypeOK
<1>2. UNCHANGED <<chainVars, spent, txidTree, checkpoint>>
  BY DEF IndexLeaves, IndexNullifiers, IndexUnshields
<1>3. o.pc \in Import /\ ChunkWritten(o) /\ o.current \subseteq rows.transactions
      /\ o.todo \subseteq o.logs
  BY <1>1 DEF IndexLeaves, IndexNullifiers, IndexUnshields, Import, Batches,
              CallBut, HeldBut
<1>4. \A kind : Of(kind, o.logs) \in SUBSET Row
  BY <1>1 DEF Of, Call
<1>5. CASE IndexLeaves(p)
  <2>. DEFINE new == Of(Commitment, o.logs)
              n == [o EXCEPT !.pc = "nullifiers"]
              put == [s \in Store |-> IF s \in {"leaves", "commitments"} THEN new ELSE {}]
  <2>1. /\ rows' = [rows EXCEPT !.leaves = Upsert("leaves", new),
                                !.commitments = Upsert("commitments", new)]
        /\ displaced' =
              [displaced EXCEPT !.leaves = @ \cup Replaced("leaves", new),
                                !.commitments = @ \cup Replaced("commitments", new)]
        /\ op' = [op EXCEPT ![p] = n]
    BY <1>1, <1>5 DEF IndexLeaves
  <2>2. /\ StableStep /\ ChainInv' /\ NoPhantomRows' /\ DisplacedInv'
        /\ new \subseteq Written("leaves")' /\ new \subseteq Written("commitments")'
        /\ rows'.txos = rows.txos
    <3>. HIDE DEF new, n
    <3>1. /\ put \in [Store -> SUBSET Row]
          /\ \A s \in Store : put[s] = IF s \in {"leaves", "commitments"} THEN new ELSE {}
      BY <1>4 DEF new
    <3>. HIDE DEF put
    <3>2. \A s \in Store \ {"leaves", "commitments"} :
            rows'[s] = rows[s] /\ displaced'[s] = displaced[s]
      BY <1>1, <2>1
    <3>3. \A s \in {"leaves", "commitments"} :
            /\ rows'[s] = Upsert(s, new)
            /\ displaced'[s] = displaced[s] \cup Replaced(s, new)
      BY <1>1, <2>1, StoreNames
    <3>4. \A s \in Store : Puts(s, put[s])
      BY <3>1, <3>2, <3>3 DEF Puts
    <3>5. \A s \in Store : put[s] \subseteq Of(Keeps[s], o.logs)
      <4>1. \A s \in {"leaves", "commitments"} : Keeps[s] = Commitment
        BY StoreNames
      <4>. QED
        BY <3>1, <4>1 DEF new
    <3>6. {"leaves", "commitments", "txos"} \subseteq Store
      BY StoreNames
    <3>7. /\ StableStep /\ ChainInv' /\ NoPhantomRows' /\ DisplacedInv'
          /\ \A s \in Store : put[s] \subseteq Written(s)'
      BY <1>2, <1>3, <3>1, <3>4, <3>5, WriteStable
    <3>. QED
      BY <3>1, <3>2, <3>6, <3>7
  <2>3. n \in Call /\ n.pc = "nullifiers" /\ n.queue = o.queue
        /\ n.from = o.from /\ n.to = o.to /\ n.chunkTo = o.chunkTo
        /\ n.logs = o.logs /\ n.todo = o.todo /\ n.current = o.current
    BY <1>1 DEF Call, PC, Import, Batches
  <2>4. n.current \subseteq rows'.transactions
    BY <1>3, <2>2, <2>3, WrittenGrows
  <2>5. op'[p] = n
    BY <1>1, <2>1
  <2>6. ChunkWritten(op[p])'
    BY <2>2, <2>3, <2>5 DEF ChunkWritten, Batches
  <2>. QED
    BY <1>2, <1>3, <2>1, <2>2, <2>3, <2>4, <2>6, DerivedStable, ImportInv
       DEF Import, Batches
<1>6. CASE IndexNullifiers(p)
  <2>. DEFINE new == Of(Nullifier, o.logs)
              n == [o EXCEPT !.pc = "unshields"]
  <2>1. /\ rows' = [rows EXCEPT !.nullifiers = Upsert("nullifiers", new)]
        /\ displaced' = [displaced EXCEPT !.nullifiers = @ \cup Replaced("nullifiers", new)]
        /\ op' = [op EXCEPT ![p] = n] /\ o.pc = "nullifiers"
    BY <1>1, <1>6 DEF IndexNullifiers
  <2>2. /\ StableStep /\ ChainInv' /\ NoPhantomRows' /\ DisplacedInv'
        /\ new \subseteq Written("nullifiers")' /\ rows'.txos = rows.txos
    <3>1. new \in SUBSET Of(Keeps["nullifiers"], o.logs) /\ {"nullifiers", "txos"} \subseteq Store
      BY StoreNames
    <3>. HIDE DEF new, n
    <3>2. Puts("nullifiers", new)
      BY <1>1, <2>1, <3>1 DEF Puts
    <3>3. \A t \in Store \ {"nullifiers"} : rows'[t] = rows[t] /\ displaced'[t] = displaced[t]
      BY <1>1, <2>1
    <3>. QED
      BY <1>2, <1>3, <3>1, <3>2, <3>3, WriteOne
  <2>3. n \in Call /\ n.pc = "unshields" /\ n.queue = o.queue
        /\ n.from = o.from /\ n.to = o.to /\ n.chunkTo = o.chunkTo
        /\ n.logs = o.logs /\ n.todo = o.todo /\ n.current = o.current
    BY <1>1 DEF Call, PC, Import, Batches
  <2>4. n.current \subseteq rows'.transactions
    BY <1>3, <2>2, <2>3, WrittenGrows
  <2>5. op'[p] = n
        /\ Of(Commitment, o.logs) \subseteq Written("leaves") \cap Written("commitments")
    BY <1>1, <1>3, <2>1 DEF ChunkWritten
  <2>6. ChunkWritten(op[p])'
    BY <2>2, <2>3, <2>5, WrittenGrows DEF ChunkWritten, Batches
  <2>. QED
    BY <1>2, <1>3, <2>1, <2>2, <2>3, <2>4, <2>6, DerivedStable, ImportInv
       DEF Import, Batches
<1>7. CASE IndexUnshields(p)
  <2>. DEFINE new == Of(Unshield, o.logs)
              n == EnterLoop(o, "transactions")
  <2>1. PICK table \in InsertNew("unshields", new) :
          /\ rows' = [rows EXCEPT !.unshields = table]
          /\ displaced' = [displaced EXCEPT !.unshields = @ \cup Refused("unshields", table, new)]
    BY <1>7 DEF IndexUnshields
  <2>2. op' = [op EXCEPT ![p] = n] /\ o.pc = "unshields"
    BY <1>1, <1>7 DEF IndexUnshields
  <2>3. /\ StableStep /\ ChainInv' /\ NoPhantomRows' /\ DisplacedInv'
        /\ new \subseteq Written("unshields")' /\ rows'.txos = rows.txos
    <3>1. new \in SUBSET Of(Keeps["unshields"], o.logs) /\ {"unshields", "txos"} \subseteq Store
      BY StoreNames
    <3>. HIDE DEF new, n
    <3>2. Puts("unshields", new)
      BY <1>1, <2>1, <3>1 DEF Puts
    <3>3. \A t \in Store \ {"unshields"} : rows'[t] = rows[t] /\ displaced'[t] = displaced[t]
      BY <1>1, <2>1
    <3>. QED
      BY <1>2, <1>3, <3>1, <3>2, <3>3, WriteOne
  <2>4. n \in Call
    BY <1>1, <2>2, EnterLoopType DEF CallType, Loops
  <2>5. n.pc = "transactions" /\ n.queue = o.queue
        /\ n.from = o.from /\ n.to = o.to /\ n.chunkTo = o.chunkTo
        /\ n.logs = o.logs /\ n.todo = Of(RailgunTx, o.logs)
        /\ n.current = o.current
    BY <1>1 DEF Call, EnterLoop, LoopOver
  <2>6. n.current \subseteq rows'.transactions
    BY <1>3, <2>3, <2>5, WrittenGrows
  <2>7. op'[p] = n
        /\ Of(Commitment, o.logs) \subseteq Written("leaves") \cap Written("commitments")
        /\ Of(Nullifier, o.logs) \subseteq Written("nullifiers")
    BY <1>1, <1>3, <2>2 DEF ChunkWritten
  <2>8. ChunkWritten(op[p])'
    BY <2>3, <2>5, <2>7, WrittenGrows DEF ChunkWritten, Batches
  <2>9. n.todo \subseteq n.logs
    BY <2>5 DEF Of
  <2>. HIDE DEF n
  <2>. QED
    BY <1>2, <1>3, <2>2, <2>3, <2>4, <2>5, <2>6, <2>8, <2>9, DerivedStable,
       ImportInv DEF Import, Batches, Loops
<1>. QED
  BY <1>5, <1>6, <1>7

\* What is known of a call in one of the import's loops.
LEMMA LoopFacts ==
    ASSUME NEW X, IInvBut(X), NEW p \in Syncer,
           op[p].pc \in Loops \cup {"position", "leaf"}
    PROVE  /\ op[p] \in Call /\ CallType(op[p]) /\ op \in [Syncer -> Call]
           /\ rows \in [Store -> SUBSET Row]
           /\ op[p].pc \in Import /\ ChunkWritten(op[p])
           /\ op[p].current \subseteq rows.transactions
           /\ op[p].todo \subseteq op[p].logs
           /\ op[p].logs \subseteq Row
           /\ \A r \in op[p].todo : r.event \in TodoKind(op[p])
<1>1. op[p].pc \in Import
  BY DEF Import
<1>2. CallBut(X, op[p]) /\ op[p] \in Call /\ CallType(op[p])
      /\ op \in [Syncer -> Call] /\ rows \in [Store -> SUBSET Row]
  BY DEF IInvBut, TypeInv, TypeOK
<1>. QED
  BY <1>1, <1>2 DEF CallBut, HeldBut, CallType, Call

\* Handling one event changes what is left to do of the chunk, no more.
LEMMA DoneFields ==
    ASSUME NEW o \in Call, NEW r
    PROVE  /\ Done(o, r) \in Call
           /\ Done(o, r).pc = o.pc /\ Done(o, r).queue = o.queue
           /\ Done(o, r).from = o.from /\ Done(o, r).to = o.to
           /\ Done(o, r).chunkTo = o.chunkTo /\ Done(o, r).logs = o.logs
           /\ Done(o, r).current = o.current
           /\ Done(o, r).todo = o.todo \ {r}
<1>1. Done(o, r) = [o EXCEPT !.todo = o.todo \ {r}]
  BY DEF Done
<1>. QED
  BY <1>1 DEF Call

LEMMA StepStore ==
    ASSUME NEW X, IInvBut(X), TypeInv', NEW p \in Syncer, StoreTransaction(p)
    PROVE  IInvBut(X)' /\ StableStep
<1>. DEFINE o == op[p]
<1>1. o.pc = "transactions"
  BY DEF StoreTransaction
<1>2. /\ o \in Call /\ CallType(o) /\ op \in [Syncer -> Call]
      /\ rows \in [Store -> SUBSET Row] /\ o.pc \in Import /\ ChunkWritten(o)
      /\ o.current \subseteq rows.transactions /\ o.todo \subseteq o.logs
      /\ o.logs \subseteq Row /\ \A r \in o.todo : r.event \in TodoKind(o)
  BY <1>1, LoopFacts DEF Loops
<1>3. PICK r \in o.todo :
        /\ rows' = [rows EXCEPT !.transactions = Upsert("transactions", {r})]
        /\ op' = [op EXCEPT ![p] = [Done(@, r) EXCEPT !.pc = "position",
                                                      !.current = {r}]]
  BY DEF StoreTransaction
<1>4. UNCHANGED <<chainVars, spent, txidTree, checkpoint, displaced>>
  BY DEF StoreTransaction
<1>5. {r} \in SUBSET Of(RailgunTx, o.logs)
  BY <1>1, <1>2, <1>3 DEF Of, TodoKind, Loops, LoopOver
<1>6. /\ StableStep /\ ChainInv' /\ NoPhantomRows' /\ DisplacedInv'
      /\ {r} \subseteq Written("transactions")' /\ rows'.txos = rows.txos
  <2>1. /\ {r} \in SUBSET Of(Keeps["transactions"], o.logs)
        /\ {"transactions", "txos"} \subseteq Store
    BY <1>5, StoreNames
  <2>2. Replaced("transactions", {r}) = {}
    BY DEF Replaced, Rivals, SameKey
  <2>3. Puts("transactions", {r})
    BY <1>2, <1>3, <1>4, <2>1, <2>2 DEF Puts
  <2>4. \A t \in Store \ {"transactions"} : rows'[t] = rows[t] /\ displaced'[t] = displaced[t]
    BY <1>2, <1>3, <1>4
  <2>. QED
    BY <1>2, <1>4, <2>1, <2>3, <2>4, WriteOne
<1>. DEFINE n == [Done(o, r) EXCEPT !.pc = "position", !.current = {r}]
<1>7. n \in Call /\ n.pc = "position" /\ n.queue = o.queue
      /\ n.from = o.from /\ n.to = o.to /\ n.chunkTo = o.chunkTo
      /\ n.logs = o.logs /\ n.todo = o.todo \ {r} /\ n.current = {r}
  <2>1. r \in Row
    BY <1>2, <1>3
  <2>2. PICK d \in Call : d = Done(o, r)
    BY <1>2, DoneFields
  <2>3. /\ d.queue = o.queue /\ d.from = o.from /\ d.to = o.to
        /\ d.chunkTo = o.chunkTo /\ d.logs = o.logs /\ d.todo = o.todo \ {r}
    BY <1>2, <2>2, DoneFields
  <2>4. n = [d EXCEPT !.pc = "position", !.current = {r}]
    BY <2>2
  <2>. QED
    BY <2>1, <2>3, <2>4 DEF Call, PC, Import
<1>8. Written("transactions")' = rows'.transactions
  BY <1>6 DEF DisplacedInv, Written
<1>9. op'[p] = n /\ op' = [op EXCEPT ![p] = n]
  BY <1>2, <1>3
<1>10. ChunkWritten(op[p])'
  <2>1. /\ Of(Commitment, o.logs) \subseteq Written("leaves") \cap Written("commitments")
        /\ Of(Nullifier, o.logs) \subseteq Written("nullifiers")
        /\ Of(Unshield, o.logs) \subseteq Written("unshields")
        /\ Of(RailgunTx, o.logs) \subseteq Written("transactions") \cup o.todo
    BY <1>1, <1>2 DEF ChunkWritten, Batches
  <2>. QED
    BY <1>6, <1>7, <1>9, <2>1, WrittenGrows DEF ChunkWritten
<1>11. n.todo \subseteq n.logs /\ n.current \subseteq rows'.transactions
  BY <1>2, <1>6, <1>7, <1>8
<1>. HIDE DEF n
<1>. QED
  BY <1>2, <1>4, <1>6, <1>7, <1>9, <1>10, <1>11, DerivedStable, ImportInv
     DEF Import

LEMMA StepPosition ==
    ASSUME NEW X, IInvBut(X), TypeInv', NEW p \in Syncer, ReadPosition(p)
    PROVE  IInvBut(X)'
<1>. DEFINE o == op[p]
<1>1. o.pc = "position"
  BY DEF ReadPosition
<1>2. /\ o \in Call /\ op \in [Syncer -> Call] /\ o.pc \in Import
      /\ ChunkWritten(o) /\ o.current \subseteq rows.transactions
      /\ o.todo \subseteq o.logs
  BY <1>1, LoopFacts
<1>3. PICK i \in 0 .. MaxLeaves - 1 :
        op' = [op EXCEPT ![p].pc = "leaf", ![p].position = i]
  BY DEF ReadPosition
<1>4. UNCHANGED <<chainVars, storeVars>>
  BY DEF ReadPosition
<1>. DEFINE n == [o EXCEPT !.pc = "leaf", !.position = i]
<1>5. i \in 0 .. MaxLeaves
  BY SyncAssumption
<1>6. n \in Call /\ n.pc = "leaf" /\ n.queue = o.queue
      /\ n.from = o.from /\ n.to = o.to /\ n.chunkTo = o.chunkTo
      /\ n.logs = o.logs /\ n.todo = o.todo /\ n.current = o.current
  BY <1>2, <1>5 DEF Call, PC, Import
<1>7. op'[p] = n /\ op' = [op EXCEPT ![p] = n]
  BY <1>2, <1>3
<1>8. /\ StableStep /\ ChainInv' /\ NoPhantomRows' /\ DerivedFromIndex' /\ DisplacedInv'
      /\ UNCHANGED <<chainVars, checkpoint>>
  BY <1>4, QuietStable DEF storeVars
<1>9. ChunkWritten(op[p])'
  BY <1>1, <1>2, <1>6, <1>7, <1>8, WrittenGrows DEF ChunkWritten, Batches
<1>10. n.current \subseteq rows'.transactions /\ n.todo \subseteq n.logs
  BY <1>2, <1>6, <1>8, WrittenGrows
<1>. HIDE DEF n
<1>. QED
  BY <1>2, <1>6, <1>7, <1>8, <1>9, <1>10, ImportInv DEF Import

LEMMA StepLeaf ==
    ASSUME NEW X, IInvBut(X), TypeInv', NEW p \in Syncer, WriteLeaf(p)
    PROVE  IInvBut(X)'
<1>. DEFINE o == op[p]
<1>1. o.pc = "leaf"
  BY DEF WriteLeaf
<1>2. /\ o \in Call /\ op \in [Syncer -> Call] /\ o.pc \in Import
      /\ ChunkWritten(o) /\ o.current \subseteq rows.transactions
      /\ o.todo \subseteq o.logs
  BY <1>1, LoopFacts
<1>3. UNCHANGED <<chainVars, rows, spent, checkpoint, displaced>>
  BY DEF WriteLeaf
<1>. DEFINE n == [o EXCEPT !.pc = "transactions", !.current = {},
                           !.position = 0]
<1>4. 0 \in 0 .. MaxLeaves
  BY SyncAssumption
<1>5. n \in Call /\ n.pc = "transactions" /\ n.queue = o.queue
      /\ n.from = o.from /\ n.to = o.to /\ n.chunkTo = o.chunkTo
      /\ n.logs = o.logs /\ n.todo = o.todo /\ n.current = {}
  BY <1>2, <1>4 DEF Call, PC, Import, Loops
<1>6. op'[p] = n /\ op' = [op EXCEPT ![p] = n]
  BY <1>2 DEF WriteLeaf
<1>7. StableStep /\ ChainInv' /\ NoPhantomRows' /\ DisplacedInv'
  BY <1>3, StillStable
<1>8. ChunkWritten(op[p])'
  BY <1>1, <1>2, <1>5, <1>6, <1>7, WrittenGrows DEF ChunkWritten, Batches
<1>9. n.current \subseteq rows'.transactions /\ n.todo \subseteq n.logs
  BY <1>2, <1>5
<1>10. DerivedFromIndex'
  <2>1. PICK r \in o.current :
          txidTree' = {l \in txidTree : l.position # o.position}
                        \cup {[position |-> o.position, row |-> r]}
    BY DEF WriteLeaf
  <2>2. \A l \in txidTree' : l.row \in rows.transactions
    BY <1>2, <2>1 DEF IInvBut, DerivedFromIndex
  <2>3. Written("leaves")' = Written("leaves") /\ Written("nullifiers")' = Written("nullifiers")
        /\ FinalRows \subseteq FinalRows'
    BY <1>3, <1>7, ContestedStable DEF Written
  <2>. QED
    BY <1>3, <2>2, <2>3 DEF IInvBut, DerivedFromIndex
<1>. HIDE DEF n
<1>. QED
  BY <1>2, <1>3, <1>5, <1>6, <1>7, <1>8, <1>9, <1>10, ImportInv DEF Import, Loops

\* A POI event is added.
LEMMA AddPOI ==
    ASSUME NEW X, IInvBut(X), NEW p \in Syncer, op[p].pc \in Import,
           UNCHANGED <<chainVars, displaced>>,
           NEW r, {r} \in SUBSET Of(Unshield \cup Sent, op[p].logs),
           rows' = [rows EXCEPT !.poiEvents = @ \cup {r}]
    PROVE  /\ StableStep /\ ChainInv' /\ NoPhantomRows' /\ DisplacedInv'
           /\ {r} \subseteq Written("poiEvents")' /\ rows'.txos = rows.txos
<1>1. rows \in [Store -> SUBSET Row]
  BY DEF IInvBut, TypeInv, TypeOK
<1>2. /\ {r} \in SUBSET Of(Keeps["poiEvents"], op[p].logs)
      /\ {"poiEvents", "txos"} \subseteq Store
  BY StoreNames
<1>3. Puts("poiEvents", {r})
  BY <1>1, <1>2 DEF Puts
<1>4. \A t \in Store \ {"poiEvents"} : rows'[t] = rows[t] /\ displaced'[t] = displaced[t]
  BY <1>1
<1>. QED
  BY <1>2, <1>3, <1>4, WriteOne

LEMMA StepUnshieldPOI ==
    ASSUME NEW X, IInvBut(X), TypeInv', NEW p \in Syncer, StoreUnshieldPOI(p)
    PROVE  IInvBut(X)' /\ StableStep
<1>. DEFINE o == op[p]
<1>1. o.pc = "unshieldPOI"
  BY DEF StoreUnshieldPOI
<1>2. /\ o \in Call /\ op \in [Syncer -> Call]
      /\ rows \in [Store -> SUBSET Row] /\ o.pc \in Import /\ ChunkWritten(o)
      /\ o.current \subseteq rows.transactions /\ o.todo \subseteq o.logs
      /\ \A r \in o.todo : r.event \in TodoKind(o)
  BY <1>1, LoopFacts DEF Loops
<1>3. PICK r \in o.todo : /\ rows' = [rows EXCEPT !.poiEvents = @ \cup {r}]
                          /\ op' = [op EXCEPT ![p] = Done(@, r)]
  BY DEF StoreUnshieldPOI
<1>4. UNCHANGED <<chainVars, spent, txidTree, checkpoint, displaced>>
  BY DEF StoreUnshieldPOI
<1>5. {r} \in SUBSET Of(Unshield \cup Sent, o.logs)
  BY <1>1, <1>2, <1>3 DEF Of, TodoKind, Loops, LoopOver
<1>6. /\ StableStep /\ ChainInv' /\ NoPhantomRows' /\ DisplacedInv'
      /\ {r} \subseteq Written("poiEvents")' /\ rows'.txos = rows.txos
  BY <1>2, <1>3, <1>4, <1>5, AddPOI
<1>7. PICK n \in Call : n = Done(o, r)
  BY <1>2, DoneFields
<1>8. n.pc = o.pc /\ n.queue = o.queue /\ n.from = o.from /\ n.to = o.to
      /\ n.chunkTo = o.chunkTo /\ n.logs = o.logs /\ n.todo = o.todo \ {r}
      /\ n.current = o.current
  BY <1>2, <1>7, DoneFields
<1>9. op'[p] = n /\ op' = [op EXCEPT ![p] = n]
  BY <1>2, <1>3, <1>7
<1>10. n.current \subseteq rows'.transactions /\ n.todo \subseteq n.logs
  BY <1>2, <1>6, <1>8, WrittenGrows
<1>11. ChunkWritten(op[p])'
  <2>1. /\ Of(Commitment, o.logs) \subseteq Written("leaves") \cap Written("commitments")
        /\ Of(Nullifier, o.logs) \subseteq Written("nullifiers")
        /\ Of(Unshield, o.logs) \subseteq Written("unshields")
        /\ Of(RailgunTx, o.logs) \subseteq Written("transactions")
        /\ Of(Unshield, o.logs) \subseteq Written("poiEvents") \cup o.todo
    BY <1>1, <1>2 DEF ChunkWritten, Batches
  <2>. QED
    BY <1>1, <1>6, <1>8, <1>9, <2>1, WrittenGrows DEF ChunkWritten
<1>. QED
  BY <1>1, <1>2, <1>4, <1>6, <1>8, <1>9, <1>10, <1>11, DerivedStable,
     ImportInv DEF Import, Loops

\* A TXO is written. Its commitment and its leaf are: an index comes first.
LEMMA AddNote ==
    ASSUME NEW X, IInvBut(X), NEW p \in Syncer, op[p].pc \in Import,
           UNCHANGED <<chainVars, txidTree>>,
           NEW r \in Of(Received, op[p].logs), ImportNote(r),
           r \in Written("leaves") \cap Written("commitments")
    PROVE  /\ StableStep /\ ChainInv' /\ NoPhantomRows' /\ DisplacedInv'
           /\ r \in Written("txos")' /\ DerivedFromIndex'
<1>1. /\ rows \in [Store -> SUBSET Row] /\ spent \in [Received -> 0 .. MaxBlock]
      /\ displaced \in [Store \cup {"marks"} -> SUBSET Event]
      /\ DerivedFromIndex /\ DisplacedInv
  BY DEF IInvBut, TypeInv, TypeOK
<1>2. /\ rows' = [rows EXCEPT !.txos = Upsert("txos", {r})]
      /\ displaced' = [displaced EXCEPT !.txos = @ \cup Replaced("txos", {r})]
      /\ spent' = [spent EXCEPT ![r.event] = 0]
  BY DEF ImportNote
<1>3. /\ {r} \in SUBSET Of(Keeps["txos"], op[p].logs)
      /\ {"leaves", "commitments", "nullifiers", "transactions", "txos"} \subseteq Store
  BY StoreNames
<1>4. Puts("txos", {r})
  BY <1>1, <1>2, <1>3 DEF Puts
<1>5. \A t \in Store \ {"txos"} : rows'[t] = rows[t] /\ displaced'[t] = displaced[t]
  BY <1>1, <1>2
<1>6. /\ StableStep /\ ChainInv' /\ NoPhantomRows' /\ DisplacedInv'
      /\ {r} \subseteq Written("txos")' /\ rows'["txos"] \subseteq rows["txos"] \cup {r}
  BY <1>3, <1>4, <1>5, WriteOne
<1>7. /\ rows'.leaves = rows.leaves /\ rows'.commitments = rows.commitments
      /\ rows'.transactions = rows.transactions
      /\ Written("leaves")' = Written("leaves")
      /\ Written("nullifiers")' = Written("nullifiers")
  BY <1>3, <1>5 DEF Written
<1>8. r \in rows.commitments
  BY <1>1, WrittenHeld
<1>9. \E l \in rows.leaves : SameKey("leaves", l.event, r.event)
  <2>1. CASE r \in rows.leaves
    BY <2>1, SameKeyOrder
  <2>2. CASE r \notin rows.leaves
    BY <1>1, <1>3, <2>2 DEF Written, DisplacedInv
  <2>. QED
    BY <2>1, <2>2
<1>10. \A c \in Received : spent'[c] # 0 => spent'[c] = spent[c]
  BY <1>1, <1>2
<1>11. DerivedFromIndex'
  <2>1. rows'.txos \subseteq rows.txos \cup {r}
    BY <1>6
  <2>. HIDE DEF Written
  <2>. QED
    BY <1>1, <1>6, <1>7, <1>8, <1>9, <1>10, <2>1, ContestedStable DEF DerivedFromIndex
<1>. QED
  BY <1>6, <1>11

LEMMA StepCommitment ==
    ASSUME NEW X, IInvBut(X), TypeInv', NEW p \in Syncer, ImportCommitment(p)
    PROVE  IInvBut(X)' /\ StableStep
<1>. DEFINE o == op[p]
<1>1. o.pc = "commitments"
  BY DEF ImportCommitment
<1>2. /\ o \in Call /\ op \in [Syncer -> Call]
      /\ rows \in [Store -> SUBSET Row] /\ o.pc \in Import /\ ChunkWritten(o)
      /\ o.current \subseteq rows.transactions /\ o.todo \subseteq o.logs
      /\ \A r \in o.todo : r.event \in TodoKind(o)
  BY <1>1, LoopFacts DEF Loops
<1>3. PICK r \in o.todo :
        /\ \/ r.event \in Received /\ ImportNote(r)
           \/ /\ r.event \in Sent
              /\ rows' = [rows EXCEPT !.poiEvents = @ \cup {r}]
              /\ UNCHANGED <<spent, displaced>>
           \/ /\ r.event \notin Received \cup Sent
              /\ UNCHANGED <<rows, spent, displaced>>
        /\ op' = [op EXCEPT ![p] = Done(@, r)]
  BY DEF ImportCommitment
<1>4. UNCHANGED <<chainVars, txidTree, checkpoint>>
  BY DEF ImportCommitment
<1>5. r \in o.logs /\ r.event \in Commitment
  BY <1>1, <1>2, <1>3 DEF TodoKind, Loops, LoopOver
<1>6. PICK n \in Call : n = Done(o, r)
  BY <1>2, DoneFields
<1>7. n.pc = o.pc /\ n.queue = o.queue /\ n.from = o.from /\ n.to = o.to
      /\ n.chunkTo = o.chunkTo /\ n.logs = o.logs /\ n.todo = o.todo \ {r}
      /\ n.current = o.current
  BY <1>2, <1>6, DoneFields
<1>8. op'[p] = n /\ op' = [op EXCEPT ![p] = n]
  BY <1>2, <1>3, <1>6
<1>9. /\ Of(Commitment, o.logs) \subseteq Written("leaves") \cap Written("commitments")
      /\ Of(Nullifier, o.logs) \subseteq Written("nullifiers")
      /\ Of(Unshield, o.logs) \subseteq Written("unshields")
      /\ Of(RailgunTx, o.logs) \subseteq Written("transactions")
      /\ Of(Unshield, o.logs) \subseteq Written("poiEvents")
      /\ Of(Received, o.logs) \subseteq Written("txos") \cup o.todo
      /\ Of(Sent, o.logs) \subseteq Written("poiEvents") \cup o.todo
  BY <1>1, <1>2 DEF ChunkWritten, Batches
<1>10. /\ StableStep /\ ChainInv' /\ NoPhantomRows' /\ DerivedFromIndex' /\ DisplacedInv'
       /\ r.event \in Received => r \in Written("txos")'
       /\ r.event \in Sent => r \in Written("poiEvents")'
  <2>1. CASE r.event \in Received
    <3>1. ImportNote(r)
      BY <1>3, <2>1 DEF Received, Sent
    <3>2. r \in Of(Received, o.logs) /\ r \in Of(Commitment, o.logs)
      BY <1>5, <2>1 DEF Of
    <3>3. r.event \notin Sent
      BY <2>1 DEF Received, Sent
    <3>. QED
      BY <1>2, <1>4, <1>9, <3>1, <3>2, <3>3, AddNote
  <2>2. CASE r.event \in Sent
    <3>1. rows' = [rows EXCEPT !.poiEvents = @ \cup {r}] /\ UNCHANGED <<spent, displaced>>
      BY <1>3, <2>2 DEF Received, Sent
    <3>2. {r} \in SUBSET Of(Unshield \cup Sent, o.logs) /\ r.event \notin Received
      BY <1>5, <2>2 DEF Of, Received, Sent
    <3>3. /\ StableStep /\ ChainInv' /\ NoPhantomRows' /\ DisplacedInv'
          /\ {r} \subseteq Written("poiEvents")' /\ rows'.txos = rows.txos
      BY <1>2, <1>4, <3>1, <3>2, AddPOI
    <3>. QED
      BY <1>4, <3>1, <3>2, <3>3, DerivedStable
  <2>3. CASE r.event \notin Received \cup Sent
    <3>1. UNCHANGED <<chainVars, storeVars>>
      BY <1>3, <1>4, <2>3 DEF storeVars
    <3>. QED
      BY <2>3, <3>1, QuietStable
  <2>. QED
    BY <2>1, <2>2, <2>3
<1>11. ChunkWritten(op[p])'
  <2>1. /\ Of(Received, o.logs) \subseteq Written("txos")' \cup n.todo
        /\ Of(Sent, o.logs) \subseteq Written("poiEvents")' \cup n.todo
    <3>1. \A q \in Of(Received, o.logs) : q.event \in Received
      BY DEF Of
    <3>2. \A q \in Of(Sent, o.logs) : q.event \in Sent
      BY DEF Of
    <3>. QED
      BY <1>7, <1>9, <1>10, <3>1, <3>2, WrittenGrows
  <2>. QED
    BY <1>1, <1>7, <1>8, <1>9, <1>10, <2>1, WrittenGrows DEF ChunkWritten
<1>12. n.current \subseteq rows'.transactions /\ n.todo \subseteq n.logs
  BY <1>2, <1>7, <1>10, WrittenGrows
<1>. QED
  BY <1>1, <1>2, <1>4, <1>7, <1>8, <1>10, <1>11, <1>12, ImportInv
     DEF Import, Loops

\* What a mark changes and what it leaves.
LEMMA MarkStores ==
    ASSUME TypeInv, NEW r, Mark(r) \/ UNCHANGED <<spent, displaced>>
    PROVE  \A s \in Store : displaced'[s] = displaced[s]
<1>1. /\ "marks" \notin Store
      /\ displaced \in [Store \cup {"marks"} -> SUBSET Event]
  BY StoreNames DEF TypeInv, TypeOK
<1>. QED
  BY <1>1 DEF Mark

\* The events of a chunk are on the final chain.
LEMMA ChunkFinal ==
    ASSUME NEW X, IInvBut(X), NEW p \in Syncer, op[p].pc \in Import,
           NEW r \in op[p].logs
    PROVE  r \in FinalRows
<1>. DEFINE o == op[p]
<1>1. o \in Call /\ peak \in Int
  BY ChainAssumption DEF IInvBut, TypeInv, TypeOK, ChainTypeOK
<1>2. o.logs \subseteq LogsIn(o.queue[1], o.from, o.chunkTo)
      /\ o.chunkTo <= o.to /\ o.to <= Finalized
      /\ o.chunkTo \in Int /\ o.to \in Int /\ Finalized \in Int
  BY <1>1, ChainAssumption
     DEF IInvBut, CallBut, ScanBut, ChunkBut, Call, Finalized
<1>. QED
  BY <1>2, RowType DEF LogsIn, FinalRows

LEMMA StepMark ==
    ASSUME NEW X, IInvBut(X), TypeInv', NEW p \in Syncer, MarkSpent(p) \/ MarkSpentFails(p)
    PROVE  IInvBut(X)' /\ StableStep
<1>. DEFINE o == op[p]
<1>1. o.pc = "marks"
  BY DEF MarkSpent, MarkSpentFails
<1>2. /\ o \in Call /\ op \in [Syncer -> Call]
      /\ o.pc \in Import /\ ChunkWritten(o)
      /\ o.current \subseteq rows.transactions /\ o.todo \subseteq o.logs
      /\ \A r \in o.todo : r.event \in TodoKind(o)
  BY <1>1, LoopFacts DEF Loops
<1>3. PICK r \in o.todo :
        /\ Mark(r) \/ UNCHANGED <<spent, displaced>>
        /\ op' = [op EXCEPT ![p] = Done(@, r)]
  BY DEF MarkSpent, MarkSpentFails, storeVars
<1>4. UNCHANGED <<chainVars, rows, txidTree, checkpoint>>
  BY DEF MarkSpent, MarkSpentFails, storeVars
<1>5. r \in Of(Nullifier, o.logs) /\ Of(Nullifier, o.logs) \subseteq Written("nullifiers")
  BY <1>1, <1>2, <1>3 DEF Of, TodoKind, Loops, LoopOver, ChunkWritten, Batches
<1>6. \A s \in Store : displaced'[s] = displaced[s]
  BY <1>3, MarkStores DEF IInvBut
<1>7. StableStep /\ ChainInv' /\ NoPhantomRows' /\ DisplacedInv'
  BY <1>4, <1>6, StillStable
<1>8. DerivedFromIndex'
  <2>1. \A c \in Received : spent'[c] # 0 =>
          \/ spent'[c] = spent[c]
          \/ /\ r.block = spent'[c]
             /\ Spends[r.event] \in Received /\ MarkedKey[r.event] = KeyOf[c]
    BY <1>3 DEF Mark, NotesMarked
  <2>2. r \in Written("nullifiers") \cap FinalRows /\ r.event \in Nullifier
    BY <1>2, <1>3, <1>5, ChunkFinal DEF Of
  <2>3. DerivedFromIndex
    BY DEF IInvBut
  <2>4. Written("leaves")' = Written("leaves") /\ Written("nullifiers")' = Written("nullifiers")
        /\ FinalRows \subseteq FinalRows'
    BY <1>4, <1>6, <1>7, StoreNames, ContestedStable DEF Written
  <2>. QED
    BY <1>4, <2>1, <2>2, <2>3, <2>4 DEF DerivedFromIndex
<1>9. PICK n \in Call : n = Done(o, r)
  BY <1>2, DoneFields
<1>10. n.pc = o.pc /\ n.queue = o.queue /\ n.from = o.from /\ n.to = o.to
       /\ n.chunkTo = o.chunkTo /\ n.logs = o.logs /\ n.todo = o.todo \ {r}
       /\ n.current = o.current
  BY <1>2, <1>9, DoneFields
<1>11. op'[p] = n /\ op' = [op EXCEPT ![p] = n]
  BY <1>2, <1>3, <1>9
<1>12. ChunkWritten(op[p])'
  BY <1>1, <1>2, <1>7, <1>10, <1>11, WrittenGrows DEF ChunkWritten, Batches
<1>13. n.current \subseteq rows'.transactions /\ n.todo \subseteq n.logs
  BY <1>2, <1>4, <1>10
<1>. QED
  BY <1>1, <1>2, <1>4, <1>7, <1>8, <1>10, <1>11, <1>12, <1>13, ImportInv
     DEF Import, Loops

LEMMA StepEndLoop ==
    ASSUME NEW X, IInvBut(X), TypeInv', NEW p \in Syncer, EndLoop(p)
    PROVE  IInvBut(X)'
<1>. DEFINE o == op[p]
            next == LoopAfter[o.pc]
            n == EnterLoop(o, next)
<1>1. /\ o.pc \in {"transactions", "unshieldPOI", "commitments"}
      /\ o.todo = {} /\ op' = [op EXCEPT ![p] = n]
      /\ UNCHANGED <<chainVars, storeVars>>
  BY DEF EndLoop, LoopAfter
<1>2. /\ o \in Call /\ CallType(o) /\ op \in [Syncer -> Call]
      /\ o.pc \in Import /\ ChunkWritten(o)
      /\ o.current \subseteq rows.transactions
  BY <1>1, LoopFacts DEF Loops
<1>3. o.queue # <<>> /\ next \in {"unshieldPOI", "commitments", "marks"}
  BY <1>1, <1>2 DEF CallType, LoopAfter
<1>4. n \in Call
  BY <1>2, <1>3, EnterLoopType DEF Loops
<1>5. n.pc = next /\ n.queue = o.queue /\ n.from = o.from /\ n.to = o.to
      /\ n.chunkTo = o.chunkTo /\ n.logs = o.logs /\ n.current = o.current
      /\ n.todo = Of(LoopOver[next], o.logs)
  BY <1>2 DEF EnterLoop, Call
<1>6. op'[p] = n
  BY <1>1, <1>2
<1>7. /\ Of(Commitment, o.logs) \subseteq Written("leaves") \cap Written("commitments")
      /\ Of(Nullifier, o.logs) \subseteq Written("nullifiers")
      /\ Of(Unshield, o.logs) \subseteq Written("unshields")
      /\ Of(RailgunTx, o.logs) \subseteq Written("transactions")
  BY <1>1, <1>2 DEF ChunkWritten, Batches
<1>12. StableStep
  BY <1>1, QuietStable
<1>8. ChunkWritten(op[p])'
  <2>1. CASE o.pc = "transactions"
    <3>1. next = "unshieldPOI" /\ n.todo = Of(Unshield, o.logs)
      BY <1>5, <2>1 DEF LoopAfter, LoopOver
    <3>. HIDE DEF next, n
    <3>. QED
      BY <1>1, <1>5, <1>6, <1>7, <1>12, <3>1, WrittenGrows DEF ChunkWritten
  <2>2. CASE o.pc = "unshieldPOI"
    <3>1. next = "commitments" /\ n.todo = Of(Commitment, o.logs)
      BY <1>5, <2>2 DEF LoopAfter, LoopOver
    <3>2. Of(Unshield, o.logs) \subseteq Written("poiEvents")
      BY <1>1, <1>2, <2>2 DEF ChunkWritten
    <3>3. Of(Received, o.logs) \subseteq n.todo
          /\ Of(Sent, o.logs) \subseteq n.todo
      BY <3>1 DEF Of, Received, Sent
    <3>. HIDE DEF next, n
    <3>. QED
      BY <1>1, <1>5, <1>6, <1>7, <3>1, <3>2, <1>12, <3>3, WrittenGrows DEF ChunkWritten
  <2>3. CASE o.pc = "commitments"
    <3>1. next = "marks"
      BY <2>3 DEF LoopAfter
    <3>2. /\ Of(Unshield, o.logs) \subseteq Written("poiEvents")
          /\ Of(Received, o.logs) \subseteq Written("txos")
          /\ Of(Sent, o.logs) \subseteq Written("poiEvents")
      BY <1>1, <1>2, <2>3 DEF ChunkWritten
    <3>. HIDE DEF next, n
    <3>. QED
      BY <1>1, <1>5, <1>6, <1>7, <3>1, <1>12, <3>2, WrittenGrows DEF ChunkWritten
  <2>. QED
    BY <1>1, <2>1, <2>2, <2>3
<1>9. n.todo \subseteq n.logs /\ n.pc \in Import \ {"save"}
  BY <1>3, <1>5 DEF Of, Import, Loops
<1>. HIDE DEF n, next
<1>10. StableStep /\ ChainInv' /\ NoPhantomRows' /\ DerivedFromIndex' /\ DisplacedInv'
  BY <1>1, QuietStable
<1>11. UNCHANGED <<chainVars, checkpoint>> /\ n.current \subseteq rows'.transactions
  BY <1>1, <1>2, <1>5 DEF storeVars
<1>. QED
  BY <1>1, <1>2, <1>4, <1>5, <1>8, <1>9, <1>10, <1>11, ImportInv

LEMMA StepReadCheckpoints ==
    ASSUME NEW X, IInvBut(X), TypeInv', NEW p \in Syncer, ReadCheckpoints(p)
    PROVE  IInvBut(X)'
<1>. DEFINE o == op[p]
            n == [o EXCEPT !.pc = "save", !.file = checkpoint]
<1>1. o.pc = "marks" /\ o.todo = {} /\ UNCHANGED <<chainVars, storeVars>>
  BY DEF ReadCheckpoints
<1>2. /\ o \in Call /\ op \in [Syncer -> Call] /\ o.pc \in Import
      /\ ChunkWritten(o) /\ o.current \subseteq rows.transactions
  BY <1>1, LoopFacts DEF Loops
<1>3. op' = [op EXCEPT ![p] = n]
  BY <1>2 DEF ReadCheckpoints
<1>4. n.pc = "save" /\ n.queue = o.queue /\ n.from = o.from /\ n.to = o.to
      /\ n.chunkTo = o.chunkTo /\ n.logs = o.logs /\ n.todo = o.todo
      /\ n.current = o.current /\ n.file = checkpoint
  BY <1>2 DEF Call
<1>5. op'[p] = n
  BY <1>2, <1>3
<1>6. /\ StableStep /\ ChainInv' /\ NoPhantomRows' /\ DerivedFromIndex' /\ DisplacedInv'
      /\ \A v \in Version : IndexedBut(X, v, checkpoint[v])'
  BY <1>1, QuietStable
<1>. HIDE DEF n
<1>7. ScanBut(X, op[p])' /\ ChunkBut(X, op[p])'
  BY <1>2, <1>4, <1>5, <1>6, ChunkStable DEF Import
<1>8. HeldBut(X, op[p])'
  <2>1. \A v \in Version : IndexedBut(X, v, op[p].file[v])'
    BY <1>1, <1>4, <1>5, <1>6 DEF IndexedBut, storeVars
  <2>. QED
    BY <1>1, <1>2, <1>4, <1>5, <2>1 DEF HeldBut, storeVars
<1>9. ChunkWritten(op[p])'
  BY <1>1, <1>2, <1>4, <1>5, <1>6, WrittenGrows DEF ChunkWritten, Batches
<1>10. CallBut(X, op[p])'
  BY <1>7, <1>8, <1>9 DEF CallBut
<1>. QED
  BY <1>3, <1>6, <1>10, StepInv

\* The blocks of a chunk whose import is over, and those before it, are indexed.
LEMMA ChunkIndexed ==
    ASSUME NEW X, IInvBut(X), NEW p \in Syncer, op[p].pc = "save"
    PROVE  /\ IndexedBut(X, op[p].queue[1], op[p].chunkTo + 1)
           /\ op[p].chunkTo <= Finalized
<1>. DEFINE o == op[p]
<1>1. o \in Call /\ CallBut(X, o) /\ o.pc \in Import
  BY DEF IInvBut, TypeInv, TypeOK, Import
<1>2. Finalized \in Int
  BY ChainAssumption DEF IInvBut, TypeInv, TypeOK, ChainTypeOK, Finalized
<1>3. o.from \in Int /\ o.chunkTo \in Int /\ o.to \in Int
  BY <1>1, ChainAssumption DEF Call
<1>4. /\ o.chunkTo <= o.to /\ o.to <= Finalized
      /\ LogsIn(o.queue[1], o.from, o.chunkTo) \subseteq o.logs \cup X
      /\ IndexedBut(X, o.queue[1], o.from)
  BY <1>1 DEF CallBut, ScanBut, ChunkBut
<1>5. o.chunkTo <= Finalized
  BY <1>2, <1>3, <1>4
<1>6. /\ Of(Commitment, o.logs) \subseteq Written("leaves") \cap Written("commitments")
      /\ Of(Nullifier, o.logs) \subseteq Written("nullifiers")
      /\ Of(Unshield, o.logs) \subseteq Written("unshields")
      /\ Of(RailgunTx, o.logs) \subseteq Written("transactions")
      /\ Of(Unshield, o.logs) \subseteq Written("poiEvents")
      /\ Of(Sent, o.logs) \subseteq Written("poiEvents")
      /\ Of(Received, o.logs) \subseteq Written("txos")
  BY <1>1 DEF CallBut, ChunkWritten, Batches
<1>7. \A s \in Store : Of(Keeps[s], o.logs) \subseteq Written(s)
  <2>1. Of(Unshield \cup Sent, o.logs) \subseteq Written("poiEvents")
    BY <1>6 DEF Of
  <2>. QED
    BY <1>6, <2>1, StoreNames
<1>8. \A r \in LogsIn(o.queue[1], 1, o.chunkTo + 1 - 1) :
        r \in o.logs \cup X \/ r \in LogsIn(o.queue[1], 1, o.from - 1)
  BY <1>3, <1>4, RowType DEF LogsIn
<1>9. \A s \in Store :
        Of(Keeps[s], LogsIn(o.queue[1], 1, o.chunkTo + 1 - 1))
            \subseteq Written(s) \cup X
  BY <1>4, <1>7, <1>8 DEF IndexedBut, Of
<1>. QED
  BY <1>2, <1>3, <1>5, <1>9 DEF IndexedBut

LEMMA StepSave ==
    ASSUME NEW X, IInvBut(X), TypeInv', NEW p \in Syncer, SaveCheckpoint(p)
    PROVE  IInvBut(X)'
<1>. DEFINE o == op[p]
            k == o.chunkTo + 1
            more == [Idle EXCEPT !.pc = "fetch", !.queue = o.queue,
                                 !.from = k, !.to = o.to]
            n == IF o.chunkTo = o.to THEN NextVersion(o) ELSE more
<1>1. /\ o.pc = "save" /\ op' = [op EXCEPT ![p] = n]
      /\ UNCHANGED <<chainVars, rows, spent, txidTree, displaced>>
      /\ checkpoint' = [o.file EXCEPT ![o.queue[1]] = k]
  BY DEF SaveCheckpoint, NextBlock, Syncing
<1>2. o \in Call /\ CallBut(X, o) /\ op \in [Syncer -> Call] /\ TypeInv
      /\ o.pc \in Import
  BY <1>1 DEF IInvBut, TypeInv, TypeOK, Import
<1>3. Finalized' = Finalized /\ Finalized \in Int
  BY <1>1, ChainAssumption
     DEF IInvBut, TypeInv, TypeOK, ChainTypeOK, Finalized, chainVars
<1>4. StableStep /\ ChainInv' /\ NoPhantomRows' /\ DerivedFromIndex' /\ DisplacedInv'
  BY <1>1, StillStable, DerivedStable
<1>5. PICK v \in {o.queue[1]}, j \in Int : j = k
  BY <1>2, ChainAssumption DEF Call
<1>6. IndexedBut(X, v, j) /\ o.chunkTo <= Finalized
  BY <1>1, <1>5, ChunkIndexed
<1>7. IndexedBut(X, v, j)'
  BY <1>2, <1>4, <1>6, IndexedStable
<1>8. \A w \in Version : IndexedBut(X, w, checkpoint[w])'
  <2>. TAKE w \in Version
  <2>1. CASE w = v
    <3>1. checkpoint'[w] = j
      BY <1>1, <1>2, <1>5, <2>1 DEF Call
    <3>. QED
      BY <1>7, <2>1, <3>1 DEF IndexedBut
  <2>2. CASE w # v
    <3>1. checkpoint'[w] = o.file[w]
      BY <1>1, <1>2, <1>5, <2>2 DEF Call
    <3>2. PICK i \in Int : i = o.file[w]
      BY <1>2, ChainAssumption DEF Call
    <3>3. IndexedBut(X, w, i)
      BY <1>1, <1>2, <3>2 DEF CallBut, HeldBut
    <3>4. IndexedBut(X, w, i)'
      BY <1>2, <1>4, <3>3, IndexedStable
    <3>. QED
      BY <3>1, <3>2, <3>4 DEF IndexedBut
  <2>. QED
    BY <2>1, <2>2
<1>9. op'[p] = n
  BY <1>1, <1>2
<1>10. CallBut(X, op[p])'
  <2>1. CASE o.chunkTo = o.to
    BY <1>1, <1>9, <2>1, NextVersionInv
  <2>2. CASE o.chunkTo # o.to
    <3>1. op'[p] = more
      BY <1>9, <2>2
    <3>2. more.pc = "fetch" /\ more.queue = o.queue /\ more.from = k
          /\ more.to = o.to /\ more.todo = {} /\ more.current = {}
      BY DEF Idle
    <3>3. IndexedBut(X, op[p].queue[1], op[p].from)'
      BY <1>5, <1>7, <3>1, <3>2 DEF IndexedBut
    <3>4. k <= o.to /\ o.to <= Finalized'
      BY <1>2, <1>3, <2>2, ChainAssumption DEF CallBut, ScanBut, ChunkBut, Call
    <3>5. ScanBut(X, op[p])'
      BY <3>1, <3>2, <3>3, <3>4 DEF ScanBut
    <3>. QED
      BY <3>1, <3>2, <3>5
         DEF CallBut, ChunkBut, HeldBut, Import, Batches, Loops
  <2>. QED
    BY <2>1, <2>2
<1>. QED
  BY <1>1, <1>4, <1>8, <1>10, StepInv

LEMMA StepFailure ==
    ASSUME NEW X, IInvBut(X), TypeInv', Crash \/ \E p \in Syncer : Abort(p)
    PROVE  IInvBut(X)'
<1>1. UNCHANGED <<chainVars, storeVars>>
  BY DEF Crash, Abort
<1>2. CASE Crash
  <2>1. \A p \in Syncer : op'[p] = Idle
    BY <1>2 DEF Crash
  <2>2. \A p \in Syncer : CallBut(X, op[p])'
    BY <2>1, IdleInv
  <2>. QED
    BY <1>1, <2>2, QuietStable DEF IInvBut
<1>3. ASSUME NEW p \in Syncer, Abort(p) PROVE IInvBut(X)'
  <2>1. op' = [op EXCEPT ![p] = Idle] /\ op'[p] = Idle
    BY <1>3 DEF Abort, IInvBut, TypeInv, TypeOK
  <2>2. CallBut(X, op[p])'
    BY <2>1, IdleInv
  <2>. QED
    BY <1>1, <2>1, <2>2, QuietStable, StepInv
<1>. QED
  BY <1>2, <1>3

LEMMA StepEnvironment ==
    ASSUME NEW X, IInvBut(X), TypeInv', Environment
    PROVE  IInvBut(X)'
<1>1. UNCHANGED <<storeVars, op>>
  BY DEF Environment
<1>2. StableStep /\ ChainInv' /\ DisplacedInv'
  BY <1>1, EnvironmentStable, DisplacedStable DEF IInvBut, storeVars
<1>3. NoPhantomRows'
  <2>1. \A s \in Store : \A r \in rows[s] :
          /\ r.event \in Keeps[s] /\ r.block \in Block
          /\ r.block \in Int /\ r.block <= Finalized
          /\ r.event \in chain[r.block]
    BY RowType DEF IInvBut, NoPhantomRows, TypeInv, TypeOK
  <2>2. \A s \in Store : \A r \in rows[s] :
          /\ r.block <= Finalized' /\ r.event \in chain'[r.block]
    BY <1>2, <2>1 DEF StableStep
  <2>. QED
    BY <1>1, <2>1, <2>2 DEF NoPhantomRows, storeVars
<1>4. DerivedFromIndex' /\ \A v \in Version : IndexedBut(X, v, checkpoint[v])'
  BY <1>1, <1>2, DerivedStable, CheckpointStable DEF storeVars
<1>5. \A p \in Syncer : CallBut(X, op[p])'
  BY <1>1, <1>2, CallStable
<1>. QED
  BY <1>2, <1>3, <1>4, <1>5 DEF IInvBut

LEMMA IInvNext ==
    ASSUME NEW X, IInvBut(X), [Next]_vars
    PROVE  IInvBut(X)'
<1>1. TypeInv'
  BY TypeNext DEF IInvBut
<1>2. CASE UNCHANGED vars
  <2>1. UNCHANGED <<chainVars, storeVars, op>>
    BY <1>2 DEF vars
  <2>2. StableStep
    BY <2>1, QuietStable
  <2>3. \A p \in Syncer : CallBut(X, op[p])'
    BY <1>1, <2>1, <2>2, CallStable
  <2>. QED
    BY <1>1, <2>1, <2>3, QuietStable DEF IInvBut
<1>3. ASSUME NEW p \in Syncer, BeginSync(p) \/ Progress(p) PROVE IInvBut(X)'
  BY <1>1, <1>3, StepBegin, StepLoad, StepHead, StepFetch, StepBatch,
     StepStore, StepPosition, StepLeaf, StepUnshieldPOI, StepCommitment,
     StepMark, StepEndLoop, StepReadCheckpoints, StepSave
     DEF Progress, ImportStep
<1>4. ASSUME NEW p \in Syncer, MarkSpentFails(p) PROVE IInvBut(X)'
  BY <1>1, <1>4, StepMark
<1>. QED
  BY <1>1, <1>2, <1>3, <1>4, StepFailure, StepEnvironment DEF Next, SyncNext

\* No step of the import loses what is written.
LEMMA StoreStable ==
    ASSUME NEW X, IInvBut(X), NEW p \in Syncer, ImportStep(p)
    PROVE  StableStep
<1>1. TypeInv'
  <2>1. Next
    BY DEF Next, SyncNext, Progress
  <2>. QED
    BY <2>1, TypeNext DEF IInvBut
<1>2. CASE ReadPosition(p) \/ EndLoop(p) \/ ReadCheckpoints(p)
  <2>1. UNCHANGED <<chainVars, storeVars>>
    BY <1>2 DEF ReadPosition, EndLoop, ReadCheckpoints
  <2>. QED
    BY <2>1, QuietStable
<1>3. CASE WriteLeaf(p)
  BY <1>3, StillStable DEF WriteLeaf
<1>. QED
  BY <1>1, <1>2, <1>3, StepBatch, StepStore, StepUnshieldPOI, StepCommitment, StepMark
     DEF ImportStep

\* A step keeps the rows but for those that give way to others of their key.
LEMMA NextStable ==
    ASSUME NEW X, IInvBut(X), [Next]_vars
    PROVE  StableStep
<1>1. CASE UNCHANGED <<chainVars, rows, displaced>>
  BY <1>1, StillStable
<1>2. ASSUME NEW p \in Syncer, ImportStep(p) PROVE StableStep
  BY <1>2, StoreStable
<1>3. CASE Environment
  BY <1>3, EnvironmentStable DEF IInvBut
<1>4. ASSUME NEW p \in Syncer,
             \/ BeginSync(p) \/ LoadCheckpoint(p) \/ ReadHead(p) \/ FetchLogs(p)
             \/ SaveCheckpoint(p) \/ MarkSpentFails(p) \/ Abort(p)
      PROVE  StableStep
  BY <1>1, <1>4 DEF BeginSync, LoadCheckpoint, ReadHead, FetchLogs,
                    SaveCheckpoint, MarkSpentFails, Abort, storeVars
<1>5. CASE Crash \/ UNCHANGED vars
  BY <1>1, <1>5 DEF Crash, storeVars, vars
<1>. QED
  BY <1>2, <1>3, <1>4, <1>5 DEF Next, SyncNext, Progress

\* What each call in flight has fetched, written and read holds of every session,
\* however its calls overlap and fail (sync.go, importer.go).
THEOREM Inductive == Spec => []IInv
<1>1. Init => IInv
  BY IInvInit DEF IInv
<1>2. IInv /\ [Next]_vars => IInv'
  BY IInvNext DEF IInv
<1>. QED
  BY <1>1, <1>2, PTL DEF Spec

\* Over the log provider the logs of a chunk are all of its events.
LEMMA ExactCall ==
    ASSUME NEW o, CallInv(o)
    PROVE  ChunkInv(o)
<1>. SUFFICES ASSUME o.pc \in Import PROVE o.logs = LogsIn(o.queue[1], o.from, o.chunkTo)
  BY DEF CallInv, CallBut, ChunkBut, ChunkInv
<1>1. /\ o.logs \subseteq LogsIn(o.queue[1], o.from, o.chunkTo)
      /\ LogsIn(o.queue[1], o.from, o.chunkTo) \subseteq o.logs
  BY DEF CallInv, CallBut, ChunkBut
<1>. QED
  BY <1>1

-----------------------------------------------------------------------------
(* What follows from the inductive invariant.                              *)

\* Of a row that is on the final chain, what is written is in the store or has
\* given way to the row of another event.
LEMMA GivenWay ==
    ASSUME ChainInv, NoPhantomRows, DisplacedInv, TypeOK, NEW s \in Store,
           NEW r \in Written(s), r \in Row, r.event \in chain[r.block]
    PROVE  \/ r \in rows[s]
           \/ r.event \in displaced[s] /\ \E q \in rows[s] : Rivals(s, q, r)
<1>1. SUFFICES ASSUME r \notin rows[s]
      PROVE  r.event \in displaced[s] /\ \E q \in rows[s] : Rivals(s, q, r)
  OBVIOUS
<1>2. r.event \in displaced[s]
  BY <1>1 DEF Written
<1>3. PICK q \in rows[s] : SameKey(s, q.event, r.event)
  BY <1>2 DEF DisplacedInv
<1>4. q \in Row /\ q.event \in chain[q.block]
  BY DEF NoPhantomRows, TypeOK
<1>5. q.event # r.event
  <2>. SUFFICES ASSUME q.event = r.event PROVE FALSE
    OBVIOUS
  <2>1. q.block = r.block
    BY <1>4 DEF ChainInv, Row
  <2>. QED
    BY <1>1, <1>4, <2>1 DEF Row
<1>. QED
  BY <1>2, <1>3, <1>5 DEF Rivals

\* Any number of overlapping Sync calls, crashed, cancelled or failed at any
\* point: an event below a version's checkpoint is in every store of its kind,
\* unless another event's row has taken its place (sync.go saves the checkpoint
\* after the import, never before; pebble_store.go, file_state_store.go).
THEOREM IndexedBelowCheckpointHolds == Spec => []IndexedBelowCheckpoint
<1>1. ASSUME IInv PROVE IndexedBelowCheckpoint
  <2>1. /\ ChainInv /\ NoPhantomRows /\ DisplacedInv /\ TypeOK
        /\ \A v \in Version : IndexedBut({}, v, checkpoint[v])
    BY <1>1 DEF IInv, IInvBut, TypeInv
  <2>2. ASSUME NEW v \in Version, NEW s \in Store,
               NEW r \in Of(Keeps[s], LogsIn(v, 1, checkpoint[v] - 1))
        PROVE  \/ r \in rows[s]
               \/ r.event \in displaced[s] /\ \E q \in rows[s] : Rivals(s, q, r)
    <3>1. r \in Written(s)
      BY <2>1 DEF IndexedBut
    <3>2. r \in Row /\ r.event \in chain[r.block]
      BY DEF Of, LogsIn
    <3>. QED
      BY <2>1, <3>1, <3>2, GivenWay
  <2>. QED
    BY <2>2 DEF IndexedBelowCheckpoint
<1>. QED
  BY <1>1, Inductive, PTL

\* No store ever holds an event that a reorganisation within the confirmation
\* depth can take off the chain (syncFinalizedToBlock).
THEOREM NoPhantomRowsHolds == Spec => []NoPhantomRows
<1>1. IInv => NoPhantomRows
  BY DEF IInv, IInvBut
<1>. QED
  BY <1>1, Inductive, PTL

\* A row leaves a store only for the row of another event that has its key.
RowsGiveWay ==
    \A s \in Store : \A r \in rows[s] :
        r \in rows'[s] \/ \E q \in rows'[s] : Rivals(s, q, r)

\* No step of a Sync takes a row out of a store, whatever calls overlap, but to put
\* another event's row with the same key in its place: a leaf of the other version
\* at its position, a nullifier or a TXO of the other version (the Upsert methods
\* of pebble_store.go and file_state_store.go).
THEOREM RowsOnlyReplaced == Spec => [][RowsGiveWay]_vars
<1>1. ASSUME IInv, IInv', [Next]_vars PROVE RowsGiveWay
  <2>1. StableStep
    BY <1>1, NextStable DEF IInv
  <2>2. ASSUME NEW s \in Store, NEW r \in rows[s], r \notin rows'[s]
        PROVE  \E q \in rows'[s] : Rivals(s, q, r)
    <3>1. PICK q \in rows'[s] : SameKey(s, q.event, r.event)
      BY <2>1 DEF StableStep
    <3>2. /\ r \in Row /\ r.block \in Block
          /\ r.block <= Finalized /\ r.event \in chain[r.block]
      BY <1>1 DEF IInv, IInvBut, NoPhantomRows, TypeInv, TypeOK, Row
    <3>3. q \in Row /\ q.event \in chain'[q.block]
      BY <1>1 DEF IInv, IInvBut, NoPhantomRows, TypeInv, TypeOK
    <3>4. r.event \in chain'[r.block]
      BY <2>1, <3>2 DEF StableStep
    <3>5. q.event # r.event
      <4>. SUFFICES ASSUME q.event = r.event PROVE FALSE
        OBVIOUS
      <4>1. q.block = r.block
        BY <1>1, <3>2, <3>3, <3>4 DEF IInv, IInvBut, ChainInv, Row
      <4>. QED
        BY <2>2, <3>2, <3>3, <4>1 DEF Row
    <3>. QED
      BY <3>1, <3>5 DEF Rivals
  <2>. QED
    BY <2>2 DEF RowsGiveWay
<1>2. IInv /\ IInv' /\ [Next]_vars => [RowsGiveWay]_vars
  BY <1>1
<1>. QED
  BY <1>2, Inductive, PTL DEF Spec

\* At every point a crash can hit, a TXO has its commitment indexed and a leaf at
\* its position, a spend mark the nullifier it is made by, and a TXID leaf its
\* stored transaction (the order of the writes in importer.go).
THEOREM DerivedFromIndexHolds == Spec => []DerivedFromIndex
<1>1. IInv => DerivedFromIndex
  BY DEF IInv, IInvBut
<1>. QED
  BY <1>1, Inductive, PTL

-----------------------------------------------------------------------------
(* When the application makes one Sync at a time: spends are marked and    *)
(* TXID leaves appended below the checkpoint, and what the stores show     *)
(* there implements the balance of the ledger. With overlapping calls none *)
(* of this holds.                                                          *)

\* There is one caller at most.
OneSyncer == \A p, q \in Syncer : p = q

-----------------------------------------------------------------------------
(* The inductive invariant, on top of IInv.                                *)

\* There is nothing above the head, and a note is spent in its block or later.
SpendOrder ==
    /\ \A b \in Block : b > head => chain[b] = {}
    /\ \A b \in Block : \A x \in chain[b] \cap Nullifier :
          \E d \in Block : d <= b /\ Spends[x] \in chain[d]

\* The call works from the checkpoint on, and has the file as it is.
CursorInv(o) ==
    /\ o.pc \in {"head", "fetch"} \cup Import =>
          o.from = StartBlock(checkpoint[o.queue[1]])
    /\ o.pc = "save" => o.file = checkpoint

\* The spend of a nullifier is in the wallet state, or its mark failed, or the
\* stores cannot tell its note from another.
Marked(r) ==
    Spends[r.event] \in Received =>
        \/ spent[Spends[r.event]] = r.block
        \/ r.event \in skipped
        \/ Spends[r.event] \in Contested

\* After the marks of a chunk, and for those the loop is through with before.
SpendInv(o) ==
    o.pc \in {"marks", "save"} =>
        \A r \in Of(Nullifier, o.logs) \ o.todo : Marked(r)

HasLeaf(r) == \E l \in txidTree : l.row = r

NoGap ==
    \A l \in txidTree : l.position = 0 \/
        \E k \in txidTree : k.position = l.position - 1

\* Of the chunk's transactions all have a leaf but those the loop has left and
\* the one in hand, whose position is still the next one.
LeafInv(o) ==
    /\ o.pc \in Loops \cup {"position", "leaf", "save"} =>
          \A r \in Of(RailgunTx, o.logs) :
             \/ HasLeaf(r)
             \/ o.pc \in {"transactions", "position", "leaf"} /\ r \in o.todo
             \/ o.pc \in {"position", "leaf"} /\ r \in o.current
    /\ \A r, s \in o.current : r = s
    /\ o.pc = "leaf" => IsNextPosition(txidTree, o.position)

\* The rows of version v below its checkpoint.
Synced(v) == LogsIn(v, 1, checkpoint[v] - 1)

SyncedInv ==
    \A v \in Version :
        /\ \A r \in Of(Nullifier, Synced(v)) : Marked(r)
        /\ \A r \in Of(RailgunTx, Synced(v)) : HasLeaf(r)

AloneInv ==
    /\ SpendOrder
    /\ NoGap
    /\ SyncedInv
    /\ \A p \in Syncer :
          CursorInv(op[p]) /\ SpendInv(op[p]) /\ LeafInv(op[p])

-----------------------------------------------------------------------------
(* The chain.                                                              *)

LEMMA AloneInit == Init => AloneInv
<1>. SUFFICES ASSUME Init PROVE AloneInv
  OBVIOUS
<1>1. SpendOrder
  BY DEF Init, ChainInit, SpendOrder
<1>2. NoGap
  BY DEF Init, NoGap
<1>3. \A v \in Version : Synced(v) = {}
  BY RowType DEF Init, ChainInit, Synced, LogsIn
<1>4. SyncedInv
  BY <1>3 DEF SyncedInv, Of
<1>5. \A p \in Syncer : CursorInv(op[p]) /\ SpendInv(op[p]) /\ LeafInv(op[p])
  BY DEF Init, Idle, CursorInv, SpendInv, LeafInv, Import, Batches, Loops
<1>. QED
  BY <1>1, <1>2, <1>4, <1>5 DEF AloneInv

\* Blocks are abandoned.
LEMMA OrderTruncated ==
    ASSUME SpendOrder, NEW b \in Block,
           chain' = [c \in Block |-> IF c < b THEN chain[c] ELSE {}],
           head' = b - 1
    PROVE  SpendOrder'
<1>. USE ChainAssumption DEF Block
<1>1. \A c \in Block : c > head' => chain'[c] = {}
  OBVIOUS
<1>2. ASSUME NEW c \in Block, NEW x \in chain'[c] \cap Nullifier
      PROVE  \E d \in Block : d <= c /\ Spends[x] \in chain'[d]
  <2>1. c < b /\ chain'[c] = chain[c]
    BY <1>2
  <2>2. PICK d \in Block : d <= c /\ Spends[x] \in chain[d]
    BY <1>2, <2>1 DEF SpendOrder
  <2>3. chain'[d] = chain[d]
    BY <2>1, <2>2
  <2>. QED
    BY <2>2, <2>3
<1>. QED
  BY <1>1, <1>2 DEF SpendOrder

\* A block is mined or blocks that are not final are abandoned.
LEMMA OrderKept ==
    ASSUME TypeInv, SpendOrder, Mine \/ Reorg
    PROVE  SpendOrder'
<1>. USE ChainAssumption DEF TypeInv, TypeOK, ChainTypeOK, Block
<1>1. CASE Mine
  <2>1. PICK new \in SUBSET (Event \ OnChain) :
          /\ \A x \in new \cap Nullifier : Spends[x] \in OnChain \cup new
          /\ chain' = [chain EXCEPT ![head + 1] = new]
    BY <1>1 DEF Mine
  <2>2. head' = head + 1 /\ head + 1 \in Block /\ chain[head + 1] = {}
    BY <1>1 DEF Mine, SpendOrder
  <2>3. \A d \in Block : d # head + 1 => chain'[d] = chain[d]
    BY <2>1
  <2>4. chain'[head + 1] = new
    BY <2>1, <2>2
  <2>5. \A b \in Block : b > head' => chain'[b] = {}
    BY <2>2, <2>3 DEF SpendOrder
  <2>6. ASSUME NEW b \in Block, NEW x \in chain'[b] \cap Nullifier
        PROVE  \E d \in Block : d <= b /\ Spends[x] \in chain'[d]
    <3>1. CASE b = head + 1
      <4>1. CASE Spends[x] \in new
        BY <2>4, <3>1, <4>1
      <4>2. CASE Spends[x] \in OnChain
        <5>1. PICK d \in Block : Spends[x] \in chain[d]
          BY <4>2 DEF OnChain
        <5>2. d <= head
          BY <5>1 DEF SpendOrder
        <5>3. d # head + 1 /\ d <= b
          BY <3>1, <5>2
        <5>. QED
          BY <2>3, <5>1, <5>3
      <4>. QED
        BY <2>1, <2>4, <3>1, <4>1, <4>2
    <3>2. CASE b # head + 1
      <4>1. PICK d \in Block : d <= b /\ Spends[x] \in chain[d]
        BY <2>3, <2>6, <3>2 DEF SpendOrder
      <4>2. d # head + 1
        BY <2>2, <4>1
      <4>. QED
        BY <2>3, <4>1, <4>2
    <3>. QED
      BY <3>1, <3>2
  <2>. QED
    BY <2>5, <2>6 DEF SpendOrder
<1>2. CASE Reorg
  <2>1. PICK b \in Block :
          /\ chain' = [c \in Block |-> IF c < b THEN chain[c] ELSE {}]
          /\ head' = b - 1
    BY <1>2 DEF Reorg
  <2>. QED
    BY <2>1, OrderTruncated
<1>. QED
  BY <1>1, <1>2

\* The rows below a checkpoint stay what they are while it does.
LEMMA SyncedStable ==
    ASSUME IInv, StableStep, UNCHANGED checkpoint, NEW v \in Version
    PROVE  Synced(v)' = Synced(v)
<1>1. PICK k \in Int : k = checkpoint[v] /\ k - 1 \in Int
  BY ChainAssumption DEF IInv, IInvBut, TypeInv, TypeOK
<1>2. k - 1 <= Finalized \/ k <= 1
  BY <1>1 DEF IInv, IInvBut, Indexed, IndexedBut
<1>3. LogsIn(v, 1, k - 1)' = LogsIn(v, 1, k - 1)
  <2>1. CASE k <= 1
    BY <1>1, <2>1, RowType DEF LogsIn
  <2>2. CASE k - 1 <= Finalized
    BY <1>1, <2>2, LogsStable DEF IInv, IInvBut
  <2>. QED
    BY <1>2, <2>1, <2>2
<1>. QED
  BY <1>1, <1>3 DEF Synced, LogsIn

\* Which notes are contested is a matter of the chain.
LEMMA ContestedSame ==
    ASSUME UNCHANGED chainVars
    PROVE  FinalRows' = FinalRows /\ Contested' = Contested
  BY DEF chainVars, FinalRows, Finalized, Contested

\* A spend that is marked stays so where the notes' spends are left alone.
LEMMA MarkedKept ==
    ASSUME UNCHANGED spent, Contested \subseteq Contested', skipped \subseteq skipped',
           NEW x, Marked(x)
    PROVE  Marked(x)'
  BY DEF Marked

LEMMA AloneEnvironment ==
    ASSUME IInv, AloneInv, Environment
    PROVE  AloneInv'
<1>1. UNCHANGED <<storeVars, op, skipped>> /\ (Mine \/ Reorg)
  BY DEF Environment
<1>2. StableStep
  BY EnvironmentStable DEF IInv, IInvBut
<1>3. SpendOrder'
  BY <1>1, OrderKept DEF IInv, IInvBut, AloneInv
<1>4. NoGap'
  BY <1>1 DEF AloneInv, NoGap, storeVars
<1>5. \A x : Marked(x) => Marked(x)'
  BY <1>1, <1>2, ContestedStable, MarkedKept DEF storeVars
<1>6. SyncedInv'
  <2>1. \A v \in Version : Synced(v)' = Synced(v)
    BY <1>1, <1>2, SyncedStable DEF storeVars
  <2>. QED
    BY <1>1, <1>5, <2>1 DEF AloneInv, SyncedInv, Of, HasLeaf, storeVars
<1>7. \A p \in Syncer :
        CursorInv(op[p])' /\ SpendInv(op[p])' /\ LeafInv(op[p])'
  BY <1>1, <1>5 DEF AloneInv, CursorInv, SpendInv, LeafInv, HasLeaf, storeVars
<1>. QED
  BY <1>3, <1>4, <1>6, <1>7 DEF AloneInv

-----------------------------------------------------------------------------
(* The steps of the call.                                                  *)

\* A step that leaves the stores' spends, leaves and checkpoints alone.
LEMMA Frame ==
    ASSUME IInv, AloneInv, OneSyncer, NEW p \in Syncer,
           UNCHANGED <<chainVars, spent, txidTree, checkpoint>>,
           skipped \subseteq skipped',
           CursorInv(op[p])', SpendInv(op[p])', LeafInv(op[p])'
    PROVE  AloneInv'
<1>1. SpendOrder' /\ NoGap'
  BY DEF AloneInv, SpendOrder, NoGap, chainVars
<1>2. \A v \in Version : Synced(v)' = Synced(v)
  BY DEF Synced, LogsIn, chainVars
<1>3. SyncedInv'
  <2>1. \A x : Marked(x) => Marked(x)'
    BY ContestedSame, MarkedKept
  <2>. QED
    BY <1>2, <2>1 DEF AloneInv, SyncedInv, Of, HasLeaf
<1>4. \A q \in Syncer : q = p
  BY DEF OneSyncer
<1>. QED
  BY <1>1, <1>3, <1>4 DEF AloneInv

\* The call in hand.
LEMMA CallOf ==
    ASSUME IInv, AloneInv, NEW p \in Syncer
    PROVE  /\ op[p] \in Call /\ CallType(op[p]) /\ CallInv(op[p])
           /\ op \in [Syncer -> Call]
           /\ CursorInv(op[p]) /\ SpendInv(op[p]) /\ LeafInv(op[p])
  BY DEF IInv, IInvBut, CallInv, TypeInv, TypeOK, AloneInv

\* Outside the import a call works from the checkpoint on.
LEMMA ScanCursor ==
    ASSUME NEW p \in Syncer, op \in [Syncer -> Call], op[p] \in Call,
           CallType(op[p]), CursorInv(op[p]),
           \/ BeginSync(p) \/ LoadCheckpoint(p) \/ ReadHead(p)
           \/ FetchLogs(p) \/ Abort(p)
    PROVE  /\ CursorInv(op[p])'
           /\ op'[p].pc \in {"idle", "start", "head", "fetch", "leaves"}
           /\ op'[p].current = {} \/ op'[p].current = op[p].current
<1>. DEFINE o == op[p]
<1>0. UNCHANGED checkpoint
  BY DEF BeginSync, LoadCheckpoint, ReadHead, FetchLogs, Abort, storeVars
<1>1. CASE BeginSync(p) \/ Abort(p)
  <2>1. op'[p].pc \in {"idle", "start"} /\ op'[p].current = {}
    <3>1. CASE BeginSync(p)
      <4>1. op'[p] = [Idle EXCEPT !.pc = "start", !.queue = ActiveVersions]
        BY <3>1 DEF BeginSync
      <4>. QED
        BY <4>1 DEF Idle
    <3>2. CASE Abort(p)
      <4>1. op'[p] = Idle
        BY <3>2 DEF Abort
      <4>. QED
        BY <4>1 DEF Idle
    <3>. QED
      BY <1>1, <3>1, <3>2
  <2>. QED
    BY <2>1 DEF CursorInv, Import, Batches, Loops
<1>2. CASE LoadCheckpoint(p)
  <2>1. op'[p] = [o EXCEPT !.pc = "head", !.from = StartBlock(checkpoint[Syncing(p)])]
    BY <1>2 DEF LoadCheckpoint
  <2>2. /\ op'[p].pc = "head" /\ op'[p].queue = o.queue /\ op'[p].current = o.current
        /\ op'[p].from = StartBlock(checkpoint[o.queue[1]])
    BY <2>1 DEF Call, Syncing
  <2>. QED
    BY <1>0, <2>2 DEF CursorInv, StartBlock
<1>3. CASE ReadHead(p)
  <2>1. o.pc = "head" /\ o.queue # <<>>
    BY <1>3 DEF ReadHead, CallType
  <2>2. op'[p] = NextVersion(o) \/ op'[p] = [o EXCEPT !.pc = "fetch", !.to = ConfirmedHead]
    BY <1>3 DEF ReadHead
  <2>3. CASE op'[p] = NextVersion(o)
    <3>1. op'[p].pc \in {"idle", "start"} /\ op'[p].current = {}
      BY <2>1, <2>3, NextVersionType
    <3>. QED
      BY <3>1 DEF CursorInv, Import, Batches, Loops
  <2>4. CASE op'[p] = [o EXCEPT !.pc = "fetch", !.to = ConfirmedHead]
    <3>1. /\ op'[p].pc = "fetch" /\ op'[p].queue = o.queue /\ op'[p].from = o.from
          /\ op'[p].current = o.current
      BY <2>4 DEF Call
    <3>2. o.from = StartBlock(checkpoint[o.queue[1]])
      BY <2>1 DEF CursorInv
    <3>. QED
      BY <1>0, <3>1, <3>2 DEF CursorInv, StartBlock
  <2>. QED
    BY <2>2, <2>3, <2>4
<1>4. CASE FetchLogs(p)
  <2>1. /\ o.pc = "fetch" /\ op'[p].pc = "leaves" /\ op'[p].queue = o.queue
        /\ op'[p].from = o.from /\ op'[p].current = o.current
    BY <1>4 DEF FetchLogs, Call
  <2>2. o.from = StartBlock(checkpoint[o.queue[1]])
    BY <2>1 DEF CursorInv
  <2>. QED
    BY <1>0, <2>1, <2>2 DEF CursorInv, StartBlock
<1>. QED
  BY <1>1, <1>2, <1>3, <1>4

\* Outside the loops over transactions and nullifiers only the cursor counts.
LEMMA AloneScan ==
    ASSUME IInv, AloneInv, OneSyncer, NEW p \in Syncer,
           \/ BeginSync(p) \/ LoadCheckpoint(p) \/ ReadHead(p)
           \/ FetchLogs(p) \/ Abort(p)
    PROVE  AloneInv'
<1>. DEFINE o == op[p]
<1>1. UNCHANGED <<chainVars, spent, txidTree, checkpoint, skipped>>
  BY DEF BeginSync, LoadCheckpoint, ReadHead, FetchLogs, Abort, storeVars
<1>2. o \in Call /\ CallType(o) /\ op \in [Syncer -> Call]
      /\ CursorInv(o) /\ LeafInv(o)
  BY CallOf
<1>3. /\ CursorInv(op[p])'
      /\ op'[p].pc \in {"idle", "start", "head", "fetch", "leaves"}
      /\ op'[p].current = {} \/ op'[p].current = o.current
  BY <1>2, ScanCursor
<1>4. SpendInv(op[p])'
  BY <1>3 DEF SpendInv
<1>5. LeafInv(op[p])'
  BY <1>2, <1>3 DEF LeafInv, Loops
<1>. QED
  BY <1>1, <1>3, <1>4, <1>5, Frame

\* In the import the cursor stays where it is.
LEMMA CursorKept ==
    ASSUME IInv, AloneInv, NEW p \in Syncer, op[p].pc \in Import,
           UNCHANGED checkpoint,
           op'[p].queue = op[p].queue, op'[p].from = op[p].from,
           op'[p].pc # "save"
    PROVE  CursorInv(op[p])'
<1>1. op[p].from = StartBlock(checkpoint[op[p].queue[1]])
  BY CallOf DEF CursorInv
<1>. QED
  BY <1>1 DEF CursorInv, StartBlock

LEMMA AloneBatch ==
    ASSUME IInv, AloneInv, OneSyncer, NEW p \in Syncer,
           IndexLeaves(p) \/ IndexNullifiers(p) \/ IndexUnshields(p)
    PROVE  AloneInv'
<1>. DEFINE o == op[p]
<1>1. UNCHANGED <<chainVars, spent, txidTree, checkpoint, skipped>>
  BY DEF IndexLeaves, IndexNullifiers, IndexUnshields
<1>2. o \in Call /\ op \in [Syncer -> Call] /\ LeafInv(o)
  BY CallOf
<1>3. /\ o.pc \in Import
      /\ op'[p].queue = o.queue /\ op'[p].from = o.from
      /\ op'[p].logs = o.logs /\ op'[p].current = o.current
      /\ \/ op'[p].pc \in {"nullifiers", "unshields"}
         \/ op'[p].pc = "transactions" /\ op'[p].todo = Of(RailgunTx, o.logs)
  <2>1. CASE IndexLeaves(p)
    BY <1>2, <2>1 DEF IndexLeaves, Call, Import, Batches
  <2>2. CASE IndexNullifiers(p)
    BY <1>2, <2>2 DEF IndexNullifiers, Call, Import, Batches
  <2>3. CASE IndexUnshields(p)
    <3>1. o.pc = "unshields" /\ op'[p] = EnterLoop(o, "transactions")
      BY <1>2, <2>3 DEF IndexUnshields
    <3>. QED
      BY <1>2, <3>1 DEF EnterLoop, LoopOver, Call, Import, Batches
  <2>. QED
    BY <2>1, <2>2, <2>3
<1>4. CursorInv(op[p])'
  BY <1>1, <1>3, CursorKept
<1>5. SpendInv(op[p])'
  BY <1>3 DEF SpendInv
<1>6. LeafInv(op[p])'
  BY <1>2, <1>3 DEF LeafInv, Loops
<1>. QED
  BY <1>1, <1>4, <1>5, <1>6, Frame

\* The transaction goes from what is left to what is in hand.
LEMMA AloneStore ==
    ASSUME IInv, AloneInv, OneSyncer, NEW p \in Syncer, StoreTransaction(p)
    PROVE  AloneInv'
<1>. DEFINE o == op[p]
<1>1. UNCHANGED <<chainVars, spent, txidTree, checkpoint, skipped>>
  BY DEF StoreTransaction
<1>2. o \in Call /\ op \in [Syncer -> Call] /\ LeafInv(o)
      /\ o.pc = "transactions"
  BY CallOf DEF StoreTransaction
<1>3. PICK r \in o.todo :
        op'[p] = [Done(o, r) EXCEPT !.pc = "position", !.current = {r}]
  BY <1>2 DEF StoreTransaction
<1>4. PICK d \in Call : d = Done(o, r)
  BY <1>2, DoneFields
<1>5. /\ d.queue = o.queue /\ d.from = o.from /\ d.logs = o.logs
      /\ d.todo = o.todo \ {r}
  BY <1>2, <1>4, DoneFields
<1>6. /\ op'[p].pc = "position" /\ op'[p].current = {r}
      /\ op'[p].queue = o.queue /\ op'[p].from = o.from
      /\ op'[p].logs = o.logs /\ op'[p].todo = o.todo \ {r}
  BY <1>3, <1>4, <1>5 DEF Call
<1>7. CursorInv(op[p])'
  BY <1>1, <1>2, <1>6, CursorKept DEF Import, Loops
<1>8. SpendInv(op[p])'
  BY <1>6 DEF SpendInv
<1>9. LeafInv(op[p])'
  <2>1. \A x \in Of(RailgunTx, o.logs) : HasLeaf(x) \/ x \in o.todo
    BY <1>2 DEF LeafInv, Loops
  <2>2. \A x : HasLeaf(x) => HasLeaf(x)'
    BY <1>1 DEF HasLeaf
  <2>. QED
    BY <1>6, <2>1, <2>2 DEF LeafInv, Of
<1>. QED
  BY <1>1, <1>7, <1>8, <1>9, Frame

LEMMA AlonePosition ==
    ASSUME IInv, AloneInv, OneSyncer, NEW p \in Syncer, ReadPosition(p)
    PROVE  AloneInv'
<1>. DEFINE o == op[p]
<1>1. UNCHANGED <<chainVars, spent, txidTree, checkpoint, skipped>>
  BY DEF ReadPosition, storeVars
<1>2. o \in Call /\ op \in [Syncer -> Call] /\ LeafInv(o) /\ o.pc = "position"
  BY CallOf DEF ReadPosition
<1>3. PICK i \in 0 .. MaxLeaves - 1 :
        /\ IsNextPosition(txidTree, i)
        /\ op'[p] = [o EXCEPT !.pc = "leaf", !.position = i]
  BY <1>2 DEF ReadPosition
<1>4. /\ op'[p].pc = "leaf" /\ op'[p].position = i /\ op'[p].current = o.current
      /\ op'[p].queue = o.queue /\ op'[p].from = o.from
      /\ op'[p].logs = o.logs /\ op'[p].todo = o.todo
  BY <1>2, <1>3 DEF Call
<1>5. CursorInv(op[p])'
  BY <1>1, <1>2, <1>4, CursorKept DEF Import
<1>6. SpendInv(op[p])'
  BY <1>4 DEF SpendInv
<1>7. LeafInv(op[p])'
  <2>1. \A x \in Of(RailgunTx, o.logs) : HasLeaf(x) \/ x \in o.todo \/ x \in o.current
    BY <1>2 DEF LeafInv
  <2>2. \A x, y \in o.current : x = y
    BY <1>2 DEF LeafInv
  <2>3. \A x : HasLeaf(x) => HasLeaf(x)'
    BY <1>1 DEF HasLeaf
  <2>4. IsNextPosition(txidTree, op[p].position)'
    BY <1>1, <1>3, <1>4 DEF IsNextPosition
  <2>. QED
    BY <1>4, <2>1, <2>2, <2>3, <2>4 DEF LeafInv, Of
<1>. QED
  BY <1>1, <1>5, <1>6, <1>7, Frame

\* The leaf goes to the position after the last one.
LEMMA AloneLeaf ==
    ASSUME IInv, AloneInv, OneSyncer, NEW p \in Syncer, WriteLeaf(p)
    PROVE  AloneInv'
<1>. DEFINE o == op[p]
<1>1. UNCHANGED <<chainVars, spent, checkpoint, skipped>>
  BY DEF WriteLeaf
<1>2. o \in Call /\ op \in [Syncer -> Call] /\ LeafInv(o) /\ o.pc = "leaf"
  BY CallOf DEF WriteLeaf
<1>3. PICK t \in o.current :
        txidTree' = {l \in txidTree : l.position # o.position}
                      \cup {[position |-> o.position, row |-> t]}
  BY DEF WriteLeaf
<1>4. /\ op'[p].pc = "transactions" /\ op'[p].current = {}
      /\ op'[p].queue = o.queue /\ op'[p].from = o.from
      /\ op'[p].logs = o.logs /\ op'[p].todo = o.todo
  BY <1>2 DEF WriteLeaf, Call
<1>5. o.position \in Int /\ \A l \in txidTree : l.position \in Int
  BY <1>2, SyncAssumption DEF Call, IInv, IInvBut, TypeInv, TypeOK
<1>6. IsNextPosition(txidTree, o.position)
  BY <1>2 DEF LeafInv
<1>7. \A l \in txidTree : l.position # o.position
  BY <1>5, <1>6 DEF IsNextPosition
<1>8. txidTree' = txidTree \cup {[position |-> o.position, row |-> t]}
  BY <1>3, <1>7
<1>9. NoGap'
  <2>1. o.position = 0 \/ \E k \in txidTree : k.position = o.position - 1
    BY <1>6 DEF IsNextPosition
  <2>. QED
    BY <1>8, <2>1 DEF AloneInv, NoGap
<1>10. (\A r : HasLeaf(r) => HasLeaf(r)') /\ HasLeaf(t)'
  <2>1. txidTree \subseteq txidTree'
    BY <1>8
  <2>2. \A r : HasLeaf(r) => HasLeaf(r)'
    BY <2>1 DEF HasLeaf
  <2>3. [position |-> o.position, row |-> t] \in txidTree'
    BY <1>8
  <2>4. HasLeaf(t)'
    BY <2>3 DEF HasLeaf
  <2>. QED
    BY <2>2, <2>4
<1>11. SpendOrder'
  BY <1>1 DEF AloneInv, SpendOrder, chainVars
<1>12. SyncedInv'
  <2>1. \A v \in Version : Synced(v)' = Synced(v)
    BY <1>1 DEF Synced, LogsIn, chainVars
  <2>. QED
    BY <1>1, <1>10, <2>1, ContestedSame DEF AloneInv, SyncedInv, Of, Marked
<1>13. CursorInv(op[p])'
  BY <1>1, <1>2, <1>4, CursorKept DEF Import
<1>14. SpendInv(op[p])'
  BY <1>4 DEF SpendInv
<1>15. LeafInv(op[p])'
  <2>1. \A x \in Of(RailgunTx, o.logs) : HasLeaf(x) \/ x \in o.todo \/ x = t
    BY <1>2, <1>3 DEF LeafInv
  <2>. QED
    BY <1>4, <1>10, <2>1 DEF LeafInv, Of
<1>16. \A q \in Syncer : q = p
  BY DEF OneSyncer
<1>. QED
  BY <1>9, <1>11, <1>12, <1>13, <1>14, <1>15, <1>16 DEF AloneInv

\* An unshield of the loop becomes a POI event.
LEMMA AloneUnshieldPOI ==
    ASSUME IInv, AloneInv, OneSyncer, NEW p \in Syncer, StoreUnshieldPOI(p)
    PROVE  AloneInv'
<1>. DEFINE o == op[p]
<1>1. UNCHANGED <<chainVars, spent, txidTree, checkpoint, skipped>>
  BY DEF StoreUnshieldPOI
<1>2. o \in Call /\ op \in [Syncer -> Call] /\ LeafInv(o)
      /\ o.pc = "unshieldPOI"
  BY CallOf DEF StoreUnshieldPOI
<1>3. PICK r \in o.todo : op'[p] = Done(o, r)
  BY <1>2 DEF StoreUnshieldPOI
<1>4. /\ op'[p].pc = "unshieldPOI" /\ op'[p].current = o.current
      /\ op'[p].queue = o.queue /\ op'[p].from = o.from
      /\ op'[p].logs = o.logs
  BY <1>2, <1>3, DoneFields
<1>5. CursorInv(op[p])'
  BY <1>1, <1>2, <1>4, CursorKept DEF Import, Loops
<1>6. SpendInv(op[p])'
  BY <1>4 DEF SpendInv
<1>7. LeafInv(op[p])'
  <2>1. \A x \in Of(RailgunTx, o.logs) : HasLeaf(x)
    BY <1>2 DEF LeafInv, Loops
  <2>2. \A x : HasLeaf(x) => HasLeaf(x)'
    BY <1>1 DEF HasLeaf
  <2>3. \A x, y \in o.current : x = y
    BY <1>2 DEF LeafInv
  <2>. QED
    BY <1>4, <2>1, <2>2, <2>3 DEF LeafInv, Of
<1>. QED
  BY <1>1, <1>5, <1>6, <1>7, Frame

\* A row of the call's chunk is on the final chain, and not below the checkpoint.
LEMMA ChunkRow ==
    ASSUME IInv, AloneInv, NEW p \in Syncer, op[p].pc \in Import,
           NEW r \in op[p].logs
    PROVE  /\ r \in Row /\ r.event \in chain[r.block]
           /\ VersionOf[r.event] = op[p].queue[1]
           /\ VersionOf[r.event] \in Version
           /\ r.block \in Block /\ r.block <= op[p].chunkTo
           /\ op[p].from <= r.block
           /\ checkpoint[VersionOf[r.event]] <= r.block
<1>. DEFINE o == op[p]
<1>1. o \in Call /\ CallInv(o) /\ CursorInv(o)
  BY CallOf
<1>2. o.logs = LogsIn(o.queue[1], o.from, o.chunkTo)
  BY <1>1, ExactCall DEF ChunkInv
<1>3. /\ r \in Row /\ o.from <= r.block /\ r.block <= o.chunkTo
      /\ r.event \in chain[r.block] /\ VersionOf[r.event] = o.queue[1]
  BY <1>2 DEF LogsIn
<1>4. r.block \in Block /\ r.event \in Event /\ VersionOf[r.event] \in Version
  BY <1>3, ChainAssumption DEF Row
<1>5. o.from = StartBlock(checkpoint[VersionOf[r.event]])
  BY <1>1, <1>3 DEF CursorInv
<1>6. checkpoint[VersionOf[r.event]] \in Int /\ r.block \in Int
  BY <1>4, ChainAssumption DEF IInv, IInvBut, TypeInv, TypeOK, Block
<1>7. checkpoint[VersionOf[r.event]] <= r.block
  BY <1>3, <1>4, <1>5, <1>6, ChainAssumption DEF StartBlock, Block
<1>. QED
  BY <1>3, <1>4, <1>7

\* A row below a checkpoint.
LEMMA SyncedRow ==
    ASSUME IInv, NEW v \in Version, NEW r \in Synced(v)
    PROVE  /\ r \in Row /\ r.event \in chain[r.block] /\ r.block \in Block
           /\ VersionOf[r.event] = v /\ r.block < checkpoint[v]
<1>1. /\ r \in Row /\ r.event \in chain[r.block] /\ r.block \in Block
      /\ VersionOf[r.event] = v /\ r.block <= checkpoint[v] - 1
  BY RowType DEF Synced, LogsIn
<1>2. checkpoint[v] \in Int /\ r.block \in Int
  BY <1>1, ChainAssumption DEF IInv, IInvBut, TypeInv, TypeOK, Block
<1>. QED
  BY <1>1, <1>2

\* The note of a nullifier on chain is on chain, no later and of its version.
LEMMA SpendNote ==
    ASSUME SpendOrder, NEW r \in Row, r.event \in Nullifier,
           r.event \in chain[r.block]
    PROVE  \E c \in Row : /\ c.event = Spends[r.event] /\ c.block <= r.block
                          /\ c.event \in chain[c.block]
                          /\ VersionOf[c.event] = VersionOf[r.event]
<1>1. r.block \in Block
  BY DEF Row
<1>2. PICK d \in Block : d <= r.block /\ Spends[r.event] \in chain[d]
  BY <1>1 DEF SpendOrder
<1>3. Spends[r.event] \in Event
  BY ChainAssumption DEF Event
<1>. DEFINE c == [event |-> Spends[r.event], block |-> d]
<1>4. c \in Row
  BY <1>3 DEF Row
<1>5. VersionOf[Spends[r.event]] = VersionOf[r.event]
  BY NullifierAssumption
<1>. QED
  BY <1>2, <1>4, <1>5

LEMMA NoteOf ==
    ASSUME IInv, AloneInv, NEW r \in Row, r.event \in Nullifier,
           r.event \in chain[r.block]
    PROVE  \E c \in Row : /\ c.event = Spends[r.event] /\ c.block <= r.block
                          /\ c.event \in chain[c.block]
                          /\ VersionOf[c.event] = VersionOf[r.event]
  BY SpendNote DEF AloneInv

\* An event has one place on the chain.
LEMMA RowOnce ==
    ASSUME ChainInv, NEW r \in Row, NEW s \in Row, r.event = s.event,
           r.event \in chain[r.block], s.event \in chain[s.block]
    PROVE  r = s
<1>1. r.block \in Block /\ s.block \in Block
  BY DEF Row
<1>2. r.block = s.block
  BY <1>1 DEF ChainInv
<1>. QED
  BY <1>2 DEF Row

LEMMA OneBlock ==
    ASSUME IInv, NEW r \in Row, NEW s \in Row, r.event = s.event,
           r.event \in chain[r.block], s.event \in chain[s.block]
    PROVE  r = s
  BY RowOnce DEF IInv, IInvBut

\* A received note is imported without a spend: no nullifier of it is below the
\* checkpoint, since the note itself is not.
LEMMA AloneCommitment ==
    ASSUME IInv, AloneInv, OneSyncer, NEW p \in Syncer, ImportCommitment(p)
    PROVE  AloneInv'
<1>. DEFINE o == op[p]
<1>1. UNCHANGED <<chainVars, txidTree, checkpoint, skipped>>
  BY DEF ImportCommitment
<1>2. o \in Call /\ op \in [Syncer -> Call] /\ LeafInv(o)
      /\ o.pc = "commitments" /\ o.pc \in Import /\ o.todo \subseteq o.logs
  BY CallOf DEF ImportCommitment, CallInv, CallBut, HeldInv, HeldBut, Import, Loops
<1>3. PICK r \in o.todo :
        /\ op'[p] = Done(o, r)
        /\ \/ r.event \in Received /\ spent' = [spent EXCEPT ![r.event] = 0]
           \/ UNCHANGED spent
  BY <1>2 DEF ImportCommitment, ImportNote
<1>4. /\ op'[p].pc = "commitments" /\ op'[p].current = o.current
      /\ op'[p].queue = o.queue /\ op'[p].from = o.from
      /\ op'[p].logs = o.logs
  BY <1>2, <1>3, DoneFields
<1>5. CursorInv(op[p])'
  BY <1>1, <1>2, <1>4, CursorKept
<1>6. SpendInv(op[p])'
  BY <1>4 DEF SpendInv
<1>7. LeafInv(op[p])'
  <2>1. \A x \in Of(RailgunTx, o.logs) : HasLeaf(x)
    BY <1>2 DEF LeafInv, Loops
  <2>2. \A x : HasLeaf(x) => HasLeaf(x)'
    BY <1>1 DEF HasLeaf
  <2>3. \A x, y \in o.current : x = y
    BY <1>2 DEF LeafInv
  <2>. QED
    BY <1>4, <2>1, <2>2, <2>3 DEF LeafInv, Of
<1>8. SpendOrder' /\ NoGap'
  BY <1>1 DEF AloneInv, SpendOrder, NoGap, chainVars
<1>9. \A v \in Version : Synced(v)' = Synced(v)
  BY <1>1 DEF Synced, LogsIn, chainVars
<1>10. ASSUME NEW v \in Version, NEW x \in Of(Nullifier, Synced(v))
       PROVE  Marked(x)'
  <2>1. x \in Synced(v) /\ x.event \in Nullifier /\ Marked(x)
    BY <1>10 DEF AloneInv, SyncedInv, Of
  <2>2. /\ x \in Row /\ x.event \in chain[x.block] /\ x.block \in Block
        /\ VersionOf[x.event] = v /\ x.block < checkpoint[v]
    BY <2>1, SyncedRow
  <2>3. PICK c \in Row : /\ c.event = Spends[x.event] /\ c.block <= x.block
                         /\ c.event \in chain[c.block]
                         /\ VersionOf[c.event] = v
    BY <2>1, <2>2, NoteOf
  <2>4. /\ r \in Row /\ r.event \in chain[r.block] /\ r.block \in Block
        /\ checkpoint[VersionOf[r.event]] <= r.block
    BY <1>2, <1>3, ChunkRow
  <2>5. r.event # Spends[x.event]
    <3>1. SUFFICES ASSUME r.event = Spends[x.event] PROVE FALSE
      OBVIOUS
    <3>2. r = c
      BY <2>3, <2>4, <3>1, OneBlock
    <3>3. checkpoint[v] <= r.block /\ r.block <= x.block /\ x.block < checkpoint[v]
      BY <2>2, <2>3, <2>4, <3>2
    <3>4. checkpoint[v] \in Int /\ r.block \in Int /\ x.block \in Int
      BY <2>2, <2>4, ChainAssumption DEF IInv, IInvBut, TypeInv, TypeOK, Block
    <3>. QED
      BY ONLY <3>3, <3>4
  <2>6. spent \in [Received -> 0 .. MaxBlock]
    BY DEF IInv, IInvBut, TypeInv, TypeOK
  <2>7. Spends[x.event] \in Received => spent'[Spends[x.event]] = spent[Spends[x.event]]
    BY <1>3, <2>5, <2>6
  <2>. QED
    BY <1>1, <2>1, <2>7, ContestedSame DEF Marked
<1>11. SyncedInv'
  <2>1. \A x : HasLeaf(x) => HasLeaf(x)'
    BY <1>1 DEF HasLeaf
  <2>. QED
    BY <1>9, <1>10, <2>1 DEF AloneInv, SyncedInv, Of
<1>12. \A q \in Syncer : q = p
  BY DEF OneSyncer
<1>. QED
  BY <1>5, <1>6, <1>7, <1>8, <1>11, <1>12 DEF AloneInv

\* After the loop over the commitments, the wallet holds the note of every
\* nullifier of the chunk that spends one of its own, under the key it reveals,
\* unless the note is contested.
LEMMA HeldNote ==
    ASSUME IInv, AloneInv, NEW p \in Syncer, op[p].pc = "marks",
           NEW r \in Of(Nullifier, op[p].logs), Spends[r.event] \in Received
    PROVE  Spends[r.event] \in Contested \cup NotesMarked(r)
<1>. DEFINE o == op[p]
<1>1. o \in Call /\ CallInv(o) /\ o.pc \in Import
  BY CallOf DEF Import, Loops
<1>2. /\ r \in Row /\ r.event \in Nullifier /\ r.event \in chain[r.block]
      /\ VersionOf[r.event] = o.queue[1] /\ r.block <= o.chunkTo
      /\ r.block \in Block
  BY <1>1, ChunkRow DEF Of
<1>3. PICK c \in Row : /\ c.event = Spends[r.event] /\ c.block <= r.block
                       /\ c.event \in chain[c.block]
                       /\ VersionOf[c.event] = o.queue[1]
  BY <1>2, NoteOf
<1>4. c.block \in Int /\ c.block >= 1 /\ r.block \in Int /\ o.from \in Int
      /\ o.chunkTo \in Int
  BY <1>1, <1>2, <1>3, RowType, ChainAssumption DEF Call, Block
<1>5. c.event \in Received /\ r \in FinalRows
  BY <1>1, <1>3, ChunkFinal DEF IInv, Of
<1>6. SUFFICES c \in Written("txos")
  <2>1. c.event \in displaced.txos => c.event \in Contested
    BY DEF IInv, IInvBut, DisplacedInv
  <2>2. c.event \notin Contested => MarkedKey[r.event] = KeyOf[c.event]
    BY <1>2, <1>3, <1>5 DEF Contested
  <2>3. c \in Written("txos") => c \in rows.txos \/ c.event \in displaced.txos
    BY DEF Written
  <2>. QED
    BY <1>3, <2>1, <2>2, <2>3 DEF NotesMarked
<1>7. CASE c.block < o.from
  <2>1. c \in LogsIn(o.queue[1], 1, o.from - 1)
    BY <1>3, <1>4, <1>7 DEF LogsIn
  <2>2. Indexed(o.queue[1], o.from)
    BY <1>1 DEF CallInv, CallBut, ScanBut, Indexed
  <2>3. Of(Keeps.txos, LogsIn(o.queue[1], 1, o.from - 1)) \subseteq Written("txos")
    BY <2>2, StoreNames DEF Indexed, IndexedBut
  <2>. QED
    BY <1>5, <2>1, <2>3, StoreNames DEF Of
<1>8. CASE o.from <= c.block
  <2>1. c.block <= o.chunkTo
    BY <1>2, <1>3, <1>4
  <2>2. c \in o.logs
    BY <1>1, <1>3, <1>8, <2>1, ExactCall DEF ChunkInv, LogsIn
  <2>3. Of(Received, o.logs) \subseteq Written("txos")
    BY <1>1 DEF CallInv, CallBut, ChunkWritten
  <2>. QED
    BY <1>5, <2>2, <2>3 DEF Of
<1>. QED
  BY <1>4, <1>7, <1>8

\* A spend is marked, or its mark fails and is counted. The mark of another
\* nullifier is overwritten only where the note is contested.
LEMMA AloneMark ==
    ASSUME IInv, AloneInv, OneSyncer, NEW p \in Syncer,
           MarkSpent(p) \/ MarkSpentFails(p)
    PROVE  AloneInv'
<1>. DEFINE o == op[p]
<1>1. UNCHANGED <<chainVars, rows, txidTree, checkpoint>> /\ skipped \subseteq skipped'
  BY DEF MarkSpent, MarkSpentFails, storeVars
<1>2. o \in Call /\ op \in [Syncer -> Call] /\ LeafInv(o) /\ SpendInv(o)
      /\ CallType(o)
      /\ o.pc = "marks" /\ o.pc \in Import /\ o.todo \subseteq o.logs
  BY CallOf DEF MarkSpent, MarkSpentFails, CallInv, CallBut, HeldInv, HeldBut, Import, Loops
<1>3. PICK r \in o.todo :
        /\ op'[p] = Done(o, r)
        /\ \/ spent' = [c \in Received |->
                           IF c \in NotesMarked(r) THEN r.block ELSE spent[c]]
           \/ UNCHANGED spent /\ r.event \in skipped'
  BY <1>2 DEF MarkSpent, MarkSpentFails, Mark, storeVars
<1>4. r \in Of(Nullifier, o.logs)
  BY <1>2, <1>3 DEF CallType, TodoKind, Loops, LoopOver, Of
<1>5. /\ op'[p].pc = "marks" /\ op'[p].current = o.current
      /\ op'[p].queue = o.queue /\ op'[p].from = o.from
      /\ op'[p].logs = o.logs /\ op'[p].todo = o.todo \ {r}
  BY <1>2, <1>3, DoneFields
<1>6. CursorInv(op[p])'
  BY <1>1, <1>2, <1>5, CursorKept
<1>7. LeafInv(op[p])'
  <2>1. \A x \in Of(RailgunTx, o.logs) : HasLeaf(x)
    BY <1>2 DEF LeafInv, Loops
  <2>2. \A x : HasLeaf(x) => HasLeaf(x)'
    BY <1>1 DEF HasLeaf
  <2>3. \A x, y \in o.current : x = y
    BY <1>2 DEF LeafInv
  <2>. QED
    BY <1>5, <2>1, <2>2, <2>3 DEF LeafInv, Of
<1>8. SpendOrder' /\ NoGap'
  BY <1>1 DEF AloneInv, SpendOrder, NoGap, chainVars
<1>9. \A v \in Version : Synced(v)' = Synced(v)
  BY <1>1 DEF Synced, LogsIn, chainVars
<1>10. spent \in [Received -> 0 .. MaxBlock]
  BY DEF IInv, IInvBut, TypeInv, TypeOK
<1>11. r \in Row /\ r.event \in Nullifier /\ r.event \in chain[r.block]
       /\ r \in FinalRows
  BY <1>2, <1>4, ChunkRow, ChunkFinal DEF Of, IInv
<1>12. Contested' = Contested
  BY <1>1, ContestedSame
<1>13. Marked(r)'
  <2>1. Spends[r.event] \in Received => Spends[r.event] \in Contested \cup NotesMarked(r)
    BY <1>2, <1>4, HeldNote
  <2>. QED
    BY <1>3, <1>10, <1>12, <2>1 DEF Marked
<1>14. ASSUME NEW x \in Row, x.event \in Nullifier, x.event \in chain[x.block],
              Marked(x)
       PROVE  Marked(x)'
  <2>1. CASE Spends[x.event] = Spends[r.event]
    BY <1>11, <1>13, <1>14, <2>1, NullifierAssumption, OneBlock
  <2>2. CASE Spends[x.event] # Spends[r.event]
    <3>1. SUFFICES ASSUME Spends[x.event] \in Received, Spends[x.event] \notin Contested
          PROVE  spent'[Spends[x.event]] = spent[Spends[x.event]]
      BY <1>1, <1>12, <1>14 DEF Marked
    <3>2. Spends[x.event] \notin NotesMarked(r)
      BY <1>11, <2>2, <3>1 DEF NotesMarked, Contested
    <3>. QED
      BY <1>3, <3>1, <3>2
  <2>. QED
    BY <2>1, <2>2
<1>15. SpendInv(op[p])'
  <2>1. \A x \in Of(Nullifier, o.logs) \ o.todo : Marked(x)
    BY <1>2 DEF SpendInv
  <2>2. \A x \in Of(Nullifier, o.logs) :
          x \in Row /\ x.event \in Nullifier /\ x.event \in chain[x.block]
    BY <1>2, ChunkRow DEF Of
  <2>3. \A x \in Of(Nullifier, o.logs) \ (o.todo \ {r}) : Marked(x)'
    BY <1>13, <1>14, <2>1, <2>2
  <2>. QED
    BY <1>5, <2>3 DEF SpendInv, Of
<1>16. SyncedInv'
  <2>1. \A v \in Version : \A x \in Of(Nullifier, Synced(v)) :
          x \in Row /\ x.event \in Nullifier /\ x.event \in chain[x.block] /\ Marked(x)
    BY SyncedRow DEF AloneInv, SyncedInv, Of
  <2>2. \A v \in Version : \A x \in Of(Nullifier, Synced(v)) : Marked(x)'
    BY <1>14, <2>1
  <2>3. \A x : HasLeaf(x) => HasLeaf(x)'
    BY <1>1 DEF HasLeaf
  <2>. QED
    BY <1>9, <2>2, <2>3 DEF AloneInv, SyncedInv, Of
<1>17. \A q \in Syncer : q = p
  BY DEF OneSyncer
<1>. QED
  BY <1>6, <1>7, <1>8, <1>15, <1>16, <1>17 DEF AloneInv

LEMMA AloneEndLoop ==
    ASSUME IInv, AloneInv, OneSyncer, NEW p \in Syncer, EndLoop(p)
    PROVE  AloneInv'
<1>. DEFINE o == op[p]
            next == LoopAfter[o.pc]
<1>1. UNCHANGED <<chainVars, spent, txidTree, checkpoint, skipped>>
  BY DEF EndLoop, storeVars
<1>2. o \in Call /\ op \in [Syncer -> Call] /\ LeafInv(o)
      /\ o.pc \in {"transactions", "unshieldPOI", "commitments"}
      /\ o.pc \in Import /\ o.todo = {} /\ op'[p] = EnterLoop(o, next)
  BY CallOf DEF EndLoop, LoopAfter, Import, Loops
<1>3. next \in {"unshieldPOI", "commitments", "marks"}
  BY <1>2 DEF LoopAfter
<1>. HIDE DEF next
<1>4. /\ op'[p].pc = next /\ op'[p].current = o.current
      /\ op'[p].queue = o.queue /\ op'[p].from = o.from
      /\ op'[p].logs = o.logs /\ op'[p].todo = Of(LoopOver[next], o.logs)
  BY <1>2 DEF EnterLoop, Call
<1>5. CursorInv(op[p])'
  BY <1>1, <1>2, <1>3, <1>4, CursorKept
<1>6. SpendInv(op[p])'
  <2>1. next = "marks" => op'[p].todo = Of(Nullifier, o.logs)
    BY <1>4 DEF LoopOver
  <2>. QED
    BY <1>3, <1>4, <2>1 DEF SpendInv
<1>7. LeafInv(op[p])'
  <2>1. \A x \in Of(RailgunTx, o.logs) : HasLeaf(x)
    BY <1>2 DEF LeafInv, Loops
  <2>2. \A x : HasLeaf(x) => HasLeaf(x)'
    BY <1>1 DEF HasLeaf
  <2>3. \A x, y \in o.current : x = y
    BY <1>2 DEF LeafInv
  <2>. QED
    BY <1>3, <1>4, <2>1, <2>2, <2>3 DEF LeafInv, Of
<1>. QED
  BY <1>1, <1>5, <1>6, <1>7, Frame

LEMMA AloneReadCheckpoints ==
    ASSUME IInv, AloneInv, OneSyncer, NEW p \in Syncer, ReadCheckpoints(p)
    PROVE  AloneInv'
<1>. DEFINE o == op[p]
<1>1. UNCHANGED <<chainVars, spent, txidTree, checkpoint, skipped>>
  BY DEF ReadCheckpoints, storeVars
<1>2. o \in Call /\ op \in [Syncer -> Call]
      /\ LeafInv(o) /\ SpendInv(o) /\ CursorInv(o)
      /\ o.pc = "marks" /\ o.pc \in Import /\ o.todo = {}
  BY CallOf DEF ReadCheckpoints, Import, Loops
<1>3. op'[p] = [o EXCEPT !.pc = "save", !.file = checkpoint]
  BY <1>2 DEF ReadCheckpoints
<1>4. /\ op'[p].pc = "save" /\ op'[p].current = o.current
      /\ op'[p].queue = o.queue /\ op'[p].from = o.from
      /\ op'[p].logs = o.logs /\ op'[p].todo = {} /\ op'[p].file = checkpoint
  BY <1>2, <1>3 DEF Call
<1>5. CursorInv(op[p])'
  <2>1. o.from = StartBlock(checkpoint[o.queue[1]])
    BY <1>2 DEF CursorInv
  <2>. QED
    BY <1>1, <1>4, <2>1 DEF CursorInv, StartBlock
<1>6. SpendInv(op[p])'
  <2>1. \A x \in Of(Nullifier, o.logs) : Marked(x)
    BY <1>2 DEF SpendInv
  <2>. QED
    BY <1>1, <1>4, <2>1, ContestedSame DEF SpendInv, Marked, Of
<1>7. LeafInv(op[p])'
  <2>1. \A x \in Of(RailgunTx, o.logs) : HasLeaf(x)
    BY <1>2 DEF LeafInv, Loops
  <2>2. \A x : HasLeaf(x) => HasLeaf(x)'
    BY <1>1 DEF HasLeaf
  <2>3. \A x, y \in o.current : x = y
    BY <1>2 DEF LeafInv
  <2>. QED
    BY <1>4, <2>1, <2>2, <2>3 DEF LeafInv, Of
<1>. QED
  BY <1>1, <1>5, <1>6, <1>7, Frame

\* What is below the new checkpoint was below the old one or is in the chunk.
LEMMA SavedRows ==
    ASSUME IInv, AloneInv, NEW p \in Syncer, SaveCheckpoint(p),
           NEW v, v = op[p].queue[1], NEW k, k = op[p].chunkTo
    PROVE  /\ v \in Version /\ k \in Block
           /\ op[p].from = StartBlock(checkpoint[v])
           /\ op[p].from <= k
           /\ checkpoint' = [checkpoint EXCEPT ![v] = k + 1]
           /\ checkpoint'[v] = k + 1
           /\ \A r \in LogsIn(v, 1, k) : r \in op[p].logs \/ r \in Synced(v)
           /\ \A w \in Version : w # v => Synced(w)' = Synced(w)
           /\ Synced(v)' = LogsIn(v, 1, k)
<1>. DEFINE o == op[p]
<1>1. o \in Call /\ CallType(o) /\ CallInv(o) /\ CursorInv(o)
      /\ o.pc = "save" /\ o.pc \in Import /\ UNCHANGED chainVars
  BY CallOf DEF SaveCheckpoint, Import
<1>2. v \in Version
  BY <1>1, ElementOfSeq, EmptySeq DEF Call, CallType
<1>3. /\ o.from = StartBlock(checkpoint[v]) /\ o.file = checkpoint
  BY <1>1 DEF CursorInv
<1>4. /\ o.from <= k /\ o.logs = LogsIn(v, o.from, k)
      /\ o.from \in Int /\ k \in Int
      /\ k \in Block
  BY <1>1, ChainAssumption, ExactCall DEF ChunkInv, Call, Block
<1>5. checkpoint \in [Version -> 0 .. MaxBlock + 1]
  BY DEF IInv, IInvBut, TypeInv, TypeOK
<1>6. checkpoint' = [checkpoint EXCEPT ![v] = k + 1]
  BY <1>3 DEF SaveCheckpoint, Syncing, NextBlock
<1>7. /\ checkpoint'[v] = k + 1
      /\ \A w \in Version : w # v => checkpoint'[w] = checkpoint[w]
  BY <1>2, <1>5, <1>6
<1>8. \A r \in LogsIn(v, 1, k) : r \in o.logs \/ r \in Synced(v)
  <2>. SUFFICES ASSUME NEW r \in LogsIn(v, 1, k), r \notin o.logs
                PROVE  r \in Synced(v)
    OBVIOUS
  <2>1. r \in Row /\ r.block <= k /\ r.event \in chain[r.block]
        /\ VersionOf[r.event] = v /\ r.block \in Int /\ r.block >= 1
    BY RowType DEF LogsIn
  <2>2. r.block < o.from
    BY <1>4, <2>1 DEF LogsIn
  <2>3. checkpoint[v] \in Int /\ checkpoint[v] - 1 \in Int /\ o.from = checkpoint[v]
    BY <1>2, <1>3, <1>5, <2>1, <2>2, ChainAssumption DEF StartBlock
  <2>4. r.block <= checkpoint[v] - 1
    BY <2>1, <2>2, <2>3
  <2>. QED
    BY <2>1, <2>4 DEF Synced, LogsIn
<1>9. \A w \in Version : w # v => Synced(w)' = Synced(w)
  BY <1>1, <1>7 DEF Synced, LogsIn, chainVars
<1>10. Synced(v)' = LogsIn(v, 1, k)
  <2>1. checkpoint'[v] - 1 = k
    BY <1>4, <1>7
  <2>. QED
    BY <1>1, <2>1 DEF Synced, LogsIn, chainVars
<1>. QED
  BY <1>2, <1>3, <1>4, <1>6, <1>7, <1>8, <1>9, <1>10

LEMMA AloneSave ==
    ASSUME IInv, AloneInv, OneSyncer, NEW p \in Syncer, SaveCheckpoint(p)
    PROVE  AloneInv'
<1>. DEFINE o == op[p]
            more == [Idle EXCEPT !.pc = "fetch", !.queue = o.queue,
                                 !.from = o.chunkTo + 1, !.to = o.to]
<1>1. UNCHANGED <<chainVars, spent, txidTree, skipped>>
  BY DEF SaveCheckpoint
<1>2. o \in Call /\ CallType(o) /\ op \in [Syncer -> Call]
      /\ LeafInv(o) /\ SpendInv(o) /\ o.pc = "save" /\ o.pc \in Import
      /\ CallInv(o)
  BY CallOf DEF SaveCheckpoint, Import
<1>0. PICK v \in {o.queue[1]}, k \in {o.chunkTo} : TRUE
  OBVIOUS
<1>3. /\ v \in Version /\ k \in Block
      /\ checkpoint'[v] = k + 1
      /\ \A r \in LogsIn(v, 1, k) : r \in o.logs \/ r \in Synced(v)
      /\ \A w \in Version : w # v => Synced(w)' = Synced(w)
      /\ Synced(v)' = LogsIn(v, 1, k)
  BY <1>0, SavedRows
<1>4. o.todo = {}
  <2>1. TodoKind(o) = {}
    BY <1>2 DEF TodoKind, Loops
  <2>. QED
    BY <1>2, <2>1 DEF CallType
<1>5. /\ \A x \in Of(Nullifier, o.logs) : Marked(x)
      /\ \A x \in Of(RailgunTx, o.logs) : HasLeaf(x)
  BY <1>2, <1>4 DEF SpendInv, LeafInv
<1>6. SyncedInv'
  <2>. SUFFICES ASSUME NEW w \in Version
                PROVE  /\ \A x \in Of(Nullifier, Synced(w)') : Marked(x)'
                       /\ \A x \in Of(RailgunTx, Synced(w)') : HasLeaf(x)'
    BY DEF SyncedInv, Of
  <2>1. \A x : (Marked(x) => Marked(x)') /\ (HasLeaf(x) => HasLeaf(x)')
    BY <1>1, ContestedSame DEF Marked, HasLeaf
  <2>2. /\ \A x \in Of(Nullifier, Synced(w)) : Marked(x)
        /\ \A x \in Of(RailgunTx, Synced(w)) : HasLeaf(x)
    BY DEF AloneInv, SyncedInv
  <2>3. CASE w = v
    BY <1>3, <1>5, <2>1, <2>2, <2>3 DEF Of
  <2>4. CASE w # v
    BY <1>3, <2>1, <2>2, <2>4
  <2>. QED
    BY <2>3, <2>4
<1>7. SpendOrder' /\ NoGap'
  BY <1>1 DEF AloneInv, SpendOrder, NoGap, chainVars
<1>8. op'[p] = IF o.chunkTo = o.to THEN NextVersion(o) ELSE more
  BY <1>2 DEF SaveCheckpoint
<1>9. /\ op'[p].pc \in {"idle", "start", "fetch"} /\ op'[p].current = {}
      /\ op'[p].pc = "fetch" => op'[p].queue = o.queue /\ op'[p].from = o.chunkTo + 1
  <2>1. CASE o.chunkTo = o.to
    <3>1. o.queue # <<>> /\ op'[p] = NextVersion(o)
      BY <1>2, <1>8, <2>1 DEF CallType
    <3>. QED
      BY <1>2, <3>1, NextVersionType
  <2>2. CASE o.chunkTo # o.to
    <3>1. op'[p] = more
      BY <1>8, <2>2
    <3>. QED
      BY <3>1 DEF Idle
  <2>. QED
    BY <2>1, <2>2
<1>10. CursorInv(op[p])'
  <2>1. k + 1 # 0
    BY <1>3, ChainAssumption DEF Block
  <2>. QED
    BY <1>0, <1>3, <1>9, <2>1 DEF CursorInv, StartBlock, Import, Batches, Loops
<1>11. SpendInv(op[p])' /\ LeafInv(op[p])'
  BY <1>9 DEF SpendInv, LeafInv, Loops
<1>12. \A q \in Syncer : q = p
  BY DEF OneSyncer
<1>. QED
  BY <1>6, <1>7, <1>10, <1>11, <1>12 DEF AloneInv

LEMMA AloneCrash ==
    ASSUME IInv, AloneInv, Crash
    PROVE  AloneInv'
<1>1. UNCHANGED <<chainVars, storeVars, skipped>> /\ \A p \in Syncer : op'[p] = Idle
  BY DEF Crash
<1>2. SpendOrder' /\ NoGap'
  BY <1>1 DEF AloneInv, SpendOrder, NoGap, chainVars, storeVars
<1>3. SyncedInv'
  BY <1>1, ContestedSame
     DEF AloneInv, SyncedInv, Synced, LogsIn, Of, Marked, HasLeaf, chainVars, storeVars
<1>4. Idle.pc = "idle" /\ Idle.current = {}
  BY DEF Idle
<1>5. \A p \in Syncer : CursorInv(op[p])' /\ SpendInv(op[p])' /\ LeafInv(op[p])'
  BY <1>1, <1>4 DEF CursorInv, SpendInv, LeafInv, Import, Batches, Loops
<1>. QED
  BY <1>2, <1>3, <1>5 DEF AloneInv

LEMMA AloneNext ==
    ASSUME IInv, AloneInv, OneSyncer, [Next]_vars
    PROVE  AloneInv'
<1>1. CASE UNCHANGED vars
  BY <1>1, ContestedSame DEF vars, chainVars, storeVars, AloneInv, SpendOrder, NoGap, SyncedInv,
              Synced, LogsIn, Of, Marked, HasLeaf, CursorInv, StartBlock, SpendInv, LeafInv,
              IsNextPosition
<1>2. ASSUME NEW p \in Syncer, BeginSync(p) \/ Progress(p) \/ MarkSpentFails(p) \/ Abort(p)
      PROVE  AloneInv'
  BY <1>2, AloneScan, AloneBatch, AloneStore, AlonePosition, AloneLeaf, AloneUnshieldPOI,
     AloneCommitment, AloneMark, AloneEndLoop, AloneReadCheckpoints, AloneSave
     DEF Progress, ImportStep
<1>. QED
  BY <1>1, <1>2, AloneCrash, AloneEnvironment DEF Next, SyncNext

\* With one Sync at a time, what the call in flight has marked and appended is
\* what its place in the import says (importer.go).
THEOREM AloneInductive == OneSyncer /\ Spec => [](IInv /\ AloneInv /\ OneSyncer)
<1>1. OneSyncer /\ Init => IInv /\ AloneInv /\ OneSyncer
  BY IInvInit, AloneInit DEF IInv
<1>2. IInv /\ AloneInv /\ OneSyncer /\ [Next]_vars => (IInv /\ AloneInv /\ OneSyncer)'
  BY IInvNext, AloneNext DEF IInv, OneSyncer
<1>. QED
  BY <1>1, <1>2, PTL DEF Spec

\* One Sync at a time: whatever is crashed or cancelled and imported again, every
\* transaction below the V3 checkpoint has its leaf in the TXID tree, whose
\* positions have no gap (txid/merkletree.go, importer.go).
THEOREM TxidLeafHolds == OneSyncer /\ Spec => []TxidLeafBelowCheckpoint
<1>1. AloneInv => TxidLeafBelowCheckpoint
  <2>. SUFFICES ASSUME AloneInv PROVE TxidLeafBelowCheckpoint
    OBVIOUS
  <2>1. \A r \in Of(RailgunTx, LogsIn("V3", 1, checkpoint["V3"] - 1)) : HasLeaf(r)
    BY DEF AloneInv, SyncedInv, Synced, Version
  <2>. QED
    BY <2>1 DEF AloneInv, NoGap, HasLeaf, TxidLeafBelowCheckpoint
<1>. QED
  BY <1>1, AloneInductive, PTL

-----------------------------------------------------------------------------
(* The refinement of LedgerBalance.                                        *)

\* A row below a cursor, as the ledger and as the wallet have it.
LEMMA BelowRow ==
    ASSUME IInv, NEW v \in Version, NEW r \in Below(v)
    PROVE  /\ r \in Row /\ r.event \in Received /\ r.event \in chain[r.block]
           /\ r.block \in Block /\ r.block <= Finalized
           /\ VersionOf[r.event] = v /\ r.block < checkpoint[v]
<1>1. r \in rows.txos /\ VersionOf[r.event] = v /\ r.block < checkpoint[v]
  BY DEF Below
<1>2. r \in Row
  BY <1>1, StoreNames DEF IInv, IInvBut, TypeInv, TypeOK
<1>3. r.event \in Received /\ r.event \in chain[r.block] /\ r.block <= Finalized
  BY <1>1, StoreNames DEF IInv, IInvBut, NoPhantomRows
<1>. QED
  BY <1>1, <1>2, <1>3, RowType

\* The notes that the ledger and the wallet promise nothing of are the same.
LEMMA LedgerContested == Ledger!Contested(FinalRows) = Contested
  BY DEF Ledger!Contested, Contested

\* A spend on record of a note that is not contested is that of its nullifier on
\* the chain.
LEMMA SpendOf ==
    ASSUME IInv, NEW c \in Received \ Contested, spent[c] # 0
    PROVE  \E n \in Row : /\ n.event \in Nullifier /\ Spends[n.event] = c
                          /\ n.block = spent[c] /\ n.block <= Finalized
                          /\ n.event \in chain[n.block]
<1>1. PICK n \in FinalRows : /\ n.event \in Nullifier /\ n.block = spent[c]
                              /\ Spends[n.event] \in Received
                              /\ MarkedKey[n.event] = KeyOf[c]
  BY DEF IInv, IInvBut, DerivedFromIndex
<1>2. Spends[n.event] = c
  BY <1>1 DEF Contested
<1>. QED
  BY <1>1, <1>2 DEF FinalRows

\* Below a checkpoint the wallet's balance is the ledger's, but for the spends
\* that it failed to mark; contested notes are in neither.
BalanceIsUnspent ==
    \A v \in Version : checkpoint[v] # 0 =>
        \E ignored \in SUBSET skipped :
            Balance[v] = Ledger!Unspent(v, checkpoint[v], ignored)

LEMMA BalanceInv == IInv /\ AloneInv => BalanceIsUnspent
<1>. SUFFICES ASSUME IInv, AloneInv, NEW v \in Version, checkpoint[v] # 0
              PROVE  \E ignored \in SUBSET skipped :
                         Balance[v] = Ledger!Unspent(v, checkpoint[v], ignored)
  BY DEF BalanceIsUnspent
<1>. DEFINE k == checkpoint[v]
            ignored == {x \in skipped : Spends[x] \in Balance[v]}
<1>1. Balance[v] = {r.event : r \in {r \in Below(v) : spent[r.event] \notin 1 .. k - 1}}
                        \ Contested
  BY DEF Balance
<1>2. k \in Int /\ k >= 1 /\ spent \in [Received -> 0 .. MaxBlock]
  BY ChainAssumption DEF IInv, IInvBut, TypeInv, TypeOK
<1>3. Ledger!Before(v, k) =
        {r.event : r \in {r \in FinalRows : VersionOf[r.event] = v /\ r.block < k}}
  BY DEF Ledger!Before
<1>4. Ledger!Unspent(v, k, ignored) =
        (Ledger!Before(v, k) \cap Received)
            \ ({Spends[x] : x \in (Ledger!Before(v, k) \cap Nullifier) \ ignored}
                  \cup Contested)
  BY LedgerContested DEF Ledger!Unspent
<1>. DEFINE before == Ledger!Before(v, k)
<1>5. ASSUME NEW n \in FinalRows, VersionOf[n.event] = v, n.block < k
      PROVE  n \in Synced(v) /\ n \in Row /\ n.block \in Int /\ n.block >= 1
  <2>1. n \in Row /\ n.event \in chain[n.block]
    BY <1>5 DEF FinalRows
  <2>2. n.block \in Int /\ n.block >= 1
    BY <2>1, RowType
  <2>3. n.block <= k - 1
    BY ONLY <1>2, <1>5, <2>2
  <2>. QED
    BY <1>5, <2>1, <2>2, <2>3 DEF Synced, LogsIn
<1>6. ASSUME NEW r \in Row, r.event \in chain[r.block], r.block <= Finalized,
             VersionOf[r.event] = v, r.block < k
      PROVE  r.event \in before
  BY <1>3, <1>6 DEF FinalRows
<1>7. ASSUME NEW c \in Balance[v] PROVE c \in Ledger!Unspent(v, k, ignored)
  <2>1. PICK r \in Below(v) : r.event = c /\ spent[c] \notin 1 .. k - 1
    BY <1>1, <1>7
  <2>2. c \in before /\ c \in Received /\ c \notin Contested
    BY <1>1, <1>6, <1>7, <2>1, BelowRow
  <2>3. ASSUME NEW x \in (before \cap Nullifier) \ ignored, Spends[x] = c
        PROVE  FALSE
    <3>1. PICK n \in FinalRows : n.event = x /\ VersionOf[n.event] = v /\ n.block < k
      BY <1>3, <2>3
    <3>2. n \in Synced(v) /\ n.block \in Int /\ n.block >= 1
      BY <1>5, <3>1
    <3>3. Marked(n)
      BY <2>3, <3>1, <3>2 DEF AloneInv, SyncedInv, Of
    <3>4. x \notin skipped
      BY <1>7, <2>3
    <3>5. spent[c] = n.block
      BY <2>2, <2>3, <3>1, <3>3, <3>4 DEF Marked
    <3>6. n.block \in 1 .. k - 1
      BY ONLY <1>2, <3>1, <3>2
    <3>. QED
      BY <2>1, <3>5, <3>6
  <2>. QED
    BY <1>4, <2>2, <2>3
<1>8. ASSUME NEW c \in Ledger!Unspent(v, k, ignored) PROVE c \in Balance[v]
  <2>1. c \in before /\ c \in Received /\ c \notin Contested
        /\ \A x \in (before \cap Nullifier) \ ignored : Spends[x] # c
    BY <1>4, <1>8
  <2>2. PICK r \in FinalRows : r.event = c /\ VersionOf[r.event] = v /\ r.block < k
    BY <1>3, <2>1
  <2>3. r \in Synced(v)
    BY <1>5, <2>2
  <2>4. r \in Below(v)
    <3>1. Of(Keeps.txos, LogsIn(v, 1, k - 1)) \subseteq Written("txos")
      BY StoreNames DEF IInv, IInvBut, Indexed, IndexedBut
    <3>2. r \in Written("txos")
      BY <2>1, <2>2, <2>3, <3>1, StoreNames DEF Of, Synced
    <3>3. r.event \notin displaced.txos
      BY <2>1, <2>2 DEF IInv, IInvBut, DisplacedInv
    <3>. QED
      BY <2>2, <3>2, <3>3 DEF Below, Written
  <2>5. SUFFICES ASSUME c \notin Balance[v] PROVE FALSE
    OBVIOUS
  <2>6. spent[c] \in 1 .. k - 1
    BY <1>1, <2>1, <2>2, <2>4, <2>5
  <2>7. PICK n \in Row : /\ n.event \in Nullifier /\ Spends[n.event] = c
                         /\ n.block = spent[c] /\ n.block <= Finalized
                         /\ n.event \in chain[n.block]
    BY <2>1, <2>6, SpendOf
  <2>8. VersionOf[n.event] = v
    BY <2>2, <2>7, NullifierAssumption
  <2>9. n.block < k
    BY <1>2, <2>6, <2>7
  <2>10. n.event \in before
    BY <1>6, <2>7, <2>8, <2>9
  <2>. QED
    BY <2>1, <2>5, <2>7, <2>10
<1>9. ignored \in SUBSET skipped /\ Balance[v] = Ledger!Unspent(v, k, ignored)
  BY <1>7, <1>8
<1>. QED
  BY <1>9

LEMMA LedgerInit == Init => Ledger!Init
<1>. SUFFICES ASSUME Init PROVE Ledger!Init
  OBVIOUS
<1>1. FinalRows = {}
  BY RowType DEF Init, ChainInit, FinalRows
<1>2. Cursor = [v \in Version |-> 1]
  BY DEF Init, Cursor, StartBlock
<1>3. Balance = [v \in Version |-> {}]
  <2>1. rows.txos = {}
    BY StoreNames DEF Init
  <2>. QED
    BY <2>1 DEF Balance, Below
<1>4. skipped = {}
  BY DEF Init
<1>. QED
  BY <1>1, <1>2, <1>3, <1>4 DEF Ledger!Init

\* What is in the balance changes only with the rows and the spends below of the
\* notes that are not contested.
LEMMA BalanceKept ==
    ASSUME UNCHANGED <<chainVars, checkpoint>>,
           \A v \in Version : \A r :
              r.event \notin Contested => (r \in Below(v)' <=> r \in Below(v)),
           \A v \in Version : \A r \in Below(v) :
              r.event \notin Contested =>
                 (spent'[r.event] \in 1 .. checkpoint[v] - 1
                     <=> spent[r.event] \in 1 .. checkpoint[v] - 1)
    PROVE  Balance' = Balance
<1>1. Contested' = Contested
  BY ContestedSame
<1>2. ASSUME NEW v \in Version
      PROVE  {r.event : r \in {r \in Below(v)' : spent'[r.event] \notin 1 .. checkpoint[v] - 1}}
                 \ Contested
             = {r.event : r \in {r \in Below(v) : spent[r.event] \notin 1 .. checkpoint[v] - 1}}
                 \ Contested
  OBVIOUS
<1>. QED
  BY <1>1, <1>2 DEF Balance

\* A step that does not touch what the wallet shows is a stutter of the ledger.
LEMMA LedgerStutter ==
    ASSUME UNCHANGED <<chainVars, checkpoint, skipped>>, Balance' = Balance
    PROVE  UNCHANGED Ledger!ledgerVars
<1>1. FinalRows' = FinalRows /\ Cursor' = Cursor
  BY DEF FinalRows, Finalized, Cursor, StartBlock, chainVars
<1>. QED
  BY <1>1 DEF Ledger!ledgerVars

\* An import that changes neither TXOs nor spends.
LEMMA StepElsewhere ==
    ASSUME IInv, UNCHANGED <<chainVars, spent, checkpoint, skipped>>, rows'.txos = rows.txos
    PROVE  UNCHANGED Ledger!ledgerVars
<1>1. \A v \in Version : Below(v)' = Below(v)
  BY DEF Below
<1>2. Balance' = Balance
  BY <1>1, BalanceKept
<1>. QED
  BY <1>2, LedgerStutter

\* A note at or after the checkpoint becomes a TXO. If it takes the place of
\* another, that is contested.
LEMMA LedgerCommitment ==
    ASSUME IInv, AloneInv, NEW p \in Syncer, ImportCommitment(p)
    PROVE  UNCHANGED Ledger!ledgerVars
<1>. DEFINE o == op[p]
<1>1. UNCHANGED <<chainVars, txidTree, checkpoint, skipped>>
  BY DEF ImportCommitment
<1>2. o.pc = "commitments" /\ o.pc \in Import /\ o.todo \subseteq o.logs
      /\ rows \in [Store -> SUBSET Row] /\ spent \in [Received -> 0 .. MaxBlock]
  BY CallOf DEF ImportCommitment, CallInv, CallBut, HeldInv, HeldBut, Import, Loops, IInv, IInvBut, TypeInv, TypeOK
<1>3. PICK r \in o.todo :
        \/ /\ r.event \in Received
           /\ rows' = [rows EXCEPT !.txos = Upsert("txos", {r})]
           /\ spent' = [spent EXCEPT ![r.event] = 0]
        \/ /\ rows' = [rows EXCEPT !.poiEvents = @ \cup {r}] \/ UNCHANGED rows
           /\ UNCHANGED spent
  BY DEF ImportCommitment, ImportNote
<1>4. CASE UNCHANGED spent /\ (rows' = [rows EXCEPT !.poiEvents = @ \cup {r}] \/ UNCHANGED rows)
  <2>1. rows'.txos = rows.txos
    BY <1>2, <1>4, StoreNames
  <2>. QED
    BY <1>1, <1>4, <2>1, StepElsewhere
<1>5. CASE /\ r.event \in Received
           /\ rows' = [rows EXCEPT !.txos = Upsert("txos", {r})]
           /\ spent' = [spent EXCEPT ![r.event] = 0]
  <2>1. /\ r \in Row /\ r.event \in chain[r.block] /\ r.block \in Block
        /\ VersionOf[r.event] \in Version
        /\ checkpoint[VersionOf[r.event]] <= r.block
    BY <1>2, ChunkRow
  <2>2. r \in FinalRows
    BY <1>2, ChunkFinal DEF IInv
  <2>3. ~ r.block < checkpoint[VersionOf[r.event]]
    BY <2>1, ChainAssumption DEF IInv, IInvBut, TypeInv, TypeOK, Block
  <2>4. ASSUME NEW v \in Version, NEW x, x.event \notin Contested
        PROVE  x \in Below(v)' <=> x \in Below(v)
    <3>1. rows'.txos = {q \in rows.txos : ~ SameKey("txos", r.event, q.event)} \cup {r}
      BY <1>2, <1>5, StoreNames DEF Upsert
    <3>2. ASSUME x \in rows.txos, SameKey("txos", r.event, x.event) PROVE x = r
      <4>1. x \in Row /\ x.event \in Received /\ x.event \in chain[x.block]
        BY <3>2, StoreNames DEF IInv, IInvBut, NoPhantomRows, TypeInv, TypeOK
      <4>2. x.event = r.event
        BY <1>5, <2>2, <2>4, <3>2, <4>1 DEF SameKey, Contested
      <4>. QED
        BY <2>1, <4>1, <4>2, OneBlock
    <3>3. r \notin Below(v) /\ r \notin Below(v)'
      BY <1>1, <2>3 DEF Below
    <3>4. x # r => (x \in rows'.txos <=> x \in rows.txos)
      BY <3>1, <3>2
    <3>. QED
      BY <1>1, <3>3, <3>4 DEF Below
  <2>5. ASSUME NEW v \in Version, NEW x \in Below(v)
        PROVE  spent'[x.event] = spent[x.event]
    <3>1. /\ x \in Row /\ x.event \in Received /\ x.event \in chain[x.block]
          /\ VersionOf[x.event] = v /\ x.block < checkpoint[v]
      BY <2>5, BelowRow
    <3>2. x.event # r.event
      BY <2>1, <2>3, <3>1, OneBlock
    <3>. QED
      BY <1>2, <1>5, <3>1, <3>2
  <2>6. Balance' = Balance
    BY <1>1, <2>4, <2>5, BalanceKept
  <2>. QED
    BY <1>1, <2>6, LedgerStutter
<1>. QED
  BY <1>3, <1>4, <1>5

\* A spend at or after the checkpoint is marked: the note counts as unspent below
\* it before and after.
LEMMA LedgerMark ==
    ASSUME IInv, AloneInv, NEW p \in Syncer, MarkSpent(p)
    PROVE  UNCHANGED Ledger!ledgerVars
<1>. DEFINE o == op[p]
<1>1. UNCHANGED <<chainVars, rows, checkpoint, skipped>>
  BY DEF MarkSpent
<1>2. o.pc = "marks" /\ o.pc \in Import /\ o.todo \subseteq o.logs /\ CallType(o)
      /\ spent \in [Received -> 0 .. MaxBlock]
      /\ checkpoint \in [Version -> 0 .. MaxBlock + 1]
  BY CallOf DEF MarkSpent, CallInv, CallBut, HeldInv, HeldBut, Import, Loops, IInv, IInvBut, TypeInv, TypeOK
<1>3. PICK r \in o.todo :
        spent' = [c \in Received |-> IF c \in NotesMarked(r) THEN r.block ELSE spent[c]]
  BY DEF MarkSpent, Mark
<1>4. /\ r \in Row /\ r.event \in chain[r.block] /\ r.block \in Block
      /\ checkpoint[VersionOf[r.event]] <= r.block
      /\ r.event \in Nullifier /\ r \in FinalRows
  BY <1>2, ChunkRow, ChunkFinal DEF CallType, TodoKind, Loops, LoopOver, IInv
<1>5. \A v \in Version : Below(v)' = Below(v)
  BY <1>1 DEF Below
<1>6. ASSUME NEW v \in Version, NEW x \in Below(v), x.event \notin Contested
      PROVE  spent'[x.event] \in 1 .. checkpoint[v] - 1
                 <=> spent[x.event] \in 1 .. checkpoint[v] - 1
  <2>1. x.event \in Received /\ VersionOf[x.event] = v
    BY <1>6, BelowRow
  <2>2. CASE x.event \notin NotesMarked(r)
    BY <1>3, <2>1, <2>2
  <2>3. CASE x.event \in NotesMarked(r)
    <3>1. Spends[r.event] = x.event
      BY <1>4, <1>6, <2>1, <2>3 DEF NotesMarked, Contested
    <3>2. checkpoint[v] <= r.block
      BY <1>4, <2>1, <3>1, NullifierAssumption
    <3>3. r.block \in Int /\ checkpoint[v] \in Int
      BY <1>2, <1>4, ChainAssumption DEF Block
    <3>4. spent'[x.event] = r.block
      BY <1>3, <2>1, <2>3
    <3>5. r.block \notin 1 .. checkpoint[v] - 1
      BY ONLY <3>2, <3>3
    <3>6. spent[x.event] # 0 => spent[x.event] = r.block
      <4>. SUFFICES ASSUME spent[x.event] # 0 PROVE spent[x.event] = r.block
        OBVIOUS
      <4>1. PICK n \in Row : /\ n.event \in Nullifier /\ Spends[n.event] = x.event
                             /\ n.block = spent[x.event]
                             /\ n.event \in chain[n.block]
        BY <1>6, <2>1, SpendOf
      <4>2. n = r
        BY <1>4, <3>1, <4>1, NullifierAssumption, OneBlock
      <4>. QED
        BY <4>1, <4>2
    <3>7. spent[x.event] \notin 1 .. checkpoint[v] - 1
      BY <3>3, <3>5, <3>6
    <3>. QED
      BY <3>4, <3>5, <3>7
  <2>. QED
    BY <2>2, <2>3
<1>7. Balance' = Balance
  BY <1>1, <1>5, <1>6, BalanceKept
<1>. QED
  BY <1>1, <1>7, LedgerStutter

LEMMA LedgerMiss ==
    ASSUME IInv, AloneInv, NEW p \in Syncer, MarkSpentFails(p)
    PROVE  Ledger!Miss
<1>1. UNCHANGED <<chainVars, rows, spent, checkpoint>>
  BY DEF MarkSpentFails, storeVars
<1>2. op[p].pc = "marks" /\ CallType(op[p])
  BY CallOf DEF MarkSpentFails
<1>3. PICK r \in op[p].todo : skipped' = skipped \cup {r.event}
  BY DEF MarkSpentFails
<1>4. r.event \in Nullifier
  BY <1>2, <1>3 DEF CallType, TodoKind, Loops, LoopOver
<1>5. FinalRows' = FinalRows /\ Cursor' = Cursor /\ Balance' = Balance
  BY <1>1, ContestedSame DEF Cursor, StartBlock, Balance, Below
<1>. QED
  BY <1>3, <1>4, <1>5 DEF Ledger!Miss

\* The chain grows: what becomes final is not below a checkpoint. The notes it
\* contests leave the balance.
LEMMA LedgerFinalize ==
    ASSUME IInv, Environment
    PROVE  Ledger!Finalize
<1>1. UNCHANGED <<storeVars, op, skipped>>
  BY DEF Environment
<1>2. StableStep
  BY EnvironmentStable DEF IInv, IInvBut
<1>3. /\ \A b \in Block : b <= Finalized => chain'[b] = chain[b]
      /\ Finalized \in Int /\ Finalized' \in Int /\ Finalized <= Finalized'
  BY <1>2 DEF StableStep
<1>4. FinalRows \subseteq FinalRows'
  BY <1>3, RowType DEF FinalRows
<1>5. ASSUME NEW r \in FinalRows' \ FinalRows
      PROVE  r.block >= Cursor[VersionOf[r.event]]
  <2>1. r \in Row /\ r.event \in chain'[r.block] /\ r \notin FinalRows
    BY <1>5 DEF FinalRows
  <2>2. r.block \in Block /\ r.block \in Int /\ r.block >= 1
    BY <2>1, RowType
  <2>3. ~ r.block <= Finalized
    BY <1>3, <2>1, <2>2 DEF FinalRows
  <2>4. PICK v \in Version : v = VersionOf[r.event]
    BY <2>1, ChainAssumption DEF Row
  <2>5. checkpoint[v] - 1 <= Finalized \/ checkpoint[v] <= 1
    BY DEF IInv, IInvBut, Indexed, IndexedBut
  <2>6. checkpoint[v] \in Int
    BY ChainAssumption DEF IInv, IInvBut, TypeInv, TypeOK
  <2>7. Cursor[v] = StartBlock(checkpoint[v])
    BY DEF Cursor
  <2>. QED
    BY <1>3, <2>2, <2>3, <2>4, <2>5, <2>6, <2>7 DEF StartBlock
<1>6. Cursor' = Cursor
  BY <1>1 DEF Cursor, StartBlock, storeVars
<1>7. Balance' = [v \in Version |-> Balance[v] \ Ledger!Contested(FinalRows')]
  <2>1. Ledger!Contested(FinalRows') = Contested'
    BY DEF Ledger!Contested, Contested
  <2>2. Contested \subseteq Contested'
    BY <1>2, ContestedStable
  <2>. QED
    BY <1>1, <2>1, <2>2 DEF Balance, Below, storeVars
<1>. QED
  BY <1>1, <1>4, <1>5, <1>6, <1>7 DEF Ledger!Finalize

\* The checkpoint is saved: the cursor of the version moves on, and the balance
\* with it.
LEMMA LedgerAdvance ==
    ASSUME IInv, AloneInv, BalanceIsUnspent', NEW p \in Syncer, SaveCheckpoint(p)
    PROVE  Ledger!Next
<1>1. UNCHANGED <<chainVars, rows, spent, skipped>>
  BY DEF SaveCheckpoint
<1>2. PICK v, k : v = op[p].queue[1] /\ k = op[p].chunkTo
  OBVIOUS
<1>3. /\ v \in Version /\ k \in Block
      /\ op[p].from = StartBlock(checkpoint[v]) /\ op[p].from <= k
      /\ checkpoint' = [checkpoint EXCEPT ![v] = k + 1]
      /\ checkpoint'[v] = k + 1
  BY <1>2, SavedRows
<1>4. k \in Int /\ k + 1 # 0 /\ op[p].from \in Int
      /\ checkpoint \in [Version -> 0 .. MaxBlock + 1]
  <2>1. k \in Int /\ k + 1 # 0
    BY <1>3, ChainAssumption DEF Block
  <2>2. checkpoint \in [Version -> 0 .. MaxBlock + 1]
    BY DEF IInv, IInvBut, TypeInv, TypeOK
  <2>3. checkpoint[v] \in Int
    BY <1>3, <2>2, ChainAssumption
  <2>4. op[p].from \in Int
    BY <1>3, <2>3 DEF StartBlock
  <2>. QED
    BY <2>1, <2>2, <2>4
<1>5. \A w \in Version : w # v => checkpoint'[w] = checkpoint[w]
  BY <1>3, <1>4
<1>6. k + 1 > Cursor[v]
  BY <1>3, <1>4 DEF Cursor
<1>7. Cursor' = [Cursor EXCEPT ![v] = k + 1]
  BY <1>3, <1>4, <1>5 DEF Cursor, StartBlock
<1>8. PICK ignored \in SUBSET skipped' :
        Balance'[v] = Ledger!Unspent(v, checkpoint[v], ignored)'
  BY <1>3, <1>4 DEF BalanceIsUnspent
<1>9. FinalRows' = FinalRows /\ Contested' = Contested
  BY <1>1, ContestedSame
<1>10. Balance'[v] = Ledger!Unspent(v, k + 1, ignored)
  BY <1>3, <1>8, <1>9 DEF Ledger!Unspent, Ledger!Before, Ledger!Contested
<1>11. Balance' = [Balance EXCEPT ![v] = Ledger!Unspent(v, k + 1, ignored)]
  <2>1. \A w \in Version : w # v => Balance'[w] = Balance[w]
    BY <1>1, <1>5, <1>9 DEF Balance, Below
  <2>2. Balance' = [w \in Version |-> Balance'[w]]
        /\ Balance = [w \in Version |-> Balance[w]]
    BY DEF Balance
  <2>. QED
    BY <1>10, <2>1, <2>2
<1>12. Ledger!Advance(v)
  BY <1>1, <1>3, <1>6, <1>7, <1>9, <1>11 DEF Ledger!Advance
<1>. QED
  BY <1>3, <1>12 DEF Ledger!Next

LEMMA LedgerNext ==
    ASSUME IInv, AloneInv, BalanceIsUnspent', [Next]_vars
    PROVE  [Ledger!Next]_(Ledger!ledgerVars)
<1>1. CASE UNCHANGED vars
  BY <1>1, StepElsewhere DEF vars, storeVars
<1>2. CASE Environment
  BY <1>2, LedgerFinalize DEF Ledger!Next
<1>3. CASE Crash
  BY <1>3, StepElsewhere DEF Crash, storeVars
<1>4. ASSUME NEW p \in Syncer,
             \/ BeginSync(p) \/ LoadCheckpoint(p) \/ ReadHead(p) \/ FetchLogs(p)
             \/ ReadPosition(p) \/ WriteLeaf(p) \/ EndLoop(p) \/ ReadCheckpoints(p)
             \/ Abort(p)
      PROVE  UNCHANGED Ledger!ledgerVars
  <2>1. UNCHANGED <<chainVars, rows, spent, checkpoint, skipped>>
    BY <1>4 DEF BeginSync, LoadCheckpoint, ReadHead, FetchLogs, ReadPosition, WriteLeaf,
                EndLoop, ReadCheckpoints, Abort, storeVars
  <2>. QED
    BY <2>1, StepElsewhere
<1>5. ASSUME NEW p \in Syncer,
             \/ IndexLeaves(p) \/ IndexNullifiers(p) \/ IndexUnshields(p)
             \/ StoreTransaction(p) \/ StoreUnshieldPOI(p)
      PROVE  UNCHANGED Ledger!ledgerVars
  <2>1. UNCHANGED <<chainVars, spent, checkpoint, skipped>>
    BY <1>5 DEF IndexLeaves, IndexNullifiers, IndexUnshields, StoreTransaction,
                StoreUnshieldPOI
  <2>2. rows \in [Store -> SUBSET Row]
    BY DEF IInv, IInvBut, TypeInv, TypeOK
  <2>3. rows'.txos = rows.txos
    BY <1>5, <2>2, StoreNames
       DEF IndexLeaves, IndexNullifiers, IndexUnshields, StoreTransaction,
           StoreUnshieldPOI
  <2>. QED
    BY <2>1, <2>3, StepElsewhere
<1>6. ASSUME NEW p \in Syncer, ImportCommitment(p) \/ MarkSpent(p)
      PROVE  UNCHANGED Ledger!ledgerVars
  BY <1>6, LedgerCommitment, LedgerMark
<1>7. ASSUME NEW p \in Syncer, MarkSpentFails(p) PROVE Ledger!Next
  BY <1>7, LedgerMiss DEF Ledger!Next
<1>8. ASSUME NEW p \in Syncer, SaveCheckpoint(p) PROVE Ledger!Next
  BY <1>8, LedgerAdvance
<1>. QED
  BY <1>1, <1>2, <1>3, <1>4, <1>5, <1>6, <1>7, <1>8
     DEF Next, SyncNext, Progress, ImportStep

\* One Sync at a time: what the stores show below the checkpoints moves as the
\* ledger's balance does, whatever the calls die of between two writes.
THEOREM LedgerImplemented == OneSyncer /\ Spec => ImplementsLedgerBalance
<1>1. Init => Ledger!Init
  BY LedgerInit
<1>2. IInv /\ AloneInv /\ BalanceIsUnspent' /\ [Next]_vars
        => [Ledger!Next]_(Ledger!ledgerVars)
  BY LedgerNext
<1>3. IInv /\ AloneInv => BalanceIsUnspent
  BY BalanceInv
<1>. QED
  BY <1>1, <1>2, <1>3, AloneInductive, PTL DEF Spec, ImplementsLedgerBalance, Ledger!Spec

=============================================================================
