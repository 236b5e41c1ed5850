----------------------------- MODULE WalletSync -----------------------------
(***************************************************************************)
(* Checkpointed sync of a wallet session (pkg/wallet/sync.go, importer.go):*)
(* for each active TXID version, the finalized blocks after the saved      *)
(* checkpoint are fetched chunk by chunk; a chunk's events are written to  *)
(* the session's stores one after the other, and the checkpoint is saved   *)
(* last. Every store write is atomic (a Pebble batch, a file replaced by   *)
(* rename) and survives a crash; nothing makes two of them atomic          *)
(* together. Several calls of Sync on one session may overlap.             *)
(***************************************************************************)
EXTENDS RailgunChain, Sequences

CONSTANTS
    Syncer,          \* callers of Sync on the session
    ActiveVersions,  \* the session's TXID versions, in sync order
    ChunkSize,       \* CheckpointedScan.ChunkSize (0: one chunk)
    Width,           \* number of values of a block number (2^64 in the code)
    MaxLeaves,       \* bound: leaves the TXID tree may come to hold
    MaxFaults        \* bound: crashes and failing calls

ASSUME SyncAssumption ==
    /\ ActiveVersions \in Seq(Version)
    /\ ActiveVersions # <<>>
    /\ ChunkSize \in Nat
    /\ Width \in Nat /\ MaxBlock + 1 < Width
    /\ MaxLeaves \in Nat
    /\ MaxFaults \in Nat

VARIABLES
    rows,       \* store -> the rows it persists
    spent,      \* TXO -> its SpendBlockNumber (0: unspent)
    txidTree,   \* leaves of the TXID Merkle tree
    checkpoint, \* version -> ScanCheckpoint.NextBlock (0: no checkpoint)
    displaced,  \* history: store -> the events whose row another event's row has
                \*   taken the place of or kept out; "marks": the notes that another
                \*   note's nullifier has marked
    op,         \* syncer -> the Sync call it is in
    skipped,    \* history: nullifiers whose mark failed and was only counted
    faults      \* history: crashes and failing calls so far

storeVars == <<rows, spent, txidTree, checkpoint, displaced>>
vars == <<chainVars, storeVars, op, skipped, faults>>

-----------------------------------------------------------------------------
(* The stores. *)

Received == {c \in Commitment : Owner[c] = "received"}
Sent     == {c \in Commitment : Owner[c] = "sent"}

\* The rows of an event that each store keeps.
Keeps ==
    [leaves       |-> Commitment,
     commitments  |-> Commitment,
     nullifiers   |-> Nullifier,
     unshields    |-> Unshield,
     transactions |-> RailgunTx,
     poiEvents    |-> Unshield \cup Sent,
     txos         |-> Received]
Store == DOMAIN Keeps

Of(kind, logs) == {r \in logs : r.event \in kind}

\* The rows of two events have one key in store s. Leaves are keyed by tree and
\* index, nullifiers by tree and nullifier, unshields by transaction and log,
\* TXOs by the nullifier of the note's global position: none of them by the
\* version, which is in the key of a commitment.
SameKey(s, e, f) ==
    \/ e = f
    \/ /\ KeyOf[e] = KeyOf[f]
       /\ \/ s \in {"leaves", "nullifiers", "unshields", "txos"}
          \/ s = "commitments" /\ VersionOf[e] = VersionOf[f]

\* Rows of two events that cannot both be in store s.
Rivals(s, q, r) == q.event # r.event /\ SameKey(s, q.event, r.event)

\* A new row replaces the one that has its key.
Upsert(s, new) ==
    {r \in rows[s] : \A n \in new : ~ SameKey(s, n.event, r.event)} \cup new

\* The events whose rows that replaces by the row of another.
Replaced(s, new) ==
    {r.event : r \in {r \in rows[s] : \E n \in new : Rivals(s, n, r)}}

\* UpsertUnshieldEvents with replaceExisting = false: a row whose key is held is
\* kept out; of several new ones with one key, one is written.
InsertNew(s, new) ==
    {table \in {rows[s] \cup part : part \in SUBSET new} :
        /\ \A n \in table \ rows[s], q \in table :
              SameKey(s, q.event, n.event) => q = n
        /\ \A n \in new : \E q \in table : SameKey(s, q.event, n.event)}

\* The events whose rows are kept out by the row of another.
Refused(s, table, new) ==
    {n.event : n \in {n \in new : \E q \in table : Rivals(s, q, n)}}

\* Mutant of IsNextPosition: an empty tree is not special-cased.
IsNextPositionFromOne(tree, i) ==
    /\ \A l \in tree : l.position < i
    /\ i = 1 \/ \E l \in tree : l.position = i - 1

\* NextMerkleTreePosition: one past the greatest position in use.
IsNextPosition(tree, i) ==
    /\ \A l \in tree : l.position < i
    /\ i = 0 \/ \E l \in tree : l.position = i - 1

-----------------------------------------------------------------------------
(* A Sync call. *)

Batches == {"leaves", "nullifiers", "unshields"}
Loops   == {"transactions", "unshieldPOI", "commitments", "marks"}
Import  == Batches \cup Loops \cup {"position", "leaf", "save"}
PC      == {"idle", "start", "head", "fetch"} \cup Import

\* The locals of a call: the versions left to sync, the first block of the
\* current chunk, the last block of the scan and of the chunk, the chunk's
\* events, those the current loop has left, the transaction whose leaf is
\* appended and the position read for it, and the checkpoint file as read.
Idle == [pc |-> "idle", queue |-> <<>>, from |-> 1, to |-> 0, chunkTo |-> 0,
         logs |-> {}, todo |-> {}, current |-> {}, position |-> 0,
         file |-> [v \in Version |-> 0]]

\* The version the call of p is syncing.
Syncing(p) == op[p].queue[1]

\* The call goes on with the next active version, or returns.
NextVersion(o) ==
    IF Len(o.queue) = 1
      THEN Idle
      ELSE [Idle EXCEPT !.pc = "start", !.queue = Tail(o.queue)]

\* syncStartBlock: the block a checkpoint names, or the first one.
StartBlock(next) == IF next # 0 THEN next ELSE 1

\* Mutant of Confirmed: the guard against an underflow is missing.
ConfirmedAlways == TRUE

Confirmed == head >= Confirmations

\* Mutant of ConfirmedHead: the confirmations are ignored.
ConfirmedHeadLatest == head

\* syncFinalizedToBlock: latest - confirmations, an unsigned subtraction.
ConfirmedHead ==
    IF head < Confirmations THEN Width + head - Confirmations ELSE head - Confirmations

\* Mutant of NextBlock: the end of the scan instead of the end of the chunk.
NextBlockOfScan(o) == o.to + 1

\* The checkpoint saved after a chunk.
NextBlock(o) == o.chunkTo + 1

\* scanLogChunks: the last block of the chunk that starts at from, in
\* block numbers that wrap around.
ChunkEnd(from, to) ==
    LET end == (from + ChunkSize - 1) % Width IN
    IF ChunkSize = 0 \/ end < from \/ end > to THEN to ELSE end

\* The kind of event each loop of the import runs over, and the loop after it.
LoopOver ==
    [transactions |-> RailgunTx,
     unshieldPOI  |-> Unshield,
     commitments  |-> Commitment,
     marks        |-> Nullifier]
LoopAfter ==
    [transactions |-> "unshieldPOI",
     unshieldPOI  |-> "commitments",
     commitments  |-> "marks"]

EnterLoop(o, loop) ==
    [o EXCEPT !.pc = loop, !.todo = Of(LoopOver[loop], o.logs)]

Done(o, r) == [o EXCEPT !.todo = @ \ {r}]

Call == [pc       : PC,
         queue    : Seq(Version),
         from     : 1 .. MaxBlock + 1,
         to       : 0 .. MaxBlock,
         chunkTo  : 0 .. MaxBlock,
         logs     : SUBSET Row,
         todo     : SUBSET Row,
         current  : SUBSET Row,
         position : 0 .. MaxLeaves,
         file     : [Version -> 0 .. MaxBlock + 1]]

\* The shape of the state: block numbers and chunk ends never wrap
\* (syncFinalizedToBlock, scanLogChunks).
TypeOK ==
    /\ ChainTypeOK
    /\ rows \in [Store -> SUBSET Row]
    /\ spent \in [Received -> 0 .. MaxBlock]
    /\ txidTree \subseteq [position : 0 .. MaxLeaves, row : Row]
    /\ checkpoint \in [Version -> 0 .. MaxBlock + 1]
    /\ displaced \in [Store \cup {"marks"} -> SUBSET Event]
    /\ op \in [Syncer -> Call]
    /\ skipped \subseteq Nullifier
    /\ faults \in 0 .. MaxFaults

Init ==
    /\ ChainInit
    /\ rows = [s \in Store |-> {}]
    /\ spent = [c \in Received |-> 0]
    /\ txidTree = {}
    /\ checkpoint = [v \in Version |-> 0]
    /\ displaced = [s \in Store \cup {"marks"} |-> {}]
    /\ op = [p \in Syncer |-> Idle]
    /\ skipped = {}
    /\ faults = 0

-----------------------------------------------------------------------------
(* From the call of Sync to the logs of a chunk.                           *)

\* Engine.SyncActiveTXIDVersions: the versions are synced one after the other.
BeginSync(p) ==
    /\ op[p].pc = "idle"
    /\ op' = [op EXCEPT ![p] = [Idle EXCEPT !.pc = "start",
                                            !.queue = ActiveVersions]]
    /\ UNCHANGED <<chainVars, storeVars, skipped, faults>>

\* syncStartBlock: the version's checkpoint, or its first block.
LoadCheckpoint(p) ==
    /\ op[p].pc = "start"
    /\ op' = [op EXCEPT ![p].pc = "head",
                        ![p].from = StartBlock(checkpoint[Syncing(p)])]
    /\ UNCHANGED <<chainVars, storeVars, skipped, faults>>

\* syncFinalizedToBlock: nothing to do unless a confirmed block is left.
ReadHead(p) ==
    /\ op[p].pc = "head"
    /\ op' = [op EXCEPT ![p] =
                IF ~Confirmed \/ ConfirmedHead < op[p].from
                  THEN NextVersion(@)
                  ELSE [@ EXCEPT !.pc = "fetch", !.to = ConfirmedHead]]
    /\ UNCHANGED <<chainVars, storeVars, skipped, faults>>

FetchLogs(p) ==
    /\ op[p].pc = "fetch"
    /\ LET end == ChunkEnd(op[p].from, op[p].to) IN
       op' = [op EXCEPT ![p].pc = "leaves",
                        ![p].chunkTo = end,
                        ![p].logs = LogsIn(Syncing(p), op[p].from, end)]
    /\ UNCHANGED <<chainVars, storeVars, skipped, faults>>

-----------------------------------------------------------------------------
(* The import of a chunk. The loops run over the events in log order; any  *)
(* order stands for it, since the model does not order a block's events.   *)

\* IndexV2CommitmentEvents, IndexV3CommitmentEvents: leaves and commitments
\* in one batch.
IndexLeaves(p) ==
    /\ op[p].pc = "leaves"
    /\ LET new == Of(Commitment, op[p].logs) IN
       /\ rows' = [rows EXCEPT !.leaves = Upsert("leaves", new),
                               !.commitments = Upsert("commitments", new)]
       /\ displaced' =
             [displaced EXCEPT !.leaves = @ \cup Replaced("leaves", new),
                               !.commitments = @ \cup Replaced("commitments", new)]
    /\ op' = [op EXCEPT ![p].pc = "nullifiers"]
    /\ UNCHANGED <<chainVars, spent, txidTree, checkpoint, skipped, faults>>

\* Mutant of IndexNullifiers: the tree store is taken for one without
\* nullifiers.
IndexNullifiersNone(p) ==
    /\ op[p].pc = "nullifiers"
    /\ op' = [op EXCEPT ![p].pc = "unshields"]
    /\ UNCHANGED <<chainVars, storeVars, skipped, faults>>

IndexNullifiers(p) ==
    /\ op[p].pc = "nullifiers"
    /\ LET new == Of(Nullifier, op[p].logs) IN
       /\ rows' = [rows EXCEPT !.nullifiers = Upsert("nullifiers", new)]
       /\ displaced' = [displaced EXCEPT !.nullifiers =
                           @ \cup Replaced("nullifiers", new)]
    /\ op' = [op EXCEPT ![p].pc = "unshields"]
    /\ UNCHANGED <<chainVars, spent, txidTree, checkpoint, skipped, faults>>

IndexUnshields(p) ==
    /\ op[p].pc = "unshields"
    /\ LET new == Of(Unshield, op[p].logs) IN
       \E table \in InsertNew("unshields", new) :
          /\ rows' = [rows EXCEPT !.unshields = table]
          /\ displaced' = [displaced EXCEPT !.unshields =
                              @ \cup Refused("unshields", table, new)]
    /\ op' = [op EXCEPT ![p] = EnterLoop(@, "transactions")]
    /\ UNCHANGED <<chainVars, spent, txidTree, checkpoint, skipped, faults>>

\* V3 only: no railgun transaction is in the logs of V2.
StoreTransaction(p) ==
    /\ op[p].pc = "transactions"
    /\ \E r \in op[p].todo :
          /\ rows' = [rows EXCEPT !.transactions = Upsert("transactions", {r})]
          /\ op' = [op EXCEPT ![p] = [Done(@, r) EXCEPT !.pc = "position",
                                                        !.current = {r}]]
    /\ UNCHANGED <<chainVars, spent, txidTree, checkpoint, displaced, skipped, faults>>

\* AppendTransactionLeaf: the leaf goes to the next free position, whether or
\* not the transaction has a leaf already. The position is read in one call of
\* the store and the leaf written in another.
ReadPosition(p) ==
    /\ op[p].pc = "position"
    /\ \E i \in 0 .. MaxLeaves - 1 :
          /\ IsNextPosition(txidTree, i)
          /\ op' = [op EXCEPT ![p].pc = "leaf", ![p].position = i]
    /\ UNCHANGED <<chainVars, storeVars, skipped, faults>>

WriteLeaf(p) ==
    /\ op[p].pc = "leaf"
    /\ \E r \in op[p].current :
          txidTree' = {l \in txidTree : l.position # op[p].position}
                        \cup {[position |-> op[p].position, row |-> r]}
    /\ op' = [op EXCEPT ![p].pc = "transactions", ![p].current = {},
                        ![p].position = 0]
    /\ UNCHANGED <<chainVars, rows, spent, checkpoint, displaced, skipped, faults>>

StoreUnshieldPOI(p) ==
    /\ op[p].pc = "unshieldPOI"
    /\ \E r \in op[p].todo :
          /\ rows' = [rows EXCEPT !.poiEvents = @ \cup {r}]
          /\ op' = [op EXCEPT ![p] = Done(@, r)]
    /\ UNCHANGED <<chainVars, spent, txidTree, checkpoint, displaced, skipped, faults>>

\* Store.UpsertTXO of a received note: without the spend and the POI status of
\* the record whose place it takes.
ImportNote(r) ==
    /\ rows' = [rows EXCEPT !.txos = Upsert("txos", {r})]
    /\ displaced' = [displaced EXCEPT !.txos = @ \cup Replaced("txos", {r})]
    /\ spent' = [spent EXCEPT ![r.event] = 0]

\* A commitment this wallet received becomes a TXO; one it sent becomes a POI
\* event; any other is skipped.
ImportCommitment(p) ==
    /\ op[p].pc = "commitments"
    /\ \E r \in op[p].todo :
          /\ \/ /\ r.event \in Received
                /\ ImportNote(r)
             \/ /\ r.event \in Sent
                /\ rows' = [rows EXCEPT !.poiEvents = @ \cup {r}]
                /\ UNCHANGED <<spent, displaced>>
             \/ /\ r.event \notin Received \cup Sent
                /\ UNCHANGED <<rows, spent, displaced>>
          /\ op' = [op EXCEPT ![p] = Done(@, r)]
    /\ UNCHANGED <<chainVars, txidTree, checkpoint, skipped, faults>>

\* Mutant of NotesMarked: a note is taken to be spent in a later block than
\* its own.
NotesMarkedBefore(r) ==
    {t.event : t \in {t \in rows.txos :
        /\ Spends[r.event] \in Received
        /\ KeyOf[t.event] = MarkedKey[r.event]
        /\ t.block < r.block}}

\* The notes whose record has the nullifier that the spend of one of this
\* wallet's notes reveals. (Another wallet's nullifiers are none of these.)
NotesMarked(r) ==
    {t.event : t \in {t \in rows.txos :
        /\ Spends[r.event] \in Received
        /\ KeyOf[t.event] = MarkedKey[r.event]}}

\* The wallet holds a note for the nullifier.
Held(r) == NotesMarked(r) # {}

\* Store.MarkTXOSpent, by the nullifier: whichever note it finds.
Mark(r) ==
    /\ spent' = [c \in Received |-> IF c \in NotesMarked(r) THEN r.block ELSE spent[c]]
    /\ displaced' = [displaced EXCEPT !.marks = @ \cup (NotesMarked(r) \ {Spends[r.event]})]

\* markNullifiersSpent: a nullifier of a note the wallet does not hold is
\* counted as skipped, with no other effect.
MarkSpent(p) ==
    /\ op[p].pc = "marks"
    /\ \E r \in op[p].todo :
          /\ Mark(r)
          /\ op' = [op EXCEPT ![p] = Done(@, r)]
    /\ UNCHANGED <<chainVars, rows, txidTree, checkpoint, skipped, faults>>

\* markNullifiersSpent when the store fails to write: counted as skipped as
\* well, and the import goes on.
MarkSpentFails(p) ==
    /\ op[p].pc = "marks"
    /\ faults < MaxFaults
    /\ \E r \in op[p].todo :
          /\ Held(r)
          /\ skipped' = skipped \cup {r.event}
          /\ op' = [op EXCEPT ![p] = Done(@, r)]
    /\ faults' = faults + 1
    /\ UNCHANGED <<chainVars, storeVars>>

EndLoop(p) ==
    /\ op[p].pc \in DOMAIN LoopAfter
    /\ op[p].todo = {}
    /\ op' = [op EXCEPT ![p] = EnterLoop(@, LoopAfter[@.pc])]
    /\ UNCHANGED <<chainVars, storeVars, skipped, faults>>

\* FileCheckpointStore.SaveCheckpoint after the import of a chunk: the file is
\* read whole ...
ReadCheckpoints(p) ==
    /\ op[p].pc = "marks"
    /\ op[p].todo = {}
    /\ op' = [op EXCEPT ![p].pc = "save", ![p].file = checkpoint]
    /\ UNCHANGED <<chainVars, storeVars, skipped, faults>>

\* ... and written whole, with the version's entry set; then the next chunk is
\* fetched or the version is finished.
SaveCheckpoint(p) ==
    /\ op[p].pc = "save"
    /\ checkpoint' = [op[p].file EXCEPT ![Syncing(p)] = NextBlock(op[p])]
    /\ op' = [op EXCEPT ![p] =
                IF @.chunkTo = @.to
                  THEN NextVersion(@)
                  ELSE [Idle EXCEPT !.pc = "fetch",
                                    !.queue = op[p].queue,
                                    !.from = op[p].chunkTo + 1,
                                    !.to = op[p].to]]
    /\ UNCHANGED <<chainVars, rows, spent, txidTree, displaced, skipped, faults>>

-----------------------------------------------------------------------------
(* Failures.                                                               *)

\* A provider or store call returns an error, or the context is cancelled:
\* Sync returns the error and keeps nothing of its own.
Abort(p) ==
    /\ op[p].pc # "idle"
    /\ faults < MaxFaults
    /\ op' = [op EXCEPT ![p] = Idle]
    /\ faults' = faults + 1
    /\ UNCHANGED <<chainVars, storeVars, skipped>>

\* The process dies and is restarted over the same store directory.
Crash ==
    /\ \E p \in Syncer : op[p].pc # "idle"
    /\ faults < MaxFaults
    /\ op' = [p \in Syncer |-> Idle]
    /\ faults' = faults + 1
    /\ UNCHANGED <<chainVars, storeVars, skipped>>

-----------------------------------------------------------------------------

Environment ==
    /\ Mine \/ Reorg
    /\ UNCHANGED <<storeVars, op, skipped, faults>>

ImportStep(p) ==
    \/ IndexLeaves(p)
    \/ IndexNullifiers(p)
    \/ IndexUnshields(p)
    \/ StoreTransaction(p)
    \/ ReadPosition(p)
    \/ WriteLeaf(p)
    \/ StoreUnshieldPOI(p)
    \/ ImportCommitment(p)
    \/ MarkSpent(p)
    \/ EndLoop(p)
    \/ ReadCheckpoints(p)

\* What the call of p does next when no call it makes fails.
Progress(p) ==
    \/ LoadCheckpoint(p)
    \/ ReadHead(p)
    \/ FetchLogs(p)
    \/ ImportStep(p)
    \/ SaveCheckpoint(p)

SyncNext ==
    \E p \in Syncer :
        \/ BeginSync(p)
        \/ Progress(p)
        \/ MarkSpentFails(p)
        \/ Abort(p)

Next == SyncNext \/ Crash \/ Environment

Spec == Init /\ [][Next]_vars

\* The chain grows, the application calls Sync again and again, and a call
\* that runs makes progress.
Fairness ==
    /\ WF_vars(Mine /\ UNCHANGED <<storeVars, op, skipped, faults>>)
    /\ \A p \in Syncer : WF_vars(BeginSync(p)) /\ WF_vars(Progress(p))

FairSpec == Spec /\ Fairness

-----------------------------------------------------------------------------
(* Properties.                                                             *)

\* The rows that a store holds, or had to give up to the row of another event.
Written(s) == rows[s] \cup {r \in Row : r.event \in displaced[s]}

FinalRows == {r \in Row : r.block <= Finalized /\ r.event \in chain[r.block]}

\* SaveCheckpoint comes after every write of the chunk: whatever crashes,
\* errors and overlapping calls there are, an event below a version's
\* checkpoint is in every store that keeps its kind, unless the row of another
\* event has taken its place there, and such a row is in the store.
IndexedBelowCheckpoint ==
    \A v \in Version, s \in Store :
        \A r \in Of(Keeps[s], LogsIn(v, 1, checkpoint[v] - 1)) :
            \/ r \in rows[s]
            \/ r.event \in displaced[s] /\ \E q \in rows[s] : Rivals(s, q, r)

\* Sync stops at the latest block less the confirmations: no store ever holds
\* an event that is not on the final chain, in the block it is recorded at.
NoPhantomRows ==
    \A s \in Store : \A r \in rows[s] :
        /\ r.event \in Keeps[s]
        /\ r.block <= Finalized
        /\ r.event \in chain[r.block]

\* The import writes an index before what is derived from it: at every crash
\* point a TXO has its commitment indexed and a leaf at its position of the UTXO
\* tree, its own one until the other version takes the position; a note is
\* marked by a nullifier of a final block that is in the index, or has been, and
\* that the note's record matches; and a leaf of the TXID tree has its
\* transaction stored.
DerivedFromIndex ==
    /\ rows.txos \subseteq rows.commitments
    /\ \A t \in rows.txos :
          /\ t \in Written("leaves")
          /\ \E l \in rows.leaves : SameKey("leaves", l.event, t.event)
    /\ \A c \in Received : spent[c] # 0 =>
          \E r \in Written("nullifiers") \cap FinalRows :
             /\ r.event \in Nullifier /\ r.block = spent[c]
             /\ Spends[r.event] \in Received /\ MarkedKey[r.event] = KeyOf[c]
    /\ \A l \in txidTree : l.row \in rows.transactions

\* With one Sync at a time: a transaction below the V3 checkpoint has a leaf in
\* the TXID tree, and the tree's positions have no gap.
TxidLeafBelowCheckpoint ==
    /\ \A r \in Of(RailgunTx, LogsIn("V3", 1, checkpoint["V3"] - 1)) :
          \E l \in txidTree : l.row = r
    /\ \A l \in txidTree : l.position = 0 \/
          \E k \in txidTree : k.position = l.position - 1

\* Every finalized block is eventually below the checkpoint of every active
\* version, if it stays finalized for the head the provider reports.
EventuallySynced ==
    \A i \in DOMAIN ActiveVersions, b \in Block :
        <>[](b <= head - Confirmations) => <>(checkpoint[ActiveVersions[i]] > b)

\* What Sync promises: the wallet's balance at a checkpoint is the balance of
\* the ledger at that block.
Cursor == [v \in Version |-> StartBlock(checkpoint[v])]

Below(v) == {r \in rows.txos : VersionOf[r.event] = v /\ r.block < checkpoint[v]}

\* The notes that the stores cannot tell from others of the final ledger: the
\* record of a TXO goes by its global position in either version, and a spend
\* finds it by the position in the tree.
Contested ==
    {c \in Received : \E r \in FinalRows :
        \/ r.event \in Received \ {c} /\ KeyOf[r.event] = KeyOf[c]
        \/ /\ r.event \in Nullifier /\ Spends[r.event] \in Received
           /\ (MarkedKey[r.event] = KeyOf[c]) # (Spends[r.event] = c)}

Balance ==
    [v \in Version |->
        {r.event : r \in {r \in Below(v) : spent[r.event] \notin 1 .. checkpoint[v] - 1}}
            \ Contested]

Ledger == INSTANCE LedgerBalance WITH
    ledger <- FinalRows, cursor <- Cursor, balance <- Balance, missed <- skipped

\* With one Sync at a time, every step of the stores' contents is a step of
\* the ledger's balance: no crash or error between two store writes is ever
\* visible at a checkpoint, in the notes that are not contested.
ImplementsLedgerBalance == Ledger!Spec

-----------------------------------------------------------------------------
(* What docs/architecture.md:63 says of a Sync: "The seven backends are    *)
(* consistent with each other after every successful `Sync` chunk". The    *)
(* code does not keep it: TLC refutes both formulas when they are added to  *)
(* MCWalletSync.cfg.                                                       *)

\* The wallet state agrees with the nullifier index on the blocks of the
\* successful chunks: an indexed spend is marked on its TXO. Refuted by a store
\* error that markNullifiersSpent counts as a skip.
StateMatchesNullifiers ==
    \A v \in Version : \A r \in Of(Nullifier, LogsIn(v, 1, checkpoint[v] - 1)) :
        Spends[r.event] \in Received => spent[Spends[r.event]] = r.block

\* The TXID tree agrees with the TXID store on the blocks of the successful
\* chunks: a stored transaction has one leaf. Refuted by a chunk that is
\* imported again after a crash.
TxidTreeMatchesStore ==
    \A r \in Of(RailgunTx, LogsIn("V3", 1, checkpoint["V3"] - 1)) :
        Cardinality({l \in txidTree : l.row = r}) = 1

-----------------------------------------------------------------------------
(* The inductive invariant behind IndexedBelowCheckpoint, NoPhantomRows    *)
(* and DerivedFromIndex, for any number of overlapping calls. The rows of X *)
(* are those that the logs of a sync may lack (none over the log provider;  *)
(* QuickSync says which with an indexer).                                   *)

\* An event is in one block, the keys of a contract are used once, and the
\* final blocks are on the chain.
ChainInv ==
    /\ \A b, c \in Block : b # c => chain[b] \cap chain[c] = {}
    /\ KeysOnce(OnChain)
    /\ Finalized <= head /\ head <= peak

\* Every event of version v before block k is in every store of its kind, but
\* for rows of X.
IndexedBut(X, v, k) ==
    /\ k - 1 <= Finalized \/ k <= 1
    /\ \A s \in Store : Of(Keeps[s], LogsIn(v, 1, k - 1)) \subseteq Written(s) \cup X

\* What the calls have written of their chunks: all of the kinds whose turn is
\* over, and of the kind whose turn it is all but todo.
ChunkWritten(o) ==
    /\ o.pc # "leaves" =>
          Of(Commitment, o.logs) \subseteq Written("leaves") \cap Written("commitments")
    /\ o.pc \notin {"leaves", "nullifiers"} =>
          Of(Nullifier, o.logs) \subseteq Written("nullifiers")
    /\ o.pc \notin Batches => Of(Unshield, o.logs) \subseteq Written("unshields")
    /\ o.pc \in {"transactions", "position", "leaf"} =>
          Of(RailgunTx, o.logs) \subseteq Written("transactions") \cup o.todo
    /\ o.pc \in {"unshieldPOI", "commitments", "marks", "save"} =>
          Of(RailgunTx, o.logs) \subseteq Written("transactions")
    /\ o.pc = "unshieldPOI" =>
          Of(Unshield, o.logs) \subseteq Written("poiEvents") \cup o.todo
    /\ o.pc \in {"commitments", "marks", "save"} =>
          Of(Unshield, o.logs) \subseteq Written("poiEvents")
    /\ o.pc = "commitments" =>
          /\ Of(Received, o.logs) \subseteq Written("txos") \cup o.todo
          /\ Of(Sent, o.logs) \subseteq Written("poiEvents") \cup o.todo
    /\ o.pc \in {"marks", "save"} =>
          /\ Of(Received, o.logs) \subseteq Written("txos")
          /\ Of(Sent, o.logs) \subseteq Written("poiEvents")

\* The kind of event that a call in a loop has left.
TodoKind(o) ==
    IF o.pc \in {"position", "leaf"} THEN RailgunTx
    ELSE IF o.pc \in Loops THEN LoopOver[o.pc] ELSE {}

\* Outside a call there is nothing to sync; in a loop, only its kind is left.
CallType(o) ==
    /\ o.pc # "idle" => o.queue # <<>>
    /\ \A r \in o.todo : r.event \in TodoKind(o)

\* The blocks before the chunk are indexed, and the scan ends at a final block.
ScanBut(X, o) ==
    /\ o.pc \in {"head", "fetch"} \cup Import => IndexedBut(X, o.queue[1], o.from)
    /\ o.pc \in {"fetch"} \cup Import => o.from <= o.to /\ o.to <= Finalized

\* The events of a call are those of its chunk.
ChunkBut(X, o) ==
    o.pc \in Import =>
        /\ o.from <= o.chunkTo /\ o.chunkTo <= o.to
        /\ o.logs \subseteq LogsIn(o.queue[1], o.from, o.chunkTo)
        /\ LogsIn(o.queue[1], o.from, o.chunkTo) \subseteq o.logs \cup X

\* The checkpoint file a call has read, and the rows it has in hand.
HeldBut(X, o) ==
    /\ o.pc = "save" => \A v \in Version : IndexedBut(X, v, o.file[v])
    /\ o.todo \subseteq o.logs
    /\ o.current \subseteq rows.transactions

CallBut(X, o) ==
    /\ ScanBut(X, o)
    /\ ChunkBut(X, o)
    /\ HeldBut(X, o)
    /\ o.pc \in Import => ChunkWritten(o)

TypeInv == TypeOK /\ \A p \in Syncer : CallType(op[p])

\* The key of what is displaced is held by a row; a displaced note is contested,
\* and where the version or the event is in the key, nothing is displaced.
DisplacedInv ==
    /\ \A s \in Store : \A e \in displaced[s] :
          \E q \in rows[s] : SameKey(s, q.event, e)
    /\ displaced.txos \subseteq Contested
    /\ \A s \in {"commitments", "transactions", "poiEvents"} : displaced[s] = {}

IInvBut(X) ==
    /\ TypeInv
    /\ ChainInv
    /\ NoPhantomRows
    /\ DerivedFromIndex
    /\ DisplacedInv
    /\ \A v \in Version : IndexedBut(X, v, checkpoint[v])
    /\ \A p \in Syncer : CallBut(X, op[p])

\* A sync over the log provider leaves out no row.
Indexed(v, k) == IndexedBut({}, v, k)
ScanInv(o)    == ScanBut({}, o)
ChunkInv(o)   ==
    o.pc \in Import =>
        /\ o.from <= o.chunkTo /\ o.chunkTo <= o.to
        /\ o.logs = LogsIn(o.queue[1], o.from, o.chunkTo)
HeldInv(o)    == HeldBut({}, o)
CallInv(o)    == CallBut({}, o)
IInv          == IInvBut({})

=============================================================================
