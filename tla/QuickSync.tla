----------------------------- MODULE QuickSync -----------------------------
(***************************************************************************)
(* The sync strategy of BNB Chain (pkg/sdk/sync_strategy.go, pkg/quicksync)*)
(* A Sync first imports the V2 history from a GraphQL indexer: three       *)
(* queries, one import as of a chunk, and a checkpoint after the last      *)
(* block of the answers. Then, and when any of it fails, it falls back to  *)
(* the sync of WalletSync over the log provider.                           *)
(*                                                                         *)
(* The indexer is external: it follows the chain GraphLag blocks behind    *)
(* the head, and answers each query with what it has indexed by then.      *)
(***************************************************************************)
EXTENDS WalletSync, FiniteSetsExt

CONSTANTS
    MaxItems,  \* V2GraphOptions.MaxItems: the items kept of a query's answer
    GraphLag   \* how far the indexer stays behind the head

ASSUME QuickAssumption == MaxItems \in Nat \ {0} /\ GraphLag \in Nat

VARIABLES
    indexed,  \* the last block the indexer serves
    quick,    \* syncer -> the queries it still makes, and the answers so far
    split,    \* history: blocks indexed between two queries of a quick sync
    cut       \* history: blocks with items that were cut off an answer

history == <<split, cut>>
quickVars == <<indexed, quick, history>>
quickSyncVars == <<vars, quickVars>>

-----------------------------------------------------------------------------

\* Mutant of Queries: the commitments are asked for first.
QueriesCommitmentsFirst == <<Commitment, Nullifier, Unshield>>

\* The queries of FetchV2Graph in their order.
Queries == <<Nullifier, Unshield, Commitment>>

\* quickSyncStartBlock: a UTXO tree without leaves starts from the first block.
QuickStart == IF rows.leaves = {} THEN 1 ELSE StartBlock(checkpoint["V2"])

\* Not in a quick sync; or the query to make next, the start block of all of
\* them, the answers so far; and, as history, the last block indexed at the
\* first query and the blocks with items cut off.
NoQuick == [query |-> 0, start |-> 1, rows |-> {}, seen |-> 0, cut |-> {}]

\* fetchGraphPages: items in block order, at most MaxItems of them.
Answers(kind, start) ==
    LET all == Of(kind, LogsIn("V2", start, indexed)) IN
    IF Cardinality(all) <= MaxItems
      THEN {all}
      ELSE {part \in SUBSET all :
              /\ Cardinality(part) = MaxItems
              /\ \A r \in part, s \in all \ part : r.block <= s.block}

\* maxV2AccumulatedBlock
LastBlock(found) == Max({r.block : r \in found})

\* The sync over the log provider.
Fallback == [Idle EXCEPT !.pc = "start", !.queue = ActiveVersions]

\* The import of a quick sync is that of one V2 chunk, with the fallback behind it.
Imported(q, found) ==
    [Idle EXCEPT !.pc = "leaves",
                 !.queue = <<"V2">> \o ActiveVersions,
                 !.from = q.start, !.to = LastBlock(found),
                 !.chunkTo = LastBlock(found), !.logs = found]

\* The shape of the state: blocks never wrap, and what a query has found is of
\* its kind (quickSyncBSCV2).
QuickTypeOK ==
    /\ TypeOK
    /\ indexed \in 0 .. MaxBlock
    /\ quick \in [Syncer -> [query : 0 .. Len(Queries),
                             start : 1 .. MaxBlock + 1,
                             rows  : SUBSET Row,
                             seen  : 0 .. MaxBlock,
                             cut   : SUBSET Block]]
    /\ split \subseteq Block
    /\ cut \subseteq Block

QuickInit ==
    /\ Init
    /\ indexed = 0
    /\ quick = [p \in Syncer |-> NoQuick]
    /\ split = {}
    /\ cut = {}

-----------------------------------------------------------------------------

\* BSCV2QuickSyncStrategy.Sync
BeginQuickSync(p) ==
    /\ op[p].pc = "idle"
    /\ quick[p].query = 0
    /\ quick' = [quick EXCEPT ![p] = [NoQuick EXCEPT !.query = 1,
                                                     !.start = QuickStart]]
    /\ UNCHANGED <<vars, indexed, history>>

\* The blocks of what an answer to the query leaves out.
CutOff(p, answer) ==
    {r.block : r \in Of(Queries[quick[p].query],
                        LogsIn("V2", quick[p].start, indexed)) \ answer}

\* A query and its answer.
Query(p) ==
    /\ quick[p].query \in 1 .. Len(Queries) - 1
    /\ \E answer \in Answers(Queries[quick[p].query], quick[p].start) :
          quick' = [quick EXCEPT ![p].query = @ + 1,
                                 ![p].rows = @ \cup answer,
                                 ![p].seen = IF quick[p].query = 1 THEN indexed ELSE @,
                                 ![p].cut = @ \cup CutOff(p, answer)]
    /\ UNCHANGED <<vars, indexed, history>>

\* The last one, after which the answers are imported, if there are any.
LastQuery(p) ==
    /\ quick[p].query = Len(Queries)
    /\ \E answer \in Answers(Queries[Len(Queries)], quick[p].start) :
          /\ LET found == quick[p].rows \cup answer IN
             op' = [op EXCEPT ![p] = IF found = {} THEN Fallback
                                     ELSE Imported(quick[p], found)]
          /\ cut' = cut \cup quick[p].cut \cup CutOff(p, answer)
    /\ quick' = [quick EXCEPT ![p] = NoQuick]
    /\ split' = split \cup (quick[p].seen + 1 .. indexed)
    /\ UNCHANGED <<chainVars, storeVars, skipped, faults, indexed>>

\* Mutant of QueryFails: the error ends the call.
QueryFailsForGood(p) ==
    /\ quick[p].query # 0
    /\ quick' = [quick EXCEPT ![p] = NoQuick]
    /\ UNCHANGED <<vars, indexed, history>>

\* A query that fails or times out is no error of the Sync.
QueryFails(p) ==
    /\ quick[p].query # 0
    /\ op' = [op EXCEPT ![p] = Fallback]
    /\ quick' = [quick EXCEPT ![p] = NoQuick]
    /\ UNCHANGED <<chainVars, storeVars, skipped, faults, indexed, history>>

\* Neither is an error of the import or of its checkpoint.
ImportFails(p) ==
    /\ Len(op[p].queue) > Len(ActiveVersions)
    /\ faults < MaxFaults
    /\ op' = [op EXCEPT ![p] = Fallback]
    /\ faults' = faults + 1
    /\ UNCHANGED <<chainVars, storeVars, skipped, quickVars>>

\* A cancelled context ends the fallback as well.
CancelQuick(p) ==
    /\ quick[p].query # 0
    /\ faults < MaxFaults
    /\ quick' = [quick EXCEPT ![p] = NoQuick]
    /\ faults' = faults + 1
    /\ UNCHANGED <<chainVars, storeVars, op, skipped, indexed, history>>

\* The process dies and is restarted.
CrashQuick ==
    /\ \E p \in Syncer : op[p].pc # "idle" \/ quick[p].query # 0
    /\ faults < MaxFaults
    /\ op' = [p \in Syncer |-> Idle]
    /\ quick' = [p \in Syncer |-> NoQuick]
    /\ faults' = faults + 1
    /\ UNCHANGED <<chainVars, storeVars, skipped, indexed, history>>

\* The indexer reaches a later block, and follows a reorganisation.
IndexerAdvances ==
    /\ \E b \in Block : indexed < b /\ b <= head - GraphLag /\ indexed' = b
    /\ UNCHANGED <<vars, quick, history>>

ChainMoves ==
    /\ Environment
    /\ indexed' = IF indexed <= head' THEN indexed ELSE head'
    /\ UNCHANGED <<quick, history>>

\* The fallback, and the import of the answers, are the steps of WalletSync.
QuickSyncStep ==
    /\ \E p \in Syncer : Progress(p) \/ MarkSpentFails(p) \/ Abort(p)
    /\ UNCHANGED quickVars

QuickNext ==
    \/ \E p \in Syncer :
          \/ BeginQuickSync(p)
          \/ Query(p)
          \/ LastQuery(p)
          \/ QueryFails(p)
          \/ ImportFails(p)
          \/ CancelQuick(p)
    \/ QuickSyncStep
    \/ CrashQuick
    \/ IndexerAdvances
    \/ ChainMoves

QuickSpec == QuickInit /\ [][QuickNext]_quickSyncVars

\* As in WalletSync; a query ends, in an answer or an error.
QuickFairness ==
    /\ WF_quickSyncVars(Mine /\ ChainMoves)
    /\ \A p \in Syncer :
          /\ WF_quickSyncVars(BeginQuickSync(p))
          /\ WF_quickSyncVars(Query(p) \/ LastQuery(p) \/ QueryFails(p))
          /\ WF_quickSyncVars(Progress(p) /\ UNCHANGED quickVars)

QuickFairSpec == QuickSpec /\ QuickFairness

-----------------------------------------------------------------------------
(* Properties, with an indexer that serves finalized blocks only           *)
(* (GraphLag >= Confirmations).                                            *)

\* The queries are separate, and the checkpoint is put after the last block of
\* any answer. Quick sync, its failures and its fallback together keep every
\* event below the checkpoint, but for those that MaxItems cut off their answer
\* and those of blocks that were indexed while the queries of one quick sync ran.
\* A note is not lost by the latter: commitments are queried last. (As in
\* IndexedBelowCheckpoint, the row of another event may stand in its place.)
\* (FetchV2Graph, quickSyncBSCV2)
IndexedUnlessSplit ==
    \A v \in Version, s \in Store :
        \A r \in Of(Keeps[s], LogsIn(v, 1, checkpoint[v] - 1)) :
            \/ r \in rows[s]
            \/ r.event \in displaced[s] /\ \E q \in rows[s] : Rivals(s, q, r)
            \/ r.block \in cut
            \/ r.block \in split /\ r.event \notin Commitment

-----------------------------------------------------------------------------
(* sync_strategy.go:35-36 says of a strategy: it may import from another   *)
(* source first and fall back to RPC, but it has to keep the wallet's      *)
(* stores and the checkpoint consistent. The code does not: TLC refutes the *)
(* formula when it is added to MCQuickSync.cfg.                            *)

\* Every event below the V2 checkpoint is in every store that keeps its kind.
\* Refuted by a block that is indexed between two of the queries.
StoresMatchCheckpoint ==
    \A s \in Store : Of(Keeps[s], LogsIn("V2", 1, checkpoint["V2"] - 1)) \subseteq rows[s]

=============================================================================
