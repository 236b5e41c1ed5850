--------------------------- MODULE WalletSession ---------------------------
(***************************************************************************)
(* A wallet session that also rolls back and rescans (pkg/wallet/wallet.go,*)
(* sync.go, local_rescan.go). A rollback deletes the rows of every version *)
(* from a block on, one store after the other, and moves one version's     *)
(* checkpoint back last. A rescan derives the TXOs, the POI events and the *)
(* spend marks again from the UTXO tree store.                             *)
(*                                                                         *)
(* Nothing in the code keeps these calls apart; the application is taken   *)
(* to make one at a time.                                                  *)
(***************************************************************************)
EXTENDS WalletSync

CONSTANTS
    MaxJobs,   \* bound: rollbacks and rescans
    MaxDeep    \* bound: reorganisations deeper than the confirmation depth

ASSUME SessionAssumption == MaxJobs \in Nat /\ MaxDeep \in Nat

VARIABLES
    job,     \* the rollback or the rescan that runs
    jobs,    \* history: rollbacks and rescans so far
    deep,    \* history: deep reorganisations so far
    stale,   \* history: the first block whose rows may be off the chain
    owed,    \* history: version -> the first block to sync again
    unmarked \* history: a rescan has begun and not come to its end

sessionVars == <<job, jobs, deep, stale, owed, unmarked>>
allVars == <<vars, sessionVars>>

\* No block: above every block and every checkpoint.
Never == MaxBlock + 2

Lower(m, n) == IF m < n THEN m ELSE n

-----------------------------------------------------------------------------
(* Rollback.                                                               *)

\* The stores in the order RollbackWalletSyncWithAllStores takes them.
RollbackStages ==
    <<"state", "txidStore", "txidTree", "utxoTree", "poiEvents", "checkpoint">>

\* Mutant of Keep: the first block to delete is kept.
KeepThrough(table, from) == {r \in table : r.block <= from}

Keep(table, from) == {r \in table : r.block < from}

\* Mutant of RolledBack: the checkpoint is left alone when it is ahead.
RolledBackOnlyUp(next, from) == IF next # 0 /\ from <= next THEN next ELSE from

\* RollbackCheckpoint: back to from, unless it is at or before it already.
RolledBack(next, from) == IF next # 0 /\ from >= next THEN next ELSE from

NoJob == [kind |-> "none", key |-> "V2", from |-> 1, stage |-> 1, todo |-> {}]

Quiet == job.kind = "none" /\ \A p \in Syncer : op[p].pc = "idle"

BeginRollback(key, from) ==
    /\ Quiet
    /\ jobs < MaxJobs
    /\ job' = [NoJob EXCEPT !.kind = "rollback", !.key = key, !.from = from]
    /\ jobs' = jobs + 1
    /\ owed' = [v \in Version |-> Lower(owed[v], from)]
    /\ UNCHANGED <<vars, deep, stale, unmarked>>

\* RollbackToBlock of one store: one write.
RollbackStore ==
    /\ job.kind = "rollback"
    /\ LET from == job.from
           stage == RollbackStages[job.stage]
           dropped == {r.event : r \in rows.txos \ Keep(rows.txos, from)}
       IN
       \/ /\ stage = "state"
          /\ rows' = [rows EXCEPT !.txos = Keep(@, from)]
          /\ spent' = [c \in Received |->
                         IF c \in dropped \/ spent[c] >= from THEN 0 ELSE spent[c]]
          /\ UNCHANGED txidTree
       \/ /\ stage = "txidStore"
          /\ rows' = [rows EXCEPT !.transactions = Keep(@, from)]
          /\ UNCHANGED <<spent, txidTree>>
       \/ /\ stage = "txidTree"
          /\ txidTree' = {l \in txidTree : l.row.block < from}
          /\ UNCHANGED <<rows, spent>>
       \/ /\ stage = "utxoTree"
          /\ rows' = [rows EXCEPT !.leaves = Keep(@, from),
                                  !.commitments = Keep(@, from),
                                  !.nullifiers = Keep(@, from),
                                  !.unshields = Keep(@, from)]
          /\ UNCHANGED <<spent, txidTree>>
       \/ /\ stage = "poiEvents"
          /\ rows' = [rows EXCEPT !.poiEvents = Keep(@, from)]
          /\ UNCHANGED <<spent, txidTree>>
    /\ job' = [job EXCEPT !.stage = @ + 1]
    /\ UNCHANGED <<chainVars, checkpoint, displaced, op, skipped, faults,
                   jobs, deep, stale, owed, unmarked>>

\* RollbackScanCheckpoint of the one key. The rows of its version are synced
\* again from there, unless there was no checkpoint: then the blocks before it
\* are never synced. The other versions' blocks stay owed.
RollbackCheckpoint ==
    /\ job.kind = "rollback"
    /\ RollbackStages[job.stage] = "checkpoint"
    /\ LET key == job.key from == job.from IN
       /\ checkpoint' = [checkpoint EXCEPT ![key] = RolledBack(@, from)]
       /\ owed' = [owed EXCEPT ![key] =
                     IF checkpoint[key] = 0 /\ from > 1 THEN 1
                     ELSE IF @ >= from THEN Never ELSE @]
       /\ stale' = IF from <= stale THEN Never ELSE stale
    /\ job' = NoJob
    /\ UNCHANGED <<chainVars, rows, spent, txidTree, displaced, op, skipped, faults,
                   jobs, deep, unmarked>>

-----------------------------------------------------------------------------
(* Rescan.                                                                 *)

\* Mutant of RescanStages: the spends are not marked again.
RescanStagesNoMarks == ActiveVersions \o <<"unshields">>

\* The active versions' commitments, the unshields, then the spends.
RescanStages == ActiveVersions \o <<"unshields", "marks">>

\* What a stage of the rescan runs over, as read when it begins.
RescanRows(stage) ==
    CASE stage = "unshields" -> rows.unshields
      [] stage = "marks"     -> {r \in rows.nullifiers : Held(r)}
      [] OTHER               -> {r \in rows.commitments : VersionOf[r.event] = stage}

BeginRescan ==
    /\ Quiet
    /\ jobs < MaxJobs
    /\ job' = [NoJob EXCEPT !.kind = "rescan",
                            !.todo = RescanRows(RescanStages[1])]
    /\ jobs' = jobs + 1
    /\ unmarked' = TRUE
    /\ UNCHANGED <<vars, deep, stale, owed>>

RescanEvent ==
    /\ job.kind = "rescan"
    /\ \E r \in job.todo :
          /\ \/ /\ r.event \in Received
                /\ ImportNote(r)
             \/ /\ r.event \in Sent \cup Unshield
                /\ rows' = [rows EXCEPT !.poiEvents = @ \cup {r}]
                /\ UNCHANGED <<spent, displaced>>
             \/ /\ r.event \in Nullifier
                /\ Mark(r)
                /\ UNCHANGED rows
             \/ /\ r.event \in Commitment \ (Received \cup Sent)
                /\ UNCHANGED <<rows, spent, displaced>>
          /\ job' = [job EXCEPT !.todo = @ \ {r}]
    /\ UNCHANGED <<chainVars, txidTree, checkpoint, op, skipped, faults,
                   jobs, deep, stale, owed, unmarked>>

\* The error of a mark is counted and swallowed here as well.
RescanMarkFails ==
    /\ job.kind = "rescan"
    /\ faults < MaxFaults
    /\ \E r \in job.todo :
          /\ r.event \in Nullifier
          /\ skipped' = skipped \cup {r.event}
          /\ job' = [job EXCEPT !.todo = @ \ {r}]
    /\ faults' = faults + 1
    /\ UNCHANGED <<chainVars, storeVars, op, jobs, deep, stale, owed, unmarked>>

RescanStage ==
    /\ job.kind = "rescan"
    /\ job.todo = {}
    /\ IF job.stage < Len(RescanStages)
         THEN /\ job' = [job EXCEPT !.stage = @ + 1,
                                    !.todo = RescanRows(RescanStages[job.stage + 1])]
              /\ UNCHANGED unmarked
         ELSE /\ job' = NoJob
              /\ unmarked' = FALSE
    /\ UNCHANGED <<vars, jobs, deep, stale, owed>>

-----------------------------------------------------------------------------
(* Failures and the chain.                                                 *)

\* The call fails or is cancelled, or the process dies: what is written stays.
AbortJob ==
    /\ job.kind # "none"
    /\ faults < MaxFaults
    /\ job' = NoJob
    /\ faults' = faults + 1
    /\ UNCHANGED <<chainVars, storeVars, op, skipped,
                   jobs, deep, stale, owed, unmarked>>

\* A reorganisation the confirmation depth did not allow for: what a rollback
\* is there for.
DeepReorg ==
    /\ deep < MaxDeep
    /\ Quiet
    /\ \E b \in Block :
          /\ b <= Finalized
          /\ b <= head
          /\ chain' = [c \in Block |-> IF c < b THEN chain[c] ELSE {}]
          /\ head' = b - 1
          /\ peak' = b - 1 + Confirmations
          /\ stale' = Lower(stale, b)
    /\ deep' = deep + 1
    /\ UNCHANGED <<storeVars, op, skipped, faults, job, jobs, owed, unmarked>>

-----------------------------------------------------------------------------

\* The shape of the state: blocks never wrap, and a job is in one of its stages
\* (RollbackWalletSyncWithAllStores, RescanLocalUTXOTree).
SessionTypeOK ==
    /\ TypeOK
    /\ job \in [kind  : {"none", "rollback", "rescan"},
                key   : Version,
                from  : Block,
                stage : Nat \ {0},
                todo  : SUBSET Row]
    /\ job.kind = "rollback" => job.stage <= Len(RollbackStages)
    /\ job.kind = "rescan" => job.stage <= Len(RescanStages)
    /\ jobs \in 0 .. MaxJobs
    /\ deep \in 0 .. MaxDeep
    /\ stale \in 1 .. Never
    /\ owed \in [Version -> 1 .. Never]
    /\ unmarked \in BOOLEAN

SessionInit ==
    /\ Init
    /\ job = NoJob
    /\ jobs = 0
    /\ deep = 0
    /\ stale = Never
    /\ owed = [v \in Version |-> Never]
    /\ unmarked = FALSE

\* A Sync does not run while a rollback or a rescan does. Blocks are mined
\* between the calls: a rollback and a rescan read nothing of the chain, and
\* how it moves under a Sync is the subject of WalletSync.
SyncStep ==
    /\ job.kind = "none"
    /\ SyncNext \/ Crash \/ (Quiet /\ Environment)
    /\ UNCHANGED sessionVars

JobStep ==
    \/ \E key \in Version, from \in Block : BeginRollback(key, from)
    \/ RollbackStore
    \/ RollbackCheckpoint
    \/ BeginRescan
    \/ RescanEvent
    \/ RescanMarkFails
    \/ RescanStage
    \/ AbortJob

SessionNext == SyncStep \/ JobStep \/ DeepReorg

SessionSpec == SessionInit /\ [][SessionNext]_allVars

-----------------------------------------------------------------------------
(* Properties.                                                             *)

\* The first block of version v that the application still has to roll back.
Sound(v) == Lower(stale, Lower(owed[v], checkpoint[v]))

\* Deep reorganisations, and rollbacks that crash between two stores: the
\* blocks below a version's checkpoint are in the stores, up to the first block
\* the application owes a rollback for; a rollback repeated to its end settles
\* the debt of its version. What the row of another event has displaced is not
\* put back when that row is rolled back.
IndexedUnlessOwed ==
    \A v \in Version, s \in Store :
        Of(Keeps[s], LogsIn(v, 1, Sound(v) - 1)) \subseteq Written(s)

\* A row off the chain is never left behind by a rollback: rows from the first
\* replaced block on are the only ones not on the final chain.
NoPhantomUnlessStale ==
    \A s \in Store : \A r \in rows[s] :
        r.block < stale => r.block <= Finalized /\ r.event \in chain[r.block]

\* A spend below the checkpoint is marked, unless its mark failed, its block is
\* to be rolled back, or a rescan has cleared the marks and not come to its end;
\* or another note's record or nullifier has come in between, or the note's own
\* nullifier, beyond the first tree, misses it.
SpentUnlessOwed ==
    \A v \in Version : \A r \in Of(Nullifier, LogsIn(v, 1, Sound(v) - 1)) :
        \/ r.event \in skipped
        \/ unmarked
        \/ Spends[r.event] \notin Received
        \/ r.event \in displaced.nullifiers
        \/ Spends[r.event] \in displaced.txos \cup displaced.marks
        \/ MarkedKey[r.event] # KeyOf[Spends[r.event]]
        \/ spent[Spends[r.event]] = r.block

=============================================================================
