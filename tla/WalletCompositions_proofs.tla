---------------------- MODULE WalletCompositions_proofs ----------------------
(***************************************************************************)
(* Theorems about the two compositions of WalletSync.                      *)
(*                                                                         *)
(* WalletSession: IndexedUnlessOwed and NoPhantomUnlessStale for any       *)
(* number of overlapping Sync calls, of rollbacks and of rescans, every    *)
(* confirmation depth, and deep reorganisations at any block; and          *)
(* SpentUnlessOwed, when there is one Sync call at a time.                 *)
(*                                                                         *)
(* QuickSync: for every indexer that serves finalized blocks only, what a  *)
(* sync strategy that imports the answers of three separate queries loses, *)
(* and that it loses nothing else. The import and the fallback are the     *)
(* steps of WalletSync, whose lemmas are stated for logs that lack the     *)
(* rows of a set X.                                                        *)
(***************************************************************************)
EXTENDS WalletSession, QuickSync, WalletSync_proofs, WellFoundedInduction

-----------------------------------------------------------------------------
(* The inductive invariant.                                                *)

\* A row from before the stale blocks is on the final chain; the event of a
\* row from after them has not been there before.
Trusted(r) ==
    IF r.block < stale
    THEN r.block <= Finalized /\ r.event \in chain[r.block]
    ELSE \A c \in Block : c < stale => r.event \notin chain[c]

\* The events of version v before block k have a row in every store of their
\* kind, or had to give way to another's, but for what is stale or owed; and all
\* of that is final.
Settled(v, k) ==
    /\ \/ k <= 1 \/ k - 1 <= Finalized
       \/ stale - 1 <= Finalized \/ owed[v] - 1 <= Finalized \/ owed[v] <= 1
    /\ \A s \in Store, r \in Row :
          /\ r.event \in chain[r.block] /\ VersionOf[r.event] = v
          /\ r.event \in Keeps[s]
          /\ r.block < stale /\ r.block < owed[v] /\ r.block < k
          => r \in Written(s)

\* The call o has still to write row r of its chunk to store s.
Ahead(o, s, r) ==
    \/ s \in {"leaves", "commitments"} /\ o.pc = "leaves"
    \/ s = "nullifiers" /\ o.pc \in {"leaves", "nullifiers"}
    \/ s = "unshields" /\ o.pc \in Batches
    \/ s = "transactions" /\ \/ o.pc \in Batches
                             \/ o.pc \in {"transactions", "position", "leaf"} /\ r \in o.todo
    \/ s = "poiEvents" /\ \/ o.pc \in Batches \cup {"transactions", "position", "leaf"}
                          \/ o.pc = "unshieldPOI" /\ (r \in o.todo \/ r.event \in Sent)
                          \/ o.pc = "commitments" /\ r \in o.todo
    \/ s = "txos" /\ \/ o.pc \in Batches \cup {"transactions", "position", "leaf", "unshieldPOI"}
                     \/ o.pc = "commitments" /\ r \in o.todo

\* A call of Sync: what came before its chunk is settled, its chunk is final,
\* and of that it has written what is not ahead.
SyncInv(o) ==
    /\ o.pc \in {"head", "fetch"} \cup Import => Settled(o.queue[1], o.from)
    /\ o.pc \in {"fetch"} \cup Import => o.from <= o.to /\ o.to <= Finalized
    /\ ChunkInv(o)
    /\ o.pc = "save" => \A v \in Version : Settled(v, o.file[v])
    /\ o.todo \subseteq o.logs
    /\ o.pc \in Import => \A s \in Store : \A r \in Of(Keeps[s], o.logs) :
          r.block < stale => r \in Written(s) \/ Ahead(o, s, r)

\* A rollback owes its blocks, and has dropped the rows of the stores so far.
RollbackInv ==
    job.kind = "rollback" =>
        /\ \A v \in Version : owed[v] <= job.from
        /\ job.stage > 1 => \A r \in rows.txos : r.block < job.from
        /\ job.stage > 2 => \A r \in rows.transactions : r.block < job.from
        /\ job.stage > 4 =>
              \A r \in rows.leaves \cup rows.commitments \cup rows.nullifiers
                         \cup rows.unshields : r.block < job.from
        /\ job.stage > 5 => \A r \in rows.poiEvents : r.block < job.from

\* A rescan works with rows that the tree store holds.
RescanInv == job.kind = "rescan" => \A r \in job.todo : Trusted(r)

\* Jobs and calls are apart, and what is stale is replaced blocks.
ApartInv ==
    /\ job.kind # "none" => \A p \in Syncer : op[p].pc = "idle"
    /\ stale = Never \/ stale - 1 <= Finalized

SessionInv ==
    /\ SessionTypeOK
    /\ \A p \in Syncer : CallType(op[p])
    /\ ChainInv
    /\ ApartInv
    /\ \A s \in Store : \A r \in rows[s] : Trusted(r)
    /\ \A v \in Version : Settled(v, checkpoint[v])
    /\ \A p \in Syncer : SyncInv(op[p])
    /\ RollbackInv
    /\ RescanInv

-----------------------------------------------------------------------------
(* Facts about rows, and about calls that hold none.                       *)

LEMMA SessionTypes ==
    ASSUME SessionInv
    PROVE  /\ TypeInv /\ ChainInv
           /\ stale \in Int /\ stale >= 1 /\ stale <= MaxBlock + 2
           /\ \A v \in Version : owed[v] \in Int /\ owed[v] >= 1 /\ checkpoint[v] \in Int
           /\ Finalized \in Int /\ head \in Int /\ peak \in Int /\ MaxBlock \in Nat
           /\ rows \in [Store -> SUBSET Row]
<1>1. TypeInv /\ SessionTypeOK /\ TypeOK /\ ChainTypeOK
  BY DEF SessionInv, SessionTypeOK, TypeInv, TypeOK
<1>2. MaxBlock \in Nat /\ Confirmations \in Nat
  BY ChainAssumption
<1>3. head \in Int /\ peak \in Int /\ Finalized \in Int
  BY <1>1, <1>2 DEF ChainTypeOK, Finalized
<1>4. /\ stale \in Int /\ stale >= 1 /\ stale <= MaxBlock + 2
      /\ \A v \in Version : owed[v] \in Int /\ owed[v] >= 1
  BY <1>1, <1>2 DEF SessionTypeOK, Never
<1>5. \A v \in Version : checkpoint[v] \in Int
  BY <1>1, <1>2 DEF TypeOK
<1>. QED
  BY <1>1, <1>2, <1>3, <1>4, <1>5, RowType DEF SessionInv, TypeOK

\* A row that is on the final chain now.
LEMMA FinalTrusted ==
    ASSUME ChainInv, stale \in Int, NEW r \in Row,
           r.event \in chain[r.block], r.block <= Finalized
    PROVE  Trusted(r)
<1>1. r.block \in Block /\ r.block \in Int
  BY RowType
<1>2. ASSUME ~ r.block < stale, NEW c \in Block, c < stale
      PROVE  r.event \notin chain[c]
  BY <1>1, <1>2 DEF ChainInv
<1>. QED
  BY <1>2 DEF Trusted

\* Two trusted rows of one event are the same, if one is from before the stale
\* blocks.
LEMMA TrustedOnce ==
    ASSUME ChainInv, NEW r \in Row, NEW t \in Row, Trusted(r), Trusted(t),
           r.event = t.event, r.block < stale
    PROVE  r = t
<1>1. r.block \in Block /\ t.block \in Block
  BY RowType
<1>2. r.event \in chain[r.block]
  BY DEF Trusted
<1>3. t.event \in chain[t.block]
  BY <1>1, <1>2 DEF Trusted
<1>4. r.block = t.block
  BY <1>1, <1>2, <1>3 DEF ChainInv
<1>. QED
  BY <1>4 DEF Row

\* Writing trusted rows in any way loses no row from before the stale blocks but
\* to that of another event.
LEMMA TableWrite ==
    ASSUME ChainInv, NEW s \in Store, rows[s] \in SUBSET Row, NEW new \in SUBSET Row,
           Puts(s, new), \A r \in rows[s] \cup new : Trusted(r)
    PROVE  /\ rows'[s] \subseteq rows[s] \cup new
           /\ \A r \in Written(s) \cup new : r.block < stale => r \in Written(s)'
<1>1. \A q, r \in rows[s] \cup new : q.event = r.event /\ r.block < stale => q = r
  BY TrustedOnce
<1>2. \A q, r : SameKey(s, q.event, r.event) => Rivals(s, q, r) \/ q.event = r.event
  BY DEF Rivals
<1>3. /\ rows'[s] \subseteq rows[s] \cup new
      /\ displaced[s] \subseteq displaced'[s]
      /\ \A r \in rows[s] \cup new :
            r.block < stale => r \in rows'[s] \/ r.event \in displaced'[s]
  <2>1. CASE rows'[s] = rows[s] \cup new /\ displaced'[s] = displaced[s]
    BY <2>1
  <2>2. CASE new = {} /\ rows'[s] = rows[s] /\ displaced'[s] = displaced[s]
    BY <2>2
  <2>3. CASE /\ rows'[s] = Upsert(s, new)
             /\ displaced'[s] = displaced[s] \cup Replaced(s, new)
    <3>1. new \subseteq rows'[s] /\ rows'[s] \subseteq rows[s] \cup new
          /\ displaced[s] \subseteq displaced'[s]
      BY <2>3 DEF Upsert
    <3>2. \A r \in rows[s] : r \in rows'[s] \/ \E q \in new : SameKey(s, q.event, r.event)
      BY <2>3 DEF Upsert
    <3>3. \A r \in rows[s], q \in new : Rivals(s, q, r) => r.event \in displaced'[s]
      BY <2>3 DEF Replaced
    <3>. QED
      BY <1>1, <1>2, <3>1, <3>2, <3>3
  <2>4. CASE /\ rows'[s] \in InsertNew(s, new)
             /\ displaced'[s] = displaced[s] \cup Refused(s, rows'[s], new)
    <3>1. /\ rows[s] \subseteq rows'[s] /\ rows'[s] \subseteq rows[s] \cup new
          /\ \A r \in new : \E q \in rows'[s] : SameKey(s, q.event, r.event)
      BY <2>4 DEF InsertNew
    <3>2. \A r \in new, q \in rows'[s] : Rivals(s, q, r) => r.event \in displaced'[s]
      BY <2>4 DEF Refused
    <3>3. displaced[s] \subseteq displaced'[s]
      BY <2>4
    <3>. QED
      BY <1>1, <1>2, <3>1, <3>2, <3>3
  <2>. QED
    BY <2>1, <2>2, <2>3, <2>4 DEF Puts
<1>4. \A r \in rows[s] \cup new : r \in Row
  OBVIOUS
<1>. QED
  BY <1>3, <1>4 DEF Written

\* A call that has not begun a version, or is over, promises nothing.
LEMMA RestInv ==
    ASSUME NEW p, CallType(op[p])', op'[p].pc \in {"idle", "start"}
    PROVE  SyncInv(op[p])'
<1>. DEFINE o == op'[p]
<1>1. o.pc \notin Import /\ o.pc \notin {"head", "fetch", "save"}
  BY DEF Import, Batches, Loops
<1>2. o.pc \notin {"position", "leaf"} /\ o.pc \notin Loops
  BY DEF Loops
<1>3. o.todo = {}
  BY <1>2 DEF CallType, TodoKind
<1>. QED
  BY <1>1, <1>3 DEF SyncInv, ChunkInv

\* What is settled stays so while the chain does, if no fresh row is lost but
\* to that of another event.
KeptStep ==
    /\ UNCHANGED <<chainVars, stale, owed>>
    /\ \A s \in Store : \A r \in Written(s) : r.block < stale => r \in Written(s)'

LEMMA SettledKept ==
    ASSUME KeptStep, NEW v, NEW k, Settled(v, k)
    PROVE  Settled(v, k)'
  BY DEF KeptStep, Settled, Finalized, chainVars

LEMMA TrustedKept ==
    ASSUME KeptStep, NEW r, Trusted(r)
    PROVE  Trusted(r)'
  BY DEF KeptStep, Trusted, Finalized, chainVars

LEMMA ChainKept ==
    ASSUME ChainInv, UNCHANGED chainVars
    PROVE  ChainInv'
  BY DEF ChainInv, KeysOnce, OnChain, Finalized, chainVars

\* The rows of stores that are left alone.
LEMMA WrittenSame ==
    ASSUME UNCHANGED rows, \A s \in Store : displaced'[s] = displaced[s]
    PROVE  \A s \in Store : Written(s)' = Written(s)
  BY DEF Written

LEMMA CallKept ==
    ASSUME SessionInv, KeptStep, NEW q \in Syncer, op'[q] = op[q]
    PROVE  SyncInv(op[q])'
<1>. DEFINE o == op[q]
<1>1. SyncInv(o) /\ UNCHANGED chainVars /\ stale' = stale
  BY DEF SessionInv, KeptStep
<1>2. PICK v, from : v = o.queue[1] /\ from = o.from
  OBVIOUS
<1>3. PICK file : file = o.file
  OBVIOUS
<1>4. o.pc \in {"head", "fetch"} \cup Import => Settled(op[q].queue[1], op[q].from)'
  <2>. SUFFICES ASSUME o.pc \in {"head", "fetch"} \cup Import
                PROVE  Settled(op[q].queue[1], op[q].from)'
    OBVIOUS
  <2>1. Settled(v, from)
    BY <1>1, <1>2 DEF SyncInv
  <2>2. Settled(v, from)'
    BY <2>1, SettledKept
  <2>. QED
    BY <1>2, <2>2 DEF Settled
<1>5. o.pc = "save" => \A w \in Version : Settled(w, op[q].file[w])'
  <2>. SUFFICES ASSUME o.pc = "save", NEW w \in Version
                PROVE  Settled(w, op[q].file[w])'
    OBVIOUS
  <2>1. PICK k : k = o.file[w]
    OBVIOUS
  <2>2. Settled(w, k)
    BY <1>1, <2>1 DEF SyncInv
  <2>3. Settled(w, k)'
    BY <2>2, SettledKept
  <2>. QED
    BY <2>1, <2>3 DEF Settled
<1>6. ChunkInv(op[q])'
  BY <1>1 DEF SyncInv, ChunkInv, LogsIn, chainVars
<1>7. o.pc \in Import => \A s \in Store : \A r \in Of(Keeps[s], o.logs) :
        r.block < stale => r \in Written(s)' \/ Ahead(o, s, r)
  BY <1>1 DEF SyncInv, KeptStep
<1>. QED
  BY <1>1, <1>4, <1>5, <1>6, <1>7 DEF SyncInv, Finalized, chainVars, Ahead, Of

-----------------------------------------------------------------------------
(* The steps of a Sync.                                                    *)

\* What is left to prove of a step of one call.
LEMMA SyncFrame ==
    ASSUME SessionInv, TypeInv', UNCHANGED sessionVars, job.kind = "none",
           KeptStep, NEW p \in Syncer, NEW n, op' = [op EXCEPT ![p] = n],
           \A s \in Store : \A r \in rows'[s] : Trusted(r),
           \A v \in Version : Settled(v, checkpoint[v])',
           SyncInv(op[p])'
    PROVE  SessionInv'
<1>1. op \in [Syncer -> Call] /\ \A q \in Syncer \ {p} : op'[q] = op[q]
  BY DEF SessionInv, SessionTypeOK, TypeOK
<1>2. \A q \in Syncer : SyncInv(op[q])'
  BY <1>1, CallKept
<1>3. \A s \in Store : \A r \in rows'[s] : Trusted(r)'
  BY TrustedKept
<1>4. SessionTypeOK' /\ \A q \in Syncer : CallType(op[q])'
  BY DEF TypeInv, SessionInv, SessionTypeOK, sessionVars, Never
<1>5. ChainInv' /\ ApartInv'
  BY ChainKept DEF SessionInv, ApartInv, KeptStep, sessionVars, Finalized, chainVars, Never
<1>6. RollbackInv' /\ RescanInv'
  BY DEF RollbackInv, RescanInv, sessionVars
<1>. QED
  BY <1>2, <1>3, <1>4, <1>5, <1>6 DEF SessionInv

\* A step that only moves the call.
LEMMA StillFrame ==
    ASSUME SessionInv, TypeInv', UNCHANGED sessionVars, job.kind = "none",
           UNCHANGED <<chainVars, rows, checkpoint>>,
           \A s \in Store : displaced'[s] = displaced[s],
           NEW p \in Syncer, NEW n, op' = [op EXCEPT ![p] = n], SyncInv(op[p])'
    PROVE  SessionInv'
<1>1. KeptStep
  BY WrittenSame DEF KeptStep, sessionVars
<1>2. \A v \in Version : Settled(v, checkpoint[v])'
  <2>. TAKE v \in Version
  <2>1. PICK k : k = checkpoint[v]
    OBVIOUS
  <2>2. Settled(v, k)'
    BY <1>1, <2>1, SettledKept DEF SessionInv
  <2>. QED
    BY <2>1, <2>2 DEF Settled
<1>. QED
  BY <1>1, <1>2, SyncFrame DEF SessionInv

\* Begin a Sync, go on to the next version, or give up.
LEMMA SyncRest ==
    ASSUME SessionInv, TypeInv', UNCHANGED sessionVars, job.kind = "none",
           NEW p \in Syncer, BeginSync(p) \/ Abort(p)
    PROVE  SessionInv'
<1>1. PICK n : op' = [op EXCEPT ![p] = n] /\ n.pc \in {"idle", "start"}
  <2>1. CASE BeginSync(p)
    <3>1. op' = [op EXCEPT ![p] = [Idle EXCEPT !.pc = "start", !.queue = ActiveVersions]]
      BY <2>1 DEF BeginSync
    <3>2. [Idle EXCEPT !.pc = "start", !.queue = ActiveVersions].pc = "start"
      BY DEF Idle
    <3>. QED
      BY <3>1, <3>2
  <2>2. CASE Abort(p)
    <3>1. op' = [op EXCEPT ![p] = Idle] /\ Idle.pc = "idle"
      BY <2>2 DEF Abort, Idle
    <3>. QED
      BY <3>1
  <2>. QED
    BY <2>1, <2>2
<1>2. UNCHANGED <<chainVars, rows, checkpoint, displaced>>
  BY DEF BeginSync, Abort, storeVars
<1>3. op'[p].pc \in {"idle", "start"}
  BY <1>1 DEF SessionInv, SessionTypeOK, TypeOK
<1>4. CallType(op[p])'
  BY DEF TypeInv
<1>5. SyncInv(op[p])'
  BY <1>3, <1>4, RestInv
<1>. QED
  BY <1>1, <1>2, <1>5, StillFrame

LEMMA SyncLoad ==
    ASSUME SessionInv, TypeInv', UNCHANGED sessionVars, job.kind = "none",
           NEW p \in Syncer, LoadCheckpoint(p)
    PROVE  SessionInv'
<1>. DEFINE o == op[p]
            k == StartBlock(checkpoint[Syncing(p)])
            n == [o EXCEPT !.pc = "head", !.from = k]
<1>1. /\ o \in Call /\ SyncInv(o) /\ CallType(o) /\ op \in [Syncer -> Call]
      /\ o.pc = "start"
  BY DEF SessionInv, SessionTypeOK, TypeOK, LoadCheckpoint
<1>2. op' = [op EXCEPT ![p] = n] /\ UNCHANGED <<chainVars, rows, checkpoint, displaced>>
  BY <1>1 DEF LoadCheckpoint, storeVars
<1>3. op'[p] = n /\ n.pc = "head" /\ n.queue = o.queue /\ n.from = k
      /\ n.todo = o.todo /\ n.logs = o.logs
  BY <1>1, <1>2 DEF Call
<1>4. PICK v \in Version : v = o.queue[1]
  BY <1>1, ElementOfSeq, EmptySeq DEF Call, CallType
<1>5. PICK j \in Int : j = k
  BY <1>4, SessionTypes DEF StartBlock, Syncing
<1>6. Settled(v, j)
  <2>1. CASE checkpoint[v] # 0
    BY <1>4, <1>5, <2>1 DEF SessionInv, StartBlock, Syncing
  <2>2. CASE checkpoint[v] = 0
    <3>1. j = 1
      BY <1>4, <1>5, <2>2 DEF StartBlock, Syncing
    <3>. QED
      BY <3>1, RowType DEF Settled
  <2>. QED
    BY <2>1, <2>2
<1>7. Settled(v, j)'
  BY <1>2, <1>6, SettledKept, WrittenSame DEF KeptStep, sessionVars
<1>8. Settled(op[p].queue[1], op[p].from)'
  BY <1>3, <1>4, <1>5, <1>7 DEF Settled
<1>9. SyncInv(op[p])'
  BY <1>1, <1>3, <1>8 DEF SyncInv, ChunkInv, Import, Batches, Loops
<1>. QED
  BY <1>2, <1>9, StillFrame

\* The next version, or the end of the call.
LEMMA SyncNextVersion ==
    ASSUME SessionInv, TypeInv', NEW p \in Syncer, op[p].pc # "idle",
           op'[p] = NextVersion(op[p])
    PROVE  SyncInv(op[p])'
<1>1. op[p] \in Call /\ op[p].queue # <<>>
  BY DEF SessionInv, SessionTypeOK, TypeOK, CallType
<1>2. op'[p].pc \in {"idle", "start"}
  BY <1>1, NextVersionType
<1>3. CallType(op[p])'
  BY DEF TypeInv
<1>. QED
  BY <1>2, <1>3, RestInv

LEMMA SyncHead ==
    ASSUME SessionInv, TypeInv', UNCHANGED sessionVars, job.kind = "none",
           NEW p \in Syncer, ReadHead(p)
    PROVE  SessionInv'
<1>. DEFINE o == op[p]
            n == [o EXCEPT !.pc = "fetch", !.to = ConfirmedHead]
<1>1. /\ o \in Call /\ SyncInv(o) /\ op \in [Syncer -> Call] /\ o.pc = "head"
  BY DEF SessionInv, SessionTypeOK, TypeOK, ReadHead
<1>2. UNCHANGED <<chainVars, rows, checkpoint, displaced>>
  BY DEF ReadHead, storeVars
<1>3. CASE ~Confirmed \/ ConfirmedHead < o.from
  <2>1. op' = [op EXCEPT ![p] = NextVersion(o)]
    BY <1>3 DEF ReadHead
  <2>2. SyncInv(op[p])'
    BY <1>1, <2>1, SyncNextVersion
  <2>. QED
    BY <1>2, <2>1, <2>2, StillFrame
<1>4. CASE Confirmed /\ ~ ConfirmedHead < o.from
  <2>1. op' = [op EXCEPT ![p] = n]
    BY <1>4 DEF ReadHead
  <2>2. op'[p] = n /\ n.pc = "fetch" /\ n.queue = o.queue /\ n.from = o.from
        /\ n.todo = o.todo /\ n.logs = o.logs /\ n.to = ConfirmedHead
    BY <1>1, <2>1 DEF Call
  <2>3. ConfirmedHead \in Int /\ ConfirmedHead <= Finalized
    BY <1>4, ChainAssumption, MinusMonotonic
       DEF Confirmed, ConfirmedHead, Finalized, SessionInv, SessionTypeOK, TypeOK,
           ChainTypeOK, ChainInv
  <2>4. PICK v \in {o.queue[1]}, j \in Int : j = o.from
    BY <1>1, ChainAssumption DEF Call
  <2>5. Settled(v, j)
    BY <1>1, <2>4 DEF SyncInv
  <2>6. Settled(v, j)'
    BY <1>2, <2>5, SettledKept, WrittenSame DEF KeptStep, sessionVars
  <2>7. Settled(op[p].queue[1], op[p].from)'
    BY <2>2, <2>4, <2>6 DEF Settled
  <2>8. op'[p].from <= op'[p].to /\ op'[p].to <= Finalized'
    BY <1>2, <1>4, <2>2, <2>3, <2>4 DEF chainVars, Finalized
  <2>9. SyncInv(op[p])'
    BY <1>1, <2>2, <2>7, <2>8 DEF SyncInv, ChunkInv, Import, Batches, Loops
  <2>. QED
    BY <1>2, <2>1, <2>9, StillFrame
<1>. QED
  BY <1>3, <1>4

LEMMA SyncFetch ==
    ASSUME SessionInv, TypeInv', UNCHANGED sessionVars, job.kind = "none",
           NEW p \in Syncer, FetchLogs(p)
    PROVE  SessionInv'
<1>. DEFINE o == op[p]
            end == ChunkEnd(o.from, o.to)
            logs == LogsIn(Syncing(p), o.from, end)
            n == [o EXCEPT !.pc = "leaves", !.chunkTo = end, !.logs = logs]
<1>1. /\ o \in Call /\ SyncInv(o) /\ CallType(o) /\ op \in [Syncer -> Call]
      /\ o.pc = "fetch"
  BY DEF SessionInv, SessionTypeOK, TypeOK, FetchLogs
<1>2. UNCHANGED <<chainVars, rows, checkpoint, displaced>> /\ op' = [op EXCEPT ![p] = n]
  BY <1>1 DEF FetchLogs, storeVars
<1>3. op'[p] = n /\ n.pc = "leaves" /\ n.queue = o.queue /\ n.from = o.from
      /\ n.to = o.to /\ n.chunkTo = end /\ n.todo = o.todo /\ n.logs = logs
  BY <1>1, <1>2 DEF Call
<1>4. PICK v \in {o.queue[1]}, j \in Int : j = o.from
  BY <1>1, ChainAssumption DEF Call
<1>5. Settled(v, j)
  BY <1>1, <1>4 DEF SyncInv
<1>6. Settled(v, j)'
  BY <1>2, <1>5, SettledKept, WrittenSame DEF KeptStep, sessionVars
<1>7. Settled(op[p].queue[1], op[p].from)'
  BY <1>3, <1>4, <1>6 DEF Settled
<1>8. o.from <= o.to /\ o.to <= Finalized /\ o.from \in Nat \ {0} /\ o.to \in Nat
  BY <1>1, ChainAssumption DEF SyncInv, Call
<1>9. end \in 0 .. o.to /\ o.from <= end
  BY <1>8, ChunkEndBounds
<1>10. o.todo = {}
  <2>1. TodoKind(o) = {}
    BY <1>1 DEF TodoKind, Loops
  <2>. QED
    BY <1>1, <2>1 DEF CallType
<1>11. ChunkInv(op[p])'
  <2>1. PICK e \in Int : e = end /\ j <= e /\ e <= o.to
    BY <1>4, <1>8, <1>9
  <2>2. LogsIn(v, j, e)' = LogsIn(v, j, e)
    BY <1>2 DEF LogsIn, chainVars
  <2>3. op'[p].logs = LogsIn(v, j, e)
    BY <1>3, <1>4, <2>1 DEF Syncing
  <2>. HIDE DEF end, logs, n
  <2>4. op'[p].queue[1] = v /\ op'[p].from = j /\ op'[p].chunkTo = e
        /\ op'[p].to = o.to
    BY <1>3, <1>4, <2>1
  <2>. QED
    BY <2>1, <2>2, <2>3, <2>4 DEF ChunkInv, LogsIn
<1>12. \A s \in Store : \A r : Ahead(op[p], s, r)'
  BY <1>3, StoreNames DEF Ahead, Batches
<1>13. SyncInv(op[p])'
  BY <1>2, <1>3, <1>7, <1>8, <1>10, <1>11, <1>12 DEF SyncInv, chainVars, Finalized
<1>. QED
  BY <1>2, <1>13, StillFrame

\* A step of the import: the call o goes on as n in the same chunk, ...
Moves(o, n) ==
    /\ n \in Call /\ n.pc \in Import \ {"save"}
    /\ n.queue = o.queue /\ n.from = o.from /\ n.to = o.to
    /\ n.chunkTo = o.chunkTo /\ n.logs = o.logs /\ n.todo \subseteq n.logs

\* ... its rows of one kind are written to the stores of S, ...
Writes(S, new) ==
    \A s \in Store :
        IF s \in S THEN Puts(s, new) ELSE rows'[s] = rows[s] /\ displaced'[s] = displaced[s]

\* ... and no other row of the chunk is passed over.
Passes(o, n, S, new) ==
    \A s \in Store : \A r \in Of(Keeps[s], o.logs) :
        Ahead(o, s, r) => Ahead(n, s, r) \/ (s \in S /\ r \in new)

\* What is left to prove of a step of the import: which rows of its chunk it
\* writes, and that it leaves no row behind.
LEMMA ImportFrame ==
    ASSUME SessionInv, TypeInv', UNCHANGED sessionVars, job.kind = "none",
           UNCHANGED <<chainVars, checkpoint>>,
           NEW p \in Syncer, NEW n, op' = [op EXCEPT ![p] = n],
           op[p].pc \in Import, Moves(op[p], n),
           NEW S, NEW new \in SUBSET op[p].logs,
           Writes(S, new), Passes(op[p], n, S, new)
    PROVE  SessionInv'
<1>. DEFINE o == op[p]
<1>1. /\ o \in Call /\ SyncInv(o) /\ op \in [Syncer -> Call]
      /\ rows \in [Store -> SUBSET Row] /\ ChainInv
  BY DEF SessionInv, SessionTypeOK, TypeOK
<1>2. /\ o.chunkTo \in Int /\ o.to \in Int /\ o.from \in Int /\ Finalized \in Int
      /\ stale \in Int
  BY <1>1, ChainAssumption, SessionTypes DEF Call
<1>3. new \subseteq Row /\ \A r \in o.logs : Trusted(r)
  <2>. SUFFICES ASSUME NEW r \in o.logs PROVE r \in Row /\ Trusted(r)
    OBVIOUS
  <2>1. r \in LogsIn(o.queue[1], o.from, o.chunkTo)
    BY <1>1 DEF SyncInv, ChunkInv
  <2>2. r \in Row /\ r.block \in Int /\ r.block <= o.chunkTo
        /\ r.event \in chain[r.block]
    BY <2>1, RowType DEF LogsIn
  <2>3. o.chunkTo <= o.to /\ o.to <= Finalized
    BY <1>1 DEF SyncInv, ChunkInv
  <2>4. r.block <= Finalized
    BY <1>2, <2>2, <2>3
  <2>. QED
    BY <1>1, <1>2, <2>2, <2>4, FinalTrusted
<1>4. \A s \in Store : \A r \in rows[s] \cup new : Trusted(r)
  BY <1>3 DEF SessionInv
<1>5. ASSUME NEW s \in Store
      PROVE  /\ rows'[s] \subseteq rows[s] \cup new
             /\ \A r \in Written(s) : r.block < stale => r \in Written(s)'
             /\ s \in S => \A r \in new : r.block < stale => r \in Written(s)'
  <2>1. CASE s \in S
    <3>1. Puts(s, new) /\ rows[s] \in SUBSET Row
      BY <1>1, <2>1 DEF Writes
    <3>. QED
      BY <1>1, <1>3, <1>4, <3>1, TableWrite
  <2>2. CASE s \notin S
    <3>1. rows'[s] = rows[s] /\ displaced'[s] = displaced[s]
      BY <2>2 DEF Writes
    <3>. QED
      BY <2>2, <3>1 DEF Written
  <2>. QED
    BY <2>1, <2>2
<1>7. KeptStep
  BY <1>5 DEF KeptStep, sessionVars
<1>8. \A s \in Store : \A r \in rows'[s] : Trusted(r)
  BY <1>4, <1>5
<1>9. \A v \in Version : Settled(v, checkpoint[v])'
  <2>. TAKE v \in Version
  <2>1. PICK k \in {checkpoint[v]} : Settled(v, k)
    BY DEF SessionInv
  <2>2. Settled(v, k)'
    BY <1>7, <2>1, SettledKept
  <2>. QED
    BY <2>1, <2>2 DEF Settled
<1>10. op'[p] = n
  BY <1>1
<1>11. Settled(op[p].queue[1], op[p].from)'
  <2>1. PICK v \in {o.queue[1]}, k \in {o.from} : Settled(v, k)
    BY <1>1 DEF SyncInv
  <2>2. Settled(v, k)'
    BY <1>7, <2>1, SettledKept
  <2>. QED
    BY <1>10, <2>1, <2>2 DEF Settled, Moves
<1>12. op'[p].from <= op'[p].to /\ op'[p].to <= Finalized'
  BY <1>1, <1>10 DEF SyncInv, Moves, chainVars, Finalized
<1>13. ChunkInv(op[p])'
  BY <1>1, <1>10 DEF SyncInv, Moves, ChunkInv, LogsIn, chainVars
<1>14. \A s \in Store : \A r \in Of(Keeps[s], n.logs) :
         r.block < stale => r \in Written(s)' \/ Ahead(n, s, r)
  <2>. SUFFICES ASSUME NEW s \in Store, NEW r \in Of(Keeps[s], o.logs), r.block < stale
                PROVE  r \in Written(s)' \/ Ahead(n, s, r)
    BY DEF Moves
  <2>1. r \in Written(s) \/ Ahead(o, s, r)
    BY <1>1 DEF SyncInv
  <2>2. r \in Written(s) => r \in Written(s)'
    BY <1>5
  <2>3. s \in S /\ r \in new => r \in Written(s)'
    BY <1>5
  <2>. QED
    BY <2>1, <2>2, <2>3 DEF Passes
<1>15. SyncInv(op[p])'
  BY <1>10, <1>11, <1>12, <1>13, <1>14 DEF SyncInv, Moves, Ahead, Of, KeptStep, sessionVars
<1>. QED
  BY <1>7, <1>8, <1>9, <1>15, SyncFrame

\* The same, for a step that writes no row.
LEMMA ImportStill ==
    ASSUME SessionInv, TypeInv', UNCHANGED sessionVars, job.kind = "none",
           UNCHANGED <<chainVars, rows, checkpoint>>,
           NEW p \in Syncer, NEW n, op' = [op EXCEPT ![p] = n],
           \A s \in Store : displaced'[s] = displaced[s],
           op[p].pc \in Import, Moves(op[p], n), Passes(op[p], n, {}, {})
    PROVE  SessionInv'
<1>1. Writes({}, {})
  BY DEF Writes
<1>. QED
  BY <1>1, ImportFrame

\* What holds of a call in its import.
LEMMA ImportFacts ==
    ASSUME SessionInv, NEW p \in Syncer, op[p].pc \in Import
    PROVE  /\ op[p] \in Call /\ op \in [Syncer -> Call] /\ op[p].queue # <<>>
           /\ op[p].todo \subseteq op[p].logs /\ op[p].logs \subseteq Row
           /\ rows \in [Store -> SUBSET Row]
           /\ \A r \in op[p].todo : r.event \in TodoKind(op[p])
<1>1. op[p] \in Call /\ SyncInv(op[p]) /\ CallType(op[p]) /\ op \in [Syncer -> Call]
  BY DEF SessionInv, SessionTypeOK, TypeOK
<1>2. op[p].pc # "idle"
  BY DEF Import, Batches, Loops
<1>. QED
  BY <1>1, <1>2, SessionTypes DEF SyncInv, CallType, Call

\* The three batches.
LEMMA SyncBatch ==
    ASSUME SessionInv, TypeInv', UNCHANGED sessionVars, job.kind = "none",
           NEW p \in Syncer, IndexLeaves(p) \/ IndexNullifiers(p) \/ IndexUnshields(p)
    PROVE  SessionInv'
<1>. DEFINE o == op[p]
<1>1. o.pc \in {"leaves", "nullifiers", "unshields"} /\ o.pc \in Import
  BY DEF IndexLeaves, IndexNullifiers, IndexUnshields, Import, Batches
<1>2. /\ o \in Call /\ op \in [Syncer -> Call] /\ o.queue # <<>>
      /\ o.todo \subseteq o.logs /\ rows \in [Store -> SUBSET Row]
      /\ displaced \in [Store \cup {"marks"} -> SUBSET Event]
  BY <1>1, ImportFacts DEF SessionInv, SessionTypeOK, TypeOK
<1>3. UNCHANGED <<chainVars, checkpoint>>
  BY DEF IndexLeaves, IndexNullifiers, IndexUnshields
<1>4. CASE IndexLeaves(p)
  <2>. DEFINE n == [o EXCEPT !.pc = "nullifiers"]
              new == Of(Commitment, o.logs)
  <2>1. Moves(o, n) /\ n.pc = "nullifiers"
    BY <1>2 DEF Moves, Call, PC, Import, Batches
  <2>2. op' = [op EXCEPT ![p] = n] /\ o.pc = "leaves"
    BY <1>2, <1>4 DEF IndexLeaves
  <2>3. new \in SUBSET o.logs
    BY DEF Of
  <2>5. Writes({"leaves", "commitments"}, new)
    <3>1. /\ rows' = [rows EXCEPT !.leaves = Upsert("leaves", new),
                                  !.commitments = Upsert("commitments", new)]
          /\ displaced' =
                [displaced EXCEPT !.leaves = @ \cup Replaced("leaves", new),
                                  !.commitments = @ \cup Replaced("commitments", new)]
      BY <1>4 DEF IndexLeaves
    <3>. HIDE DEF new, n
    <3>. QED
      BY <1>2, <3>1, StoreNames DEF Writes, Puts
  <2>4. Passes(o, n, {"leaves", "commitments"}, new)
    BY <2>1, <2>2, StoreNames DEF Passes, Moves, Ahead, Batches
  <2>. HIDE DEF n, new
  <2>. QED
    BY <1>1, <1>3, <2>1, <2>2, <2>3, <2>4, <2>5, ImportFrame
<1>5. CASE IndexNullifiers(p)
  <2>. DEFINE n == [o EXCEPT !.pc = "unshields"]
              new == Of(Nullifier, o.logs)
  <2>1. Moves(o, n) /\ n.pc = "unshields"
    BY <1>2 DEF Moves, Call, PC, Import, Batches
  <2>2. op' = [op EXCEPT ![p] = n] /\ o.pc = "nullifiers"
    BY <1>2, <1>5 DEF IndexNullifiers
  <2>3. new \in SUBSET o.logs
    BY DEF Of
  <2>5. Writes({"nullifiers"}, new)
    <3>1. /\ rows' = [rows EXCEPT !.nullifiers = Upsert("nullifiers", new)]
          /\ displaced' =
                [displaced EXCEPT !.nullifiers = @ \cup Replaced("nullifiers", new)]
      BY <1>5 DEF IndexNullifiers
    <3>. HIDE DEF new, n
    <3>. QED
      BY <1>2, <3>1, StoreNames DEF Writes, Puts
  <2>4. Passes(o, n, {"nullifiers"}, new)
    BY <2>1, <2>2, StoreNames DEF Passes, Moves, Ahead, Batches
  <2>. HIDE DEF n, new
  <2>. QED
    BY <1>1, <1>3, <2>1, <2>2, <2>3, <2>4, <2>5, ImportFrame
<1>6. CASE IndexUnshields(p)
  <2>. DEFINE n == EnterLoop(o, "transactions")
              new == Of(Unshield, o.logs)
  <2>1. Moves(o, n) /\ n.pc = "transactions" /\ n.todo = Of(RailgunTx, o.logs)
    <3>1. n \in Call
      BY <1>2, EnterLoopType DEF Loops
    <3>. QED
      BY <1>2, <3>1 DEF Moves, Of, Call, EnterLoop, LoopOver, Import, Loops
  <2>2. op' = [op EXCEPT ![p] = n] /\ o.pc = "unshields"
    BY <1>2, <1>6 DEF IndexUnshields
  <2>3. new \in SUBSET o.logs
    BY DEF Of
  <2>. HIDE DEF n
  <2>5. Writes({"unshields"}, new)
    <3>1. PICK table \in InsertNew("unshields", new) :
             /\ rows' = [rows EXCEPT !.unshields = table]
             /\ displaced' = [displaced EXCEPT !.unshields =
                                 @ \cup Refused("unshields", table, new)]
      BY <1>6 DEF IndexUnshields
    <3>. HIDE DEF new
    <3>. QED
      BY <1>2, <3>1, StoreNames DEF Writes, Puts
  <2>4. Passes(o, n, {"unshields"}, new)
    BY <2>1, <2>2, StoreNames DEF Passes, Moves, Ahead, Batches
  <2>. HIDE DEF new
  <2>. QED
    BY <1>1, <1>3, <2>1, <2>2, <2>3, <2>4, <2>5, ImportFrame
<1>. QED
  BY <1>4, <1>5, <1>6

\* A railgun transaction and its leaf.
LEMMA SyncTransaction ==
    ASSUME SessionInv, TypeInv', UNCHANGED sessionVars, job.kind = "none",
           NEW p \in Syncer, StoreTransaction(p)
    PROVE  SessionInv'
<1>. DEFINE o == op[p]
<1>1. o.pc = "transactions" /\ o.pc \in Import
  BY DEF StoreTransaction, Import, Loops
<1>2. /\ o \in Call /\ op \in [Syncer -> Call]
      /\ o.todo \subseteq o.logs /\ rows \in [Store -> SUBSET Row] /\ o.logs \subseteq Row
  BY <1>1, ImportFacts
<1>3. PICK r \in o.todo :
        /\ rows' = [rows EXCEPT !["transactions"] = Upsert("transactions", {r})]
        /\ op' = [op EXCEPT ![p] = [Done(o, r) EXCEPT !.pc = "position",
                                                      !.current = {r}]]
  BY <1>2 DEF StoreTransaction
<1>. DEFINE n == [Done(o, r) EXCEPT !.pc = "position", !.current = {r}]
<1>4. r \in Row /\ {r} \in SUBSET o.logs /\ "transactions" \in Store
  BY <1>2, StoreNames
<1>5. Moves(o, n) /\ n.pc = "position" /\ n.todo = o.todo \ {r}
  <2>. DEFINE d == Done(o, r)
  <2>1. /\ d \in Call /\ d.queue = o.queue /\ d.from = o.from /\ d.to = o.to
        /\ d.chunkTo = o.chunkTo /\ d.logs = o.logs /\ d.todo = o.todo \ {r}
    BY <1>2, DoneFields
  <2>. HIDE DEF d
  <2>2. /\ n \in Call /\ n.pc = "position" /\ n.queue = d.queue /\ n.from = d.from
        /\ n.to = d.to /\ n.chunkTo = d.chunkTo /\ n.logs = d.logs /\ n.todo = d.todo
    BY <1>4, <2>1 DEF d, Call, PC, Import
  <2>. HIDE DEF n
  <2>. QED
    BY <1>2, <2>1, <2>2 DEF Moves, Import
<1>6. UNCHANGED <<chainVars, checkpoint, displaced>> /\ op' = [op EXCEPT ![p] = n]
  BY <1>3 DEF StoreTransaction
<1>. HIDE DEF n
<1>7. Passes(o, n, {"transactions"}, {r})
  BY <1>1, <1>5, StoreNames DEF Passes, Ahead, Batches
<1>8. Writes({"transactions"}, {r})
  <2>1. Replaced("transactions", {r}) = {}
    BY EventKindsDisjoint DEF Replaced, Rivals, SameKey
  <2>. QED
    BY <1>2, <1>3, <1>6, <2>1 DEF Writes, Puts
<1>. QED
  BY <1>1, <1>4, <1>5, <1>6, <1>7, <1>8, ImportFrame

LEMMA SyncLeaf ==
    ASSUME SessionInv, TypeInv', UNCHANGED sessionVars, job.kind = "none",
           NEW p \in Syncer, ReadPosition(p) \/ WriteLeaf(p)
    PROVE  SessionInv'
<1>. DEFINE o == op[p]
<1>1. o.pc \in {"position", "leaf"} /\ o.pc \in Import
  BY DEF ReadPosition, WriteLeaf, Import
<1>2. /\ o \in Call /\ op \in [Syncer -> Call] /\ o.todo \subseteq o.logs
  BY <1>1, ImportFacts
<1>3. UNCHANGED <<chainVars, rows, checkpoint, displaced>>
  BY DEF ReadPosition, WriteLeaf, storeVars
<1>4. op' \in [Syncer -> Call]
  BY DEF TypeInv, TypeOK
<1>5. PICK n \in {op'[p]} : op' = [op EXCEPT ![p] = n]
  BY <1>2 DEF ReadPosition, WriteLeaf
<1>6. n \in Call /\ n.pc \in {"leaf", "transactions"}
      /\ n.queue = o.queue /\ n.from = o.from /\ n.to = o.to
      /\ n.chunkTo = o.chunkTo /\ n.logs = o.logs /\ n.todo = o.todo
  <2>1. n \in Call
    BY <1>4, <1>5
  <2>2. CASE ReadPosition(p)
    <3>1. PICK i : op' = [op EXCEPT ![p].pc = "leaf", ![p].position = i]
      BY <2>2 DEF ReadPosition
    <3>. QED
      BY <1>2, <1>5, <2>1, <3>1 DEF Call
  <2>3. CASE WriteLeaf(p)
    <3>1. op' = [op EXCEPT ![p].pc = "transactions", ![p].current = {}, ![p].position = 0]
      BY <2>3 DEF WriteLeaf
    <3>. QED
      BY <1>2, <1>5, <2>1, <3>1 DEF Call
  <2>. QED
    BY <2>2, <2>3
<1>7. Moves(o, n)
  BY <1>2, <1>6 DEF Moves, Import, Loops
<1>8. Passes(o, n, {}, {})
  BY <1>1, <1>6, StoreNames DEF Passes, Ahead, Batches
<1>. QED
  BY <1>1, <1>3, <1>5, <1>7, <1>8, ImportStill

\* An event of a loop is done with.
LEMMA DoneMoves ==
    ASSUME SessionInv, NEW p \in Syncer, op[p].pc \in Loops, NEW r \in op[p].todo
    PROVE  /\ Moves(op[p], Done(op[p], r))
           /\ Done(op[p], r).pc = op[p].pc
           /\ Done(op[p], r).todo = op[p].todo \ {r}
           /\ op[p].pc \in Import /\ r \in Row /\ {r} \in SUBSET op[p].logs
           /\ r.event \in LoopOver[op[p].pc]
<1>. DEFINE o == op[p]
<1>1. o.pc \in Import /\ o.pc \in Import \ {"save"} /\ TodoKind(o) = LoopOver[o.pc]
  BY DEF Import, Loops, TodoKind
<1>2. /\ o \in Call /\ o.todo \subseteq o.logs /\ o.logs \subseteq Row
      /\ r.event \in TodoKind(o)
  BY <1>1, ImportFacts
<1>3. PICK n \in {Done(o, r)} :
        /\ n \in Call /\ n.pc = o.pc /\ n.queue = o.queue /\ n.from = o.from /\ n.to = o.to
        /\ n.chunkTo = o.chunkTo /\ n.logs = o.logs /\ n.todo = o.todo \ {r}
  BY <1>2, DoneFields
<1>4. Moves(o, n)
  BY <1>1, <1>2, <1>3 DEF Moves
<1>. QED
  BY <1>1, <1>2, <1>3, <1>4

LEMMA SyncUnshieldPOI ==
    ASSUME SessionInv, TypeInv', UNCHANGED sessionVars, job.kind = "none",
           NEW p \in Syncer, StoreUnshieldPOI(p)
    PROVE  SessionInv'
<1>. DEFINE o == op[p]
<1>1. PICK r \in o.todo :
        /\ rows' = [rows EXCEPT !["poiEvents"] = rows["poiEvents"] \cup {r}]
        /\ op' = [op EXCEPT ![p] = Done(o, r)]
  BY SessionTypes DEF StoreUnshieldPOI, TypeInv, TypeOK
<1>2. o.pc = "unshieldPOI" /\ o.pc \in Loops /\ UNCHANGED <<chainVars, checkpoint, displaced>>
  BY DEF StoreUnshieldPOI, Loops
<1>3. PICK n \in {Done(o, r)} : /\ Moves(o, n) /\ n.pc = o.pc /\ n.todo = o.todo \ {r}
                               /\ o.pc \in Import /\ {r} \in SUBSET o.logs
  BY <1>2, DoneMoves
<1>4. Writes({"poiEvents"}, {r})
  BY <1>1, <1>2, SessionTypes, StoreNames DEF Writes, Puts
<1>5. Passes(o, n, {"poiEvents"}, {r})
  BY <1>2, <1>3, StoreNames DEF Passes, Ahead, Batches
<1>. QED
  BY <1>1, <1>2, <1>3, <1>4, <1>5, ImportFrame

\* The record of a received note.
LEMMA ImportNoteWrites ==
    ASSUME SessionInv, NEW r, ImportNote(r)
    PROVE  Writes({"txos"}, {r})
<1>1. /\ rows \in [Store -> SUBSET Row] /\ "txos" \in Store
      /\ displaced \in [Store \cup {"marks"} -> SUBSET Event]
  BY StoreNames DEF SessionInv, SessionTypeOK, TypeOK
<1>. QED
  BY <1>1 DEF ImportNote, Writes, Puts

\* A commitment that the wallet received, sent, or has no part in.
LEMMA SyncCommitment ==
    ASSUME SessionInv, TypeInv', UNCHANGED sessionVars, job.kind = "none",
           NEW p \in Syncer, ImportCommitment(p)
    PROVE  SessionInv'
<1>. DEFINE o == op[p]
<1>1. PICK r \in o.todo :
        /\ \/ r.event \in Received /\ ImportNote(r)
           \/ /\ r.event \in Sent
              /\ rows' = [rows EXCEPT !["poiEvents"] = rows["poiEvents"] \cup {r}]
              /\ UNCHANGED displaced
           \/ r.event \notin Received \cup Sent /\ UNCHANGED <<rows, displaced>>
        /\ op' = [op EXCEPT ![p] = Done(o, r)]
  BY SessionTypes DEF ImportCommitment, TypeInv, TypeOK
<1>2. o.pc = "commitments" /\ o.pc \in Loops /\ UNCHANGED <<chainVars, checkpoint>>
  BY DEF ImportCommitment, Loops
<1>3. PICK n \in {Done(o, r)} : /\ Moves(o, n) /\ n.pc = o.pc /\ n.todo = o.todo \ {r}
                               /\ o.pc \in Import /\ {r} \in SUBSET o.logs
                               /\ r.event \in Commitment
  BY <1>2, DoneMoves DEF LoopOver
<1>4. Received \cap (Unshield \cup Sent) = {} /\ Sent \cap Received = {}
  BY EventKindsDisjoint DEF Received, Sent
<1>5. CASE r.event \in Received /\ ImportNote(r)
  <2>1. Writes({"txos"}, {r})
    BY <1>5, ImportNoteWrites
  <2>2. Passes(o, n, {"txos"}, {r})
    BY <1>2, <1>3, <1>4, <1>5, StoreNames DEF Passes, Ahead, Batches, Of
  <2>. QED
    BY <1>1, <1>2, <1>3, <2>1, <2>2, ImportFrame
<1>6. CASE /\ r.event \in Sent
           /\ rows' = [rows EXCEPT !["poiEvents"] = rows["poiEvents"] \cup {r}]
           /\ UNCHANGED displaced
  <2>1. Writes({"poiEvents"}, {r})
    BY <1>6, SessionTypes, StoreNames DEF Writes, Puts
  <2>2. Passes(o, n, {"poiEvents"}, {r})
    BY <1>2, <1>3, <1>4, <1>6, StoreNames DEF Passes, Ahead, Batches, Of
  <2>. QED
    BY <1>1, <1>2, <1>3, <2>1, <2>2, ImportFrame
<1>7. CASE r.event \notin Received \cup Sent /\ UNCHANGED <<rows, displaced>>
  <2>1. r.event \notin Unshield
    BY <1>3, EventKindsDisjoint
  <2>2. Passes(o, n, {}, {})
    BY <1>2, <1>3, <1>7, <2>1, StoreNames DEF Passes, Ahead, Batches, Of
  <2>. QED
    BY <1>1, <1>2, <1>3, <1>7, <2>2, ImportStill
<1>. QED
  BY <1>1, <1>5, <1>6, <1>7

LEMMA SyncMark ==
    ASSUME SessionInv, TypeInv', UNCHANGED sessionVars, job.kind = "none",
           NEW p \in Syncer, MarkSpent(p) \/ MarkSpentFails(p)
    PROVE  SessionInv'
<1>. DEFINE o == op[p]
<1>1. PICK r \in o.todo : op' = [op EXCEPT ![p] = Done(o, r)]
  BY DEF MarkSpent, MarkSpentFails
<1>2. o.pc = "marks" /\ o.pc \in Loops /\ UNCHANGED <<chainVars, rows, checkpoint>>
  BY DEF MarkSpent, MarkSpentFails, Loops, storeVars
<1>3. PICK n \in {Done(o, r)} : Moves(o, n) /\ n.pc = o.pc /\ o.pc \in Import
  BY <1>2, DoneMoves
<1>4. Passes(o, n, {}, {})
  BY <1>2, <1>3 DEF Passes, Ahead, Batches
<1>5. \A s \in Store : displaced'[s] = displaced[s]
  BY MarkStores, SessionTypes DEF MarkSpent, MarkSpentFails, storeVars
<1>. QED
  BY <1>1, <1>2, <1>3, <1>4, <1>5, ImportStill

LEMMA SyncEndLoop ==
    ASSUME SessionInv, TypeInv', UNCHANGED sessionVars, job.kind = "none",
           NEW p \in Syncer, EndLoop(p)
    PROVE  SessionInv'
<1>. DEFINE o == op[p]
            next == LoopAfter[o.pc]
<1>1. /\ o.pc \in {"transactions", "unshieldPOI", "commitments"} /\ o.todo = {}
      /\ op' = [op EXCEPT ![p] = EnterLoop(o, next)]
      /\ UNCHANGED <<chainVars, rows, checkpoint, displaced>>
  BY DEF EndLoop, LoopAfter, storeVars
<1>2. o.pc \in Import
  BY <1>1 DEF Import, Loops
<1>3. o \in Call /\ o.queue # <<>>
  BY <1>2, ImportFacts
<1>4. /\ next \in {"unshieldPOI", "commitments", "marks"}
      /\ o.pc = "transactions" => next = "unshieldPOI"
      /\ o.pc = "unshieldPOI" => next = "commitments"
      /\ o.pc = "commitments" => next = "marks"
  BY <1>1 DEF LoopAfter
<1>5. EnterLoop(o, next) \in Call
  BY <1>3, <1>4, EnterLoopType DEF Loops
<1>. HIDE DEF next
<1>6. PICK n \in {EnterLoop(o, next)} :
        /\ n.pc = next /\ n.queue = o.queue /\ n.from = o.from /\ n.to = o.to
        /\ n.chunkTo = o.chunkTo /\ n.logs = o.logs /\ n.todo = Of(LoopOver[next], o.logs)
  BY <1>3 DEF EnterLoop, Call
<1>7. Moves(o, n)
  BY <1>4, <1>5, <1>6 DEF Moves, Import, Loops, Of
<1>8. Passes(o, n, {}, {})
  <2>1. CASE o.pc = "transactions"
    <3>1. n.pc = "unshieldPOI" /\ n.todo = Of(Unshield, o.logs)
      BY <1>4, <1>6, <2>1 DEF LoopOver
    <3>. QED
      BY <1>1, <2>1, <3>1, StoreNames DEF Passes, Ahead, Batches, Of
  <2>2. CASE o.pc = "unshieldPOI"
    <3>1. n.pc = "commitments" /\ n.todo = Of(Commitment, o.logs)
      BY <1>4, <1>6, <2>2 DEF LoopOver
    <3>. QED
      BY <1>1, <2>2, <3>1, StoreNames DEF Passes, Ahead, Batches, Of, Received, Sent
  <2>3. CASE o.pc = "commitments"
    BY <1>1, <2>3 DEF Passes, Ahead, Batches
  <2>. QED
    BY <1>1, <2>1, <2>2, <2>3
<1>. QED
  BY <1>1, <1>2, <1>6, <1>7, <1>8, ImportStill

LEMMA SyncReadCheckpoints ==
    ASSUME SessionInv, TypeInv', UNCHANGED sessionVars, job.kind = "none",
           NEW p \in Syncer, ReadCheckpoints(p)
    PROVE  SessionInv'
<1>. DEFINE o == op[p]
            n == [o EXCEPT !.pc = "save", !.file = checkpoint]
<1>1. o.pc = "marks" /\ o.pc \in Import /\ o.todo = {}
      /\ UNCHANGED <<chainVars, rows, checkpoint, displaced>>
  BY DEF ReadCheckpoints, Import, Loops, storeVars
<1>2. o \in Call /\ SyncInv(o) /\ op \in [Syncer -> Call]
  BY DEF SessionInv, SessionTypeOK, TypeOK
<1>3. op' = [op EXCEPT ![p] = n]
  BY <1>2 DEF ReadCheckpoints
<1>4. op'[p] = n /\ n.pc = "save" /\ n.queue = o.queue /\ n.from = o.from /\ n.to = o.to
      /\ n.chunkTo = o.chunkTo /\ n.logs = o.logs /\ n.todo = o.todo
      /\ n.file = checkpoint
  BY <1>2, <1>3 DEF Call
<1>. HIDE DEF n
<1>5. KeptStep
  BY <1>1, WrittenSame DEF KeptStep, sessionVars
<1>6. Settled(op[p].queue[1], op[p].from)'
  <2>1. PICK v \in {o.queue[1]}, k \in {o.from} : Settled(v, k)
    BY <1>1, <1>2 DEF SyncInv
  <2>2. Settled(v, k)'
    BY <1>5, <2>1, SettledKept
  <2>. QED
    BY <1>4, <2>1, <2>2 DEF Settled
<1>7. \A v \in Version : Settled(v, op[p].file[v])'
  <2>. TAKE v \in Version
  <2>1. PICK k \in {checkpoint[v]} : Settled(v, k)
    BY DEF SessionInv
  <2>2. Settled(v, k)'
    BY <1>5, <2>1, SettledKept
  <2>. QED
    BY <1>4, <2>1, <2>2 DEF Settled
<1>8. op'[p].from <= op'[p].to /\ op'[p].to <= Finalized'
  BY <1>1, <1>2, <1>4 DEF SyncInv, chainVars, Finalized
<1>9. ChunkInv(op[p])'
  BY <1>1, <1>2, <1>4 DEF SyncInv, ChunkInv, LogsIn, chainVars
<1>10. \A s \in Store : \A r \in Of(Keeps[s], n.logs) : r.block < stale => r \in Written(s)'
  BY <1>1, <1>2, <1>4, WrittenSame, StoreNames DEF SyncInv, Ahead, Batches
<1>11. SyncInv(op[p])'
  BY <1>1, <1>2, <1>4, <1>6, <1>7, <1>8, <1>9, <1>10
     DEF SyncInv, Of, sessionVars
<1>. QED
  BY <1>1, <1>3, <1>11, StillFrame

\* A chunk whose import is over settles its blocks.
LEMMA ChunkSettled ==
    ASSUME SessionInv, NEW p \in Syncer, op[p].pc = "save"
    PROVE  Settled(op[p].queue[1], op[p].chunkTo + 1)
<1>. DEFINE o == op[p]
<1>1. o \in Call /\ SyncInv(o) /\ o.pc \in Import
  BY DEF SessionInv, SessionTypeOK, TypeOK, Import
<1>2. o.from \in Int /\ o.chunkTo \in Int /\ o.to \in Int /\ Finalized \in Int
  BY <1>1, ChainAssumption, SessionTypes DEF Call
<1>3. PICK v \in {o.queue[1]}, from \in Int, end \in Int : from = o.from /\ end = o.chunkTo
  BY <1>2
<1>4. /\ end <= Finalized
      /\ o.logs = LogsIn(v, from, end)
      /\ Settled(v, from)
  BY <1>1, <1>2, <1>3 DEF SyncInv, ChunkInv
<1>5. \A s \in Store : \A r \in Of(Keeps[s], o.logs) : r.block < stale => r \in Written(s)
  BY <1>1, StoreNames DEF SyncInv, Ahead, Batches
<1>6. ASSUME NEW s \in Store, NEW r \in Row,
             r.event \in chain[r.block], VersionOf[r.event] = v, r.event \in Keeps[s],
             r.block < stale, r.block < owed[v], r.block < end + 1
      PROVE  r \in Written(s)
  <2>1. r.block \in Int
    BY RowType
  <2>2. CASE r.block < from
    BY <1>4, <1>6, <2>2 DEF Settled
  <2>3. CASE ~ r.block < from
    <3>1. from <= r.block /\ r.block <= end
      BY <1>6, <2>1, <2>3
    <3>2. r \in Of(Keeps[s], o.logs)
      BY <1>4, <1>6, <3>1 DEF LogsIn, Of
    <3>. QED
      BY <1>5, <1>6, <3>2
  <2>. QED
    BY <2>2, <2>3
<1>7. Settled(v, end + 1)
  <2>1. end + 1 - 1 <= Finalized
    BY <1>2, <1>4
  <2>. QED
    BY <1>6, <2>1 DEF Settled
<1>. QED
  BY <1>3, <1>7

LEMMA SyncSave ==
    ASSUME SessionInv, TypeInv', UNCHANGED sessionVars, job.kind = "none",
           NEW p \in Syncer, SaveCheckpoint(p)
    PROVE  SessionInv'
<1>. DEFINE o == op[p]
            more == [Idle EXCEPT !.pc = "fetch", !.queue = o.queue,
                                 !.from = o.chunkTo + 1, !.to = o.to]
            n == IF o.chunkTo = o.to THEN NextVersion(o) ELSE more
<1>1. /\ o.pc = "save" /\ op' = [op EXCEPT ![p] = n]
      /\ UNCHANGED <<chainVars, rows, displaced>>
      /\ checkpoint' = [o.file EXCEPT ![o.queue[1]] = o.chunkTo + 1]
  BY DEF SaveCheckpoint, NextBlock, Syncing
<1>2. o \in Call /\ SyncInv(o) /\ op \in [Syncer -> Call] /\ o.pc \in Import
  BY <1>1 DEF SessionInv, SessionTypeOK, TypeOK, Import
<1>3. KeptStep
  BY <1>1, WrittenSame DEF KeptStep, sessionVars
<1>4. PICK v \in {o.queue[1]}, k \in Int : k = o.chunkTo + 1
  BY <1>2, ChainAssumption DEF Call
<1>5. Settled(v, k)
  BY <1>1, <1>4, ChunkSettled
<1>6. Settled(v, k)'
  BY <1>3, <1>5, SettledKept
<1>7. \A w \in Version : Settled(w, checkpoint[w])'
  <2>. TAKE w \in Version
  <2>1. CASE w = v
    <3>1. checkpoint'[w] = k
      BY <1>1, <1>2, <1>4, <2>1 DEF Call
    <3>. QED
      BY <1>6, <2>1, <3>1 DEF Settled
  <2>2. CASE w # v
    <3>1. checkpoint'[w] = o.file[w]
      BY <1>1, <1>2, <1>4, <2>2 DEF Call
    <3>2. PICK i \in {o.file[w]} : Settled(w, i)
      BY <1>1, <1>2 DEF SyncInv
    <3>3. Settled(w, i)'
      BY <1>3, <3>2, SettledKept
    <3>. QED
      BY <3>1, <3>2, <3>3 DEF Settled
  <2>. QED
    BY <2>1, <2>2
<1>8. op'[p] = n
  BY <1>1, <1>2
<1>9. SyncInv(op[p])'
  <2>1. CASE o.chunkTo = o.to
    BY <1>1, <1>8, <2>1, SyncNextVersion
  <2>2. CASE o.chunkTo # o.to
    <3>1. op'[p] = more
      BY <1>8, <2>2
    <3>2. more.pc = "fetch" /\ more.queue = o.queue /\ more.from = o.chunkTo + 1
          /\ more.to = o.to /\ more.todo = {}
      BY DEF Idle
    <3>3. Settled(op[p].queue[1], op[p].from)'
      BY <1>4, <1>6, <3>1, <3>2 DEF Settled
    <3>4. o.chunkTo + 1 <= o.to /\ o.to <= Finalized'
      BY <1>1, <1>2, <2>2, ChainAssumption DEF SyncInv, ChunkInv, Call, chainVars, Finalized
    <3>. QED
      BY <3>1, <3>2, <3>3, <3>4 DEF SyncInv, ChunkInv, Import, Batches, Loops
  <2>. QED
    BY <2>1, <2>2
<1>10. \A s \in Store : \A r \in rows'[s] : Trusted(r)
  BY <1>1 DEF SessionInv
<1>. QED
  BY <1>1, <1>3, <1>7, <1>9, <1>10, SyncFrame

LEMMA SyncCrash ==
    ASSUME SessionInv, TypeInv', UNCHANGED sessionVars, job.kind = "none", Crash
    PROVE  SessionInv'
<1>1. UNCHANGED <<chainVars, rows, checkpoint, displaced>> /\ op' = [p \in Syncer |-> Idle]
  BY DEF Crash, storeVars
<1>2. KeptStep
  BY <1>1, WrittenSame DEF KeptStep, sessionVars
<1>3. SessionTypeOK' /\ \A q \in Syncer : CallType(op[q])'
  BY DEF TypeInv, SessionInv, SessionTypeOK, sessionVars, Never
<1>4. \A q \in Syncer : SyncInv(op[q])'
  <2>. TAKE q \in Syncer
  <2>1. op'[q].pc = "idle"
    BY <1>1 DEF Idle
  <2>2. CallType(op[q])'
    BY <1>3
  <2>. QED
    BY <2>1, <2>2, RestInv
<1>5. \A v \in Version : Settled(v, checkpoint[v])'
  <2>. TAKE v \in Version
  <2>1. PICK k \in {checkpoint[v]} : Settled(v, k)
    BY DEF SessionInv
  <2>2. Settled(v, k)'
    BY <1>2, <2>1, SettledKept
  <2>. QED
    BY <1>1, <2>1, <2>2 DEF Settled
<1>6. \A s \in Store : \A r \in rows'[s] : Trusted(r)'
  BY <1>1, <1>2, TrustedKept DEF SessionInv
<1>7. ChainInv' /\ ApartInv'
  BY <1>1, ChainKept DEF SessionInv, ApartInv, sessionVars, Finalized, chainVars, Never
<1>8. RollbackInv' /\ RescanInv'
  BY DEF RollbackInv, RescanInv, sessionVars
<1>. QED
  BY <1>3, <1>4, <1>5, <1>6, <1>7, <1>8 DEF SessionInv

-----------------------------------------------------------------------------
(* The steps between the calls.                                            *)

\* What is left to prove of a step that no call of Sync takes part in.
LEMMA IdleFrame ==
    ASSUME SessionInv, SessionTypeOK', UNCHANGED op,
           \A p \in Syncer : op[p].pc = "idle",
           ChainInv', ApartInv', RollbackInv', RescanInv',
           \A s \in Store : \A r \in rows'[s] : Trusted(r)',
           \A v \in Version : Settled(v, checkpoint[v])'
    PROVE  SessionInv'
<1>1. \A q \in Syncer : CallType(op[q])'
  BY DEF SessionInv, CallType
<1>2. \A q \in Syncer : SyncInv(op[q])'
  <2>. TAKE q \in Syncer
  <2>1. op'[q].pc = "idle" /\ CallType(op[q])'
    BY <1>1
  <2>. QED
    BY <2>1, RestInv
<1>. QED
  BY <1>1, <1>2 DEF SessionInv

\* Blocks are mined and replaced above the final ones.
LEMMA IdleEnvironment ==
    ASSUME SessionInv, TypeInv', UNCHANGED sessionVars, job.kind = "none",
           Quiet, Environment
    PROVE  SessionInv'
<1>1. /\ UNCHANGED <<rows, displaced, checkpoint, op, stale, owed, job>>
      /\ \A p \in Syncer : op[p].pc = "idle"
  BY DEF Environment, storeVars, sessionVars, Quiet
<1>2. StableStep /\ ChainInv'
  BY SessionTypes, EnvironmentStable
<1>3. /\ \A b \in Block : b <= Finalized => chain'[b] = chain[b]
      /\ Finalized \in Int /\ Finalized' \in Int /\ Finalized <= Finalized'
  BY <1>2 DEF StableStep
<1>4. /\ stale \in Int /\ MaxBlock \in Nat /\ \A b \in Block : b \in Int /\ b <= MaxBlock
      /\ stale = MaxBlock + 2 \/ stale - 1 <= Finalized
      /\ \A v \in Version : owed[v] \in Int /\ checkpoint[v] \in Int
  BY SessionTypes DEF SessionInv, ApartInv, Never, Block
<1>5. ASSUME NEW s \in Store, NEW r \in rows[s] PROVE Trusted(r)'
  <2>1. r \in Row /\ r.block \in Block /\ Trusted(r)
    BY SessionTypes, RowType DEF SessionInv
  <2>2. CASE r.block < stale
    BY <1>1, <1>3, <1>4, <2>1, <2>2 DEF Trusted
  <2>3. CASE ~ r.block < stale
    <3>1. stale - 1 <= Finalized
      BY <1>4, <2>1, <2>3
    <3>2. ASSUME NEW c \in Block, c < stale PROVE r.event \notin chain'[c]
      <4>1. chain'[c] = chain[c]
        BY <1>3, <1>4, <3>1, <3>2
      <4>. QED
        BY <2>1, <2>3, <3>2, <4>1 DEF Trusted
    <3>. QED
      BY <1>1, <2>3, <3>2 DEF Trusted
  <2>. QED
    BY <2>2, <2>3
<1>6. ASSUME NEW v \in Version PROVE Settled(v, checkpoint[v])'
  <2>1. PICK k \in Int : k = checkpoint[v]
    BY <1>4
  <2>2. Settled(v, k)
    BY <2>1 DEF SessionInv
  <2>3. \/ k <= 1 \/ k - 1 <= Finalized'
        \/ stale - 1 <= Finalized' \/ owed[v] - 1 <= Finalized' \/ owed[v] <= 1
    BY <1>3, <1>4, <2>2 DEF Settled
  <2>4. ASSUME NEW s \in Store, NEW r \in Row,
               r.event \in chain'[r.block], VersionOf[r.event] = v, r.event \in Keeps[s],
               r.block < stale, r.block < owed[v], r.block < k
        PROVE  r \in Written(s)'
    <3>1. r.block \in Block /\ r.block \in Int /\ r.block >= 1
      BY RowType
    <3>2. r.block <= Finalized
      BY <1>3, <1>4, <2>2, <2>4, <3>1 DEF Settled
    <3>3. r.event \in chain[r.block]
      BY <1>3, <2>4, <3>1, <3>2
    <3>. QED
      BY <1>1, <2>2, <2>4, <3>3, WrittenSame DEF Settled
  <2>5. Settled(v, k)'
    BY <1>1, <2>3, <2>4 DEF Settled
  <2>. QED
    BY <1>1, <2>1, <2>5 DEF Settled
<1>7. SessionTypeOK'
  BY DEF TypeInv, SessionInv, SessionTypeOK, sessionVars, Never
<1>8. ApartInv'
  BY <1>1, <1>3, <1>4 DEF ApartInv, Never
<1>9. RollbackInv' /\ RescanInv'
  BY <1>1 DEF RollbackInv, RescanInv
<1>. QED
  BY <1>1, <1>2, <1>5, <1>6, <1>7, <1>8, <1>9, IdleFrame

\* A reorganisation of final blocks.
LEMMA IdleDeepReorg ==
    ASSUME SessionInv, DeepReorg
    PROVE  SessionInv'
<1>. USE DEF Block
<1>1. /\ UNCHANGED <<storeVars, op, skipped, faults, job, jobs, owed, unmarked>>
      /\ Quiet /\ deep < MaxDeep /\ deep' = deep + 1
  BY DEF DeepReorg
<1>2. PICK b \in Block :
        /\ b <= Finalized /\ b <= head
        /\ chain' = [c \in Block |-> IF c < b THEN chain[c] ELSE {}]
        /\ head' = b - 1
        /\ peak' = b - 1 + Confirmations
        /\ stale' = Lower(stale, b)
  BY DEF DeepReorg
<1>3. /\ stale \in Int /\ stale >= 1 /\ stale <= MaxBlock + 2
      /\ MaxBlock \in Nat /\ Confirmations \in Nat /\ b \in Int /\ b >= 1 /\ b <= MaxBlock
      /\ peak \in Int /\ peak <= MaxBlock /\ b <= peak - Confirmations
      /\ chain \in [Block -> SUBSET Event]
  BY <1>2, SessionTypes, ChainAssumption DEF TypeInv, TypeOK, ChainTypeOK, Finalized
<1>4. stale' \in Int /\ stale' <= b /\ stale' <= stale /\ stale' >= 1
      /\ (stale' = b \/ stale' = stale) /\ Finalized' = b - 1
  BY <1>2, <1>3 DEF Lower, Finalized
<1>5. stale' - 1 <= Finalized'
  <2>. DEFINE i == stale'
  <2>1. i \in Int /\ i <= b /\ Finalized' = b - 1
    BY <1>3, <1>4
  <2>. HIDE DEF i
  <2>2. i - 1 <= b - 1
    BY <1>3, <2>1, MinusMonotonic
  <2>. QED
    BY <2>1, <2>2 DEF i
<1>6. \A c \in Block : chain'[c] = IF c < b THEN chain[c] ELSE {}
  BY <1>2
<1>7. SessionTypeOK'
  <2>1. ChainTypeOK'
    <3>1. head' \in 0 .. MaxBlock /\ peak' \in 0 .. MaxBlock
      BY <1>2, <1>3
    <3>2. chain' \in [Block -> SUBSET Event]
      BY <1>2, <1>3
    <3>. QED
      BY <3>1, <3>2 DEF ChainTypeOK
  <2>2. stale' \in 1 .. Never
    BY <1>3, <1>4 DEF Never
  <2>3. deep' \in 0 .. MaxDeep
    BY <1>1, SessionAssumption DEF SessionInv, SessionTypeOK
  <2>. QED
    BY <1>1, <2>1, <2>2, <2>3 DEF SessionInv, SessionTypeOK, TypeOK, storeVars, Never
<1>8. ChainInv'
  <2>1. \A c, d \in Block : c # d => chain'[c] \cap chain'[d] = {}
    BY <1>6 DEF SessionInv, ChainInv
  <2>2. Finalized' <= head' /\ head' <= peak'
    BY <1>2, <1>3, <1>4
  <2>3. KeysOnce(OnChain)'
    <3>1. OnChain' \subseteq OnChain
      BY <1>6 DEF OnChain
    <3>. QED
      BY <3>1 DEF SessionInv, ChainInv, KeysOnce
  <2>. QED
    BY <2>1, <2>2, <2>3 DEF ChainInv
<1>9. ASSUME NEW s \in Store, NEW r \in rows[s] PROVE Trusted(r)'
  <2>1. r \in Row /\ r.block \in Block /\ r.block \in Int /\ Trusted(r)
    BY SessionTypes, RowType DEF SessionInv
  <2>2. CASE r.block < stale'
    <3>1. r.block < stale /\ r.block < b
      BY <1>3, <1>4, <2>1, <2>2
    <3>2. r.event \in chain'[r.block] /\ r.block <= Finalized'
      BY <1>3, <1>4, <1>6, <2>1, <3>1 DEF Trusted
    <3>. QED
      BY <2>2, <3>2 DEF Trusted
  <2>3. CASE ~ r.block < stale'
    <3>1. ASSUME NEW c \in Block, c < stale' PROVE r.event \notin chain'[c]
      <4>1. c \in Int /\ c < b /\ c < stale /\ chain'[c] = chain[c]
        BY <1>3, <1>4, <1>6, <3>1
      <4>2. CASE r.block < stale
        <5>1. r.event \in chain[r.block] /\ c # r.block
          BY <1>4, <2>1, <2>3, <3>1, <4>1, <4>2 DEF Trusted
        <5>. QED
          BY <2>1, <4>1, <5>1 DEF SessionInv, ChainInv
      <4>3. CASE ~ r.block < stale
        BY <2>1, <4>1, <4>3 DEF Trusted
      <4>. QED
        BY <4>2, <4>3
    <3>. QED
      BY <2>3, <3>1 DEF Trusted
  <2>. QED
    BY <2>2, <2>3
<1>10. ASSUME NEW v \in Version PROVE Settled(v, checkpoint[v])'
  <2>1. PICK k \in {checkpoint[v]} : Settled(v, k)
    BY DEF SessionInv
  <2>2. stale' - 1 <= Finalized'
    BY <1>5
  <2>3. ASSUME NEW s \in Store, NEW r \in Row,
               r.event \in chain'[r.block], VersionOf[r.event] = v, r.event \in Keeps[s],
               r.block < stale', r.block < owed[v], r.block < k
        PROVE  r \in Written(s)'
    <3>1. r.block \in Block /\ r.block \in Int
      BY RowType
    <3>2. r.block < stale /\ r.event \in chain[r.block]
      BY <1>3, <1>4, <1>6, <2>3, <3>1
    <3>. QED
      BY <1>1, <2>1, <2>3, <3>2, WrittenSame DEF Settled, storeVars
  <2>. QED
    BY <1>1, <2>1, <2>2, <2>3 DEF Settled, storeVars
<1>11. ApartInv' /\ RollbackInv' /\ RescanInv'
  BY <1>1, <1>5 DEF ApartInv, RollbackInv, RescanInv, Quiet
<1>. QED
  BY <1>1, <1>7, <1>8, <1>9, <1>10, <1>11, IdleFrame DEF Quiet, storeVars

\* What is left to prove of a step of a job that moves no debt.
LEMMA JobFrame ==
    ASSUME SessionInv, SessionTypeOK', job.kind # "none" \/ Quiet,
           UNCHANGED <<op, checkpoint>>, KeptStep, RollbackInv', RescanInv',
           \A s \in Store : \A r \in rows'[s] : Trusted(r)
    PROVE  SessionInv'
<1>1. \A p \in Syncer : op[p].pc = "idle"
  BY DEF SessionInv, ApartInv, Quiet
<1>2. ChainInv' /\ ApartInv'
  BY <1>1, ChainKept DEF SessionInv, ApartInv, KeptStep, Finalized, chainVars, Never
<1>3. \A s \in Store : \A r \in rows'[s] : Trusted(r)'
  BY TrustedKept
<1>4. \A v \in Version : Settled(v, checkpoint[v])'
  <2>. TAKE v \in Version
  <2>1. PICK k \in {checkpoint[v]} : Settled(v, k)
    BY DEF SessionInv
  <2>2. Settled(v, k)'
    BY <2>1, SettledKept
  <2>. QED
    BY <2>1, <2>2 DEF Settled
<1>. QED
  BY <1>1, <1>2, <1>3, <1>4, IdleFrame

LEMMA JobTypes ==
    ASSUME SessionInv
    PROVE  /\ job.from \in Block /\ job.from \in Int /\ job.from >= 1
           /\ job.stage \in Nat \ {0} /\ job.key \in Version /\ job.todo \subseteq Row
           /\ job \in [kind : {"none", "rollback", "rescan"}, key : Version, from : Block,
                      stage : Nat \ {0}, todo : SUBSET Row]
           /\ Len(RollbackStages) = 6
           /\ NoJob \in [kind : {"none", "rollback", "rescan"}, key : Version, from : Block,
                        stage : Nat \ {0}, todo : SUBSET Row]
           /\ NoJob.kind = "none" /\ NoJob.stage = 1
<1>1. Len(RollbackStages) = 6
  BY DEF RollbackStages
<1>2. NoJob \in [kind : {"none", "rollback", "rescan"}, key : Version, from : Block,
                stage : Nat \ {0}, todo : SUBSET Row]
  BY ChainAssumption DEF NoJob, Block, Version
<1>3. /\ job.from \in Block /\ job.from \in Int /\ job.from >= 1
      /\ job.stage \in Nat \ {0} /\ job.key \in Version /\ job.todo \subseteq Row
  BY ChainAssumption DEF SessionInv, SessionTypeOK, Block
<1>. QED
  BY <1>1, <1>2, <1>3 DEF SessionInv, SessionTypeOK, NoJob

\* A rollback begins: from now on its blocks are owed.
LEMMA RollbackBegins ==
    ASSUME SessionInv, NEW key \in Version, NEW from \in Block, BeginRollback(key, from)
    PROVE  SessionInv'
<1>1. /\ Quiet /\ jobs < MaxJobs
      /\ job' = [NoJob EXCEPT !.kind = "rollback", !.key = key, !.from = from]
      /\ jobs' = jobs + 1
      /\ owed' = [v \in Version |-> Lower(owed[v], from)]
      /\ UNCHANGED <<vars, deep, stale, unmarked>>
  BY DEF BeginRollback
<1>2. /\ job'.kind = "rollback" /\ job'.from = from /\ job'.stage = 1
      /\ job' \in [kind : {"none", "rollback", "rescan"}, key : Version, from : Block,
                   stage : Nat \ {0}, todo : SUBSET Row]
  BY <1>1, JobTypes
<1>3. from \in Int /\ from >= 1 /\ from <= MaxBlock /\ MaxBlock \in Nat
      /\ \A v \in Version : owed[v] \in 1 .. MaxBlock + 2
  BY ChainAssumption DEF Block, SessionInv, SessionTypeOK, Never
<1>4. \A v \in Version : owed'[v] \in 1 .. MaxBlock + 2 /\ owed'[v] <= owed[v] /\ owed'[v] <= from
  BY <1>1, <1>3 DEF Lower
<1>5. UNCHANGED <<chainVars, storeVars, op, skipped, faults>>
  BY <1>1 DEF vars
<1>6. SessionTypeOK'
  <2>1. TypeOK'
    BY <1>5 DEF SessionInv, SessionTypeOK, TypeOK, ChainTypeOK, chainVars, storeVars
  <2>2. owed' \in [Version -> 1 .. Never]
    BY <1>1, <1>4 DEF Never
  <2>3. jobs' \in 0 .. MaxJobs
    BY <1>1, SessionAssumption DEF SessionInv, SessionTypeOK
  <2>4. /\ job'.kind = "rollback" => job'.stage <= Len(RollbackStages)
        /\ job'.kind = "rescan" => job'.stage <= Len(RescanStages)
    <3>1. 1 <= Len(RollbackStages)
      BY DEF RollbackStages
    <3>. QED
      BY <1>2, <3>1
  <2>5. stale' \in 1 .. Never /\ deep' \in 0 .. MaxDeep /\ unmarked' \in BOOLEAN
    BY <1>1 DEF SessionInv, SessionTypeOK
  <2>. QED
    BY <1>2, <2>1, <2>2, <2>3, <2>4, <2>5 DEF SessionTypeOK, Never
<1>7. ASSUME NEW v \in Version PROVE Settled(v, checkpoint[v])'
  <2>1. PICK k \in {checkpoint[v]} : Settled(v, k)
    BY DEF SessionInv
  <2>2. owed[v] \in Int /\ owed'[v] \in Int /\ owed'[v] <= owed[v] /\ Finalized \in Int
    BY <1>3, <1>4, SessionTypes
  <2>3. \/ k <= 1 \/ k - 1 <= Finalized
        \/ stale - 1 <= Finalized \/ owed'[v] - 1 <= Finalized \/ owed'[v] <= 1
    BY <2>1, <2>2 DEF Settled
  <2>4. ASSUME NEW s \in Store, NEW r \in Row,
               r.event \in chain[r.block], VersionOf[r.event] = v, r.event \in Keeps[s],
               r.block < stale, r.block < owed'[v], r.block < k
        PROVE  r \in Written(s)'
    <3>1. r.block \in Int /\ r.block < owed[v]
      BY <2>2, <2>4, RowType
    <3>. QED
      BY <1>5, <2>1, <2>4, <3>1, WrittenSame DEF Settled, storeVars
  <2>. QED
    BY <1>1, <1>5, <2>1, <2>3, <2>4 DEF Settled, chainVars, storeVars, Finalized
<1>8. \A s \in Store : \A r \in rows'[s] : Trusted(r)'
  BY <1>1, <1>5 DEF SessionInv, Trusted, chainVars, storeVars, Finalized
<1>9. ChainInv' /\ ApartInv' /\ RollbackInv' /\ RescanInv'
  BY <1>1, <1>2, <1>4, <1>5, ChainKept
     DEF SessionInv, ApartInv, RollbackInv, RescanInv, Quiet, Finalized, chainVars, Never
<1>. QED
  BY <1>1, <1>5, <1>6, <1>7, <1>8, <1>9, IdleFrame DEF Quiet

\* A store drops the rows of the blocks that are owed.
LEMMA RollbackDrops ==
    ASSUME SessionInv, RollbackStore
    PROVE  SessionInv'
<1>. DEFINE from == job.from
            stage == RollbackStages[job.stage]
<1>1. /\ job.kind = "rollback" /\ job' = [job EXCEPT !.stage = job.stage + 1]
      /\ UNCHANGED <<chainVars, checkpoint, displaced, op, skipped, faults,
                     jobs, deep, stale, owed, unmarked>>
      /\ stage \in {"state", "txidStore", "txidTree", "utxoTree", "poiEvents"}
  BY DEF RollbackStore
<1>2. /\ rows \in [Store -> SUBSET Row] /\ spent \in [Received -> 0 .. MaxBlock]
      /\ txidTree \subseteq [position : 0 .. MaxLeaves, row : Row]
      /\ from \in Int /\ job.stage \in Nat \ {0} /\ job.stage <= 6
  BY <1>1, JobTypes DEF SessionInv, SessionTypeOK, TypeOK
<1>3. /\ job.stage \in 1 .. 5
      /\ stage = "state" <=> job.stage = 1
      /\ stage = "txidStore" <=> job.stage = 2
      /\ stage = "txidTree" <=> job.stage = 3
      /\ stage = "utxoTree" <=> job.stage = 4
      /\ stage = "poiEvents" <=> job.stage = 5
  BY <1>1, <1>2 DEF RollbackStages
<1>. HIDE DEF stage
<1>4. /\ rows' \in [Store -> SUBSET Row]
      /\ \A s \in Store : rows'[s] \in {rows[s], Keep(rows[s], from)}
      /\ stage = "state" => rows'.txos = Keep(rows.txos, from)
      /\ stage = "txidStore" => rows'.transactions = Keep(rows.transactions, from)
      /\ stage = "utxoTree" => /\ rows'.leaves = Keep(rows.leaves, from)
                              /\ rows'.commitments = Keep(rows.commitments, from)
                              /\ rows'.nullifiers = Keep(rows.nullifiers, from)
                              /\ rows'.unshields = Keep(rows.unshields, from)
      /\ stage = "poiEvents" => rows'.poiEvents = Keep(rows.poiEvents, from)
  <2>1. \A T \in SUBSET Row : Keep(T, from) \in SUBSET Row
    BY DEF Keep
  <2>2. /\ rows.txos \in SUBSET Row /\ rows.transactions \in SUBSET Row
        /\ rows.leaves \in SUBSET Row /\ rows.commitments \in SUBSET Row
        /\ rows.nullifiers \in SUBSET Row
        /\ rows.unshields \in SUBSET Row /\ rows.poiEvents \in SUBSET Row
    BY <1>2, StoreNames
  <2>3. CASE stage = "state"
    <3>1. rows' = [rows EXCEPT !.txos = Keep(rows.txos, from)]
      BY <1>2, <2>3 DEF RollbackStore, stage
    <3>. QED
      BY <1>2, <2>1, <2>2, <2>3, <3>1, StoreNames
  <2>4. CASE stage = "txidStore"
    <3>1. rows' = [rows EXCEPT !.transactions = Keep(rows.transactions, from)]
      BY <1>2, <2>4 DEF RollbackStore, stage
    <3>. QED
      BY <1>2, <2>1, <2>2, <2>4, <3>1, StoreNames
  <2>5. CASE stage = "txidTree"
    <3>1. rows' = rows
      BY <2>5 DEF RollbackStore, stage
    <3>. QED
      BY <1>2, <2>5, <3>1
  <2>6. CASE stage = "utxoTree"
    <3>1. rows' = [rows EXCEPT !.leaves = Keep(rows.leaves, from),
                               !.commitments = Keep(rows.commitments, from),
                               !.nullifiers = Keep(rows.nullifiers, from),
                               !.unshields = Keep(rows.unshields, from)]
      BY <1>2, <2>6, StoreNames DEF RollbackStore, stage
    <3>. QED
      BY <1>2, <2>1, <2>2, <2>6, <3>1, StoreNames
  <2>7. CASE stage = "poiEvents"
    <3>1. rows' = [rows EXCEPT !.poiEvents = Keep(rows.poiEvents, from)]
      BY <1>2, <2>7 DEF RollbackStore, stage
    <3>. QED
      BY <1>2, <2>1, <2>2, <2>7, <3>1, StoreNames
  <2>. QED
    BY <1>1, <2>3, <2>4, <2>5, <2>6, <2>7
<1>5. \A s \in Store : rows'[s] \subseteq rows[s]
      /\ \A r \in Written(s) : r.block < from => r \in Written(s)'
  BY <1>1, <1>4 DEF Keep, Written
<1>6. spent' \in [Received -> 0 .. MaxBlock]
      /\ txidTree' \subseteq [position : 0 .. MaxLeaves, row : Row]
  BY <1>2, ChainAssumption DEF RollbackStore
<1>7. /\ job'.kind = "rollback" /\ job'.from = from /\ job'.stage = job.stage + 1
      /\ job' \in [kind : {"none", "rollback", "rescan"}, key : Version, from : Block,
                   stage : Nat \ {0}, todo : SUBSET Row]
  BY <1>1, <1>2, JobTypes
<1>8. SessionTypeOK'
  <2>1. TypeOK'
    BY <1>1, <1>4, <1>6 DEF SessionInv, SessionTypeOK, TypeOK, ChainTypeOK, chainVars
  <2>2. job'.stage <= Len(RollbackStages)
    <3>1. job.stage + 1 <= 6
      BY <1>3
    <3>. QED
      BY <1>7, <3>1, JobTypes
  <2>. QED
    BY <1>1, <1>7, <2>1, <2>2 DEF SessionInv, SessionTypeOK, Never
<1>9. \A v \in Version : owed[v] \in Int /\ owed[v] <= from
  BY <1>1, SessionTypes DEF SessionInv, RollbackInv
<1>10. ASSUME NEW v \in Version PROVE Settled(v, checkpoint[v])'
  <2>1. PICK k \in {checkpoint[v]} : Settled(v, k)
    BY DEF SessionInv
  <2>2. ASSUME NEW s \in Store, NEW r \in Row,
               r.event \in chain[r.block], VersionOf[r.event] = v, r.event \in Keeps[s],
               r.block < stale, r.block < owed[v], r.block < k
        PROVE  r \in Written(s)'
    <3>1. r.block < from
      BY <1>2, <1>9, <2>2, RowType
    <3>2. r \in Written(s)
      BY <2>1, <2>2 DEF Settled
    <3>. QED
      BY <1>5, <3>1, <3>2
  <2>. QED
    BY <1>1, <2>1, <2>2 DEF Settled, chainVars, Finalized
<1>11. \A s \in Store : \A r \in rows'[s] : Trusted(r)'
  BY <1>1, <1>5 DEF SessionInv, Trusted, chainVars, Finalized
<1>12. RollbackInv'
  <2>1. /\ \A s \in Store : rows'[s] \subseteq rows[s]
        /\ {"txos", "transactions", "leaves", "commitments", "nullifiers", "unshields",
            "poiEvents"} \subseteq Store
    BY <1>5, StoreNames
  <2>2. /\ job.stage > 1 => \A r \in rows.txos : r.block < from
        /\ job.stage > 2 => \A r \in rows.transactions : r.block < from
        /\ job.stage > 4 =>
              \A r \in rows.leaves \cup rows.commitments \cup rows.nullifiers
                         \cup rows.unshields : r.block < from
    BY <1>1 DEF SessionInv, RollbackInv
  <2>3. job'.stage > 1 => \A r \in rows'.txos : r.block < from
    BY <1>3, <1>4, <1>7, <2>1, <2>2 DEF Keep
  <2>4. job'.stage > 2 => \A r \in rows'.transactions : r.block < from
    BY <1>3, <1>4, <1>7, <2>1, <2>2 DEF Keep
  <2>5. job'.stage > 4 =>
          \A r \in rows'.leaves \cup rows'.commitments \cup rows'.nullifiers
                     \cup rows'.unshields : r.block < from
    BY <1>3, <1>4, <1>7, <2>1, <2>2 DEF Keep
  <2>6. job'.stage > 5 => \A r \in rows'.poiEvents : r.block < from
    BY <1>3, <1>4, <1>7 DEF Keep
  <2>. QED
    BY <1>1, <1>7, <1>9, <2>3, <2>4, <2>5, <2>6 DEF RollbackInv
<1>13. ChainInv' /\ ApartInv' /\ RescanInv'
  BY <1>1, <1>7, ChainKept DEF SessionInv, ApartInv, RescanInv, Finalized, chainVars, Never
<1>. QED
  BY <1>1, <1>8, <1>10, <1>11, <1>12, <1>13, IdleFrame DEF SessionInv, ApartInv

\* When a rollback ends, no block comes below the checkpoint or out of debt that
\* was not so before: the checkpoint is moved back below what is settled.
LEMMA RollbackBack ==
    ASSUME SessionInv, RollbackCheckpoint, NEW v \in Version, NEW i \in Int, i >= 1,
           i < stale', i < owed'[v], i < checkpoint'[v]
    PROVE  i < stale /\ i < owed[v] /\ i < checkpoint[v]
<1>. DEFINE from == job.from
            key == job.key
<1>1. /\ job.kind = "rollback"
      /\ checkpoint' = [checkpoint EXCEPT ![key] = RolledBack(@, from)]
      /\ owed' = [owed EXCEPT ![key] =
                    IF checkpoint[key] = 0 /\ from > 1 THEN 1
                    ELSE IF @ >= from THEN Never ELSE @]
      /\ stale' = IF from <= stale THEN Never ELSE stale
  BY DEF RollbackCheckpoint
<1>2. /\ from \in Int /\ from >= 1 /\ from <= MaxBlock /\ MaxBlock \in Nat /\ key \in Version
      /\ checkpoint \in [Version -> 0 .. MaxBlock + 1]
      /\ owed \in [Version -> 1 .. MaxBlock + 2]
      /\ stale \in 1 .. MaxBlock + 2
  <2>1. from \in 1 .. MaxBlock /\ key \in Version
    BY JobTypes DEF Block
  <2>2. /\ checkpoint \in [Version -> 0 .. MaxBlock + 1]
        /\ owed \in [Version -> 1 .. MaxBlock + 2] /\ stale \in 1 .. MaxBlock + 2
    BY DEF SessionInv, SessionTypeOK, TypeOK, Never
  <2>. QED
    BY <2>1, <2>2, ChainAssumption
<1>3. \A w \in Version : owed[w] <= from
  BY <1>1 DEF SessionInv, RollbackInv
<1>4. \A n \in Int : n < from /\ n < stale' => n < stale
  BY <1>1, <1>2 DEF Never
<1>5. PICK k \in Int : k = checkpoint[v] /\ k >= 0
  BY <1>2
<1>6. PICK j \in Int : j = checkpoint'[v] /\ (v # key => j = k)
                      /\ (v = key => j = RolledBack(k, from))
  BY <1>1, <1>2, <1>5 DEF RolledBack
<1>7. PICK a \in Int : a = owed[v] /\ a >= 1 /\ a <= from
  BY <1>2, <1>3
<1>8. PICK d \in Int : d = owed'[v] /\ (v # key => d = a)
                      /\ (v = key => d = IF k = 0 /\ from > 1 THEN 1
                                       ELSE IF a >= from THEN MaxBlock + 2 ELSE a)
  BY <1>1, <1>2, <1>5, <1>7 DEF Never
<1>9. i < stale' /\ i < d /\ i < j
  BY <1>6, <1>8
<1>10. i < from
  BY <1>2, <1>5, <1>6, <1>7, <1>8, <1>9 DEF RolledBack
<1>11. i < stale
  BY <1>4, <1>9, <1>10
<1>12. i < a
  BY <1>2, <1>7, <1>8, <1>9, <1>10
<1>13. i < k
  BY <1>2, <1>5, <1>6, <1>7, <1>8, <1>9, <1>10 DEF RolledBack
<1>. QED
  BY <1>5, <1>7, <1>11, <1>12, <1>13

\* The rollback has reached its end: the rows from its block on are gone from
\* every store, and the blocks of its key are synced again.
LEMMA RollbackEnds ==
    ASSUME SessionInv, RollbackCheckpoint
    PROVE  SessionInv'
<1>. DEFINE from == job.from
            key == job.key
            next == checkpoint[key]
<1>1. /\ job.kind = "rollback" /\ RollbackStages[job.stage] = "checkpoint"
      /\ checkpoint' = [checkpoint EXCEPT ![key] = RolledBack(next, from)]
      /\ owed' = [owed EXCEPT ![key] =
                    IF next = 0 /\ from > 1 THEN 1
                    ELSE IF owed[key] >= from THEN Never ELSE owed[key]]
      /\ stale' = IF from <= stale THEN Never ELSE stale
      /\ job' = NoJob
      /\ UNCHANGED <<chainVars, rows, spent, txidTree, displaced, op, skipped, faults,
                     jobs, deep, unmarked>>
  BY SessionTypes DEF RollbackCheckpoint, SessionInv, SessionTypeOK, TypeOK
<1>2. /\ from \in Int /\ from >= 1 /\ from <= MaxBlock /\ MaxBlock \in Nat /\ key \in Version
      /\ job.stage \in Nat \ {0} /\ job.stage <= 6
      /\ checkpoint \in [Version -> 0 .. MaxBlock + 1]
      /\ owed \in [Version -> 1 .. MaxBlock + 2]
      /\ stale \in 1 .. MaxBlock + 2 /\ Finalized \in Int
      /\ rows \in [Store -> SUBSET Row]
  <2>1. MaxBlock \in Nat /\ from \in 1 .. MaxBlock /\ key \in Version
        /\ job.stage \in Nat \ {0} /\ Finalized \in Int
    BY JobTypes, SessionTypes DEF Block
  <2>2. job.stage <= 6
    BY <1>1, JobTypes DEF SessionInv, SessionTypeOK
  <2>3. /\ checkpoint \in [Version -> 0 .. MaxBlock + 1]
        /\ owed \in [Version -> 1 .. MaxBlock + 2] /\ stale \in 1 .. MaxBlock + 2
        /\ rows \in [Store -> SUBSET Row]
    BY DEF SessionInv, SessionTypeOK, TypeOK, Never
  <2>. QED
    BY <2>1, <2>2, <2>3
<1>3. job.stage = 6
  BY <1>1, <1>2 DEF RollbackStages
<1>4. \A v \in Version : owed[v] <= from
  BY <1>1 DEF SessionInv, RollbackInv
<1>5. \A s \in Store : \A r \in rows[s] : r.block < from
  BY <1>1, <1>3, StoreNames DEF SessionInv, RollbackInv
<1>6. stale' \in Int /\ stale' \in 1 .. MaxBlock + 2
      /\ \A i \in Int : i < from /\ i < stale' => i < stale
  BY <1>1, <1>2 DEF Never
<1>7. SessionTypeOK'
  <2>1. RolledBack(next, from) \in 0 .. MaxBlock + 1
    BY <1>2 DEF RolledBack
  <2>2. checkpoint' \in [Version -> 0 .. MaxBlock + 1]
    BY <1>1, <1>2, <2>1
  <2>3. owed' \in [Version -> 1 .. MaxBlock + 2]
    BY <1>1, <1>2 DEF Never
  <2>4. TypeOK'
    BY <1>1, <2>2 DEF SessionInv, SessionTypeOK, TypeOK, ChainTypeOK, chainVars
  <2>. QED
    BY <1>1, <1>6, <2>3, <2>4, JobTypes DEF SessionInv, SessionTypeOK, Never
<1>8. ASSUME NEW s \in Store, NEW r \in rows[s] PROVE Trusted(r)'
  <2>1. Trusted(r) /\ r.block < from /\ r.block \in Int
    BY <1>2, <1>5, RowType DEF SessionInv
  <2>2. CASE r.block < stale'
    <3>1. r.block < stale
      BY <1>6, <2>1, <2>2
    <3>. QED
      BY <1>1, <2>1, <2>2, <3>1 DEF Trusted, chainVars, Finalized
  <2>3. CASE ~ r.block < stale'
    <3>1. stale' = stale
      BY <1>1, <1>2, <2>1, <2>3 DEF Never
    <3>. QED
      BY <1>1, <2>1, <2>3, <3>1 DEF Trusted, chainVars
  <2>. QED
    BY <2>2, <2>3
<1>9. ASSUME NEW v \in Version PROVE Settled(v, checkpoint[v])'
  <2>1. PICK k \in Int : k = checkpoint[v] /\ k >= 0
    BY <1>2
  <2>2. PICK j \in Int : j = checkpoint'[v] /\ (v # key => j = k)
                        /\ (v = key => j = RolledBack(k, from))
    BY <1>1, <1>2, <2>1 DEF RolledBack
  <2>3. PICK a \in Int : a = owed[v] /\ a >= 1 /\ a <= from
    BY <1>2, <1>4
  <2>4. PICK d \in Int : d = owed'[v] /\ (v # key => d = a)
                        /\ (v = key => d = IF k = 0 /\ from > 1 THEN 1
                                         ELSE IF a >= from THEN MaxBlock + 2 ELSE a)
    BY <1>1, <1>2, <2>1, <2>3 DEF Never
  <2>5. Settled(v, k)
    BY <2>1 DEF SessionInv
  <2>6. ASSUME NEW i \in Int, i >= 1, i < stale', i < d, i < j
        PROVE  i < stale /\ i < a /\ i < k
    BY <2>1, <2>2, <2>3, <2>4, <2>6, RollbackBack
  <2>7. \/ j <= 1 \/ j - 1 <= Finalized
        \/ stale' - 1 <= Finalized \/ d - 1 <= Finalized \/ d <= 1
    <3>1. \/ k <= 1 \/ k - 1 <= Finalized
          \/ stale - 1 <= Finalized \/ a - 1 <= Finalized \/ a <= 1
      BY <2>3, <2>5 DEF Settled
    <3>2. CASE v # key
      BY <1>1, <1>2, <2>2, <2>3, <2>4, <3>1, <3>2
    <3>3. CASE v = key
      BY <1>1, <1>2, <2>1, <2>2, <2>3, <2>4, <3>1, <3>3 DEF RolledBack
    <3>. QED
      BY <3>2, <3>3
  <2>8. ASSUME NEW s \in Store, NEW r \in Row,
               r.event \in chain[r.block], VersionOf[r.event] = v, r.event \in Keeps[s],
               r.block < stale', r.block < d, r.block < j
        PROVE  r \in Written(s)'
    <3>1. r.block \in Int /\ r.block >= 1
      BY RowType
    <3>2. r.block < stale /\ r.block < a /\ r.block < k
      BY <2>6, <2>8, <3>1
    <3>. QED
      BY <1>1, <2>3, <2>5, <2>8, <3>2, WrittenSame DEF Settled
  <2>. QED
    BY <1>1, <2>2, <2>4, <2>7, <2>8 DEF Settled, chainVars, Finalized
<1>10. ApartInv'
  <2>1. stale' = Never \/ stale' = stale
    BY <1>1
  <2>. QED
    BY <1>1, <2>1, JobTypes DEF SessionInv, ApartInv, Finalized, chainVars, Never
<1>11. ChainInv' /\ RollbackInv' /\ RescanInv'
  BY <1>1, ChainKept, JobTypes DEF SessionInv, RollbackInv, RescanInv
<1>. QED
  BY <1>1, <1>7, <1>8, <1>9, <1>10, <1>11, IdleFrame DEF SessionInv, ApartInv

\* A rescan reads rows that the tree store holds, ...
LEMMA RescanReads ==
    ASSUME SessionInv, NEW stage
    PROVE  RescanRows(stage) \subseteq Row /\ \A r \in RescanRows(stage) : Trusted(r)
<1>1. RescanRows(stage) \subseteq rows.unshields \cup rows.nullifiers \cup rows.commitments
  BY DEF RescanRows
<1>2. \A s \in {"unshields", "nullifiers", "commitments"} :
        rows[s] \subseteq Row /\ \A r \in rows[s] : Trusted(r)
  BY SessionTypes, StoreNames DEF SessionInv
<1>. QED
  BY <1>1, <1>2

\* ... one stage after the other.
LEMMA RescanMoves ==
    ASSUME SessionInv, BeginRescan \/ RescanStage \/ RescanMarkFails \/ AbortJob
    PROVE  SessionInv'
<1>1. UNCHANGED <<chainVars, storeVars, op, deep, stale, owed>>
  BY DEF BeginRescan, RescanStage, RescanMarkFails, AbortJob, vars
<1>2. job.kind # "none" \/ Quiet
  BY DEF BeginRescan, RescanStage, RescanMarkFails, AbortJob
<1>3. /\ job'.kind \in {"none", "rescan"} /\ job'.stage <= Len(RescanStages)
      /\ job' \in [kind : {"none", "rollback", "rescan"}, key : Version, from : Block,
                   stage : Nat \ {0}, todo : SUBSET Row]
      /\ job'.kind = "rescan" => \A r \in job'.todo : Trusted(r)
  <2>1. Len(RescanStages) \in Nat /\ Len(RescanStages) >= 1
    <3>1. /\ ActiveVersions \in Seq(Version \cup {"unshields", "marks"})
          /\ <<"unshields", "marks">> \in Seq(Version \cup {"unshields", "marks"})
      BY SyncAssumption
    <3>2. Len(RescanStages) = Len(ActiveVersions) + Len(<<"unshields", "marks">>)
      BY <3>1, ConcatProperties DEF RescanStages
    <3>3. Len(ActiveVersions) \in Nat
      BY SyncAssumption
    <3>. QED
      BY <3>2, <3>3
  <2>2. CASE BeginRescan
    <3>1. job' = [NoJob EXCEPT !.kind = "rescan", !.todo = RescanRows(RescanStages[1])]
      BY <2>2 DEF BeginRescan
    <3>2. RescanRows(RescanStages[1]) \subseteq Row
          /\ \A r \in RescanRows(RescanStages[1]) : Trusted(r)
      BY RescanReads
    <3>3. /\ job'.kind = "rescan" /\ job'.stage = 1 /\ job'.todo = RescanRows(RescanStages[1])
          /\ job' \in [kind : {"none", "rollback", "rescan"}, key : Version, from : Block,
                       stage : Nat \ {0}, todo : SUBSET Row]
      BY <3>1, <3>2, JobTypes
    <3>. QED
      BY <2>1, <3>2, <3>3
  <2>3. CASE RescanStage /\ job.stage < Len(RescanStages)
    <3>. DEFINE next == job.stage + 1
                found == RescanRows(RescanStages[next])
    <3>1. job.kind = "rescan" /\ job' = [job EXCEPT !.stage = next, !.todo = found]
      BY <2>3 DEF RescanStage
    <3>2. found \subseteq Row /\ \A r \in found : Trusted(r)
      BY RescanReads
    <3>3. next \in Nat \ {0}
      BY JobTypes
    <3>. HIDE DEF found
    <3>4. /\ job'.kind = "rescan" /\ job'.stage = next /\ job'.todo = found
          /\ job' \in [kind : {"none", "rollback", "rescan"}, key : Version, from : Block,
                       stage : Nat \ {0}, todo : SUBSET Row]
      <4>. HIDE DEF next
      <4>. QED
        BY <3>1, <3>2, <3>3, JobTypes
    <3>5. job.stage + 1 <= Len(RescanStages)
      BY <2>1, <2>3, JobTypes
    <3>. QED
      BY <3>2, <3>4, <3>5
  <2>4. CASE AbortJob \/ (RescanStage /\ ~ job.stage < Len(RescanStages))
    <3>1. job' = NoJob
      BY <2>4 DEF AbortJob, RescanStage
    <3>. QED
      BY <2>1, <3>1, JobTypes
  <2>5. CASE RescanMarkFails
    <3>1. PICK r \in job.todo : job' = [job EXCEPT !.todo = job.todo \ {r}]
      BY <2>5 DEF RescanMarkFails
    <3>2. job.kind = "rescan" /\ job.stage <= Len(RescanStages)
          /\ \A x \in job.todo : Trusted(x)
      BY <2>5 DEF RescanMarkFails, SessionInv, SessionTypeOK, RescanInv
    <3>3. /\ job'.kind = "rescan" /\ job'.stage = job.stage /\ job'.todo = job.todo \ {r}
          /\ job' \in [kind : {"none", "rollback", "rescan"}, key : Version, from : Block,
                       stage : Nat \ {0}, todo : SUBSET Row]
      BY <3>1, <3>2, JobTypes
    <3>. QED
      BY <3>2, <3>3
  <2>. QED
    BY <2>2, <2>3, <2>4, <2>5
<1>4. SessionTypeOK'
  <2>1. skipped' \subseteq Nullifier /\ faults' \in 0 .. MaxFaults
    <3>1. skipped \subseteq Nullifier /\ faults \in 0 .. MaxFaults
      BY DEF SessionInv, SessionTypeOK, TypeOK
    <3>. QED
      BY <3>1, SyncAssumption DEF BeginRescan, RescanStage, RescanMarkFails, AbortJob, vars
  <2>2. jobs' \in 0 .. MaxJobs /\ unmarked' \in BOOLEAN
    <3>1. jobs \in 0 .. MaxJobs /\ unmarked \in BOOLEAN
      BY DEF SessionInv, SessionTypeOK
    <3>2. jobs' = jobs \/ (jobs < MaxJobs /\ jobs' = jobs + 1)
      BY DEF BeginRescan, RescanStage, RescanMarkFails, AbortJob
    <3>3. unmarked' \in {unmarked, TRUE, FALSE}
      BY DEF BeginRescan, RescanStage, RescanMarkFails, AbortJob
    <3>4. jobs' \in 0 .. MaxJobs
      BY <3>1, <3>2, SessionAssumption
    <3>. QED
      BY <3>1, <3>3, <3>4
  <2>3. TypeOK'
    BY <1>1, <2>1 DEF SessionInv, SessionTypeOK, TypeOK, ChainTypeOK, chainVars, storeVars
  <2>. QED
    BY <1>1, <1>3, <2>2, <2>3 DEF SessionInv, SessionTypeOK, Never
<1>5. KeptStep
  BY <1>1, WrittenSame DEF KeptStep, storeVars
<1>6. RollbackInv' /\ RescanInv'
  BY <1>3, <1>5, TrustedKept DEF RollbackInv, RescanInv
<1>7. \A s \in Store : \A r \in rows'[s] : Trusted(r)
  BY <1>1 DEF SessionInv, storeVars
<1>. QED
  BY <1>1, <1>2, <1>4, <1>5, <1>6, <1>7, JobFrame DEF storeVars

\* An event of the rescan: its row is written as the import writes it.
LEMMA RescanWrites ==
    ASSUME SessionInv, RescanEvent
    PROVE  SessionInv'
<1>1. /\ job.kind = "rescan"
      /\ UNCHANGED <<chainVars, txidTree, checkpoint, op, skipped, faults,
                     jobs, deep, stale, owed, unmarked>>
  BY DEF RescanEvent
<1>2. PICK r \in job.todo : job' = [job EXCEPT !.todo = job.todo \ {r}] /\
        \/ r.event \in Received /\ ImportNote(r)
        \/ /\ rows' = [rows EXCEPT !["poiEvents"] = rows["poiEvents"] \cup {r}]
           /\ UNCHANGED <<spent, displaced>>
        \/ Mark(r) /\ UNCHANGED rows
        \/ UNCHANGED <<rows, spent, displaced>>
  BY SessionTypes DEF RescanEvent
<1>3. r \in Row /\ Trusted(r) /\ TypeOK
  BY <1>1, JobTypes DEF SessionInv, SessionTypeOK, RescanInv
<1>4. /\ rows' \in [Store -> SUBSET Row]
      /\ spent' \in [Received -> 0 .. MaxBlock]
      /\ displaced' \in [Store \cup {"marks"} -> SUBSET Event]
      /\ \E S \in SUBSET Store, new \in SUBSET {r} : Writes(S, new)
  <2>1. "poiEvents" \in Store /\ {r} \in SUBSET Row
    BY <1>3, StoreNames
  <2>2. CASE r.event \in Received /\ ImportNote(r)
    <3>1. /\ rows' \in [Store -> SUBSET Row]
          /\ spent' \in [Received -> 0 .. MaxBlock]
          /\ displaced' \in [Store \cup {"marks"} -> SUBSET Event]
      BY <1>3, <2>2, ImportNoteType
    <3>2. Writes({"txos"}, {r}) /\ {"txos"} \in SUBSET Store
      BY <1>3, <2>2, ImportNoteWrites, StoreNames
    <3>. QED
      BY <3>1, <3>2
  <2>3. CASE /\ rows' = [rows EXCEPT !["poiEvents"] = rows["poiEvents"] \cup {r}]
             /\ UNCHANGED <<spent, displaced>>
    <3>1. Writes({"poiEvents"}, {r})
      BY <1>3, <2>3, StoreNames DEF Writes, Puts, TypeOK
    <3>2. rows' \in [Store -> SUBSET Row]
      BY <1>3, <2>1, <2>3, RowsType
    <3>3. /\ spent' \in [Received -> 0 .. MaxBlock]
          /\ displaced' \in [Store \cup {"marks"} -> SUBSET Event]
      BY <1>3, <2>3 DEF TypeOK
    <3>4. {"poiEvents"} \in SUBSET Store
      BY <2>1
    <3>. QED
      BY <3>1, <3>2, <3>3, <3>4
  <2>4. CASE Mark(r) /\ UNCHANGED rows
    <3>1. \A s \in Store : displaced'[s] = displaced[s]
      BY <2>4, MarkStores, SessionTypes
    <3>2. Writes({}, {})
      BY <2>4, <3>1 DEF Writes
    <3>. QED
      BY <1>3, <2>4, <3>2, MarkType DEF TypeOK
  <2>5. CASE UNCHANGED <<rows, spent, displaced>>
    <3>1. Writes({}, {})
      BY <2>5 DEF Writes
    <3>. QED
      BY <1>3, <2>5, <3>1 DEF TypeOK
  <2>. QED
    BY <1>2, <2>2, <2>3, <2>4, <2>5
<1>5. PICK S \in SUBSET Store, new \in SUBSET {r} : Writes(S, new)
  BY <1>4
<1>6. rows \in [Store -> SUBSET Row] /\ new \subseteq Row /\ ChainInv /\ stale \in Int
      /\ \A s \in Store : \A x \in rows[s] \cup new : Trusted(x)
  BY <1>3, SessionTypes DEF SessionInv
<1>7. ASSUME NEW s \in Store
      PROVE  /\ rows'[s] \subseteq rows[s] \cup new
             /\ \A x \in Written(s) : x.block < stale => x \in Written(s)'
  <2>1. CASE s \in S
    <3>1. Puts(s, new) /\ rows[s] \in SUBSET Row
      BY <1>5, <1>6, <2>1 DEF Writes
    <3>. QED
      BY <1>6, <3>1, TableWrite
  <2>2. CASE s \notin S
    <3>1. rows'[s] = rows[s] /\ displaced'[s] = displaced[s]
      BY <1>5, <2>2 DEF Writes
    <3>. QED
      BY <3>1 DEF Written
  <2>. QED
    BY <2>1, <2>2
<1>9. KeptStep
  BY <1>1, <1>7 DEF KeptStep
<1>10. \A s \in Store : \A x \in rows'[s] : Trusted(x)
  BY <1>6, <1>7
<1>11. /\ job'.kind = "rescan" /\ job'.stage = job.stage /\ job'.todo \subseteq job.todo
       /\ job' \in [kind : {"none", "rollback", "rescan"}, key : Version, from : Block,
                    stage : Nat \ {0}, todo : SUBSET Row]
  BY <1>1, <1>2, JobTypes
<1>12. SessionTypeOK'
  <2>3. TypeOK'
    BY <1>1, <1>4 DEF SessionInv, SessionTypeOK, TypeOK, ChainTypeOK, chainVars
  <2>. QED
    BY <1>1, <1>11, <2>3 DEF SessionInv, SessionTypeOK, Never
<1>13. RollbackInv' /\ RescanInv'
  <2>1. \A x \in job.todo : Trusted(x)'
    BY <1>1, <1>9, TrustedKept DEF SessionInv, RescanInv
  <2>. QED
    BY <1>11, <2>1 DEF RollbackInv, RescanInv
<1>. QED
  BY <1>1, <1>9, <1>10, <1>12, <1>13, JobFrame

-----------------------------------------------------------------------------
(* The invariant.                                                          *)

LEMMA SessionInvInit == SessionInit => SessionInv
<1>. SUFFICES ASSUME SessionInit PROVE SessionInv
  OBVIOUS
<1>1. /\ Init /\ job = NoJob /\ jobs = 0 /\ deep = 0 /\ stale = Never
      /\ owed = [v \in Version |-> Never] /\ unmarked = FALSE
  BY DEF SessionInit
<1>2. IInv
  BY <1>1, IInvInit DEF IInv
<1>3. /\ TypeOK /\ ChainInv /\ rows = [s \in Store |-> {}]
      /\ checkpoint = [v \in Version |-> 0]
      /\ \A p \in Syncer : op[p] = Idle /\ CallType(op[p])
  BY <1>1, <1>2 DEF IInv, IInvBut, TypeInv, Init
<1>4. job.kind = "none"
      /\ job \in [kind : {"none", "rollback", "rescan"}, key : Version, from : Block,
                  stage : Nat \ {0}, todo : SUBSET Row]
  BY <1>1, ChainAssumption DEF NoJob, Block, Version
<1>5. SessionTypeOK
  <2>1. jobs \in 0 .. MaxJobs /\ deep \in 0 .. MaxDeep
    BY <1>1, SessionAssumption
  <2>2. stale \in 1 .. Never /\ owed \in [Version -> 1 .. Never]
    BY <1>1, ChainAssumption DEF Never
  <2>. QED
    BY <1>1, <1>3, <1>4, <2>1, <2>2 DEF SessionTypeOK
<1>6. ASSUME NEW v \in Version PROVE Settled(v, checkpoint[v])
  <2>1. checkpoint[v] = 0
    BY <1>3
  <2>. QED
    BY <2>1, RowType DEF Settled
<1>7. ASSUME NEW p \in Syncer PROVE SyncInv(op[p])
  BY <1>3 DEF Idle, SyncInv, ChunkInv, Import, Batches, Loops
<1>8. ApartInv /\ RollbackInv /\ RescanInv
  BY <1>1, <1>4 DEF ApartInv, RollbackInv, RescanInv
<1>. QED
  BY <1>3, <1>5, <1>6, <1>7, <1>8 DEF SessionInv

LEMMA SessionInvNext == SessionInv /\ [SessionNext]_allVars => SessionInv'
<1>. SUFFICES ASSUME SessionInv, [SessionNext]_allVars PROVE SessionInv'
  OBVIOUS
<1>1. CASE UNCHANGED allVars
  <2>1. UNCHANGED <<chainVars, storeVars, op, skipped, faults, sessionVars>>
    BY <1>1 DEF allVars, vars
  <2>2. KeptStep
    BY <2>1, WrittenSame DEF KeptStep, sessionVars, storeVars
  <2>3. \A q \in Syncer : SyncInv(op[q])'
    BY <2>1, <2>2, CallKept
  <2>4. \A s \in Store : \A r \in rows'[s] : Trusted(r)'
    BY <2>1, <2>2, TrustedKept DEF SessionInv, storeVars
  <2>5. \A v \in Version : Settled(v, checkpoint[v])'
    <3>. TAKE v \in Version
    <3>1. PICK k \in {checkpoint[v]} : Settled(v, k)
      BY DEF SessionInv
    <3>2. Settled(v, k)'
      BY <2>2, <3>1, SettledKept
    <3>. QED
      BY <2>1, <3>1, <3>2 DEF Settled, storeVars
  <2>6. SessionTypeOK' /\ \A q \in Syncer : CallType(op[q])'
    BY <2>1 DEF SessionInv, SessionTypeOK, TypeOK, ChainTypeOK, CallType,
                chainVars, storeVars, sessionVars, Never
  <2>7. ChainInv' /\ ApartInv'
    BY <2>1, ChainKept DEF SessionInv, ApartInv, sessionVars, Finalized, chainVars, Never
  <2>8. RollbackInv' /\ RescanInv'
    <3>1. job.kind = "rescan" => \A r \in job.todo : Trusted(r)'
      BY <2>2, TrustedKept DEF SessionInv, RescanInv
    <3>2. RollbackInv'
      BY <2>1 DEF SessionInv, RollbackInv, sessionVars, storeVars
    <3>. QED
      BY <2>1, <3>1, <3>2 DEF RescanInv, sessionVars
  <2>. QED
    BY <2>3, <2>4, <2>5, <2>6, <2>7, <2>8 DEF SessionInv
<1>2. CASE SyncStep
  <2>1. job.kind = "none" /\ UNCHANGED sessionVars
        /\ (SyncNext \/ Crash \/ (Quiet /\ Environment))
    BY <1>2 DEF SyncStep
  <2>2. TypeInv'
    BY <2>1, SessionTypes, TypeNext DEF Next
  <2>3. ASSUME NEW p \in Syncer,
               BeginSync(p) \/ Progress(p) \/ MarkSpentFails(p) \/ Abort(p)
        PROVE  SessionInv'
    BY <2>1, <2>2, <2>3, SyncRest, SyncLoad, SyncHead, SyncFetch, SyncBatch,
       SyncTransaction, SyncLeaf, SyncUnshieldPOI, SyncCommitment, SyncMark,
       SyncEndLoop, SyncReadCheckpoints, SyncSave DEF Progress, ImportStep
  <2>. QED
    BY <2>1, <2>2, <2>3, SyncCrash, IdleEnvironment DEF SyncNext
<1>3. CASE JobStep
  BY <1>3, RollbackBegins, RollbackDrops, RollbackEnds, RescanMoves, RescanWrites
     DEF JobStep
<1>. QED
  BY <1>1, <1>2, <1>3, IdleDeepReorg DEF SessionNext

\* The invariant holds of every session, whatever Sync calls, rollbacks, rescans
\* and reorganisations it has seen (sync.go, wallet.go, local_rescan.go).
THEOREM SessionInductive == SessionSpec => []SessionInv
<1>. QED
  BY SessionInvInit, SessionInvNext, PTL DEF SessionSpec

-----------------------------------------------------------------------------
(* What follows from it.                                                   *)

\* Deep reorganisations, rollbacks and rescans that die between two stores,
\* and crashed or failed Sync calls: the blocks below a version's checkpoint
\* have been written to the stores, up to the first block a rollback is owed
\* for, and none of their rows has gone but to that of another event
\* (RollbackWalletSyncWithAllStores moves the checkpoint last).
THEOREM IndexedUnlessOwedHolds == SessionSpec => []IndexedUnlessOwed
<1>1. SessionInv => IndexedUnlessOwed
  <2>. SUFFICES ASSUME SessionInv, NEW v \in Version, NEW s \in Store,
                       NEW r \in Of(Keeps[s], LogsIn(v, 1, Sound(v) - 1))
                PROVE  r \in Written(s)
    BY DEF IndexedUnlessOwed
  <2>1. /\ r \in Row /\ r.event \in Keeps[s] /\ r.event \in chain[r.block]
        /\ VersionOf[r.event] = v /\ r.block \in Int /\ r.block <= Sound(v) - 1
    BY RowType DEF Of, LogsIn
  <2>2. PICK k \in Int, d \in Int : k = checkpoint[v] /\ d = owed[v] /\ Settled(v, k)
    BY SessionTypes DEF SessionInv
  <2>3. stale \in Int
    BY SessionTypes
  <2>4. r.block < stale /\ r.block < d /\ r.block < k
    BY <2>1, <2>2, <2>3 DEF Sound, Lower
  <2>. QED
    BY <2>1, <2>2, <2>4 DEF Settled
<1>. QED
  BY <1>1, SessionInductive, PTL

\* A completed rollback that reaches down to the first replaced block leaves no
\* row of it in any store, whatever rollbacks died before it, and a rescan
\* brings none back (RollbackToBlock of each store, RescanLocalUTXOTree).
THEOREM NoPhantomUnlessStaleHolds == SessionSpec => []NoPhantomUnlessStale
<1>1. SessionInv => NoPhantomUnlessStale
  BY DEF SessionInv, Trusted, NoPhantomUnlessStale
<1>. QED
  BY <1>1, SessionInductive, PTL

-----------------------------------------------------------------------------
(* The spends, when the application makes one Sync at a time: the          *)
(* invariant on top of SessionInv.                                         *)

\* A spend of version v that no rollback is owed for.
Due(v, r) ==
    /\ r.event \in Nullifier /\ r.event \in chain[r.block]
    /\ VersionOf[r.event] = v
    /\ r.block < stale /\ r.block < owed[v]

\* The spend of r is in the wallet state, or its mark failed; or the nullifier's
\* row or the note's had to give way to another's, or another nullifier has
\* marked the note, or its own goes by a key that is not the note's.
Accounted(r) ==
    \/ r.event \in skipped
    \/ Spends[r.event] \notin Received
    \/ r.event \in displaced.nullifiers
    \/ Spends[r.event] \in displaced.txos \cup displaced.marks
    \/ MarkedKey[r.event] # KeyOf[Spends[r.event]]
    \/ spent[Spends[r.event]] = r.block

\* A mark of r finds its note, unless that had to give way or has another key.
Found(r) ==
    \/ Spends[r.event] \notin Received
    \/ Spends[r.event] \in displaced.txos
    \/ MarkedKey[r.event] # KeyOf[Spends[r.event]]
    \/ Spends[r.event] \in NotesMarked(r)

\* The spends before block k are marked, but those in left.
MarkedBelow(v, k, left) ==
    \A r \in Row \ left : Due(v, r) /\ r.block < k => Accounted(r)

\* The marks of the chunk of a call are made, but those the loop has left.
MarksInv(o) ==
    o.pc \in {"marks", "save"} =>
        \A r \in Of(Nullifier, o.logs) \ o.todo :
            r.block < stale /\ r.block < owed[o.queue[1]] => Accounted(r)

\* In its last stage a rescan has left what is not marked yet.
RemarkInv ==
    job.kind = "rescan" =>
        /\ unmarked
        /\ job.stage = Len(RescanStages) =>
              /\ \A r \in job.todo : r.event \in Nullifier
              /\ \A v \in Version : MarkedBelow(v, checkpoint[v], job.todo)

SpentInv ==
    /\ SpendOrder
    /\ \A r \in rows.nullifiers : r.event \in Nullifier
    /\ unmarked \/ \A v \in Version : MarkedBelow(v, checkpoint[v], {})
    /\ \A p \in Syncer : CursorInv(op[p]) /\ MarksInv(op[p])
    /\ RemarkInv

\* Two spends of one note are one event, in one place.
LEMMA SameSpend ==
    ASSUME ChainInv, NEW r \in Row, NEW x \in Row,
           r.event \in Nullifier, x.event \in Nullifier,
           r.event \in chain[r.block], x.event \in chain[x.block],
           Spends[r.event] = Spends[x.event]
    PROVE  r = x
<1>1. r.event = x.event
  BY NullifierAssumption
<1>. QED
  BY <1>1, RowOnce

\* A note that the wallet has written is found, or had to give way.
LEMMA NoteFound ==
    ASSUME NEW r, NEW c, c.event = Spends[r.event],
           Spends[r.event] \in Received => c \in Written("txos")
    PROVE  Found(r)
  BY DEF Found, Written, NotesMarked

\* What the histories hold stays: a spend is accounted for as long as nothing
\* else is done to its note.
HistoryGrows ==
    /\ skipped \subseteq skipped'
    /\ displaced.nullifiers \subseteq displaced'.nullifiers
    /\ displaced.txos \subseteq displaced'.txos
    /\ displaced.marks \subseteq displaced'.marks

LEMMA AccountedKept ==
    ASSUME HistoryGrows, NEW r, Accounted(r),
           Spends[r.event] \in Received => spent'[Spends[r.event]] = spent[Spends[r.event]]
    PROVE  Accounted(r)'
  BY DEF HistoryGrows, Accounted

\* A mark of x overwrites that of no other spend, but for a note it mistakes for
\* its own.
LEMMA MarkKeeps ==
    ASSUME SessionInv, NEW x, Mark(x), UNCHANGED skipped,
           NEW r, Accounted(r), Spends[r.event] = Spends[x.event] => r = x
    PROVE  Accounted(r)'
<1>. DEFINE c == Spends[r.event]
<1>1. /\ HistoryGrows
      /\ displaced'.marks = displaced.marks \cup (NotesMarked(x) \ {Spends[x.event]})
  <2>1. displaced \in [Store \cup {"marks"} -> SUBSET Event]
    BY DEF SessionInv, SessionTypeOK, TypeOK
  <2>. QED
    BY <2>1, StoreNames DEF Mark, HistoryGrows
<1>2. CASE c \in NotesMarked(x) /\ c = Spends[x.event] /\ c \in Received
  BY <1>2 DEF Mark, Accounted
<1>3. CASE c \in NotesMarked(x) /\ c # Spends[x.event]
  BY <1>1, <1>3 DEF Accounted
<1>4. CASE c \notin NotesMarked(x) /\ c \in Received
  <2>1. spent'[c] = spent[c]
    BY <1>4 DEF Mark
  <2>. QED
    BY <1>1, <2>1, AccountedKept
<1>5. CASE c \notin Received
  BY <1>5 DEF Accounted
<1>. QED
  BY <1>2, <1>3, <1>4, <1>5

LEMMA MarkAccounts ==
    ASSUME SessionInv, NEW x, Mark(x), Found(x)
    PROVE  Accounted(x)'
<1>1. displaced'.txos = displaced.txos
  BY MarkStores, StoreNames DEF SessionInv, SessionTypeOK, TypeInv
<1>. QED
  BY <1>1 DEF Found, Accounted, Mark

\* The tree store holds a spend that is not owed, and the wallet its note.
LEMMA DueHeld ==
    ASSUME SessionInv, SpendOrder, NEW v \in Version, NEW k \in Int, Settled(v, k),
           NEW r \in Row, Due(v, r), r.block < k
    PROVE  r \in Written("nullifiers") /\ Found(r)
<1>1. r \in Written("nullifiers")
  BY StoreNames DEF Due, Settled
<1>2. PICK c \in Row : /\ c.event = Spends[r.event] /\ c.block <= r.block
                       /\ c.event \in chain[c.block]
                       /\ VersionOf[c.event] = v
  BY SpendNote DEF Due
<1>3. c.block \in Int /\ r.block \in Int /\ stale \in Int /\ owed[v] \in Int
  BY <1>2, RowType, SessionTypes
<1>4. c.block < stale /\ c.block < owed[v] /\ c.block < k
  BY <1>2, <1>3 DEF Due
<1>5. Spends[r.event] \in Received => c \in Written("txos")
  BY <1>2, <1>4, StoreNames DEF Settled
<1>. QED
  BY <1>1, <1>2, <1>5, NoteFound

\* A step that brings no spend below a checkpoint or out of debt, and keeps the
\* marks there.
OwedStep ==
    \A v \in Version, r \in Row :
        Due(v, r)' /\ r.block < checkpoint'[v] =>
            /\ Due(v, r) /\ r.block < checkpoint[v]
            /\ Accounted(r) => Accounted(r)'

LEMMA BelowKept ==
    ASSUME OwedStep, NEW v \in Version, MarkedBelow(v, checkpoint[v], {})
    PROVE  MarkedBelow(v, checkpoint[v], {})'
  BY DEF OwedStep, MarkedBelow

\* A call that is over has no marks to make.
LEMMA IdleCall ==
    ASSUME NEW p \in Syncer, op'[p].pc \in {"idle", "start"}
    PROVE  CursorInv(op[p])' /\ MarksInv(op[p])'
  BY DEF CursorInv, MarksInv, Import, Batches, Loops

\* What is left to prove of a step of the one call.
LEMMA SpentFrame ==
    ASSUME SpentInv, UNCHANGED <<chainVars, checkpoint, sessionVars>>, job.kind = "none",
           \A r \in rows'.nullifiers : r.event \in Nullifier,
           OwedStep,
           \A p \in Syncer : CursorInv(op[p])' /\ MarksInv(op[p])'
    PROVE  SpentInv'
<1>1. SpendOrder' /\ RemarkInv'
  BY DEF SpentInv, SpendOrder, chainVars, RemarkInv, sessionVars
<1>2. (unmarked \/ \A v \in Version : MarkedBelow(v, checkpoint[v], {}))'
  BY BelowKept DEF SpentInv, sessionVars
<1>. QED
  BY <1>1, <1>2 DEF SpentInv

\* A step that leaves the spends alone.
LEMMA SpendsStill ==
    ASSUME UNCHANGED <<chainVars, checkpoint, stale, owed, spent>>, HistoryGrows
    PROVE  OwedStep
  BY AccountedKept DEF OwedStep, Due, chainVars

\* No step of the import takes anything out of the histories.
LEMMA ImportGrows ==
    ASSUME SessionInv, NEW p \in Syncer,
           \/ IndexLeaves(p) \/ IndexNullifiers(p) \/ IndexUnshields(p)
           \/ ImportCommitment(p)
    PROVE  HistoryGrows
<1>1. displaced \in [Store \cup {"marks"} -> SUBSET Event] /\ UNCHANGED skipped
  BY DEF SessionInv, SessionTypeOK, TypeOK, IndexLeaves, IndexNullifiers, IndexUnshields,
         ImportCommitment
<1>2. \/ UNCHANGED displaced
      \/ \E T, U : displaced' =
            [displaced EXCEPT !.leaves = @ \cup T, !.commitments = @ \cup U]
      \/ \E T : \/ displaced' = [displaced EXCEPT !.nullifiers = @ \cup T]
               \/ displaced' = [displaced EXCEPT !.unshields = @ \cup T]
               \/ displaced' = [displaced EXCEPT !.txos = @ \cup T]
  <2>1. CASE IndexLeaves(p)
    BY <2>1 DEF IndexLeaves
  <2>2. CASE IndexNullifiers(p)
    BY <2>2 DEF IndexNullifiers
  <2>3. CASE IndexUnshields(p)
    BY <2>3 DEF IndexUnshields
  <2>4. CASE ImportCommitment(p)
    BY <2>4 DEF ImportCommitment, ImportNote
  <2>. QED
    BY <2>1, <2>2, <2>3, <2>4
<1>. QED
  BY <1>1, <1>2, StoreNames DEF HistoryGrows

\* The nullifiers of a chunk are those the log provider returns.
LEMMA NullifierRows ==
    ASSUME SessionInv, SpentInv, NEW p \in Syncer,
           Progress(p) \/ BeginSync(p) \/ MarkSpentFails(p) \/ Abort(p)
    PROVE  \A r \in rows'.nullifiers : r.event \in Nullifier
<1>1. rows \in [Store -> SUBSET Row] /\ \A r \in rows.nullifiers : r.event \in Nullifier
  BY SessionTypes DEF SpentInv
<1>2. CASE IndexNullifiers(p)
  <2>1. rows'.nullifiers = Upsert("nullifiers", Of(Nullifier, op[p].logs))
    BY <1>1, <1>2, StoreNames DEF IndexNullifiers
  <2>. QED
    BY <1>1, <2>1 DEF Upsert, Of
<1>3. CASE ~ IndexNullifiers(p)
  <2>1. rows'.nullifiers = rows.nullifiers
    <3>1. CASE IndexLeaves(p) \/ IndexUnshields(p)
      <4>1. \/ \E T, U : rows' = [rows EXCEPT !.leaves = T, !.commitments = U]
            \/ \E T : rows' = [rows EXCEPT !.unshields = T]
        BY <3>1 DEF IndexLeaves, IndexUnshields
      <4>. QED
        BY <1>1, <4>1, StoreNames
    <3>2. CASE StoreTransaction(p)
      <4>1. PICK T : rows' = [rows EXCEPT !.transactions = T]
        BY <3>2 DEF StoreTransaction
      <4>. QED
        BY <1>1, <4>1, StoreNames
    <3>3. CASE StoreUnshieldPOI(p) \/ ImportCommitment(p)
      <4>1. \/ rows' = rows
            \/ \E T : rows' = [rows EXCEPT !.txos = T] \/ rows' = [rows EXCEPT !.poiEvents = T]
        BY <3>3 DEF StoreUnshieldPOI, ImportCommitment, ImportNote
      <4>. QED
        BY <1>1, <4>1, StoreNames
    <3>4. CASE UNCHANGED rows
      BY <3>4
    <3>. QED
      BY <1>3, <3>1, <3>2, <3>3, <3>4
         DEF Progress, ImportStep, BeginSync, LoadCheckpoint, ReadHead, FetchLogs,
             ReadPosition, WriteLeaf, MarkSpent, MarkSpentFails, EndLoop, ReadCheckpoints,
             SaveCheckpoint, Abort, storeVars
  <2>. QED
    BY <1>1, <2>1
<1>. QED
  BY <1>2, <1>3

\* A transaction is stored: the call goes on with its leaf.
LEMMA StoreMoves ==
    ASSUME NEW p \in Syncer, op \in [Syncer -> Call], op[p] \in Call, StoreTransaction(p)
    PROVE  /\ op[p].pc = "transactions" /\ op'[p].pc = "position"
           /\ op'[p].queue = op[p].queue /\ op'[p].from = op[p].from
           /\ op'[p].logs = op[p].logs
<1>. DEFINE o == op[p]
<1>1. op \in [Syncer -> Call] /\ o \in Call
  OBVIOUS
<1>2. PICK r \in o.todo :
        op'[p] = [Done(o, r) EXCEPT !.pc = "position", !.current = {r}]
  BY <1>1 DEF StoreTransaction
<1>3. o.pc = "transactions"
  BY DEF StoreTransaction
<1>. QED
  BY <1>2, <1>3 DEF Done, Call

\* A step of the import but for the marks and the end of it: the same chunk, and
\* no mark is passed over.
LEMMA ImportMoves ==
    ASSUME SessionInv, NEW p \in Syncer,
           \/ IndexLeaves(p) \/ IndexNullifiers(p) \/ IndexUnshields(p)
           \/ StoreTransaction(p) \/ ReadPosition(p) \/ WriteLeaf(p)
           \/ StoreUnshieldPOI(p) \/ ImportCommitment(p) \/ EndLoop(p)
    PROVE  /\ op[p].pc \in Import
           /\ op'[p].pc \in Import \ {"save"}
           /\ op'[p].queue = op[p].queue /\ op'[p].from = op[p].from
           /\ op'[p].logs = op[p].logs
           /\ op'[p].pc = "marks" => op'[p].todo = Of(Nullifier, op[p].logs)
<1>. DEFINE o == op[p]
<1>1. op \in [Syncer -> Call] /\ o \in Call /\ p \in Syncer
  BY DEF SessionInv, SessionTypeOK, TypeOK
<1>2. CASE IndexLeaves(p) \/ IndexNullifiers(p)
  BY <1>1, <1>2 DEF IndexLeaves, IndexNullifiers, Call, Import, Batches
<1>3. CASE IndexUnshields(p)
  <2>1. o.pc = "unshields" /\ op'[p] = EnterLoop(o, "transactions")
    BY <1>1, <1>3 DEF IndexUnshields
  <2>. QED
    BY <1>1, <2>1 DEF EnterLoop, Call, Import, Batches, Loops
<1>4. CASE StoreTransaction(p)
  BY <1>1, <1>4, StoreMoves DEF Import, Loops
<1>5. CASE ReadPosition(p)
  <2>1. o.pc = "position"
    BY ONLY <1>5 DEF ReadPosition
  <2>2. PICK i : op' = [op EXCEPT ![p].pc = "leaf", ![p].position = i]
    BY ONLY <1>5 DEF ReadPosition
  <2>. QED
    BY <1>1, <2>1, <2>2 DEF Call, Import
<1>6. CASE WriteLeaf(p)
  <2>1. o.pc = "leaf" /\ op'[p] = [o EXCEPT !.pc = "transactions", !.current = {},
                                            !.position = 0]
    BY <1>1, <1>6 DEF WriteLeaf
  <2>. QED
    BY <1>1, <2>1 DEF Call, Import, Loops
<1>7. CASE StoreUnshieldPOI(p) \/ ImportCommitment(p)
  <2>1. o.pc \in {"unshieldPOI", "commitments"} /\ \E r \in o.todo : op'[p] = Done(o, r)
    BY <1>1, <1>7 DEF StoreUnshieldPOI, ImportCommitment
  <2>. QED
    BY <1>1, <2>1, DoneFields DEF Import, Loops
<1>8. CASE EndLoop(p)
  <2>1. /\ o.pc \in {"transactions", "unshieldPOI", "commitments"}
        /\ op'[p] = EnterLoop(o, LoopAfter[o.pc])
    BY <1>1, <1>8 DEF EndLoop, LoopAfter
  <2>2. LoopAfter[o.pc] \in {"unshieldPOI", "commitments", "marks"}
    BY <2>1 DEF LoopAfter
  <2>. QED
    BY <1>1, <2>1, <2>2 DEF EnterLoop, LoopOver, Call, Import, Loops
<1>. QED
  BY <1>2, <1>3, <1>4, <1>5, <1>6, <1>7, <1>8

\* The steps of the call that have no part in the marks.
LEMMA SpentElsewhere ==
    ASSUME SessionInv, SpentInv, OneSyncer, UNCHANGED sessionVars, job.kind = "none",
           NEW p \in Syncer,
           \/ BeginSync(p) \/ LoadCheckpoint(p) \/ ReadHead(p) \/ FetchLogs(p) \/ Abort(p)
           \/ IndexLeaves(p) \/ IndexNullifiers(p) \/ IndexUnshields(p)
           \/ StoreTransaction(p) \/ ReadPosition(p) \/ WriteLeaf(p)
           \/ StoreUnshieldPOI(p) \/ EndLoop(p)
    PROVE  SpentInv'
<1>. DEFINE o == op[p]
<1>1. UNCHANGED <<chainVars, checkpoint, spent, skipped>> /\ HistoryGrows
  <2>1. CASE IndexLeaves(p) \/ IndexNullifiers(p) \/ IndexUnshields(p)
    BY <2>1, ImportGrows DEF IndexLeaves, IndexNullifiers, IndexUnshields
  <2>2. CASE ~ (IndexLeaves(p) \/ IndexNullifiers(p) \/ IndexUnshields(p))
    BY <2>2 DEF BeginSync, LoadCheckpoint, ReadHead, FetchLogs, Abort, StoreTransaction,
                ReadPosition, WriteLeaf, StoreUnshieldPOI, EndLoop, storeVars, HistoryGrows
  <2>. QED
    BY <2>1, <2>2
<1>2. op \in [Syncer -> Call] /\ o \in Call /\ CallType(o) /\ CursorInv(o)
  BY DEF SessionInv, SessionTypeOK, TypeOK, SpentInv
<1>3. CursorInv(op[p])' /\ MarksInv(op[p])'
  <2>1. CASE BeginSync(p) \/ LoadCheckpoint(p) \/ ReadHead(p) \/ FetchLogs(p) \/ Abort(p)
    <3>1. CursorInv(op[p])' /\ op'[p].pc \in {"idle", "start", "head", "fetch", "leaves"}
      BY <1>2, <2>1, ScanCursor
    <3>. QED
      BY <3>1 DEF MarksInv
  <2>2. CASE \/ IndexLeaves(p) \/ IndexNullifiers(p) \/ IndexUnshields(p)
             \/ StoreTransaction(p) \/ ReadPosition(p) \/ WriteLeaf(p)
             \/ StoreUnshieldPOI(p) \/ EndLoop(p)
    <3>1. /\ o.pc \in Import /\ op'[p].pc \in Import \ {"save"}
          /\ op'[p].queue = o.queue /\ op'[p].from = o.from
          /\ op'[p].logs = o.logs
          /\ op'[p].pc = "marks" => op'[p].todo = Of(Nullifier, o.logs)
      BY <2>2, ImportMoves
    <3>2. op'[p].from = StartBlock(checkpoint[op'[p].queue[1]])
      BY <1>2, <3>1 DEF CursorInv
    <3>. QED
      BY <1>1, <3>1, <3>2 DEF CursorInv, StartBlock, MarksInv
  <2>. QED
    BY <2>1, <2>2
<1>4. \A q \in Syncer : CursorInv(op[q])' /\ MarksInv(op[q])'
  BY <1>3 DEF OneSyncer
<1>5. \A r \in rows'.nullifiers : r.event \in Nullifier
  BY NullifierRows DEF Progress, ImportStep
<1>6. OwedStep
  BY <1>1, SpendsStill DEF sessionVars
<1>. QED
  BY <1>1, <1>4, <1>5, <1>6, SpentFrame

\* What a call in its import has in hand: rows of its chunk, on the final chain
\* and not below the checkpoint.
LEMMA ChunkFacts ==
    ASSUME SessionInv, SpentInv, NEW p \in Syncer, op[p].pc \in Import,
           NEW r \in op[p].logs
    PROVE  /\ r \in Row /\ r.event \in chain[r.block] /\ r.block \in Int
           /\ VersionOf[r.event] = op[p].queue[1] /\ VersionOf[r.event] \in Version
           /\ r.block <= op[p].chunkTo
           /\ checkpoint[VersionOf[r.event]] <= r.block
<1>. DEFINE o == op[p]
<1>1. o \in Call /\ ChunkInv(o) /\ CursorInv(o)
  BY DEF SessionInv, SessionTypeOK, TypeOK, SyncInv, SpentInv
<1>2. o.logs = LogsIn(o.queue[1], o.from, o.chunkTo)
      /\ o.from = StartBlock(checkpoint[o.queue[1]])
  BY <1>1 DEF ChunkInv, CursorInv
<1>3. /\ r \in Row /\ o.from <= r.block /\ r.block <= o.chunkTo
      /\ r.event \in chain[r.block] /\ VersionOf[r.event] = o.queue[1]
  BY <1>2 DEF LogsIn
<1>4. r.event \in Event /\ VersionOf[r.event] \in Version
  BY <1>3, ChainAssumption DEF Row
<1>5. checkpoint[VersionOf[r.event]] \in Int /\ r.block \in Int /\ r.block >= 1
  BY <1>3, <1>4, SessionTypes, RowType
<1>6. checkpoint[VersionOf[r.event]] <= r.block
  BY <1>2, <1>3, <1>5 DEF StartBlock
<1>. QED
  BY <1>3, <1>4, <1>5, <1>6

\* A received note is imported without a spend: no nullifier of it is below the
\* checkpoint, since the note itself is not.
LEMMA SpentCommitment ==
    ASSUME SessionInv, SpentInv, OneSyncer, UNCHANGED sessionVars, job.kind = "none",
           NEW p \in Syncer, ImportCommitment(p)
    PROVE  SpentInv'
<1>. DEFINE o == op[p]
<1>1. UNCHANGED <<chainVars, checkpoint, skipped>> /\ o.pc = "commitments"
      /\ o.pc \in Import /\ HistoryGrows
  BY ImportGrows DEF ImportCommitment, Import, Loops
<1>2. /\ op \in [Syncer -> Call] /\ o \in Call /\ CursorInv(o) /\ o.todo \subseteq o.logs
      /\ spent \in [Received -> 0 .. MaxBlock]
  BY DEF SessionInv, SessionTypeOK, TypeOK, SyncInv, SpentInv
<1>3. PICK x \in o.todo :
        /\ op'[p] = Done(o, x)
        /\ spent' = spent \/ spent' = [spent EXCEPT ![x.event] = 0]
  BY <1>2 DEF ImportCommitment, ImportNote
<1>4. CursorInv(op[p])' /\ MarksInv(op[p])'
  <2>1. /\ op'[p].pc = "commitments" /\ op'[p].queue = o.queue /\ op'[p].from = o.from
    BY <1>1, <1>2, <1>3, DoneFields
  <2>2. op'[p].from = StartBlock(checkpoint[op'[p].queue[1]])
    BY <1>1, <1>2, <2>1 DEF CursorInv
  <2>. QED
    BY <1>1, <2>1, <2>2 DEF CursorInv, StartBlock, MarksInv
<1>5. \A q \in Syncer : CursorInv(op[q])' /\ MarksInv(op[q])'
  BY <1>4 DEF OneSyncer
<1>6. \A r \in rows'.nullifiers : r.event \in Nullifier
  BY NullifierRows DEF Progress, ImportStep
<1>7. ASSUME NEW v \in Version, NEW r \in Row, Due(v, r), r.block < checkpoint[v], Accounted(r)
      PROVE  Accounted(r)'
  <2>1. PICK c \in Row : /\ c.event = Spends[r.event] /\ c.block <= r.block
                         /\ c.event \in chain[c.block]
                         /\ VersionOf[c.event] = v
    BY <1>7, SpendNote DEF SpentInv, Due
  <2>2. /\ x \in Row /\ x.event \in chain[x.block]
        /\ checkpoint[VersionOf[x.event]] <= x.block
    BY <1>1, <1>2, <1>3, ChunkFacts
  <2>3. x.event # Spends[r.event]
    <3>1. SUFFICES ASSUME x.event = Spends[r.event] PROVE FALSE
      OBVIOUS
    <3>2. x = c
      BY <2>1, <2>2, <3>1, RowOnce, SessionTypes
    <3>3. checkpoint[v] <= c.block /\ c.block <= r.block /\ r.block < checkpoint[v]
      BY <1>7, <2>1, <2>2, <3>2
    <3>4. checkpoint[v] \in Int /\ c.block \in Int /\ r.block \in Int
      BY RowType, SessionTypes
    <3>. QED
      BY ONLY <3>3, <3>4
  <2>4. Spends[r.event] \in Received => spent'[Spends[r.event]] = spent[Spends[r.event]]
    BY <1>2, <1>3, <2>3
  <2>. QED
    BY <1>1, <1>7, <2>4, AccountedKept
<1>8. OwedStep
  BY <1>1, <1>7 DEF OwedStep, Due, chainVars, sessionVars
<1>. QED
  BY <1>1, <1>5, <1>6, <1>8, SpentFrame

\* After the loop over the commitments, the wallet holds the note of every
\* nullifier of the chunk that spends one of its own, or had to give it up, but
\* for what is owed.
LEMMA ChunkNoteFound ==
    ASSUME SessionInv, SpentInv, NEW p \in Syncer, op[p].pc = "marks",
           NEW r \in Of(Nullifier, op[p].logs),
           r.block < stale, r.block < owed[op[p].queue[1]]
    PROVE  Found(r)
<1>. SUFFICES ASSUME Spends[r.event] \in Received PROVE Found(r)
  BY DEF Found
<1>. DEFINE o == op[p]
<1>1. o \in Call /\ SyncInv(o) /\ o.pc \in Import
  BY DEF SessionInv, SessionTypeOK, TypeOK, Import, Loops
<1>2. /\ r \in Row /\ r.event \in Nullifier /\ r.event \in chain[r.block]
      /\ VersionOf[r.event] = o.queue[1] /\ r.block <= o.chunkTo /\ r.block \in Int
      /\ o.queue[1] \in Version
  BY <1>1, ChunkFacts DEF Of
<1>3. PICK c \in Row : /\ c.event = Spends[r.event] /\ c.block <= r.block
                       /\ c.event \in chain[c.block]
                       /\ VersionOf[c.event] = o.queue[1]
  BY <1>2, SpendNote DEF SpentInv
<1>4. /\ c.block \in Int /\ o.from \in Int /\ o.chunkTo \in Int
      /\ stale \in Int /\ owed[o.queue[1]] \in Int
  <2>1. \A v \in Version : owed[v] \in Int
    BY SessionTypes
  <2>2. o.from \in Int /\ o.chunkTo \in Int
    BY <1>1, ChainAssumption DEF Call
  <2>. QED
    BY <1>2, <2>1, <2>2, RowType, SessionTypes
<1>5. c.block < stale /\ c.block < owed[o.queue[1]] /\ c.block <= o.chunkTo
  BY <1>2, <1>3, <1>4
<1>6. CASE c.block < o.from
  <2>1. Settled(o.queue[1], o.from)
    BY <1>1 DEF SyncInv
  <2>2. c \in Written("txos")
    BY <1>3, <1>5, <1>6, <2>1, StoreNames DEF Settled
  <2>. QED
    BY <1>3, <2>2, NoteFound
<1>7. CASE ~ c.block < o.from
  <2>1. c \in Of(Keeps["txos"], o.logs) /\ "txos" \in Store
    BY <1>1, <1>3, <1>4, <1>5, <1>7, StoreNames DEF SyncInv, ChunkInv, LogsIn, Of
  <2>2. ~ Ahead(o, "txos", c)
    BY DEF Ahead, Batches
  <2>3. c \in Written("txos")
    BY <1>1, <1>5, <2>1, <2>2 DEF SyncInv
  <2>. QED
    BY <1>3, <2>3, NoteFound
<1>. QED
  BY <1>6, <1>7

\* A spend is marked, or its mark fails and is counted.
LEMMA SpentMark ==
    ASSUME SessionInv, SpentInv, OneSyncer, UNCHANGED sessionVars, job.kind = "none",
           NEW p \in Syncer, MarkSpent(p) \/ MarkSpentFails(p)
    PROVE  SpentInv'
<1>. DEFINE o == op[p]
<1>1. UNCHANGED <<chainVars, rows, checkpoint>> /\ skipped \subseteq skipped'
      /\ UNCHANGED <<stale, owed>>
  BY DEF MarkSpent, MarkSpentFails, storeVars, sessionVars
<1>2. /\ op \in [Syncer -> Call] /\ o \in Call /\ CallType(o) /\ CursorInv(o)
      /\ MarksInv(o) /\ o.pc = "marks" /\ o.pc \in Import /\ o.todo \subseteq o.logs
      /\ spent \in [Received -> 0 .. MaxBlock]
  BY DEF MarkSpent, MarkSpentFails, SessionInv, SessionTypeOK, TypeOK, SyncInv, SpentInv,
         Import, Loops
<1>3. PICK x \in o.todo :
        /\ op'[p] = Done(o, x)
        /\ \/ Mark(x) /\ UNCHANGED skipped
           \/ UNCHANGED <<spent, displaced>> /\ x.event \in skipped'
  BY <1>2 DEF MarkSpent, MarkSpentFails, storeVars
<1>4. x \in Of(Nullifier, o.logs)
  BY <1>2, <1>3 DEF CallType, TodoKind, Loops, LoopOver, Of
<1>5. /\ op'[p].pc = "marks" /\ op'[p].queue = o.queue /\ op'[p].from = o.from
      /\ op'[p].logs = o.logs /\ op'[p].todo = o.todo \ {x}
  BY <1>2, <1>3, DoneFields
<1>6. \A r \in Of(Nullifier, o.logs) :
        r \in Row /\ r.event \in Nullifier /\ r.event \in chain[r.block]
  BY <1>2, ChunkFacts DEF Of
<1>7. ASSUME NEW r \in Row, r.event \in Nullifier, r.event \in chain[r.block], Accounted(r)
      PROVE  Accounted(r)'
  <2>1. Spends[r.event] = Spends[x.event] => r = x
    BY <1>4, <1>6, <1>7, SameSpend, SessionTypes
  <2>2. CASE Mark(x) /\ UNCHANGED skipped
    BY <1>7, <2>1, <2>2, MarkKeeps
  <2>3. CASE UNCHANGED <<spent, displaced>>
    BY <1>1, <1>7, <2>3, AccountedKept DEF HistoryGrows
  <2>. QED
    BY <1>3, <2>2, <2>3
<1>8. x.block < stale /\ x.block < owed[o.queue[1]] => Accounted(x)'
  <2>. SUFFICES ASSUME x.block < stale, x.block < owed[o.queue[1]] PROVE Accounted(x)'
    OBVIOUS
  <2>1. Found(x)
    BY <1>2, <1>4, ChunkNoteFound
  <2>2. CASE Mark(x)
    BY <2>1, <2>2, MarkAccounts
  <2>3. CASE x.event \in skipped'
    BY <2>3 DEF Accounted
  <2>. QED
    BY <1>3, <2>2, <2>3
<1>9. MarksInv(op[p])'
  <2>1. \A r \in Of(Nullifier, o.logs) \ (o.todo \ {x}) :
          r.block < stale /\ r.block < owed[o.queue[1]] => Accounted(r)'
    BY <1>2, <1>6, <1>7, <1>8 DEF MarksInv
  <2>. QED
    BY <1>1, <1>5, <2>1 DEF MarksInv, Of
<1>10. CursorInv(op[p])'
  <2>1. op'[p].from = StartBlock(checkpoint[op'[p].queue[1]])
    BY <1>2, <1>5 DEF CursorInv
  <2>. QED
    BY <1>1, <1>5, <2>1 DEF CursorInv, StartBlock
<1>11. \A q \in Syncer : CursorInv(op[q])' /\ MarksInv(op[q])'
  BY <1>9, <1>10 DEF OneSyncer
<1>12. OwedStep
  BY <1>1, <1>7 DEF OwedStep, Due, chainVars
<1>13. \A r \in rows'.nullifiers : r.event \in Nullifier
  BY <1>1 DEF SpentInv
<1>. QED
  BY <1>1, <1>11, <1>12, <1>13, SpentFrame

LEMMA SpentReadCheckpoints ==
    ASSUME SessionInv, SpentInv, OneSyncer, UNCHANGED sessionVars, job.kind = "none",
           NEW p \in Syncer, ReadCheckpoints(p)
    PROVE  SpentInv'
<1>. DEFINE o == op[p]
<1>1. UNCHANGED <<chainVars, rows, spent, displaced, checkpoint, skipped, stale, owed>>
  BY DEF ReadCheckpoints, storeVars, sessionVars
<1>2. /\ op \in [Syncer -> Call] /\ o \in Call /\ CursorInv(o) /\ MarksInv(o)
      /\ o.pc = "marks" /\ o.pc \in Import /\ o.todo = {}
  BY DEF ReadCheckpoints, SessionInv, SessionTypeOK, TypeOK, SpentInv, Import, Loops
<1>3. op'[p] = [o EXCEPT !.pc = "save", !.file = checkpoint]
  BY <1>2 DEF ReadCheckpoints
<1>4. /\ op'[p].pc = "save" /\ op'[p].queue = o.queue /\ op'[p].from = o.from
      /\ op'[p].logs = o.logs /\ op'[p].todo = {} /\ op'[p].file = checkpoint
  BY <1>2, <1>3 DEF Call
<1>5. CursorInv(op[p])'
  <2>1. o.from = StartBlock(checkpoint[o.queue[1]])
    BY <1>2 DEF CursorInv
  <2>. QED
    BY <1>1, <1>4, <2>1 DEF CursorInv, StartBlock
<1>6. MarksInv(op[p])'
  <2>1. \A r \in Of(Nullifier, o.logs) :
          r.block < stale /\ r.block < owed[o.queue[1]] => Accounted(r)
    BY <1>2 DEF MarksInv
  <2>. QED
    BY <1>1, <1>4, <2>1 DEF MarksInv, Accounted, Of
<1>7. \A q \in Syncer : CursorInv(op[q])' /\ MarksInv(op[q])'
  BY <1>5, <1>6 DEF OneSyncer
<1>8. OwedStep
  BY <1>1, SpendsStill DEF HistoryGrows
<1>9. \A r \in rows'.nullifiers : r.event \in Nullifier
  BY <1>1 DEF SpentInv
<1>. QED
  BY <1>1, <1>7, <1>8, <1>9, SpentFrame

\* What is below the new checkpoint was below the old one or is in the chunk.
LEMMA SpentSave ==
    ASSUME SessionInv, SpentInv, OneSyncer, UNCHANGED sessionVars, job.kind = "none",
           NEW p \in Syncer, SaveCheckpoint(p)
    PROVE  SpentInv'
<1>. DEFINE o == op[p]
            more == [Idle EXCEPT !.pc = "fetch", !.queue = o.queue,
                                 !.from = o.chunkTo + 1, !.to = o.to]
<1>1. UNCHANGED <<chainVars, rows, spent, displaced, skipped, stale, owed, unmarked>>
  BY DEF SaveCheckpoint, sessionVars
<1>2. /\ op \in [Syncer -> Call] /\ o \in Call /\ CallType(o) /\ CursorInv(o)
      /\ MarksInv(o) /\ ChunkInv(o) /\ o.pc = "save" /\ o.pc \in Import
  BY DEF SaveCheckpoint, SessionInv, SessionTypeOK, TypeOK, SyncInv, SpentInv, Import
<1>3. PICK v \in {o.queue[1]}, k \in {o.chunkTo} : TRUE
  OBVIOUS
<1>4. v \in Version
  BY <1>2, <1>3, ElementOfSeq, EmptySeq DEF Call, CallType
<1>5. /\ o.from = StartBlock(checkpoint[v]) /\ o.file = checkpoint
      /\ o.logs = LogsIn(v, o.from, k) /\ o.from <= k
      /\ k \in Int /\ o.from \in Int /\ k + 1 # 0
  BY <1>2, <1>3, ChainAssumption DEF CursorInv, ChunkInv, Call
<1>6. checkpoint' = [checkpoint EXCEPT ![v] = k + 1]
  BY <1>3, <1>5 DEF SaveCheckpoint, Syncing, NextBlock
<1>7. /\ checkpoint'[v] = k + 1
      /\ \A w \in Version : w # v => checkpoint'[w] = checkpoint[w]
  <2>1. checkpoint \in [Version -> 0 .. MaxBlock + 1]
    BY DEF SessionInv, SessionTypeOK, TypeOK
  <2>. QED
    BY <1>4, <1>6, <2>1
<1>8. o.todo = {}
  <2>1. TodoKind(o) = {}
    BY <1>2 DEF TodoKind, Loops
  <2>. QED
    BY <1>2, <2>1 DEF CallType
<1>9. \A r \in Of(Nullifier, o.logs) : r.block < stale /\ r.block < owed[v] => Accounted(r)
  BY <1>2, <1>3, <1>8 DEF MarksInv
<1>10. ASSUME NEW r \in Row, Due(v, r), r.block < k + 1
       PROVE  r \in Of(Nullifier, o.logs) \/ r.block < checkpoint[v]
  <2>1. r.block \in Int /\ r.block >= 1 /\ checkpoint[v] \in Int
    BY <1>4, RowType, SessionTypes
  <2>2. CASE o.from <= r.block
    BY <1>5, <1>10, <2>1, <2>2 DEF Due, LogsIn, Of
  <2>3. CASE ~ o.from <= r.block
    BY <1>5, <2>1, <2>3 DEF StartBlock
  <2>. QED
    BY <2>2, <2>3
<1>11. (unmarked \/ \A w \in Version : MarkedBelow(w, checkpoint[w], {}))'
  <2>. SUFFICES ASSUME ~ unmarked, NEW w \in Version PROVE MarkedBelow(w, checkpoint[w], {})'
    BY <1>1
  <2>1. MarkedBelow(w, checkpoint[w], {})
    BY DEF SpentInv
  <2>2. ASSUME NEW r \in Row, Due(w, r), r.block < checkpoint'[w] PROVE Accounted(r)
    <3>1. CASE w = v
      <4>1. r \in Of(Nullifier, o.logs) \/ r.block < checkpoint[v]
        BY <1>7, <1>10, <2>2, <3>1
      <4>. QED
        BY <1>9, <2>1, <2>2, <3>1, <4>1 DEF MarkedBelow, Due
    <3>2. CASE w # v
      BY <1>7, <2>1, <2>2, <3>2 DEF MarkedBelow
    <3>. QED
      BY <3>1, <3>2
  <2>. QED
    BY <1>1, <2>2 DEF MarkedBelow, Due, Accounted, chainVars
<1>12. CursorInv(op[p])' /\ op'[p].pc \in {"idle", "start", "fetch"}
  <2>1. op'[p] = NextVersion(o) \/ op'[p] = more
    BY <1>2 DEF SaveCheckpoint
  <2>2. CASE op'[p] = NextVersion(o)
    <3>1. op'[p].pc \in {"idle", "start"}
      BY <1>2, <2>2, NextVersionType DEF CallType
    <3>. QED
      BY <3>1 DEF CursorInv, Import, Batches, Loops
  <2>3. CASE op'[p] = more
    <3>1. op'[p].pc = "fetch" /\ op'[p].queue = o.queue /\ op'[p].from = k + 1
      BY <1>3, <2>3 DEF Idle
    <3>2. op'[p].from = StartBlock(checkpoint'[op'[p].queue[1]])
      BY <1>3, <1>5, <1>7, <3>1 DEF StartBlock
    <3>. QED
      BY <3>1, <3>2 DEF CursorInv, StartBlock
  <2>. QED
    BY <2>1, <2>2, <2>3
<1>13. \A q \in Syncer : CursorInv(op[q])' /\ MarksInv(op[q])'
  BY <1>12 DEF OneSyncer, MarksInv
<1>14. SpendOrder' /\ RemarkInv' /\ \A r \in rows'.nullifiers : r.event \in Nullifier
  BY <1>1 DEF SpentInv, SpendOrder, chainVars, RemarkInv, sessionVars
<1>. QED
  BY <1>11, <1>13, <1>14 DEF SpentInv

LEMMA SpentCrash ==
    ASSUME SessionInv, SpentInv, UNCHANGED sessionVars, job.kind = "none", Crash
    PROVE  SpentInv'
<1>1. UNCHANGED <<chainVars, storeVars, skipped, stale, owed>>
      /\ op' = [p \in Syncer |-> Idle]
  BY DEF Crash, sessionVars
<1>2. \A p \in Syncer : CursorInv(op[p])' /\ MarksInv(op[p])'
  <2>. SUFFICES ASSUME NEW p \in Syncer PROVE CursorInv(op[p])' /\ MarksInv(op[p])'
    OBVIOUS
  <2>1. op'[p].pc = "idle"
    BY <1>1 DEF Idle
  <2>. QED
    BY <2>1, IdleCall
<1>3. OwedStep
  BY <1>1, SpendsStill DEF storeVars, HistoryGrows
<1>4. \A r \in rows'.nullifiers : r.event \in Nullifier
  BY <1>1 DEF SpentInv, storeVars
<1>. QED
  BY <1>1, <1>2, <1>3, <1>4, SpentFrame DEF storeVars

-----------------------------------------------------------------------------
(* The spends while no call of Sync runs.                                  *)

\* What is left to prove then.
LEMMA IdleSpent ==
    ASSUME SessionInv, SpentInv, UNCHANGED op, job.kind # "none" \/ Quiet,
           SpendOrder', RemarkInv',
           \A r \in rows'.nullifiers : r.event \in Nullifier,
           (unmarked \/ \A v \in Version : MarkedBelow(v, checkpoint[v], {}))'
    PROVE  SpentInv'
<1>1. \A p \in Syncer : op[p].pc = "idle"
  BY DEF SessionInv, ApartInv, Quiet
<1>2. \A p \in Syncer : CursorInv(op[p])' /\ MarksInv(op[p])'
  BY <1>1, IdleCall
<1>. QED
  BY <1>2 DEF SpentInv

\* Blocks are mined and replaced above the final ones: no spend in them is
\* below a checkpoint.
LEMMA SpentEnvironment ==
    ASSUME SessionInv, SpentInv, UNCHANGED sessionVars, job.kind = "none",
           Quiet, Environment
    PROVE  SpentInv'
<1>1. /\ UNCHANGED <<rows, spent, displaced, checkpoint, op, skipped, stale, owed,
                     job, unmarked>>
      /\ Mine \/ Reorg
  BY DEF Environment, storeVars, sessionVars
<1>2. StableStep /\ TypeInv
  BY SessionTypes, EnvironmentStable
<1>3. /\ \A b \in Block : b <= Finalized => chain'[b] = chain[b]
      /\ Finalized \in Int
  BY <1>2 DEF StableStep
<1>4. SpendOrder'
  BY <1>1, <1>2, OrderKept DEF SpentInv
<1>5. ASSUME NEW v \in Version, NEW r \in Row, Due(v, r)', r.block < checkpoint'[v]
      PROVE  Due(v, r)
  <2>1. PICK k \in Int, d \in Int : k = checkpoint[v] /\ d = owed[v] /\ Settled(v, k)
    BY SessionTypes DEF SessionInv
  <2>2. r.block \in Int /\ r.block \in Block /\ r.block >= 1 /\ stale \in Int
    BY RowType, SessionTypes
  <2>3. r.block < stale /\ r.block < d /\ r.block < k
    BY <1>1, <1>5, <2>1 DEF Due
  <2>4. \/ k <= 1 \/ k - 1 <= Finalized
        \/ stale - 1 <= Finalized \/ d - 1 <= Finalized \/ d <= 1
    BY <2>1 DEF Settled
  <2>5. r.block <= Finalized
    BY ONLY <1>3, <2>1, <2>2, <2>3, <2>4
  <2>. QED
    BY <1>1, <1>3, <1>5, <2>2, <2>5 DEF Due
<1>6. OwedStep
  BY <1>1, <1>5 DEF OwedStep, Accounted
<1>7. (unmarked \/ \A v \in Version : MarkedBelow(v, checkpoint[v], {}))'
  BY <1>1, <1>6, BelowKept DEF SpentInv
<1>8. RemarkInv' /\ \A r \in rows'.nullifiers : r.event \in Nullifier
  BY <1>1 DEF RemarkInv, SpentInv
<1>. QED
  BY <1>1, <1>4, <1>7, <1>8, IdleSpent

\* A reorganisation of final blocks takes spends away and brings none.
LEMMA SpentDeepReorg ==
    ASSUME SessionInv, SpentInv, DeepReorg
    PROVE  SpentInv'
<1>1. /\ UNCHANGED <<rows, spent, displaced, checkpoint, op, skipped, owed, job, unmarked>>
      /\ Quiet
  BY DEF DeepReorg, storeVars
<1>2. PICK b \in Block :
        /\ chain' = [c \in Block |-> IF c < b THEN chain[c] ELSE {}]
        /\ head' = b - 1
        /\ stale' = Lower(stale, b)
  BY DEF DeepReorg
<1>3. SpendOrder'
  BY <1>2, OrderTruncated DEF SpentInv
<1>4. ASSUME NEW v \in Version, NEW r \in Row, Due(v, r)' PROVE Due(v, r)
  <2>1. r.block \in Block /\ r.block \in Int /\ stale \in Int /\ b \in Int
    BY RowType, SessionTypes, ChainAssumption DEF Block
  <2>2. r.event \in chain'[r.block] /\ r.block < stale'
    BY <1>4 DEF Due
  <2>3. r.event \in chain[r.block]
    BY <1>2, <2>1, <2>2
  <2>4. r.block < stale
    BY <1>2, <2>1, <2>2 DEF Lower
  <2>. QED
    BY <1>1, <1>4, <2>3, <2>4 DEF Due
<1>5. OwedStep
  BY <1>1, <1>4 DEF OwedStep, Accounted
<1>6. (unmarked \/ \A v \in Version : MarkedBelow(v, checkpoint[v], {}))'
  BY <1>1, <1>5, BelowKept DEF SpentInv
<1>7. RemarkInv' /\ \A r \in rows'.nullifiers : r.event \in Nullifier
  BY <1>1 DEF RemarkInv, SpentInv, Quiet
<1>. QED
  BY <1>1, <1>3, <1>6, <1>7, IdleSpent

\* A step of a rollback.
LEMMA JobSpent ==
    ASSUME SessionInv, SpentInv, job.kind # "none" \/ Quiet,
           UNCHANGED <<chainVars, op, unmarked>>, job'.kind # "rescan",
           \A r \in rows'.nullifiers : r.event \in Nullifier, OwedStep
    PROVE  SpentInv'
<1>1. SpendOrder' /\ RemarkInv'
  BY DEF SpentInv, SpendOrder, chainVars, RemarkInv
<1>2. (unmarked \/ \A v \in Version : MarkedBelow(v, checkpoint[v], {}))'
  BY BelowKept DEF SpentInv
<1>. QED
  BY <1>1, <1>2, IdleSpent

LEMMA SpentRollbackBegins ==
    ASSUME SessionInv, SpentInv, NEW key \in Version, NEW from \in Block,
           BeginRollback(key, from)
    PROVE  SpentInv'
<1>1. /\ Quiet /\ owed' = [v \in Version |-> Lower(owed[v], from)]
      /\ job' = [NoJob EXCEPT !.kind = "rollback", !.key = key, !.from = from]
      /\ UNCHANGED <<chainVars, rows, spent, displaced, checkpoint, op, skipped, stale,
                     unmarked>>
  BY DEF BeginRollback, vars, storeVars
<1>2. job'.kind = "rollback"
  BY <1>1 DEF NoJob
<1>3. ASSUME NEW v \in Version, NEW r \in Row, Due(v, r)' PROVE Due(v, r)
  <2>1. r.block \in Int /\ owed[v] \in Int /\ from \in Int
    BY RowType, SessionTypes, ChainAssumption DEF Block
  <2>2. r.block < owed'[v]
    BY <1>3 DEF Due
  <2>3. r.block < owed[v]
    BY <1>1, <2>1, <2>2 DEF Lower
  <2>. QED
    BY <1>1, <1>3, <2>3 DEF Due, chainVars
<1>4. OwedStep
  BY <1>1, <1>3 DEF OwedStep, Accounted
<1>5. \A r \in rows'.nullifiers : r.event \in Nullifier
  BY <1>1 DEF SpentInv
<1>. QED
  BY <1>1, <1>2, <1>4, <1>5, JobSpent

\* The wallet state drops no note and no mark of a spend that is not owed.
LEMMA SpentRollbackDrops ==
    ASSUME SessionInv, SpentInv, RollbackStore
    PROVE  SpentInv'
<1>. DEFINE from == job.from
<1>1. /\ job.kind = "rollback" /\ job' = [job EXCEPT !.stage = job.stage + 1]
      /\ UNCHANGED <<chainVars, checkpoint, displaced, op, skipped, stale, owed, unmarked>>
  BY DEF RollbackStore
<1>2. /\ job'.kind = "rollback" /\ from \in Int /\ rows \in [Store -> SUBSET Row]
      /\ \A v \in Version : owed[v] <= from
      /\ \A t \in rows.txos : t \in Row /\ Trusted(t)
  BY <1>1, JobTypes, SessionTypes, StoreNames DEF SessionInv, RollbackInv
<1>3. rows'.nullifiers \subseteq rows.nullifiers
  <2>1. \/ \E T : rows' = [rows EXCEPT !.txos = T]
        \/ \E T : rows' = [rows EXCEPT !.transactions = T]
        \/ rows' = rows
        \/ rows' = [rows EXCEPT !.leaves = Keep(@, from),
                                !.commitments = Keep(@, from),
                                !.nullifiers = Keep(@, from),
                                !.unshields = Keep(@, from)]
        \/ \E T : rows' = [rows EXCEPT !.poiEvents = T]
    BY DEF RollbackStore
  <2>2. Keep(rows.nullifiers, from) \subseteq rows.nullifiers
    BY DEF Keep
  <2>. QED
    BY <1>2, <2>1, <2>2, StoreNames
<1>4. ASSUME NEW v \in Version, NEW r \in Row, Due(v, r), r.block < checkpoint[v], Accounted(r)
      PROVE  Accounted(r)'
  <2>. DEFINE c == Spends[r.event]
  <2>. SUFFICES ASSUME c \in Received, spent[c] = r.block PROVE spent'[c] = r.block
    BY <1>1, <1>4 DEF Accounted
  <2>1. spent[c] = r.block
    OBVIOUS
  <2>2. \/ spent' = spent
        \/ spent' = [e \in Received |->
                       IF e \in {t.event : t \in rows.txos \ Keep(rows.txos, from)}
                          \/ spent[e] >= from THEN 0 ELSE spent[e]]
    BY DEF RollbackStore
  <2>3. r.block \in Int /\ owed[v] \in Int /\ stale \in Int
    BY RowType, SessionTypes
  <2>4. r.block < from /\ r.block < stale
    BY <1>2, <1>4, <2>3 DEF Due
  <2>5. ASSUME NEW t \in rows.txos \ Keep(rows.txos, from) PROVE t.event # c
    <3>1. SUFFICES ASSUME t.event = c PROVE FALSE
      OBVIOUS
    <3>2. PICK d \in Row : /\ d.event = c /\ d.block <= r.block /\ d.event \in chain[d.block]
      BY <1>4, SpendNote DEF SpentInv, Due
    <3>3. d.block \in Int /\ d.block \in Block /\ t \in Row /\ t.block \in Int
      BY <1>2, RowType
    <3>4. d.block < stale /\ d.block < from
      BY <2>3, <2>4, <3>2, <3>3, <1>2
    <3>5. t.block < stale /\ t.event \in chain[t.block]
      BY <1>2, <3>1, <3>2, <3>3, <3>4 DEF Trusted
    <3>6. t = d
      BY <3>1, <3>2, <3>3, <3>5, RowOnce, SessionTypes
    <3>. QED
      BY <3>4, <3>6 DEF Keep
  <2>6. ~ spent[c] >= from
    BY <1>2, <2>1, <2>3, <2>4
  <2>. QED
    BY <2>1, <2>2, <2>5, <2>6
<1>5. OwedStep
  BY <1>1, <1>4 DEF OwedStep, Due, chainVars
<1>6. \A r \in rows'.nullifiers : r.event \in Nullifier
  BY <1>3 DEF SpentInv
<1>. QED
  BY <1>1, <1>2, <1>5, <1>6, JobSpent

\* When a rollback ends, nothing comes below the checkpoint that was not there:
\* what it no longer owes is above the checkpoint it moves back.
LEMMA SpentRollbackEnds ==
    ASSUME SessionInv, SpentInv, RollbackCheckpoint
    PROVE  SpentInv'
<1>1. /\ job.kind = "rollback" /\ job' = NoJob
      /\ UNCHANGED <<chainVars, rows, spent, displaced, op, skipped, unmarked>>
  BY DEF RollbackCheckpoint
<1>2. OwedStep
  <2>. SUFFICES ASSUME NEW v \in Version, NEW r \in Row,
                       Due(v, r)', r.block < checkpoint'[v]
                PROVE  Due(v, r) /\ r.block < checkpoint[v]
    BY <1>1 DEF OwedStep, Accounted
  <2>1. r.block \in Int /\ r.block >= 1
    BY RowType
  <2>2. r.block < stale' /\ r.block < owed'[v]
    BY DEF Due
  <2>3. r.block < stale /\ r.block < owed[v] /\ r.block < checkpoint[v]
    BY <2>1, <2>2, RollbackBack
  <2>. QED
    BY <1>1, <2>3 DEF Due, chainVars
<1>3. job'.kind = "none" /\ \A r \in rows'.nullifiers : r.event \in Nullifier
  BY <1>1, JobTypes DEF SpentInv
<1>. QED
  BY <1>1, <1>2, <1>3, JobSpent

\* The last stage of a rescan marks the spends, and it is not the first.
LEMMA LastStage ==
    /\ Len(RescanStages) \in Nat /\ Len(RescanStages) >= 3
    /\ RescanStages[Len(RescanStages)] = "marks"
<1>. DEFINE S == Version \cup {"unshields", "marks"}
            tail == <<"unshields", "marks">>
<1>1. ActiveVersions \in Seq(S) /\ tail \in Seq(S) /\ ActiveVersions # <<>>
  BY SyncAssumption
<1>2. PICK n \in Nat : n = Len(ActiveVersions) /\ n # 0
  BY <1>1, EmptySeq
<1>3. Len(tail) = 2 /\ tail[2] = "marks"
  OBVIOUS
<1>. HIDE DEF tail
<1>4. /\ Len(RescanStages) = n + 2
      /\ \A i \in 1 .. n + 2 :
            RescanStages[i] = IF i <= n THEN ActiveVersions[i] ELSE tail[i - n]
  BY <1>1, <1>2, <1>3, ConcatProperties DEF RescanStages, tail
<1>5. n + 2 \in 1 .. n + 2 /\ ~ (n + 2 <= n) /\ (n + 2) - n = 2 /\ n + 2 >= 3
  BY <1>2
<1>. QED
  BY <1>3, <1>4, <1>5

\* A rescan runs over the rows as it finds them: those of its last stage are
\* nullifiers, and none that is due is missing.
LEMMA MarksRead ==
    ASSUME SessionInv, SpentInv
    PROVE  /\ \A r \in RescanRows("marks") : r.event \in Nullifier
           /\ \A v \in Version : MarkedBelow(v, checkpoint[v], RescanRows("marks"))
<1>1. RescanRows("marks") = {r \in rows.nullifiers : Held(r)}
  BY DEF RescanRows
<1>2. ASSUME NEW v \in Version, NEW r \in Row \ RescanRows("marks"),
             Due(v, r), r.block < checkpoint[v]
      PROVE  Accounted(r)
  <2>1. PICK k \in Int : k = checkpoint[v] /\ Settled(v, k)
    BY SessionTypes DEF SessionInv
  <2>2. r \in Written("nullifiers") /\ Found(r)
    BY <1>2, <2>1, DueHeld DEF SpentInv
  <2>3. CASE r \notin rows.nullifiers
    BY <2>2, <2>3 DEF Written, Accounted
  <2>4. CASE ~ Held(r)
    BY <2>2, <2>4 DEF Held, Found, Accounted
  <2>. QED
    BY <1>1, <1>2, <2>3, <2>4
<1>. QED
  BY <1>1, <1>2 DEF MarkedBelow, SpentInv

\* A rescan begins, and goes from stage to stage.
LEMMA SpentRescanMoves ==
    ASSUME SessionInv, SpentInv, BeginRescan \/ RescanStage \/ AbortJob
    PROVE  SpentInv'
<1>1. /\ UNCHANGED <<chainVars, rows, spent, displaced, checkpoint, op, skipped, stale, owed>>
      /\ job.kind # "none" \/ Quiet
  BY DEF BeginRescan, RescanStage, AbortJob, vars, storeVars
<1>2. SpendOrder' /\ \A r \in rows'.nullifiers : r.event \in Nullifier
  BY <1>1 DEF SpentInv, SpendOrder, chainVars
<1>3. \A v \in Version, left \in SUBSET Row :
        MarkedBelow(v, checkpoint[v], left) => MarkedBelow(v, checkpoint[v], left)'
  BY <1>1 DEF MarkedBelow, Due, Accounted, chainVars
<1>4. RemarkInv' /\ (unmarked \/ \A v \in Version : MarkedBelow(v, checkpoint[v], {}))'
  <2>1. CASE BeginRescan
    <3>1. unmarked' /\ job'.stage = 1
      BY <2>1 DEF BeginRescan, NoJob
    <3>. QED
      BY <3>1, LastStage DEF RemarkInv
  <2>2. CASE AbortJob
    <3>1. job'.kind = "none" /\ UNCHANGED unmarked
      BY <2>2, JobTypes DEF AbortJob
    <3>2. unmarked \/ \A v \in Version : MarkedBelow(v, checkpoint[v], {})
      BY DEF SpentInv
    <3>3. unmarked' \/ \A v \in Version : MarkedBelow(v, checkpoint[v], {})'
      BY <1>3, <3>1, <3>2
    <3>. QED
      BY <3>1, <3>3 DEF RemarkInv
  <2>3. CASE RescanStage /\ job.stage < Len(RescanStages)
    <3>0. PICK next \in {job.stage + 1}, found \in SUBSET Row :
            found = RescanRows(RescanStages[next])
      BY RescanReads
    <3>1. job.kind = "rescan" /\ job' = [job EXCEPT !.stage = next, !.todo = found]
          /\ UNCHANGED unmarked
      BY <2>3, <3>0 DEF RescanStage
    <3>2. unmarked'
      BY <3>1 DEF SpentInv, RemarkInv
    <3>3. job'.stage = next /\ job'.todo = found
      BY <3>1, JobTypes
    <3>4. CASE next = Len(RescanStages)
      <4>1. found = RescanRows("marks")
        BY <3>0, <3>4, LastStage
      <4>2. /\ \A r \in found : r.event \in Nullifier
            /\ \A v \in Version : MarkedBelow(v, checkpoint[v], found)
        BY <4>1, MarksRead
      <4>3. \A v \in Version : MarkedBelow(v, checkpoint[v], found)'
        BY <1>3, <4>2
      <4>4. \A v \in Version : MarkedBelow(v, checkpoint[v], job.todo)'
        BY <3>3, <4>3 DEF MarkedBelow, Due, Accounted
      <4>. QED
        BY <3>2, <3>3, <4>2, <4>4 DEF RemarkInv
    <3>5. CASE next # Len(RescanStages)
      <4>1. Len(RescanStages)' = Len(RescanStages)
        BY DEF RescanStages
      <4>. QED
        BY <3>2, <3>3, <3>5, <4>1 DEF RemarkInv
    <3>. QED
      BY <3>4, <3>5
  <2>4. CASE RescanStage /\ ~ job.stage < Len(RescanStages)
    <3>1. job.kind = "rescan" /\ job.todo = {} /\ job' = NoJob
      BY <2>4 DEF RescanStage
    <3>2. job.stage = Len(RescanStages)
      BY <2>4, <3>1, LastStage, JobTypes DEF SessionInv, SessionTypeOK
    <3>3. \A v \in Version : MarkedBelow(v, checkpoint[v], {})
      BY <3>1, <3>2 DEF SpentInv, RemarkInv
    <3>4. \A v \in Version : MarkedBelow(v, checkpoint[v], {})'
      BY <1>3, <3>3
    <3>5. job'.kind = "none"
      BY <3>1, JobTypes
    <3>. QED
      BY <3>4, <3>5 DEF RemarkInv
  <2>. QED
    BY <2>1, <2>2, <2>3, <2>4
<1>. QED
  BY <1>1, <1>2, <1>4, IdleSpent

\* The writes of a rescan: in the last stage they make the marks, one by one.
LEMMA SpentRescanWrites ==
    ASSUME SessionInv, SpentInv, RescanEvent \/ RescanMarkFails
    PROVE  SpentInv'
<1>1. /\ job.kind = "rescan"
      /\ UNCHANGED <<chainVars, checkpoint, op, stale, owed, unmarked>>
      /\ skipped \subseteq skipped'
  BY DEF RescanEvent, RescanMarkFails, storeVars
<1>2. PICK x \in job.todo :
        /\ job' = [job EXCEPT !.todo = job.todo \ {x}]
        /\ x.event \in Nullifier =>
              \/ Mark(x) /\ UNCHANGED skipped
              \/ UNCHANGED <<spent, displaced>> /\ x.event \in skipped'
  <2>1. CASE RescanEvent
    <3>1. PICK x \in job.todo :
            /\ job' = [job EXCEPT !.todo = job.todo \ {x}]
            /\ \/ x.event \in Received
               \/ x.event \in Sent \cup Unshield
               \/ Mark(x) /\ UNCHANGED skipped
               \/ x.event \in Commitment \ (Received \cup Sent)
      BY <2>1 DEF RescanEvent
    <3>2. x.event \in Nullifier => x.event \notin Commitment \cup Unshield
      BY EventKindsDisjoint
    <3>. QED
      BY <3>1, <3>2 DEF Received, Sent
  <2>2. CASE RescanMarkFails
    BY <2>2 DEF RescanMarkFails, storeVars
  <2>. QED
    BY <2>1, <2>2
<1>3. /\ job'.kind = "rescan" /\ job'.stage = job.stage /\ job'.todo = job.todo \ {x}
      /\ x \in Row /\ Trusted(x)
      /\ unmarked /\ spent \in [Received -> 0 .. MaxBlock]
  BY <1>1, <1>2, JobTypes DEF SessionInv, SessionTypeOK, TypeOK, RescanInv, SpentInv, RemarkInv
<1>4. rows'.nullifiers = rows.nullifiers
  <2>1. \/ \E T : rows' = [rows EXCEPT !.txos = T]
        \/ \E T : rows' = [rows EXCEPT !.poiEvents = T]
        \/ rows' = rows
    BY DEF RescanEvent, ImportNote, RescanMarkFails, storeVars
  <2>2. rows \in [Store -> SUBSET Row]
    BY SessionTypes
  <2>. QED
    BY <2>1, <2>2, StoreNames
<1>5. ASSUME job.stage = Len(RescanStages)
      PROVE  /\ \A r \in job'.todo : r.event \in Nullifier
             /\ \A v \in Version : MarkedBelow(v, checkpoint[v], job.todo)'
  <2>1. /\ \A r \in job.todo : r.event \in Nullifier
        /\ \A v \in Version : MarkedBelow(v, checkpoint[v], job.todo)
    BY <1>1, <1>5 DEF SpentInv, RemarkInv
  <2>2. \/ Mark(x) /\ UNCHANGED skipped
        \/ UNCHANGED <<spent, displaced>> /\ x.event \in skipped'
    BY <1>2, <2>1
  <2>3. ASSUME NEW v \in Version, NEW r \in Row \ (job.todo \ {x}),
               Due(v, r), r.block < checkpoint[v]
        PROVE  Accounted(r)'
    <3>1. PICK k \in Int : k = checkpoint[v] /\ Settled(v, k)
      BY SessionTypes DEF SessionInv
    <3>2. Found(r) /\ r \in Row /\ r.event \in chain[r.block]
          /\ r.block < stale /\ r.event \in Nullifier
      BY <2>3, <3>1, DueHeld DEF SpentInv, Due
    <3>3. Spends[r.event] = Spends[x.event] => r = x
      <4>1. Spends[r.event] = Spends[x.event] => r.event = x.event
        BY <2>1, <3>2, NullifierAssumption
      <4>2. r.event = x.event => r = x
        <5>1. r.block \in Block
          BY <3>2, RowType
        <5>. QED
          BY <1>3, <3>2, <5>1, RowOnce, SessionTypes DEF Trusted
      <4>. QED
        BY <4>1, <4>2
    <3>4. CASE r = x
      <4>1. CASE Mark(x)
        BY <3>2, <3>4, <4>1, MarkAccounts
      <4>2. CASE x.event \in skipped'
        BY <3>4, <4>2 DEF Accounted
      <4>. QED
        BY <2>2, <4>1, <4>2
    <3>5. CASE r # x
      <4>1. Accounted(r)
        BY <2>1, <2>3, <3>5 DEF MarkedBelow
      <4>2. CASE Mark(x) /\ UNCHANGED skipped
        BY <3>3, <4>1, <4>2, MarkKeeps
      <4>3. CASE UNCHANGED <<spent, displaced>>
        BY <1>1, <4>1, <4>3, AccountedKept DEF HistoryGrows
      <4>. QED
        BY <2>2, <4>2, <4>3
    <3>. QED
      BY <3>4, <3>5
  <2>4. \A v \in Version : MarkedBelow(v, checkpoint[v], job.todo)'
    BY <1>1, <1>3, <2>3 DEF MarkedBelow, Due, chainVars
  <2>. QED
    BY <1>3, <2>1, <2>4
<1>6. RemarkInv'
  <2>1. Len(RescanStages)' = Len(RescanStages)
    BY DEF RescanStages
  <2>. QED
    BY <1>1, <1>3, <1>5, <2>1 DEF RemarkInv
<1>7. SpendOrder' /\ \A r \in rows'.nullifiers : r.event \in Nullifier
  BY <1>1, <1>4 DEF SpentInv, SpendOrder, chainVars
<1>. QED
  BY <1>1, <1>3, <1>6, <1>7, IdleSpent

-----------------------------------------------------------------------------

LEMMA SpentInvInit == SessionInit => SpentInv
<1>. SUFFICES ASSUME SessionInit PROVE SpentInv
  OBVIOUS
<1>1. Init /\ job = NoJob /\ SessionInv /\ AloneInv
  BY SessionInvInit, AloneInit DEF SessionInit
<1>2. SpendOrder /\ (\A p \in Syncer : CursorInv(op[p])) /\ RemarkInv
  BY <1>1, JobTypes DEF AloneInv, RemarkInv
<1>3. rows = [s \in Store |-> {}] /\ chain = [b \in Block |-> {}]
      /\ op = [p \in Syncer |-> Idle]
  BY <1>1 DEF Init, ChainInit
<1>4. rows.nullifiers = {} /\ \A p \in Syncer : MarksInv(op[p])
  BY <1>3, StoreNames DEF MarksInv, Idle
<1>5. \A v \in Version : MarkedBelow(v, checkpoint[v], {})
  BY <1>3, RowType DEF MarkedBelow, Due
<1>. QED
  BY <1>2, <1>4, <1>5 DEF SpentInv

LEMMA SpentInvNext ==
    OneSyncer /\ SessionInv /\ SpentInv /\ [SessionNext]_allVars => SpentInv'
<1>. SUFFICES ASSUME OneSyncer, SessionInv, SpentInv, [SessionNext]_allVars PROVE SpentInv'
  OBVIOUS
<1>1. CASE UNCHANGED allVars
  <2>1. UNCHANGED <<chain, head, rows, spent, displaced, checkpoint, op, skipped, sessionVars>>
    BY <1>1 DEF allVars, vars, chainVars, storeVars
  <2>2. SpendOrder' /\ RemarkInv' /\ \A r \in rows'.nullifiers : r.event \in Nullifier
    BY <2>1 DEF SpentInv, SpendOrder, RemarkInv, RescanStages, MarkedBelow, Due, Accounted,
                sessionVars
  <2>3. (unmarked \/ \A v \in Version : MarkedBelow(v, checkpoint[v], {}))'
    BY <2>1 DEF SpentInv, MarkedBelow, Due, Accounted, sessionVars
  <2>4. \A p \in Syncer : CursorInv(op[p])' /\ MarksInv(op[p])'
    BY <2>1 DEF SpentInv, CursorInv, StartBlock, MarksInv, Accounted, sessionVars
  <2>. QED
    BY <2>2, <2>3, <2>4 DEF SpentInv
<1>2. CASE SyncStep
  <2>1. job.kind = "none" /\ UNCHANGED sessionVars
        /\ (SyncNext \/ Crash \/ (Quiet /\ Environment))
    BY <1>2 DEF SyncStep
  <2>2. ASSUME NEW p \in Syncer,
               BeginSync(p) \/ Progress(p) \/ MarkSpentFails(p) \/ Abort(p)
        PROVE  SpentInv'
    BY <2>1, <2>2, SpentElsewhere, SpentCommitment, SpentMark, SpentReadCheckpoints,
       SpentSave DEF Progress, ImportStep
  <2>. QED
    BY <2>1, <2>2, SpentCrash, SpentEnvironment DEF SyncNext
<1>3. CASE JobStep
  BY <1>3, SpentRollbackBegins, SpentRollbackDrops, SpentRollbackEnds, SpentRescanMoves,
     SpentRescanWrites DEF JobStep
<1>. QED
  BY <1>1, <1>2, <1>3, SpentDeepReorg DEF SessionNext

\* A spend below the checkpoint is marked in the wallet state, unless its mark
\* failed, a rollback is owed for its block, or a rescan has cleared the marks
\* and not come to its end; or the stores cannot tell its note or its nullifier
\* from one of the other version that has come in between, or it goes by a key
\* that no record has (a note beyond the first tree). No interleaving of one
\* Sync at a time with rollbacks, rescans, reorganisations and crashes loses
\* another (markNullifiersSpent, RollbackWalletSyncWithAllStores,
\* RescanLocalUTXOTree).
THEOREM SpentUnlessOwedHolds == OneSyncer /\ SessionSpec => []SpentUnlessOwed
<1>1. SessionInv /\ SpentInv => SpentUnlessOwed
  <2>. SUFFICES ASSUME SessionInv, SpentInv, ~ unmarked, NEW v \in Version,
                       NEW r \in Of(Nullifier, LogsIn(v, 1, Sound(v) - 1))
                PROVE  Accounted(r)
    BY DEF SpentUnlessOwed, Accounted
  <2>1. /\ r \in Row /\ r.event \in Nullifier /\ r.event \in chain[r.block]
        /\ VersionOf[r.event] = v /\ r.block \in Int /\ r.block <= Sound(v) - 1
    BY RowType DEF Of, LogsIn
  <2>2. PICK k \in Int, d \in Int : k = checkpoint[v] /\ d = owed[v]
    BY SessionTypes
  <2>3. r.block < stale /\ r.block < d /\ r.block < k
    BY <2>1, <2>2, SessionTypes DEF Sound, Lower
  <2>. QED
    BY <2>1, <2>2, <2>3 DEF SpentInv, MarkedBelow, Due
<1>2. OneSyncer /\ [SessionNext]_allVars => OneSyncer'
  BY DEF OneSyncer
<1>. QED
  BY <1>1, <1>2, SessionInvInit, SessionInvNext, SpentInvInit, SpentInvNext, PTL DEF SessionSpec


-----------------------------------------------------------------------------
(***************************************************************************)
(* QuickSync.                                                              *)
(***************************************************************************)

\* The indexer stays as far behind the head as the confirmations demand.
ServesFinalized == GraphLag >= Confirmations

\* The rows that the answers may lack: those of blocks cut off an answer, and
\* those of blocks indexed while the queries ran, unless they are commitments.
Lost == {r \in Row : \/ r.block \in cut
                     \/ r.block \in split /\ r.event \notin Commitment}

\* The answers hold all events of a kind that were indexed at the first query,
\* but for those that were cut off.
Answered(kind, q) ==
    \A r \in Of(kind, LogsIn("V2", q.start, q.seen)) :
        r \in q.rows \/ r.block \in q.cut

\* The blocks before those asked for are indexed in the stores, and the answers
\* are events of the blocks the indexer has.
QueryInv(q) ==
    /\ IndexedBut(Lost, "V2", q.start)
    /\ q.rows \subseteq LogsIn("V2", q.start, indexed)
    /\ q.seen <= indexed
    /\ q.query >= 2 => Answered(Nullifier, q)
    /\ q.query >= 3 => Answered(Unshield, q)

QuickInv ==
    /\ QuickTypeOK
    /\ IInvBut(Lost)
    /\ indexed = 0 \/ indexed <= Finalized
    /\ \A p \in Syncer : QueryInv(quick[p])

-----------------------------------------------------------------------------
(* Facts about the operators.                                              *)

\* A set of numbers that is not empty has a least one.
LEMMA LeastNat ==
    ASSUME NEW T \in SUBSET Nat, T # {}
    PROVE  \E m \in T : \A n \in T : m <= n
<1>. DEFINE R == OpToRel(<, Nat)
<1>1. IsWellFoundedOn(R, Nat)
  BY NatLessThanWellFounded
<1>2. \A n, m \in Nat : <<n, m>> \in R <=> n < m
  BY DEF OpToRel
<1>. HIDE DEF R
<1>3. PICK m \in T : \A n \in T : ~ (<<n, m>> \in R)
  BY <1>1, WFMin
<1>4. \A n \in T : ~ (n < m)
  <2>. TAKE n \in T
  <2>1. n \in Nat /\ m \in Nat
    OBVIOUS
  <2>. QED
    BY <1>2, <1>3, <2>1
<1>. QED
  BY <1>4

\* A set of block numbers that is not empty has a greatest one.
LEMMA GreatestBlock ==
    ASSUME NEW S \in SUBSET Block, S # {}
    PROVE  /\ Max(S) \in S
           /\ \A b \in S : b <= Max(S)
<1>. DEFINE T == {MaxBlock - b : b \in S}
<1>1. T \in SUBSET Nat /\ T # {}
  <2>1. \A b \in S : MaxBlock - b \in Nat
    BY ChainAssumption DEF Block
  <2>. QED
    BY <2>1
<1>2. PICK m \in T : \A n \in T : m <= n
  <2>. HIDE DEF T
  <2>. QED
    BY <1>1, LeastNat
<1>3. PICK b \in S : m = MaxBlock - b
  BY <1>2
<1>4. \A c \in S : MaxBlock - b <= MaxBlock - c
  BY <1>2, <1>3
<1>5. b \in S /\ \A y \in S : b >= y
  BY <1>4, ChainAssumption DEF Block
<1>6. Max(S) \in S /\ \A y \in S : Max(S) >= y
  BY <1>5 DEF Max
<1>. QED
  BY <1>6, ChainAssumption DEF Block

\* maxV2AccumulatedBlock is the block of one of the answers, and after no other.
LEMMA LastBlockIs ==
    ASSUME NEW found \in SUBSET Row, found # {}
    PROVE  /\ LastBlock(found) \in Block
           /\ \E r \in found : r.block = LastBlock(found)
           /\ \A r \in found : r.block <= LastBlock(found)
<1>. DEFINE S == {r.block : r \in found}
<1>1. S \in SUBSET Block /\ S # {}
  BY RowType
<1>2. LastBlock(found) = Max(S)
  BY DEF LastBlock
<1>3. Max(S) \in S /\ \A b \in S : b <= Max(S)
  <2>. HIDE DEF S
  <2>. QED
    BY <1>1, GreatestBlock
<1>. QED
  BY <1>1, <1>2, <1>3

\* An answer holds events of the kind asked for, from the start block on.
LEMMA AnswerRows ==
    ASSUME NEW kind, NEW start, NEW answer \in Answers(kind, start)
    PROVE  answer \subseteq Of(kind, LogsIn("V2", start, indexed))
  BY DEF Answers

\* What may be lost for one set of rows may be lost for a larger one.
LEMMA LostMore ==
    ASSUME NEW X, NEW Y, X \subseteq Y
    PROVE  /\ IInvBut(X) => IInvBut(Y)
           /\ \A v, k : IndexedBut(X, v, k) => IndexedBut(Y, v, k)
<1>1. ASSUME NEW v, NEW k, IndexedBut(X, v, k) PROVE IndexedBut(Y, v, k)
  BY <1>1 DEF IndexedBut
<1>2. ASSUME NEW o, CallBut(X, o) PROVE CallBut(Y, o)
  BY <1>1, <1>2 DEF CallBut, ScanBut, ChunkBut, HeldBut
<1>. QED
  BY <1>1, <1>2 DEF IInvBut

-----------------------------------------------------------------------------
(* What the steps have in common.                                          *)

\* The locals of a quick sync.
LEMMA QueryFacts ==
    ASSUME QuickInv, NEW p \in Syncer
    PROVE  /\ QueryInv(quick[p])
           /\ quick[p].query \in 0 .. 3 /\ quick[p].start \in 1 .. MaxBlock + 1
           /\ quick[p].rows \in SUBSET Row /\ quick[p].seen \in 0 .. MaxBlock
           /\ quick[p].cut \in SUBSET Block
           /\ Queries = <<Nullifier, Unshield, Commitment>> /\ Len(Queries) = 3
<1>1. Len(Queries) = 3
  BY DEF Queries
<1>. QED
  BY <1>1 DEF QuickInv, QuickTypeOK, Queries

LEMMA NumberFacts ==
    ASSUME QuickInv
    PROVE  /\ TypeInv /\ ChainInv
           /\ indexed \in 0 .. MaxBlock /\ indexed \in Int
           /\ Finalized \in Int /\ MaxBlock \in Nat
  BY ChainAssumption DEF QuickInv, QuickTypeOK, IInvBut, TypeInv, TypeOK,
                         ChainTypeOK, Finalized

\* What may be lost later may be lost of what the stores hold by then.
LEMMA LostMoreNext ==
    ASSUME NEW X, X \subseteq Lost', IInvBut(X)'
    PROVE  IInvBut(Lost)'
<1>1. /\ TypeInv' /\ ChainInv' /\ NoPhantomRows' /\ DerivedFromIndex' /\ DisplacedInv'
      /\ \A v \in Version : IndexedBut(X, v, checkpoint[v])'
      /\ \A p \in Syncer : CallBut(X, op[p])'
  BY DEF IInvBut
<1>2. \A v \in Version : IndexedBut(Lost, v, checkpoint[v])'
  BY <1>1 DEF IndexedBut
<1>3. ASSUME NEW p \in Syncer PROVE CallBut(Lost, op[p])'
  <2>1. CallBut(X, op[p])'
    BY <1>1
  <2>2. ScanBut(Lost, op[p])'
    BY <2>1 DEF CallBut, ScanBut, IndexedBut
  <2>3. ChunkBut(Lost, op[p])'
    BY <2>1 DEF CallBut, ChunkBut
  <2>4. HeldBut(Lost, op[p])'
    BY <2>1 DEF CallBut, HeldBut, IndexedBut
  <2>. QED
    BY <2>1, <2>2, <2>3, <2>4 DEF CallBut
<1>. QED
  BY <1>1, <1>2, <1>3 DEF IInvBut

\* The events of the blocks that the indexer has do not change.
LEMMA AnswersStable ==
    ASSUME QuickInv, StableStep, NEW lo \in Int, NEW hi \in Int, hi <= indexed
    PROVE  LogsIn("V2", lo, hi)' = LogsIn("V2", lo, hi)
<1>1. CASE indexed = 0
  <2>1. LogsIn("V2", lo, hi) = {} /\ LogsIn("V2", lo, hi)' = {}
    BY <1>1, RowType DEF LogsIn
  <2>. QED
    BY <2>1
<1>2. CASE indexed <= Finalized
  BY <1>2, NumberFacts, LogsStable
<1>. QED
  BY <1>1, <1>2 DEF QuickInv

\* What has been found keeps its invariant.
LEMMA QueryKept ==
    ASSUME QuickInv, StableStep, Lost \subseteq Lost', indexed <= indexed',
           indexed' \in Int, NEW q, QueryInv(q), q.start \in Int, q.seen \in Int
    PROVE  QueryInv(q)'
<1>1. PICK start \in Int, seen \in Int, hi \in Int :
        start = q.start /\ seen = q.seen /\ hi = indexed
  BY NumberFacts
<1>2. PICK X \in {Lost} : TRUE
  OBVIOUS
<1>3. IndexedBut(X, "V2", start)'
  BY <1>1, <1>2, NumberFacts, IndexedStable DEF QueryInv
<1>4. IndexedBut(Lost, "V2", q.start)'
  BY <1>1, <1>2, <1>3 DEF IndexedBut
<1>5. (q.rows \subseteq LogsIn("V2", q.start, indexed))'
  <2>1. LogsIn("V2", start, hi)' = LogsIn("V2", start, hi)
    BY <1>1, AnswersStable
  <2>2. q.rows \subseteq LogsIn("V2", start, hi)
    BY <1>1 DEF QueryInv
  <2>3. \A r \in Row : r.block <= hi => r.block <= indexed'
    BY <1>1, RowType
  <2>. QED
    BY <1>1, <2>1, <2>2, <2>3 DEF LogsIn
<1>6. LogsIn("V2", start, seen)' = LogsIn("V2", start, seen)
  BY <1>1, AnswersStable DEF QueryInv
<1>7. ASSUME NEW kind, Answered(kind, q) PROVE Answered(kind, q)'
  BY <1>1, <1>6, <1>7 DEF Answered, LogsIn, Of
<1>8. q.seen <= indexed'
  BY <1>1 DEF QueryInv
<1>. QED
  BY <1>4, <1>5, <1>7, <1>8 DEF QueryInv

LEMMA SameQuery ==
    ASSUME NEW q, QueryInv(q)', NEW p \in Syncer, quick'[p] = q
    PROVE  QueryInv(quick[p])'
<1>1. \A kind : Answered(kind, q)' => Answered(kind, quick[p])'
  BY DEF Answered
<1>2. IndexedBut(Lost, "V2", quick[p].start)'
  BY DEF QueryInv, IndexedBut
<1>. QED
  BY <1>1, <1>2 DEF QueryInv

\* A quick sync that does not move keeps its invariant.
LEMMA QueryStable ==
    ASSUME QuickInv, StableStep, Lost \subseteq Lost', indexed <= indexed',
           indexed' \in Int, NEW p \in Syncer, quick'[p] = quick[p]
    PROVE  QueryInv(quick[p])'
<1>1. PICK q \in {quick[p]} : TRUE
  OBVIOUS
<1>2. QueryInv(q) /\ q.start \in Int /\ q.seen \in Int
  BY <1>1, QueryFacts, NumberFacts
<1>. QED
  BY <1>1, <1>2, QueryKept, SameQuery

LEMMA NoQuickType ==
    NoQuick \in [query : 0 .. Len(Queries), start : 1 .. MaxBlock + 1,
                 rows : SUBSET Row, seen : 0 .. MaxBlock, cut : SUBSET Block]
<1>1. Len(Queries) = 3
  BY DEF Queries
<1>2. 0 \in 0 .. Len(Queries) /\ 1 \in 1 .. MaxBlock + 1 /\ 0 \in 0 .. MaxBlock
  BY <1>1, ChainAssumption
<1>. QED
  BY <1>2 DEF NoQuick

LEMMA NoQueryInv ==
    ASSUME indexed' \in 0 .. MaxBlock, NEW p \in Syncer, quick'[p] = NoQuick
    PROVE  QueryInv(quick[p])'
<1>1. IndexedBut(Lost, "V2", quick[p].start)'
  BY RowType DEF NoQuick, IndexedBut, LogsIn, Of
<1>. QED
  BY <1>1, ChainAssumption DEF NoQuick, QueryInv

\* What a step leaves to prove.
LEMMA QuickStep ==
    ASSUME QuickInv, StableStep, QuickTypeOK', IInvBut(Lost)',
           Lost \subseteq Lost', indexed <= indexed',
           indexed' = 0 \/ indexed' <= Finalized',
           \A p \in Syncer : quick'[p] \in {quick[p], NoQuick} \/ QueryInv(quick[p])'
    PROVE  QuickInv'
<1>1. indexed' \in 0 .. MaxBlock /\ indexed' \in Int
  BY ChainAssumption DEF QuickTypeOK
<1>2. \A p \in Syncer : QueryInv(quick[p])'
  BY <1>1, QueryStable, NoQueryInv
<1>. QED
  BY <1>2 DEF QuickInv

-----------------------------------------------------------------------------
(* The steps of a quick sync.                                              *)

LEMMA FallbackType ==
    /\ Fallback \in Call /\ CallType(Fallback)
    /\ Fallback.pc = "start" /\ Fallback.todo = {} /\ Fallback.current = {}
<1>1. /\ Fallback = [Idle EXCEPT !.pc = "start", !.queue = ActiveVersions]
      /\ Idle \in Call
  BY IdleType DEF Fallback
<1>2. /\ Idle.todo = {} /\ Idle.current = {}
  BY DEF Idle
<1>3. Fallback \in Call /\ Fallback.pc = "start" /\ Fallback.queue = ActiveVersions
      /\ Fallback.todo = {} /\ Fallback.current = {}
  BY <1>1, <1>2, SyncAssumption DEF Call, PC
<1>. QED
  BY <1>3, SyncAssumption DEF CallType

\* A call that fails, is cancelled or dies leaves the stores as they are, and
\* the fallback starts over.
LEMMA CallsStep ==
    ASSUME QuickInv, UNCHANGED <<chainVars, storeVars, skipped>>,
           faults' \in 0 .. MaxFaults, Lost \subseteq Lost',
           op' \in [Syncer -> Call],
           \A p \in Syncer : op'[p] \in {op[p], Idle, Fallback}
    PROVE  StableStep /\ TypeInv' /\ IInvBut(Lost)'
<1>1. PICK X \in {Lost} : TRUE
  OBVIOUS
<1>2. IInvBut(X) /\ TypeInv
  BY <1>1 DEF QuickInv, IInvBut
<1>3. /\ StableStep /\ ChainInv' /\ NoPhantomRows' /\ DerivedFromIndex' /\ DisplacedInv'
      /\ \A v \in Version : IndexedBut(X, v, checkpoint[v])'
  BY <1>2, QuietStable
<1>4. TypeInv'
  <2>1. \A p \in Syncer : CallType(op[p])'
    BY <1>2, IdleType, FallbackType DEF TypeInv, CallType, TodoKind
  <2>2. TypeOK'
    BY <1>2 DEF TypeInv, TypeOK, ChainTypeOK, chainVars, storeVars
  <2>. QED
    BY <2>1, <2>2 DEF TypeInv
<1>5. ASSUME NEW p \in Syncer PROVE CallBut(X, op[p])'
  <2>1. CASE op'[p] = op[p]
    BY <1>2, <1>3, <1>4, <2>1, CallStable
  <2>2. CASE op'[p] = Idle
    BY <1>2, <1>4, <2>2, IdleInv
  <2>3. CASE op'[p] = Fallback
    BY <2>3, FallbackType
       DEF CallBut, ScanBut, ChunkBut, HeldBut, Import, Batches, Loops
  <2>. QED
    BY <2>1, <2>2, <2>3
<1>6. IInvBut(X)'
  BY <1>3, <1>4, <1>5 DEF IInvBut
<1>. QED
  BY <1>1, <1>3, <1>4, <1>6, LostMoreNext

\* A step of the queries touches nothing of the stores and the calls.
LEMMA QuietQuick ==
    ASSUME QuickInv, UNCHANGED <<vars, indexed, history>>
    PROVE  /\ StableStep /\ TypeInv' /\ IInvBut(Lost)' /\ Lost' = Lost
           /\ indexed' = indexed /\ indexed' \in 0 .. MaxBlock
           /\ indexed <= indexed' /\ (indexed' = 0 \/ indexed' <= Finalized')
           /\ split' \subseteq Block /\ cut' \subseteq Block
<1>1. /\ UNCHANGED <<chainVars, storeVars, skipped, op>> /\ faults' = faults
      /\ Lost' = Lost /\ Finalized' = Finalized
  BY DEF vars, history, Lost, chainVars, Finalized
<1>2. TypeOK
  BY DEF QuickInv, QuickTypeOK
<1>3. StableStep /\ TypeInv' /\ IInvBut(Lost)'
  BY <1>1, <1>2, CallsStep DEF TypeOK
<1>. QED
  BY <1>1, <1>3, NumberFacts DEF QuickInv, QuickTypeOK, history

LEMMA QuickStartIndexed ==
    ASSUME QuickInv
    PROVE  /\ QuickStart \in 1 .. MaxBlock + 1
           /\ IndexedBut(Lost, "V2", QuickStart)
<1>1. /\ checkpoint["V2"] \in 0 .. MaxBlock + 1 /\ MaxBlock \in Nat
      /\ IndexedBut(Lost, "V2", checkpoint["V2"])
  BY ChainAssumption DEF QuickInv, IInvBut, TypeInv, TypeOK, Version
<1>2. IndexedBut(Lost, "V2", 1)
  BY RowType DEF IndexedBut, LogsIn, Of
<1>3. QuickStart \in {1, checkpoint["V2"]} /\ QuickStart # 0
  BY DEF QuickStart, StartBlock
<1>4. QuickStart \in 1 .. MaxBlock + 1
  BY <1>1, <1>3
<1>. QED
  BY <1>1, <1>2, <1>3, <1>4

LEMMA StepBeginQuick ==
    ASSUME QuickInv, NEW p \in Syncer, BeginQuickSync(p)
    PROVE  QuickInv'
<1>. DEFINE q == [NoQuick EXCEPT !.query = 1, !.start = QuickStart]
<1>1. quick' = [quick EXCEPT ![p] = q] /\ UNCHANGED <<vars, indexed, history>>
  BY DEF BeginQuickSync
<1>2. /\ q.query = 1 /\ q.start = QuickStart /\ q.rows = {} /\ q.seen = 0
      /\ q.cut = {}
  BY DEF NoQuick
<1>3. quick'[p] = q /\ \A r \in Syncer \ {p} : quick'[r] = quick[r]
  BY <1>1 DEF QuickInv, QuickTypeOK
<1>4. PICK start \in 1 .. MaxBlock + 1 : start = QuickStart
  BY QuickStartIndexed
<1>. HIDE DEF q
<1>5. IndexedBut(Lost, "V2", start)'
  <2>1. PICK X \in {Lost} : TRUE
    OBVIOUS
  <2>2. IndexedBut(X, "V2", start) /\ start \in Int /\ TypeInv /\ StableStep
    BY <1>1, <1>4, <2>1, QuickStartIndexed, QuietQuick, NumberFacts
  <2>3. IndexedBut(X, "V2", start)'
    BY ONLY <2>2, IndexedStable
  <2>. QED
    BY <1>1, <2>1, <2>3, QuietQuick DEF IndexedBut
<1>6. QueryInv(quick[p])'
  <2>1. IndexedBut(Lost, "V2", quick[p].start)'
    BY <1>2, <1>3, <1>4, <1>5 DEF IndexedBut
  <2>. QED
    BY <1>1, <1>2, <1>3, <2>1, QuietQuick DEF QueryInv
<1>7. QuickTypeOK'
  <2>1. /\ 0 \in 0 .. Len(Queries) /\ 1 \in 0 .. Len(Queries)
        /\ 1 \in 1 .. MaxBlock + 1 /\ 0 \in 0 .. MaxBlock
    <3>1. Len(Queries) = 3 /\ MaxBlock \in Nat
      BY QueryFacts, NumberFacts
    <3>. QED
      BY <3>1
  <2>2. q = [NoQuick EXCEPT !.query = 1, !.start = start]
    BY <1>4 DEF q
  <2>3. q \in [query : 0 .. Len(Queries), start : 1 .. MaxBlock + 1,
               rows : SUBSET Row, seen : 0 .. MaxBlock, cut : SUBSET Block]
    BY <2>1, <2>2 DEF NoQuick
  <2>. QED
    BY <1>1, <2>3, QuietQuick DEF QuickTypeOK, QuickInv, TypeInv
<1>. QED
  BY <1>1, <1>3, <1>6, <1>7, QuietQuick, QuickStep

\* The events of an answer, and the blocks of those it leaves out.
LEMMA CutOffRows ==
    ASSUME NEW p, NEW answer
    PROVE  /\ CutOff(p, answer) \subseteq Block
           /\ \A r \in Of(Queries[quick[p].query], LogsIn("V2", quick[p].start, indexed)) :
                r \in answer \/ r.block \in CutOff(p, answer)
  BY RowType DEF CutOff, Of, LogsIn

\* What a query adds to the answers keeps their invariant.
LEMMA AnswerAdded ==
    ASSUME QuickInv, NEW p \in Syncer, quick[p].query \in {1, 2},
           NEW answer \in Answers(Queries[quick[p].query], quick[p].start),
           NEW n, n.query = quick[p].query + 1, n.start = quick[p].start,
           n.rows = quick[p].rows \cup answer,
           n.cut = quick[p].cut \cup CutOff(p, answer),
           n.seen = IF quick[p].query = 1 THEN indexed ELSE quick[p].seen
    PROVE  QueryInv(n) /\ n.seen \in 0 .. MaxBlock
<1>. DEFINE q == quick[p]
<1>1. /\ QueryInv(q) /\ q.start \in Int /\ q.seen \in 0 .. MaxBlock
      /\ Queries = <<Nullifier, Unshield, Commitment>>
      /\ indexed \in 0 .. MaxBlock /\ indexed \in Int /\ q.seen \in Int
  BY QueryFacts, NumberFacts
<1>2. n.seen <= indexed /\ n.seen \in 0 .. MaxBlock
  BY <1>1 DEF QueryInv
<1>3. n.rows \subseteq LogsIn("V2", n.start, indexed)
  BY <1>1, AnswerRows DEF QueryInv, Of
<1>4. \A r \in Of(Queries[q.query], LogsIn("V2", n.start, indexed)) :
        r \in n.rows \/ r.block \in n.cut
  BY CutOffRows
<1>5. \A r \in LogsIn("V2", n.start, n.seen) : r \in LogsIn("V2", n.start, indexed)
  <2>1. \A r \in Row : r.block <= n.seen => r.block <= indexed
    BY <1>1, <1>2, RowType
  <2>. QED
    BY <2>1 DEF LogsIn
<1>6. Answered(Queries[q.query], n)
  BY <1>4, <1>5 DEF Answered, Of
<1>7. q.query = 2 => Answered(Nullifier, n)
  BY <1>1 DEF QueryInv, Answered
<1>8. n.query >= 2 => Answered(Nullifier, n)
  BY <1>1, <1>6, <1>7
<1>9. n.query >= 3 => Answered(Unshield, n)
  BY <1>1, <1>6
<1>. QED
  BY <1>1, <1>2, <1>3, <1>8, <1>9 DEF QueryInv

LEMMA StepQuery ==
    ASSUME QuickInv, NEW p \in Syncer, Query(p)
    PROVE  QuickInv'
<1>. DEFINE q == quick[p]
<1>1. PICK answer \in Answers(Queries[q.query], q.start) :
        quick' = [quick EXCEPT ![p].query = @ + 1,
                               ![p].rows = @ \cup answer,
                               ![p].seen = IF q.query = 1 THEN indexed ELSE @,
                               ![p].cut = @ \cup CutOff(p, answer)]
  BY DEF Query
<1>2. UNCHANGED <<vars, indexed, history>> /\ q.query \in {1, 2}
  <2>1. Len(Queries) = 3
    BY QueryFacts
  <2>2. q.query \in 1 .. Len(Queries) - 1
    BY DEF Query
  <2>. QED
    BY <2>1, <2>2 DEF Query
<1>3. quick \in [Syncer -> [query : 0 .. Len(Queries), start : 1 .. MaxBlock + 1,
                            rows : SUBSET Row, seen : 0 .. MaxBlock,
                            cut : SUBSET Block]]
  BY DEF QuickInv, QuickTypeOK
<1>4. PICK n : n = [q EXCEPT !.query = @ + 1,
                             !.rows = @ \cup answer,
                             !.seen = IF q.query = 1 THEN indexed ELSE @,
                             !.cut = @ \cup CutOff(p, answer)]
  OBVIOUS
<1>5. quick' = [quick EXCEPT ![p] = n]
  BY <1>1, <1>3, <1>4
<1>6. /\ n.query = q.query + 1 /\ n.start = q.start /\ n.rows = q.rows \cup answer
      /\ n.cut = q.cut \cup CutOff(p, answer)
      /\ n.seen = IF q.query = 1 THEN indexed ELSE q.seen
  BY <1>3, <1>4
<1>7. QueryInv(n) /\ n.seen \in 0 .. MaxBlock
  BY <1>1, <1>2, <1>6, AnswerAdded
<1>8. n \in [query : 0 .. Len(Queries), start : 1 .. MaxBlock + 1,
             rows : SUBSET Row, seen : 0 .. MaxBlock, cut : SUBSET Block]
  <2>1. n.query \in 0 .. Len(Queries)
    <3>1. Len(Queries) = 3
      BY QueryFacts
    <3>. QED
      BY <1>2, <1>6, <3>1
  <2>2. answer \subseteq Row
    BY <1>1, AnswerRows DEF Of, LogsIn
  <2>3. n.rows \in SUBSET Row /\ n.cut \in SUBSET Block
    BY <1>6, <2>2, QueryFacts, CutOffRows
  <2>4. n = [query |-> n.query, start |-> n.start, rows |-> n.rows,
             seen |-> n.seen, cut |-> n.cut]
    BY <1>3, <1>4
  <2>5. n.start \in 1 .. MaxBlock + 1
    BY <1>6, QueryFacts
  <2>. QED
    BY <1>7, <2>1, <2>3, <2>4, <2>5
<1>9. quick'[p] = n /\ \A r \in Syncer \ {p} : quick'[r] = quick[r]
  BY <1>3, <1>5
<1>10. QueryInv(quick[p])'
  <2>1. n.start \in Int /\ n.seen \in Int
    BY <1>6, <1>7, QueryFacts, NumberFacts
  <2>2. QueryInv(n)'
    BY <1>2, <1>7, <2>1, QuietQuick, QueryKept, NumberFacts
  <2>. QED
    BY <1>9, <2>2, SameQuery
<1>11. QuickTypeOK'
  BY <1>2, <1>3, <1>5, <1>8, QuietQuick DEF QuickTypeOK, TypeInv
<1>. QED
  BY <1>2, <1>9, <1>10, <1>11, QuietQuick, QuickStep

\* The answers of the three queries are the events up to their last block, but
\* for those that were cut off and, unless they are commitments, those of blocks
\* indexed since the first query.
LEMMA FoundRows ==
    ASSUME QuickInv, NEW p \in Syncer, quick[p].query = 3,
           NEW answer \in Answers(Commitment, quick[p].start),
           NEW found, found = quick[p].rows \cup answer, found # {}
    PROVE  /\ found \in SUBSET Row /\ LastBlock(found) \in Block
           /\ quick[p].start <= LastBlock(found) /\ LastBlock(found) <= Finalized
           /\ found \subseteq LogsIn("V2", quick[p].start, LastBlock(found))
           /\ \A r \in LogsIn("V2", quick[p].start, LastBlock(found)) :
                \/ r \in found
                \/ r.block \in quick[p].cut \cup CutOff(p, answer)
                \/ r.block \in quick[p].seen + 1 .. indexed /\ r.event \notin Commitment
<1>. DEFINE q == quick[p]
<1>1. /\ QueryInv(q) /\ q.start \in 1 .. MaxBlock + 1 /\ q.seen \in 0 .. MaxBlock
      /\ Queries[q.query] = Commitment /\ q.start \in Int /\ q.seen \in Int
      /\ indexed \in Int /\ Finalized \in Int
  BY QueryFacts, NumberFacts
<1>2. found \subseteq LogsIn("V2", q.start, indexed)
  BY <1>1, AnswerRows DEF QueryInv, Of
<1>3. found \in SUBSET Row
  BY <1>2 DEF LogsIn
<1>4. PICK to \in Block : /\ to = LastBlock(found)
                         /\ \E x \in found : x.block = to
                         /\ \A y \in found : y.block <= to
  BY <1>3, LastBlockIs
<1>5. PICK last \in found : last.block = to
  BY <1>4
<1>6. to \in Int /\ to >= 1 /\ q.start <= to /\ to <= indexed
  BY <1>2, <1>4, <1>5, RowType DEF LogsIn, Block
<1>7. to <= Finalized
  BY <1>1, <1>6 DEF QuickInv
<1>8. found \subseteq LogsIn("V2", q.start, to)
  BY <1>2, <1>4 DEF LogsIn
<1>9. ASSUME NEW r \in LogsIn("V2", q.start, to)
      PROVE  \/ r \in found
             \/ r.block \in q.cut \cup CutOff(p, answer)
             \/ r.block \in q.seen + 1 .. indexed /\ r.event \notin Commitment
  <2>1. /\ r \in Row /\ VersionOf[r.event] = "V2" /\ r.block \in Int
        /\ r.event \in Event /\ r.block <= to
    BY <1>9, RowType DEF LogsIn, Row
  <2>2. r.block <= indexed
    BY <1>1, <1>6, <2>1
  <2>3. r \in LogsIn("V2", q.start, indexed)
    BY <1>9, <2>2 DEF LogsIn
  <2>4. CASE r.event \in Commitment
    BY <1>1, <2>3, <2>4, CutOffRows DEF Of
  <2>5. CASE r.event \notin Commitment
    <3>1. r.event \in Nullifier \cup Unshield
      BY <2>1, <2>5, ChainAssumption DEF Event
    <3>2. CASE r.block <= q.seen
      <4>1. r \in LogsIn("V2", q.start, q.seen)
        BY <1>9, <3>2 DEF LogsIn
      <4>2. Answered(Nullifier, q) /\ Answered(Unshield, q)
        BY <1>1 DEF QueryInv
      <4>. QED
        BY <3>1, <4>1, <4>2 DEF Answered, Of
    <3>3. CASE ~ r.block <= q.seen
      BY <1>1, <2>1, <2>2, <2>5, <3>3
    <3>. QED
      BY <3>2, <3>3
  <2>. QED
    BY <2>4, <2>5
<1>. QED
  BY <1>3, <1>4, <1>6, <1>7, <1>8, <1>9

\* The import of the answers is that of a chunk of V2.
LEMMA ImportedType ==
    ASSUME NEW q, q.start \in 1 .. MaxBlock + 1, NEW found \in SUBSET Row,
           LastBlock(found) \in Block, NEW o, o = Imported(q, found)
    PROVE  /\ o \in Call /\ CallType(o)
           /\ o.pc = "leaves" /\ o.queue[1] = "V2" /\ o.from = q.start
           /\ o.to = LastBlock(found) /\ o.chunkTo = LastBlock(found)
           /\ o.logs = found /\ o.todo = {} /\ o.current = {}
<1>1. PICK to \in 0 .. MaxBlock : to = LastBlock(found)
  BY DEF Block
<1>2. PICK queue \in Seq(Version) :
        queue = <<"V2">> \o ActiveVersions /\ queue # <<>> /\ queue[1] = "V2"
  <2>1. <<"V2">> \in Seq(Version) /\ ActiveVersions \in Seq(Version)
    BY SyncAssumption DEF Version
  <2>2. /\ <<"V2">> \o ActiveVersions \in Seq(Version)
        /\ Len(<<"V2">> \o ActiveVersions) = 1 + Len(ActiveVersions)
        /\ \A i \in 1 .. Len(<<"V2">>) + Len(ActiveVersions) :
              (<<"V2">> \o ActiveVersions)[i] =
                IF i <= Len(<<"V2">>) THEN <<"V2">>[i]
                ELSE ActiveVersions[i - Len(<<"V2">>)]
    BY <2>1, ConcatProperties
  <2>3. Len(ActiveVersions) \in Nat
    BY <2>1, LenProperties
  <2>4. Len(<<"V2">>) = 1 /\ <<"V2">>[1] = "V2" /\ Len(<<>>) = 0
    OBVIOUS
  <2>5. (<<"V2">> \o ActiveVersions)[1] = "V2"
    BY <2>2, <2>3, <2>4
  <2>6. Len(<<"V2">> \o ActiveVersions) # 0
    BY <2>2, <2>3
  <2>. QED
    BY <2>2, <2>4, <2>5, <2>6
<1>3. Idle \in Call /\ Idle.todo = {} /\ Idle.current = {}
  BY IdleType DEF Idle
<1>4. PICK n : n = [Idle EXCEPT !.pc = "leaves", !.queue = queue,
                               !.from = q.start, !.to = to, !.chunkTo = to,
                               !.logs = found]
  OBVIOUS
<1>5. /\ n \in Call /\ n.pc = "leaves" /\ n.queue = queue /\ n.from = q.start
      /\ n.to = to /\ n.chunkTo = to /\ n.logs = found
      /\ n.todo = {} /\ n.current = {}
  BY <1>3, <1>4 DEF Call, PC, Import, Batches
<1>6. o = n
  BY <1>1, <1>2, <1>4 DEF Imported
<1>. QED
  BY <1>1, <1>2, <1>5, <1>6 DEF CallType

\* The import that begins with the answers is one of a chunk that may lack rows.
LEMMA ImportBegins ==
    ASSUME QuickInv, NEW p \in Syncer, quick[p].query = 3,
           NEW answer \in Answers(Commitment, quick[p].start),
           NEW found, found = quick[p].rows \cup answer, found # {},
           UNCHANGED <<chainVars, storeVars, skipped, faults>>,
           op' = [op EXCEPT ![p] = Imported(quick[p], found)],
           cut' = cut \cup quick[p].cut \cup CutOff(p, answer),
           split' = split \cup (quick[p].seen + 1 .. indexed)
    PROVE  TypeInv' /\ IInvBut(Lost)'
<1>. DEFINE q == quick[p]
<1>1. PICK X, Y : X = Lost /\ Y = Lost'
  OBVIOUS
<1>2. X \subseteq Y
  BY <1>1 DEF Lost
<1>3. IInvBut(Y) /\ QueryInv(q) /\ TypeInv
  BY <1>1, <1>2, LostMore, QueryFacts DEF QuickInv, IInvBut
<1>4. PICK start \in 1 .. MaxBlock + 1, to \in Block,
          n \in {Imported(q, found)} :
        start = q.start /\ to = LastBlock(found)
  BY FoundRows, QueryFacts
<1>5. /\ start <= to /\ to <= Finalized /\ found \in SUBSET Row
      /\ found \subseteq LogsIn("V2", start, to)
  BY <1>4, FoundRows
<1>6. LogsIn("V2", start, to) \subseteq found \cup Y
  <2>1. \A r \in LogsIn("V2", start, to) :
          \/ r \in found
          \/ r.block \in cut'
          \/ r.block \in split' /\ r.event \notin Commitment
    BY <1>4, FoundRows
  <2>. QED
    BY <1>1, <2>1 DEF Lost, LogsIn
<1>7. /\ n \in Call /\ CallType(n)
      /\ n.pc = "leaves" /\ n.queue[1] = "V2" /\ n.from = start
      /\ n.to = to /\ n.chunkTo = to
      /\ n.logs = found /\ n.todo = {} /\ n.current = {}
  <2>1. q.start \in 1 .. MaxBlock + 1 /\ LastBlock(found) \in Block
    BY <1>4
  <2>2. n = Imported(q, found)
    BY <1>4
  <2>3. found \in SUBSET Row
    BY <1>5
  <2>. HIDE DEF q
  <2>4. /\ n \in Call /\ CallType(n)
        /\ n.pc = "leaves" /\ n.queue[1] = "V2" /\ n.from = q.start
        /\ n.to = LastBlock(found) /\ n.chunkTo = LastBlock(found)
        /\ n.logs = found /\ n.todo = {} /\ n.current = {}
    BY ONLY <2>1, <2>2, <2>3, ImportedType
  <2>. QED
    BY <1>4, <2>4
<1>8. op' = [op EXCEPT ![p] = n] /\ op \in [Syncer -> Call]
  BY <1>3, <1>4 DEF TypeInv, TypeOK
<1>9. op'[p] = n /\ op' \in [Syncer -> Call]
  BY <1>7, <1>8
<1>10. /\ StableStep /\ ChainInv' /\ NoPhantomRows' /\ DerivedFromIndex' /\ DisplacedInv'
       /\ \A v \in Version : IndexedBut(Y, v, checkpoint[v])'
  BY <1>3, QuietStable
<1>11. TypeInv'
  <2>1. \A r \in Syncer : CallType(op[r])'
    BY <1>3, <1>7, <1>8 DEF TypeInv, CallType, TodoKind
  <2>. QED
    BY <1>3, <1>9, <2>1 DEF TypeInv, TypeOK, ChainTypeOK, chainVars, storeVars
<1>12. ScanBut(Y, op[p])'
  <2>1. IndexedBut(Y, "V2", start) /\ start \in Int
    BY <1>1, <1>2, <1>3, <1>4, LostMore, NumberFacts DEF QueryInv
  <2>2. IndexedBut(Y, "V2", start)'
    BY <1>3, <1>10, <2>1, IndexedStable
  <2>3. IndexedBut(Y, op[p].queue[1], op[p].from)'
    BY <1>7, <1>9, <2>2 DEF IndexedBut
  <2>4. Finalized' = Finalized
    BY DEF Finalized, chainVars
  <2>. QED
    BY <1>5, <1>7, <1>9, <2>3, <2>4 DEF ScanBut
<1>13. ChunkBut(Y, op[p])'
  <2>1. LogsIn("V2", start, to)' = LogsIn("V2", start, to)
    BY DEF LogsIn, chainVars
  <2>2. to <= to
    BY DEF Block
  <2>. QED
    BY <1>5, <1>6, <1>7, <1>9, <2>1, <2>2 DEF ChunkBut, LogsIn
<1>14. HeldBut(Y, op[p])' /\ ChunkWritten(op[p])'
  BY <1>7, <1>9 DEF HeldBut, ChunkWritten, Batches
<1>15. CallBut(Y, op[p])'
  BY <1>12, <1>13, <1>14 DEF CallBut
<1>16. IInvBut(Y)'
  BY <1>3, <1>8, <1>10, <1>11, <1>15, StepInv
<1>. QED
  BY <1>1, <1>11, <1>16, LostMoreNext

LEMMA StepLastQuery ==
    ASSUME QuickInv, NEW p \in Syncer, LastQuery(p)
    PROVE  QuickInv'
<1>. DEFINE q == quick[p]
<1>1. q.query = 3 /\ Queries[Len(Queries)] = Commitment
  BY QueryFacts DEF LastQuery
<1>2. PICK answer \in Answers(Commitment, q.start) :
        /\ op' = [op EXCEPT ![p] = IF q.rows \cup answer = {} THEN Fallback
                                   ELSE Imported(q, q.rows \cup answer)]
        /\ cut' = cut \cup q.cut \cup CutOff(p, answer)
  BY <1>1 DEF LastQuery
<1>3. /\ quick' = [quick EXCEPT ![p] = NoQuick]
      /\ split' = split \cup (q.seen + 1 .. indexed)
      /\ UNCHANGED <<chainVars, storeVars, skipped, faults, indexed>>
  BY DEF LastQuery
<1>4. Lost \subseteq Lost'
  BY <1>2, <1>3 DEF Lost
<1>5. /\ TypeOK /\ op \in [Syncer -> Call] /\ faults' \in 0 .. MaxFaults
      /\ TypeInv /\ IInvBut(Lost)
  BY <1>3 DEF QuickInv, QuickTypeOK, TypeOK, IInvBut
<1>6. StableStep
  BY <1>3, <1>5, QuietStable
<1>7. TypeInv' /\ IInvBut(Lost)'
  <2>1. PICK found : found = q.rows \cup answer
    OBVIOUS
  <2>2. CASE found = {}
    <3>1. op' = [op EXCEPT ![p] = Fallback]
      BY <1>2, <2>1, <2>2
    <3>2. op' \in [Syncer -> Call] /\ \A r \in Syncer : op'[r] \in {op[r], Idle, Fallback}
      BY <1>5, <3>1, FallbackType
    <3>. QED
      BY <1>3, <1>4, <1>5, <3>2, CallsStep
  <2>3. CASE found # {}
    <3>1. op' = [op EXCEPT ![p] = Imported(q, found)]
      BY <1>2, <2>1, <2>3
    <3>. QED
      BY <1>1, <1>2, <1>3, <2>1, <2>3, <3>1, ImportBegins
  <2>. QED
    BY <2>2, <2>3
<1>8. QuickTypeOK'
  <2>1. split' \subseteq Block
    <3>1. q.seen + 1 .. indexed \subseteq Block
      BY QueryFacts, NumberFacts DEF Block
    <3>. QED
      BY <1>3, <3>1 DEF QuickInv, QuickTypeOK
  <2>2. cut' \subseteq Block
    BY <1>2, CutOffRows, QueryFacts DEF QuickInv, QuickTypeOK
  <2>3. NoQuick \in [query : 0 .. Len(Queries), start : 1 .. MaxBlock + 1,
                     rows : SUBSET Row, seen : 0 .. MaxBlock, cut : SUBSET Block]
    BY NoQuickType
  <2>. QED
    BY <1>3, <1>7, <2>1, <2>2, <2>3 DEF QuickInv, QuickTypeOK, TypeInv
<1>9. \A r \in Syncer : quick'[r] \in {quick[r], NoQuick}
  BY <1>3 DEF QuickInv, QuickTypeOK
<1>10. indexed <= indexed' /\ (indexed' = 0 \/ indexed' <= Finalized')
  BY <1>3, NumberFacts DEF QuickInv, Finalized, chainVars
<1>. QED
  BY <1>4, <1>6, <1>7, <1>8, <1>9, <1>10, QuickStep

\* A query, an import or the process fails, or the caller gives up.
LEMMA StepQuickFails ==
    ASSUME QuickInv,
           \/ \E p \in Syncer : QueryFails(p) \/ ImportFails(p) \/ CancelQuick(p)
           \/ CrashQuick
    PROVE  QuickInv'
<1>1. UNCHANGED <<chainVars, storeVars, skipped, indexed, history>>
  BY DEF QueryFails, ImportFails, CancelQuick, CrashQuick, quickVars
<1>2. /\ TypeOK /\ op \in [Syncer -> Call] /\ faults \in 0 .. MaxFaults
      /\ quick \in [Syncer -> [query : 0 .. Len(Queries), start : 1 .. MaxBlock + 1,
                               rows : SUBSET Row, seen : 0 .. MaxBlock,
                               cut : SUBSET Block]]
  BY DEF QuickInv, QuickTypeOK, TypeOK
<1>3. faults' \in 0 .. MaxFaults
  BY <1>2, SyncAssumption DEF QueryFails, ImportFails, CancelQuick, CrashQuick
<1>4. /\ op' \in [Syncer -> Call]
      /\ \A p \in Syncer : op'[p] \in {op[p], Idle, Fallback}
  BY <1>2, IdleType, FallbackType
     DEF QueryFails, ImportFails, CancelQuick, CrashQuick
<1>5. /\ quick' \in [Syncer -> [query : 0 .. Len(Queries), start : 1 .. MaxBlock + 1,
                                rows : SUBSET Row, seen : 0 .. MaxBlock,
                                cut : SUBSET Block]]
      /\ \A p \in Syncer : quick'[p] \in {quick[p], NoQuick}
  BY <1>2, NoQuickType
     DEF QueryFails, ImportFails, CancelQuick, CrashQuick, quickVars
<1>6. Lost' = Lost /\ Finalized' = Finalized
  BY <1>1 DEF Lost, history, Finalized, chainVars
<1>7. StableStep /\ TypeInv' /\ IInvBut(Lost)'
  BY <1>1, <1>3, <1>4, <1>6, CallsStep
<1>8. QuickTypeOK'
  BY <1>1, <1>5, <1>7 DEF QuickInv, QuickTypeOK, TypeInv, history
<1>9. indexed <= indexed' /\ (indexed' = 0 \/ indexed' <= Finalized')
  BY <1>1, <1>6, NumberFacts DEF QuickInv
<1>. QED
  BY <1>5, <1>6, <1>7, <1>8, <1>9, QuickStep

\* The indexer reaches a finalized block.
LEMMA StepIndexer ==
    ASSUME ServesFinalized, QuickInv, IndexerAdvances
    PROVE  QuickInv'
<1>1. PICK b \in Block : indexed < b /\ b <= head - GraphLag /\ indexed' = b
  BY DEF IndexerAdvances
<1>2. UNCHANGED <<chainVars, storeVars, skipped, op>> /\ faults' = faults
      /\ UNCHANGED <<quick, history>>
  BY DEF IndexerAdvances, vars
<1>3. /\ head \in Int /\ peak \in Int /\ head <= peak /\ GraphLag \in Nat
      /\ Confirmations \in Nat /\ b \in Int /\ b >= 1 /\ b <= MaxBlock
  BY ChainAssumption, QuickAssumption, NumberFacts
     DEF TypeInv, TypeOK, ChainTypeOK, ChainInv, Block
<1>4. b <= Finalized
  BY <1>1, <1>3 DEF ServesFinalized, Finalized
<1>5. Lost' = Lost /\ Finalized' = Finalized
  BY <1>2 DEF Lost, history, Finalized, chainVars
<1>6. TypeOK /\ op \in [Syncer -> Call] /\ faults' \in 0 .. MaxFaults
  BY <1>2 DEF QuickInv, QuickTypeOK, TypeOK
<1>7. StableStep /\ TypeInv' /\ IInvBut(Lost)'
  BY <1>2, <1>5, <1>6, CallsStep
<1>8. QuickTypeOK'
  BY <1>1, <1>2, <1>3, <1>7, NumberFacts
     DEF QuickInv, QuickTypeOK, TypeInv, history, Block
<1>9. indexed <= indexed' /\ indexed' <= Finalized'
  BY <1>1, <1>3, <1>4, <1>5, NumberFacts
<1>. QED
  BY <1>2, <1>5, <1>7, <1>8, <1>9, QuickStep

\* The steps of WalletSync, those of the chain included.
LEMMA StepOfSync ==
    ASSUME QuickInv, [Next]_vars, UNCHANGED <<quick, history>>,
           indexed' = indexed
    PROVE  QuickInv'
<1>1. PICK X \in {Lost} : TRUE
  OBVIOUS
<1>2. IInvBut(X) /\ Lost' = Lost
  BY <1>1 DEF QuickInv, Lost, history
<1>3. StableStep /\ IInvBut(X)'
  BY <1>2, NextStable, IInvNext
<1>4. IInvBut(Lost)'
  BY <1>1, <1>2, <1>3, LostMoreNext
<1>5. QuickTypeOK'
  BY <1>3 DEF QuickInv, QuickTypeOK, history, IInvBut, TypeInv
<1>6. indexed <= indexed' /\ (indexed' = 0 \/ indexed' <= Finalized')
  BY <1>3, NumberFacts DEF QuickInv, StableStep
<1>. QED
  BY <1>2, <1>3, <1>4, <1>5, <1>6, QuickStep

\* A reorganisation never reaches a block that the indexer has.
LEMMA IndexerKept ==
    ASSUME QuickInv, ChainMoves
    PROVE  indexed' = indexed
<1>1. StableStep /\ ChainInv'
  BY NumberFacts, EnvironmentStable DEF ChainMoves
<1>2. Finalized' <= head' /\ Finalized <= Finalized'
  BY <1>1 DEF ChainInv, StableStep
<1>3. head' \in 0 .. MaxBlock
  BY NumberFacts, TypeEnvironment DEF ChainMoves, TypeInv, TypeOK, ChainTypeOK
<1>4. Finalized \in Int /\ Finalized' \in Int
  BY <1>1 DEF StableStep
<1>5. indexed <= head'
  BY <1>2, <1>3, <1>4, NumberFacts DEF QuickInv
<1>. QED
  BY <1>5 DEF ChainMoves

LEMMA QuickInvInit ==
    ASSUME QuickInit
    PROVE  QuickInv
<1>1. IInvBut(Lost)
  BY IInvInit DEF QuickInit
<1>2. QuickTypeOK
  BY <1>1, NoQuickType, ChainAssumption
     DEF QuickInit, QuickTypeOK, IInvBut, TypeInv
<1>3. ASSUME NEW p \in Syncer PROVE QueryInv(quick[p])
  <2>1. quick[p] = NoQuick
    BY DEF QuickInit
  <2>2. IndexedBut(Lost, "V2", NoQuick.start)
    BY RowType DEF NoQuick, IndexedBut, LogsIn, Of
  <2>. QED
    BY <2>1, <2>2 DEF QuickInit, QueryInv, NoQuick
<1>. QED
  BY <1>1, <1>2, <1>3 DEF QuickInv, QuickInit

LEMMA QuickInvNext ==
    ASSUME ServesFinalized, QuickInv, [QuickNext]_quickSyncVars
    PROVE  QuickInv'
<1>1. CASE QuickSyncStep
  BY <1>1, StepOfSync DEF QuickSyncStep, quickVars, Next, SyncNext, history
<1>2. CASE ChainMoves
  BY <1>2, StepOfSync, IndexerKept DEF ChainMoves, Next
<1>3. CASE UNCHANGED quickSyncVars
  BY <1>3, StepOfSync DEF quickSyncVars, quickVars, history
<1>. QED
  BY <1>1, <1>2, <1>3, StepBeginQuick, StepQuery, StepLastQuery, StepQuickFails,
     StepIndexer DEF QuickNext

-----------------------------------------------------------------------------
(* What follows.                                                           *)

\* What each quick sync has found, and each import has written, with an indexer
\* that serves finalized blocks (sync_strategy.go, quicksync).
THEOREM QuickInductive == ServesFinalized /\ QuickSpec => []QuickInv
<1>1. ServesFinalized /\ QuickInit => QuickInv
  BY QuickInvInit
<1>2. ServesFinalized /\ QuickInv /\ [QuickNext]_quickSyncVars => QuickInv'
  BY QuickInvNext
<1>3. ServesFinalized => []ServesFinalized
  <2>1. ServesFinalized => ServesFinalized'
    BY DEF ServesFinalized
  <2>. QED
    BY <2>1, PTL
<1>. QED
  BY <1>1, <1>2, <1>3, PTL DEF QuickSpec

\* However quick syncs, their failures, the fallback and crashes interleave: an
\* event below a checkpoint is in every store of its kind, unless it was cut off
\* its answer, its block was indexed between two queries, or the row of another
\* event stands in its place; and a commitment is never lost by an indexer that
\* moves on between the queries (FetchV2Graph queries commitments last).
THEOREM IndexedUnlessSplitHolds ==
    ServesFinalized /\ QuickSpec => []IndexedUnlessSplit
<1>1. QuickInv => IndexedUnlessSplit
  <2>. SUFFICES ASSUME QuickInv, NEW v \in Version, NEW s \in Store,
                       NEW r \in Of(Keeps[s], LogsIn(v, 1, checkpoint[v] - 1))
                PROVE  \/ r \in rows[s]
                       \/ r.event \in displaced[s] /\ \E q \in rows[s] : Rivals(s, q, r)
                       \/ r.block \in cut
                       \/ r.block \in split /\ r.event \notin Commitment
    BY DEF IndexedUnlessSplit
  <2>1. r \in Written(s) \cup Lost /\ r \in Row /\ r.event \in chain[r.block]
    BY DEF QuickInv, IInvBut, IndexedBut, Of, LogsIn
  <2>2. CASE r \in Written(s)
    BY <2>1, <2>2, GivenWay DEF QuickInv, IInvBut, TypeInv
  <2>3. CASE r \in Lost
    BY <2>3 DEF Lost
  <2>. QED
    BY <2>1, <2>2, <2>3
<1>. QED
  BY <1>1, QuickInductive, PTL

\* With the indexer as with the log provider: no store holds an event of a block
\* that a reorganisation can replace, and what is derived has what it is derived
\* from (importer.go).
THEOREM QuickStoresHold ==
    ServesFinalized /\ QuickSpec => [](NoPhantomRows /\ DerivedFromIndex)
<1>1. QuickInv => NoPhantomRows /\ DerivedFromIndex
  BY DEF QuickInv, IInvBut
<1>. QED
  BY <1>1, QuickInductive, PTL

=============================================================================
