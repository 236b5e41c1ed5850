# Railgun Go SDK: a TLA+ verification of its core

TLA+ models of the parts of railgun-go whose correctness depends on order,
failure and overlap: how a wallet session follows the chain with checkpoints
and seven separate stores, how it rolls back and rescans, how it syncs from an
indexer, what it reads out of the logs, how its trees answer for a proof, what
it says is spendable, how it sends public and private transactions, and how
the broadcaster client keeps its connection, its quotes and its answers. TLC
checks the models on small instances; TLAPS proves, for every instance, the safety
properties of the sync, of rollbacks and rescans, of quick sync, of private and
public transactions, of the broadcaster client, its quotes and answers, of the tree
stores, of the events that are read out of logs and an indexer, and of proofs of
innocence; that the sync keeps the ledger's balance, and that both trees are the
leaf store their callers expect. Paths below are relative to `pkg/`.

## 1. The system

| Part | State | Operations | Interacts with |
|---|---|---|---|
| Checkpointed sync (`wallet/sync.go`, `events/scanner.go`, `wallet/importer.go`) | none of its own; a call's position in its version, chunk and import | `SyncActiveTXIDVersions`, `SyncV2/V3TXIDVersion`, `ImportV2/V3Accumulated` | log provider, seven stores, checkpoint file |
| Checkpoint store (`events/checkpoint.go`) | one JSON file, key → next block | load, save, rollback | read and rewritten as a whole by each call, no lock |
| Wallet state (`wallet/file_state_store.go`) | TXOs with their spends | upsert, mark spent, rollback | importer, rescan, transactions |
| UTXO tree store (`utxotree/`) | commitment leaves, nullifiers, unshields | put, roots, rollback | importer, rescan, provers |
| TXID tree and transaction store (`txid/`) | transactions, leaves by position | upsert, append leaf, rollback | importer (V3), POI |
| Spent POI events (`wallet/poi_event_store.go`) | sent and unshield events, their POI status | upsert, rollback, mark submitted | importer, refresh, POI node |
| Event parsing (`events/v2.go`, `v3.go`, `accumulator.go`) | none | a log to commitments, nullifiers, unshields, transactions | log provider, importer |
| Rollback, rescan (`wallet/wallet.go`, `wallet/local_rescan.go`) | none; a call's position among the stores | `RollbackWalletSyncWithAllStores`, `RescanLocalUTXOTree` | all the stores |
| Sync strategies (`sdk/sync_strategy.go`, `quicksync/`) | none | `BSCV2QuickSyncStrategy.Sync` and its fallback | GraphQL indexer, importer, checkpoints |
| Broadcaster client (`broadcaster/client.go`, `waku_transport.go`) | `started`, `restarting`, chain, cancel function, connection, subscriptions | `Start`, `Stop`, `SetChain`, `TryReconnect`, polling | Waku node, application goroutines |
| Broadcaster transactions (`broadcaster/transaction.go`, `response.go`) | one shared key, one answer | `CreateTransaction`, `Send`, `HandleMessage` | broadcasters over Waku, chain lookup |
| Broadcaster fees and search (`broadcaster/fee_cache.go`, `search.go`) | fees by chain, token, broadcaster | handle fee message, find best | Waku, application |
| POI refresh and manager (`wallet/poi_refresh.go`, `poi/`) | statuses in the POI event and TXO stores | refresh, buckets, generate and submit proofs | POI node |
| Public transactions (`transaction/sender.go`, `sdk/runtime_workflow.go`) | none; nonce and receipt of a call | send, wait for receipt, sync after it | RPC node |
| Private transactions (`sdk/private_transactions.go`, `transaction/solutions.go`) | none; selected UTXOs of a call | select, batch, prove, send | wallet state, provers |
| Proof artifacts (`proof/artifact_cache.go`, `sdk/private_transactions.go`) | files on disk, one manifest | download, write, load | provers |
| Runtime facade (`sdk/`) | stores of a session | builds and forwards | everything above |
| Cryptography, encoding, validation (`crypto/`, `address/`, `note/`, `validation/`, ABI code) | none | pure functions | everything above |

What is hard about it:

* **Seven stores, no transaction.** A chunk is imported by a dozen separate
  writes and its checkpoint is saved last. Everything the stores promise at a
  crash, an error or a cancelled context depends on the order of the writes and
  on what an import does to rows that are already there. Correct means: nothing
  below a checkpoint is missing, nothing off the chain is ever stored, nothing
  derived outlives what it is derived from, and the balance is the ledger's.
* **No lock.** Nothing keeps two `Sync` calls apart, nor a `Sync` and a
  rollback. The checkpoint file is read and written back whole.
* **Reorganisations.** Sync stays behind the head by the confirmations; deeper
  ones are the application's to repair with a rollback per checkpoint key.
* **Swallowed errors.** A failed spend mark counts as a foreign nullifier, a
  failed quick sync as a reason to fall back.
* **Two sources of truth.** An indexer that answers three queries at three
  times, cut off at a limit, against the log provider.
* **A mutex that is let go.** The broadcaster client's restart disconnects and
  connects the transport outside its mutex, guarded by a flag.
* **A shared slot.** The client keeps one key and one answer for all of its
  transactions, while answers are late, repeated or lost. So is the manifest of
  the proof artifacts one file for all private transactions.
* **Nothing is reserved.** Nonces, allowances, notes, quotes and POI statuses are
  read, worked with for a while, and used; other calls and other people act in
  between, and a reply that is lost makes a thing that was done look undone.
* **Positions.** Leaves have a place in a tree and a global one, V2 and V3 share
  keys, trees get full in the middle of a log: every place that is worked out,
  rather than read, can be off by one or in the wrong tree.
* **Shares of a total.** A log gives the fee the treasury took of each token; the
  fee of each note is worked out, rounded, and refused when it looks wrong.

`PROJECT.json` lists the forty hazards that matter most, each at its line with the
properties about it. Three have none: two overlapping imports of one note
(`wallet/importer.go:223`), a rollback during a Sync (`wallet/wallet.go:85`), and
an indexer that serves unconfirmed blocks (`sdk/sync_strategy.go:151`).

What makes each part correct, in a line: the sync stores every final event below
its checkpoint and nothing else; a rollback leaves nothing of the blocks it drops
and forgets no block it owes; a tree store proves what the chain has; a log gives
every note its place, key and fee; a balance is spendable only if the node said so;
a private payment takes just enough notes, pays what was asked and says how it went;
a public one is sent once; a client restarts once, listens to its chain and hands
each caller its own answer at a quote that is still good.

## 2. Modules

```
RailgunChain ── WalletSync ─┬─ WalletSync_proofs
                  │         ├─ WalletSession   (rollback, rescan, deep reorganisations)
                  │         ├─ QuickSync       (indexer, queries, fallback)
                  │         └─ WalletCompositions_proofs   (of these two)
                  └── refines LedgerBalance
AccumulatorV3 ── EventSources ── EventSources_proofs   (logs and indexer to events)
MerkleTree ── TreeStores ── TreeStores_proofs
                  └── refines LeafStore        (twice: UTXO tree, TXID tree)
PoiManager ── ProofsOfInnocence ── ProofsOfInnocence_proofs
NoteSelection, TransactionHistory ── PrivateTransactions ── PrivateTransactions_proofs
PublicTransactions ── PublicTransactions_proofs
BroadcasterClient, BroadcasterSend, BroadcasterFees ── Broadcaster_proofs
MC*                                            instances of each for TLC
```

**RailgunChain** is external: blocks that carry Railgun events, a head, and
reorganisations up to `Confirmations` deep, as `BlockNumber` and `FilterLogs`
show them. An event is a model value with a version, a kind and, for a
commitment, an owner; a commitment has one nullifier, of its own version. `KeyOf` is
what the stores key an event by next to its kind: the global position of a commitment,
the nullifier of a spend, the log of an unshield. A contract uses a key once
(`KeysOnce`); the two contracts may use the same. `MarkedKey` is the position whose
nullifier the spend of a note of this wallet reveals, the one in its tree of
`TreeMaxItems` leaves. What the accumulators parse out of an event is the subject of
EventSources.

**WalletSync** is a session over V2 and V3. `rows` holds for each store the
events that are in it with their block, `spent` the spend marks of the wallet
state, `txidTree` the leaves with their positions, `checkpoint` the file, and
`op[p]` the locals of the call of goroutine `p`. The actions follow the code:

| Actions | Code |
|---|---|
| `BeginSync`, `NextVersion` | `Engine.SyncActiveTXIDVersions` |
| reading the checkpoint, the head, a chunk | `syncStartBlock`, `syncFinalizedToBlock`, `scanLogChunks` |
| one step per batch (leaves, nullifiers, unshields), one per row in the loops (transactions, unshield POI events, commitments, spend marks) | `ImportV2/V3Accumulated` |
| reading the next TXID position, writing its leaf | `AppendTransactionLeaf` (two steps: another call may come between) |
| reading the checkpoint file, writing it | `SaveCheckpoint` (two steps) |
| `MarkSpentFails` | the error that `markNullifiersSpent` counts as a skip |
| `Abort`, `Crash` | an error or cancelled context ends one call; the process dies |

A batch is one action because the Pebble store commits it atomically, a row of a
JSON store because the store writes its file by rename. `SameKey` says which events
have one key in a store. Leaves, nullifiers, unshields and TXOs are kept under keys
without a version (`utxotree/pebble_store.go:762`, `wallet/file_state_store.go:34`), so
that `Upsert` puts a V3 row in the place of the V2 row of the same position, a new TXO
without the spend and the status of the record it replaces (`ImportNote`), and
`InsertNew` keeps an unshield out whose key is held. A nullifier marks the record that
it matches, whosever note that is (`Mark`, `NotesMarked`). The history `displaced` has
the events whose rows had to give way, store by store, and under `marks` the notes that
the nullifier of another has marked. The head is read once
per version and may be reorganised before and between the chunks. Unsigned
subtraction and the end of a chunk wrap at `Width`, which stands for 2^64.

**LedgerBalance** is the promise without stores: a cursor per version, and a
balance that is, at each move of the cursor, the notes received before it less
those spent before it, but for spends the wallet failed to record. It promises nothing
of the notes that are `Contested`, because the wallet cannot tell them apart: two notes
of one global position have one record, a nullifier marks the note of the other version,
or, beyond the first tree, not even its own. `Contested` is a set of the ledger's
events, not of what the stores did: all other notes are in the balance or out of it as
they should be.

**WalletSession** adds `RollbackWalletSyncWithAllStores`, store by store in its
order and the one checkpoint last, and `RescanLocalUTXOTree`, row by row, both
ending anywhere. The histories `stale` (first block replaced by a deep
reorganisation), `owed` (first block of a version whose rows a rollback has
deleted or begun to, but whose checkpoint has not moved) and `unmarked` (a
rescan that has not come to its end) say what the application still has to do;
the properties hold below that line. Calls are made one at a time, and blocks
are mined between them: a rollback and a rescan read nothing of the chain, and
WalletSync is about how it moves under a Sync. A row that the other version has displaced
does not come back when the displacing row is rolled back: nothing imports it again
unless its own checkpoint is rolled back to before it, and `IndexedUnlessOwed` excepts it for good.

**QuickSync** puts in front of WalletSync the three GraphQL queries, their cut at
`MaxItems`, the import as of one chunk, its checkpoint after the last block of
any answer, and the fallback. The indexer is external: it serves blocks up to
`indexed`, at least `GraphLag` behind the head. Its histories are `split` (blocks
indexed between the first and the last query of an import) and `cut` (blocks
with items that were cut off).

**BroadcasterClient** has a program counter per goroutine, steps at the points
where the mutex is taken and given up and where the transport may fail: the
transport and its subscriptions, the flags, the pollers and which of them are
cancelled. `raced` remembers that a call took the mutex while a restart ran.

**BroadcasterSend** has the client's key and answer, the rounds of every `Send`
(publish up to `LastPublish`, store query, poll, lookup on the chain, time-out
at `LastRound`), handlers that read the key and store the answer in two critical
sections, and a network that loses requests and repeats answers. `mixed`
remembers that a key was replaced while in use.

**EventSources** has a contract, V2 or V3, that mines calls with transactions,
unshields and shields and fills trees; the wallet's scan of its logs, and a query
of the indexer's pages. `V2Logs`, `FormatV2TransactEvent` and the like read a V2
log, **AccumulatorV3** works out the events of a V3 one: places and the move to
the next tree, the split of the treasury's fee, batch indexes, keys, and the errors
about the fees, which stop the scan. Hashes and ciphertexts are the notes themselves; the
other errors of the function (`events/v3.go:258`, `:575`: counts that do not add up, a
ciphertext that is too short) are about logs that an accumulator does not write or about
bytes, and are left out. A query goes through its three fields page by page
(`fetchGraphPage`), keeps the answer of each, and imports all three when the last has
come (`FetchReturns`). What a call may do is
the constant `Update`, any set of calls that the contracts take (`UpdateAssumption`): a
shield has a value, no call fills a tree by itself, and it has fewer transactions, each
with fewer nullifiers, than `IdBase`, of which the numbers of the model are made.

**TreeStores** has the Pebble database as a function from keys to values, with the
keys as the code builds them, and the JSON files of the TXID tree with the
temporary files beside them. Deaths and rollbacks may come between any two
writes. Roots and proofs are computed by **MerkleTree**, from the sparse levels as
the code does, over a hash that is a pair. **LeafStore** is what a caller expects
of a tree store, and both stores are shown to implement it. The chains are any that the
contracts can make: `KeysDiffer` says that no two commitments of a version have one
place, that no two nullifiers of a tree and a version are the same, and that a
transaction is in one block. The two versions may give one place, take one nullifier of
a tree, and two V3 logs of a transaction may number their unshields alike; `written`
remembers which version has written which of the shared keys, and the properties say
what is lost then.

**ProofsOfInnocence** has the TXOs and spent events of a wallet with their
statuses, a node that knows more as time goes by, refreshes that list, ask and
write back one row at a time, the generation, submission and marking of proofs,
imports and rollbacks. **PoiManager** holds the pure part: buckets, what needs a
status, what can be proved. Histories: `wrong`, `raced`, `refused`.

**BroadcasterFees** has a clock, broadcasters that publish quotes, a network
that delivers them late, again or never, the cache, the authorized fees, the
filter, `lastSubscribedFeeMessageReceivedAt`, and a runtime that chooses whom it
pays. **PublicTransactions** has the account's chain and mempool, and calls that
read a nonce, estimate, send and wait; a reply may get lost, and the provider
then sends again, or name another hash than the signed one, and the call fails with its
transaction sent (`AfterReply`). Its histories `overtaken`, `replaced`, `lost` and `gaveUp` name
what the properties have to allow.

**PrivateTransactions** is `UnshieldBaseTokenV2` and `UnshieldERC20V2` from quote to
result: selection (**NoteSelection**), Merkle proofs one by one, artifacts, manifest,
proof, submission by oneself or a broadcaster, waiting; and beside them a chain
with a few trees of notes and a wallet that imports it. **TransactionHistory** makes the
history of the wallet out of what was imported.

## 3. What is checked

| Run | Instance | Properties |
|---|---|---|
| `one` | 3 blocks, 1 confirmation, chunks of 1; V2: a received note and its nullifier; V3: a received note of the same position, and a transaction with an unshield, both of one log (`OneLog`); 1 failure; 1 caller | `TypeOK`, `IndexedBelowCheckpoint`, `NoPhantomRows`, `DerivedFromIndex`, `TxidLeafBelowCheckpoint`, `ImplementsLedgerBalance` |
| `session` | 2 blocks, a V2 note, its nullifier, a V3 unshield, 2 rollbacks or rescans, 1 deep reorganisation, 1 failure | `IndexedUnlessOwed`, `NoPhantomUnlessStale`, `SpentUnlessOwed` |
| `quick` | 3 blocks, 1 confirmation, indexer 1 behind, answers cut at 1 item, 1 failure, fair | `IndexedUnlessSplit`, `EventuallySynced` |
| `stores` | trees of 4 leaves; 2 chains of 2 blocks with V2 and V3 commitments at one place, a nullifier of both versions, unshields with and without log index and two of one name, transactions; 1 death | `ProofOpensCommitment`, `RowsAreTheChains`, `ImplementsLeafStore` |
| `events` | trees of 4 leaves, fees from a value of 2; up to 3 calls of 7 kinds, V2 or V3; pages of 2, queries of 3 items | `RowsMatchContract`, `PagesComplete`, `FeesAddUpOrBlock`, `UnshieldKeysDiffer` |
| `poi` | 2 TXOs, one shielded and one from before POIs, 2 transactions with 3 events, 1 active list, 1 refresher, 2 steps of the node, 1 rollback | `SpendableIsValid`, `EventsMinedUnlessRaced`, `ProofOwedUnlessMarked` |
| `client` | 1 application goroutine, 2 pollers, 2 chains, 1 failure, fair | `OneRestart`, `StoppedUnlessRaced`, `ObservesItsChain`, `Reconnects` |
| `send` | 2 transactions, 1 handler, 3 rounds, 1 answer that is delivered any number of times, fair | `OwnAnswerUnlessMixed`, `SendReturns` |
| `fees` | a trusted signer with 2 quotes and another broadcaster with 1 of 5 kinds; 5 ticks, quotes valid for 3, time-out of 1 | `LatestFeesUnlessLate`, `SilenceNoticedUnlessAsked`, `ChosenQuoteServes` |
| `public` | 2 shields of one token and a plain transaction, 1 retry, 1 fault, fair | `NoNonceGap`, `MinedOnceUnlessOvertaken`, `RevertsOnlyIfRaced`, `ResultTold`, `ReturnsUnlessReplaced` |
| `spend` | 2 callers with 8 kinds of request; 3 or 4 notes in 2 trees of 4 leaves, or 5 in 3 trees the second of which is full of others' notes; circuits of 3 inputs, quotes of 1 or 2, 1 deposit, 2 faults | `SelectedOrRefused`, `ValueKept`, `ResultTold`, `HistoryAddsUp`, `FailsOnlyIfRaced` |
| `spend_unmarked` | the instance of `spend` | `SpentIsMarked`, which TLC refutes |

The type invariants of the other modules hold too; where a theorem of section 4
does not prove them, they can be added to the cfg.

Two larger instances are kept beside the runs and pass as well. `MCSyncOverlap.cfg` (of
MCWalletSync, 982 500 states) has two callers at once and the notes of `one`, and checks
`IndexedBelowCheckpoint` and `DerivedFromIndex`. `MCSessionPositions.cfg` (of
MCWalletSession, 3 981 472 states) is `session` with a V3 note of the V2 one's position
in place of the unshield, and checks `IndexedUnlessOwed` and `SpentUnlessOwed`.

What the bounds leave in. `one`: a block can be scanned, reorganised while its
chunk is in flight and become final; two chunks can be separated by a crash or an
error after every single write, and the second chunk spends a note of the first
or of its own, and the V3 note may take the place of the V2 one below its checkpoint
or above. With overlapping callers, of which the theorems of `WalletSync_proofs` allow
any number, updates of the checkpoint file are lost and rows written again by another:
`MCSyncOverlap.cfg` has two. `session`: a rollback can die and be
repeated, or be followed by a rescan; longer histories and other confirmation depths
are in the theorems of `WalletCompositions_proofs`. `quick`: the cut of one item makes every
answer with two incomplete. `client`: two pollers are what a Start, Stop, Start
leaves behind. `send`: `LastPublish` and `LastRound` stand for rounds 10 and 60:
what counts is a round that publishes, one that only polls and one that times
out; the one answer may be for either transaction, be repeated, and arrive before,
between and after both. `stores`: three leaves of four make a tree with an absent
sibling on one level and none on another; a chunk imported again fills more than
one TXID tree; both versions take the same place. `events`: calls end exactly at a tree's
end, begin a tree, and leave a gap before the next one; three items kept of pages
of two make a last page that is cut. `poi`: the proof of a transaction with two
events can be marked by the other's submission; one refresh can be overtaken by
imports and the rollback; any number of refreshers is in the theorems. `fees`: a quote can be late, twice, expire, be
chosen and expire before it is sent; the two fees of the signer move the band across
the fee of the other. `public`: three calls are enough for a nonce that is
taken by a second one while a third waits behind it, and the fault may be any
reply. `spend`: the amounts ask for one note, for all, and for notes of one tree
where another would do, or are refused because the tree between has none of the
wallet's; two callers race for a note, a manifest and a leaf. A
failure more repeats what one failure and the retry after it
show. `Width` = 8 is above every block number, so that a wrap is a type error
when it happens and a guard that prevents it matters. `MaxBlock`, `MaxLeaves`, `MaxFaults`,
`MaxJobs`, `MaxDeep`, `Poller`, `MaxAnswers`, `MaxCrashes`, `MaxNode`, `MaxReorg`,
`MaxQuotes`, `MaxTime`, `MaxNonce`, `MaxShields`, `LastTree` and `MaxUpdates` are bounds of the
models and not of the code; because of them, and because an application may
stop calling, the runs do not check for deadlock. `spend` is symmetric in its two
callers, which nothing tells apart, and checks no liveness.

**Fairness.** Blocks go on being mined and the application goes on calling
`Sync`, as the documentation asks of it; a call that runs goes on (weak
fairness). A query ends, in an answer or an error, because the HTTP
client times out after 20 seconds. Goroutines of the client get the mutex if
they keep asking (strong fairness): Go's mutex hands over to a waiter that has
waited for a millisecond; connects fail only `MaxFaults` times. Rounds of a
`Send` pass by the clock. A call that sends a public transaction goes on, and the
account's next transaction is mined once it is in the mempool. Nothing is assumed of broadcasters, of the network, of
reorganisations or of failures.

**What the runs show.**

* *Sync.* The write order is right: whatever write it dies after and however often
  it is repeated, nothing below a checkpoint is missing and nothing unconfirmed is
  stored, also when calls overlap, with one exception: of a V2 and a V3 row that share a
  key the later import leaves one. A TXO then has a leaf at its position that
  is not its own. Spend marks, TXID leaves and the balance need
  one call at a time: `UpsertTXO` replaces the record with its spend, and the next
  TXID position is read and used without a lock.
* *Rollback and rescan.* One that runs to its end restores what it is for, and one
  that does not leaves exactly what the histories name. A rollback of a V3 row that has
  displaced a V2 row leaves the store without either, and no Sync repairs it
  unless the V2 checkpoint is rolled back to before that row as well.
* *Quick sync.* It loses no note by the race between its queries, because the
  commitments are queried last, and with an indexer that answers, or one that never
  does, the session gets to the confirmed head.
* *Stores.* Rollback misses no prefix and drops no other row. A proof opens its
  commitment but for one case: V2 and V3 leaves have the same key, and the later
  version to write a place takes it. So it is with a nullifier of both, whose
  transaction then reads back as the later one's, and of two unshields of one name
  one is kept. The files of the TXID tree are whole at any
  death, and a leaf that is appended twice only takes a place more.
* *Events.* Places are right at a tree's end and after a gap, and pages complete;
  the fees of a V3 log add up where its notes are of one token, and a log with two
  unshields, two shields or both of one token may stop the scan for good. The keys of two
  unshields are the same when one Ethereum transaction has two V3 logs.
* *Proofs of innocence.* No race between refreshes, imports, rollbacks and the node
  makes a note spendable that the node has not called valid. An event of a block
  that is rolled back can come back by a refresh in flight, and the events of one
  submission can be marked by another's; the histories say when.
* *Broadcaster.* One restart at a time; a stopped client is disconnected unless the
  stop came in the middle of a restart; a silent subscription is noticed unless the
  application's own `Status` call has just asked. One `Send` at a time gets its own
  answer. A quote that is chosen is in the band, near the cheapest and good for the
  margin.
* *Public transactions.* No nonce is left out. A step is mined twice only when a
  nonce was taken by the call's own transaction whose reply was lost; a wait never
  ends only when the nonce went to another transaction.
* *Private transactions.* Selection is minimal in its tree and refuses only for the
  reasons the property lists; the value is kept; two calls at once can spoil each
  other's proof through the manifest or each other's note, and nothing else.

### Where the code and its documents disagree

`spend_unmarked` ends with a trace: a spent note of a later tree stays in the
balance, because the import stores it under the nullifier of its global position
(`wallet/importer.go:597`) and the transaction reveals the one of the position in
its tree (`transaction/request.go:281`). WalletSync marks by the same rule
(`MarkedKey`), and names the notes that it goes wrong for.

These are stated as definitions of the modules, and TLC refutes each of them when it
is added to the cfg of its module:

* `StateMatchesNullifiers` (WalletSync): a disk error while a spend is marked is
  counted as a foreign nullifier (`wallet/importer.go:733`). The chunk succeeds, the
  checkpoint moves on, the note stays unspent.
* `TxidTreeMatchesStore` (WalletSync): a chunk imported again appends its
  transactions' TXID leaves again (`txid/merkletree.go:39`).
* `StoresMatchCheckpoint` (QuickSync): a block that is indexed between the nullifier
  and the commitment query puts its nullifier below the checkpoint and in no store
  (`sdk/sync_strategy.go:151`).
* `StopDisconnects` (BroadcasterClient): `Stop` between the two halves of a restart
  returns, and the restart connects the stopped client (`broadcaster/client.go:275`).
* `OwnAnswer` (BroadcasterSend): of two transactions in flight, one `Send` returns
  the other's hash (`broadcaster/transaction.go:145`).

Seen in the code, and kept in the models as it is:

* The keys of leaves, nullifiers and TXOs have no version (`utxotree/pebble_store.go:762`,
  `wallet/importer.go:597`, `:665`), while both versions are active on a chain that has V3: a wallet
  with a V2 and a V3 note of the same position keeps one record and one leaf, and a
  nullifier of one may mark the other spent (`wallet/importer.go:718`). Commitments are
  kept under a prefix for each version.
* "Amount nil spends the full balance" (`sdk/private_transactions.go:123`,
  `docs/quickstart.md:229`): notes are taken from one tree and up to ten of them, so
  a balance over two trees, or over more notes, is refused.
* A later tree that holds too little replaces the good solution of an earlier one
  (`transaction/solutions.go:67`, `:91`), and the call is refused. It need not hold
  any of the wallet's notes: the list of trees has no gap, so one that the wallet has
  nothing in counts, as long as it has a note of a later one.
* A relayed unshield of the base token whose inner call fails is reported as a
  success (`sdk/private_transactions.go:677`, `:1610`): the receipt's status is that
  of the outer call.
* `FeeTokenAddress` changes the token that is quoted (`sdk/broadcaster.go:33`), while
  the fee note is paid in the token that is unshielded.
* The proof for a pre-transaction is looked up by a leaf hash with the fixed
  pre-transaction position (`poi/pre_transaction.go:211`), which no stored leaf has.
* A wallet's own change is decrypted as received (`wallet/importer.go:383`) and the
  history shows it as such, where `wallet/transaction_history_test.go:124` wants it
  to "stay out of receive history"; unshields of V2 never get there; and the spends
  are not filtered by version as the receipts are (`wallet/transaction_history.go`).

Met while modelling and carried by the histories of the passing runs instead of
runs of their own: a rollback deletes the rows of both versions but moves one
checkpoint key, so the application has to roll back every key (`owed`); a
rollback of a key without a checkpoint creates one, past blocks never synced
(`RollbackCheckpoint` leaves them owed); an answer cut off at `MaxItems` (by
default about a million) is below the checkpoint like a complete one (`cut`);
quick sync does not apply the confirmations to the indexer's answers, so that
with `GraphLag` below `Confirmations` a reorganisation leaves rows off the chain;
and README.md:36 names a `Rollback` of the Runtime that the facade does not have.

## 4. What is proved

All of it with TLAPS, for every value of the constants that meets the assumptions,
which TLC evaluates in the runs. In each module the properties are not inductive;
`IInv` is, and it says of every goroutine, call or message in flight what it has
done and what it holds in its hands. There is one lemma per action, and in it a
step per conjunct.

**WalletSync_proofs**, any number of overlapping callers: `TypeCorrect` (block numbers
and chunk ends do not wrap), `Inductive`, `IndexedBelowCheckpointHolds`,
`NoPhantomRowsHolds`, `DerivedFromIndexHolds`, and `RowsOnlyReplaced`: a row leaves a
store only for one with its key. The exceptions for the two versions' common keys are
part of what is proved, and of no assumption. Assumed: `ChainAssumption` (types of
the event functions; only V3 emits transactions), `EventKindsDisjoint`,
`SyncAssumption` (`Width` is above every block number). The chain is part of the
model: reorganisations are no deeper than the confirmations. A checkpoint is right
because of what the call that saves it did many steps before, so `IInv` adds

* `ScanInv`: the blocks before a call's chunk are indexed, and it scans no further
  than a final block, so what it has fetched cannot change under it;
* `ChunkInv`: its events are those of the chunk, as the chain has them now;
* `ChunkWritten`: by its program counter, what of them is in each store already, or had
  to give way there (`Written`), and in a loop that all but `todo` is;
* `DisplacedInv`: the key of what is displaced is still held, a TXO that is displaced is
  a contested note, and where a key has the version in it nothing is displaced;
* `HeldInv`: the checkpoint file in its hands, which another call may have
  written over since, names only blocks that are indexed. This is why a lost
  update of the file is harmless to the stores: it can only move a checkpoint
  back, or to a block another call had finished.

A row is only ever replaced by the row of the same event, which below the finalized
block has one block, or by one of its key that leaves it in `displaced`, so no other
call's step undoes `Written`. That the key stays held turns `Written` into
`IndexedBelowCheckpoint`: a store that lacks an event's row has a rival's in its place.

In the same module, for one caller (`OneSyncer`) and `NullifierAssumption`:
`AloneInductive`, `TxidLeafHolds` and `LedgerImplemented`, the refinement of LedgerBalance. `AloneInv`
is added to `IInv`, and is about the notes that are not contested: a note is spent in its block or later; a call works from the
checkpoint on and has the file as it is (`CursorInv`); of its chunk, the spends the
last loop is through with are marked or counted as skipped (`SpendInv`), and the
transactions have their leaves but for those left in the loop and the one in hand,
whose position is still the next one (`LeafInv`); and below the checkpoints all of
that holds of every row. The refinement goes step by step: mining is `Finalize`,
because what becomes final is not below a cursor, though it may contest a note that is; a failed mark is `Miss`; the save
of a checkpoint is `Advance`, with the balance that the invariant gives (`BalanceIsUnspent`); and
every other step leaves the ledger as it is. The hard ones are the import of a
commitment, which clears a spend, but not one below the checkpoint, and the mark.

**WalletCompositions_proofs**, first part, WalletSession: any number of overlapping Sync calls, of rollbacks, rescans
and deep reorganisations, any confirmation depth: `SessionInductive`,
`IndexedUnlessOwedHolds`, `NoPhantomUnlessStaleHolds`, and `SpentUnlessOwedHolds` for one
caller. The assumptions are those of WalletSync_proofs and `SessionAssumption` (the bounds are numbers). The rows of a deep
reorganisation are wrong until the rollback, so what WalletSync says of every row holds
here below a line only, and `SessionInv` says what holds above it:

* `Trusted`: a row from before the stale blocks is on the final chain, and the event
  of one from after them has not been there before. So writing rows, whether they
  replace or give way, never loses a good row to a stale one of the same event
  (`TableWrite`);
* `Settled` and `SyncInv`: what is indexed below a checkpoint, and below the chunk of a
  call, but for what is stale or owed; `Ahead` names what a call has still to write;
* `RollbackInv`: a rollback owes the blocks from its own on from its first step, and
  the stores it is through with have no row of them. At its end no store has, which is
  why the last step may clear `stale`;
* `RescanInv`: the rows a rescan has read are trusted when it writes them;
* `ApartInv`: no call of Sync is in flight while a job runs, and what is stale begins
  at the block after the final ones or before.

The spends need more, `SpentInv`, and one caller, because an import clears the mark that
another call has made. The spends that are *due* are those of blocks neither stale nor
owed (`Due`); all of them below a checkpoint are marked, unless a rescan is under way
(`MarkedBelow`), a call in flight works from the checkpoint on (`CursorInv`) and has
marked those of its chunk that its loop has left behind (`MarksInv`), and a rescan in its
last stage has in `todo` all that it has not marked yet (`RemarkInv`), because the tree
store holds every due nullifier and the wallet its note (`DueHeld`), or those have had to
give way: what `Accounted` says of a spend is that it is marked or why it cannot be, and
it stays so, since what is displaced remains noted and a mark is undone only by the
import of the note's own row, by a rollback, or by another note's record, which
`displaced` has (`AccountedKept`). `Found` says the same of the note that a mark looks
for. A rollback deletes
marks only of blocks that it owes, and a note it deletes is spent in a block it owes too
(`SpendOrder`).

Second part, QuickSync: any number of callers, any limit, any failures, and an indexer
that serves final blocks (`ServesFinalized`, which is `GraphLag >= Confirmations`: with
less of a lag the properties do not hold, see section 3): `QuickInductive`,
`IndexedUnlessSplitHolds`, `QuickStoresHold`. The invariant of WalletSync is stated for
that with a parameter, `IInvBut(X)`: everything is as before, but the logs of a sync may
lack rows of `X`. Its lemmas are proved for every `X`; the theorems about WalletSync use
the empty set, and QuickSync uses `Lost`, the rows of blocks that were cut off and those
but the commitments of blocks that were split. What is left is that an answer lacks
nothing else (`QueryInv`, `Answered`): an answer has all that was indexed at the first
query, less what was cut; what was indexed since is split when the import begins, and the
commitments, queried last, have it; and `Lost` only grows.

**PublicTransactions_proofs**, any number of calls, nonces, retries and faults
(`PublicAssumption`): `NoNonceGapHolds`, `MinedOnceHolds`, `RevertsOnlyIfRacedHolds`,
`ResultToldHolds`. What waits in the pool is what its call signed last (`PoolSigned`),
all nonces before the one a call is about to take are taken (`BehindInv`), and what
a call has on chain of its step is what it signed last (`SignedInv`, `OnceInv`);
`EstimateInv` and `ReplyInv` remember what a call was told before it went on.

**Broadcaster_proofs**, of three modules that share no variable and are proved side by
side. BroadcasterClient, any number of goroutines, pollers, chains and failures
(`ClientAssumption`): `Inductive`, `OneRestartHolds`, `StoppedHolds`,
`ObservesItsChainHolds`. Who is in a section holds the mutex, who restarts has the flag
(`MutexInv`, `FlagInv`), and until a restart is raced it is the owner of the client
(`OwnerInv`), with the chain and the subscriptions it has in hand being the client's
(`ChainInv`, `SubsInv`). BroadcasterSend (`SendSpec`), any number of transactions,
handlers and answers (`SendAssumption`): `SendInductive`, `OwnAnswerHolds`. Until keys are
mixed one transaction is active, the key is its own, and so are the stored answer and
those being handled (`OneInv`); answers come from what was sent (`AnswerInv`).
BroadcasterFees (`FeesSpec`), any number of broadcasters, quotes, delays and percentages
(`FeesAssumption`, `NoQuoteAssumption`): `FeesInductive`, `LatestFeesHolds`,
`SilenceNoticedHolds`, `ChosenQuoteHolds`. What is cached was handled, what was handled
was published, in its order (`NetInv`, `HeardInv`); a time-out nobody was told of runs
from the last quote (`ClockInv`). The last is an action property: the search finds every
quote that anybody could use (`FindsPlain`) and nothing out of the band (`Found`), and a
fee within a percentage that was rounded down is within the exact one (`RoundedDown`).

**TreeStores_proofs**, any chains, depth of the trees and number of deaths
(`StoresAssumption`, `KeysDiffer`): `SparseRootIsFull`, `ProofOpens`, `Inductive`,
`RowsAreTheChainsHolds`, `ProofOpensCommitmentHolds`, `LeafStoresImplemented`,
`StoresTypeOKHolds`. The first two are about MerkleTree, for any set of leaves: the root
of the sparse levels, where an absent sibling is the zero of its level, is that of the
full tree, and the proof of a leaf, folded up, is the root. Both go up level by level,
with a set of levels in place of an induction (see **Sums** below). `IInv` is

* `DbInv`: a row is under the key that the code builds of it, of the chain and of a block
  that is done (`RowInv`); the rows of the blocks that are done are there, whatever
  death came between two writes, but for a nullifier whose key the other version has
  written (`NullifierHeld`) and for unshields of one key, of which one has its row
  (`UnshieldHeld`; `PresentInv`); and a commitment has its leaf, unless
  the other version has written its place (`LeafInv`). A rollback owes the blocks from
  its own on until the rows are gone, so what `Standing` says of a row is only said of
  the blocks before those;
* `TransactionInv`: the transactions' file, and what its temporary file has while the
  write is under way;
* `TreeInv`: the leaves of the TXID tree fill the places from the first on (`Filled`), in
  the order of their blocks. Without the order a rollback, which drops blocks, would
  leave gaps in it, and the next position would be one that is taken.

The keys are what makes a step harmless to the rows it does not mean: `Keys` says what a
key tells of its row, and each prefix that a rollback looks under has the rows of its
kind and no other. The refinement of LeafStore maps the leaves of each tree: the leaves of a
block's commitments and the rename of the file with a new leaf are `UpsertLeaves`, what a
rollback drops is `RollbackToBlock`, and every other step leaves the leaves as they are.

**EventSources_proofs**, any calls, any sizes of trees, pages and answers
(`AccumulatorAssumption`, `SourcesAssumption`, `UpdatesAreCalls`): `Inductive`,
`RowsMatchContractHolds`, `PagesCompleteHolds`, `FeesAddUpOrBlockHolds`,
`UnshieldKeysDifferHolds`, `EventSourcesTypeOKHolds`. `IInv` is

* `ChainInv`: what a call has emitted, where its leaves are, that each group of them is in
  one tree, and that calls follow one another in their blocks and in the trees;
  `BoundInv` and `CursorInv`: nothing is beyond the last tree or the head;
* `ImportedInv`: what is imported was read out of a call that was mined (`Sound`: its
  place, its fee and key, by the version), and of a V3 contract it is all of it;
* `QueryInv`: of each finished answer, up to the third, that it leaves out no item but behind its last,
  and that only if it is full (`Complete`); of the one under way, that what is not
  behind the cursor has been fetched (`Fetched`);
* `BlockedInv`: a scan stops at a log that cannot be read, and at nothing else.

A place that is worked out along a V3 log is shown to be the contract's by going over the
log: before the i-th group both are at the same leaf, or the tree is full and both move
on (`AdvanceIs`, `PlacesAre`). Two leaves differ in their places, so a commitment that is
read from the logs and one from the indexer are the same if their places are
(`RowsAgree`). A page has the first items of a finite set in a total order: `PrecedesIs`
is the order, `FirstItemsAre` what its first `n` items are, and a new block of the
indexer comes behind all that it had (`QueryKept`). The fees: shares that are rounded
down add up to the portion less than one for each (`SharesBounds`), two portions to the
fee (`PortionsAre`), and one that is alone gets all of it (`LoneShare`), so that a log
with one unshield and one shield, of two tokens, is always read (`FewAreRead`).

**ProofsOfInnocence_proofs**, any number of TXOs, transactions, lists and refreshers
(`PoiAssumption`): `SpendableIsValidHolds`, `EventsMinedHolds`, `ProofOwedHolds`. What the
stores and the answers in the refreshers' hands say of an item is no more than the
node knows, now and later (`StoredInv`, `RefreshInv`), and a submission has only what
the node had (`SubmitInv`).

**PrivateTransactions_proofs**, any number of callers, requests, trees, deposits, quotes
and faults (`SelectionAssumption`, `PrivateAssumption`, `DepositsAssumption`: positions
and amounts are numbers, a tree has more than one leaf, a tree's number has 16 bits, and
the contract fills its trees from the left): `PrivateInductive`, `PrivateTypes`,
`SelectedOrRefusedHolds`, `ValueKeptHolds`, `ResultToldHolds`, `HistoryAddsUpHolds`,
`FailsOnlyIfRacedHolds`, and `FirstTreeMarked`, the other half of the bug that
`spend_unmarked` shows: in the first tree every spent note is marked. `IInv` says

* `LogInv`: each leaf is made once and each note spent once, after it was made, and of
  each transaction as much goes in as comes out (`EntryInv`);
* `WalletInv`: what the wallet has not imported is what the chain's trees have beyond its
  own, so a note is known when its transaction is imported and not before;
* `SelectedInv`, `ProofsInv`: what a call was offered and took, and since when; the
  Merkle proofs it has read are below one root as long as nothing is imported;
* `ArtifactsInv`: its artifacts are on disk, and in the manifest unless another call has
  written that since;
* `OutcomeInv`: what has become of its transaction, and if it was reverted, why;
* `LedgerInv`: the value is kept.

For the selection, the smallest notes until they cover the need (`Ascending`) are shown
to cover it, and not without their largest (`AscendingCovers`); from this and from what
the search of one tree returns follows what the search of all of them takes or refuses.
A reverted transaction spends a note that is revealed; the log says which transaction
revealed it, and `SelectedInv` that it did so after the call had looked, or that the note
is of a later tree.

**Sums.** The library's induction theorems take an operator and cannot be used here. For
finite sets there is a way round: the theorem that a well-founded relation has minimal
elements (`WFMin`) takes a set, so that a set of numbers has a least one (`LeastNat`), a
family of subsets that is closed under adding an element has all of them (`OneByOne`),
and a sum over a finite set, which is a fold in an order that nobody knows, exists
(`SumExists`), is unique (`SumUnique`) and does not depend on the order (`SumAdd`,
`SumUnion`, `SumMinus`). Along a sequence or up the levels of a tree a set of numbers does
the same: one that holds 0 and, with a number, the next, holds all that are counted
(`Climb`). Whatever the models fold over a set or count along a sequence can be reasoned
about in this way, if by hand.

Only model-checked: liveness (`EventuallySynced`, `Reconnects`, `SendReturns`,
`ReturnsUnlessReplaced`), which rests on fairness and `ENABLED` and is out of the prover's
reach. Every safety invariant and action property of the passing runs has its theorem.

## 5. Not modelled

* Cryptography, addresses, note encryption, ABI encoding and decoding (calldata,
  relay adapter), validation: pure functions over bytes and big integers, which a
  model checker says little about; the tests compare them with vectors of the
  reference implementation. Of them, only what other parts depend on is in the
  models: Merkle proofs, who can read a note, change and fee notes.
* Provers and the Waku node: external; only their answers and failures count.
* V3 requests, and the general spending solutions over several trees
  (`CreateSpendingSolutionsForValue`), which the unshield workflows do not use.
* The wallet details, which no part of a sync reads, and the status views of POIs.
* A rollback or a rescan at the same time as a Sync, and two processes on one
  checkpoint file.
* The status callback of the client, peers of the Waku node, and the delays between
  retries inside one RPC call.
* Configuration and the building of a runtime.

## 6. Plan

Done, in this order: WalletSync with LedgerBalance, its proofs, WalletSession,
QuickSync, BroadcasterClient, BroadcasterSend; then TreeStores with LeafStore,
EventSources, ProofsOfInnocence, BroadcasterFees, PublicTransactions and
PrivateTransactions; the proofs of the broadcaster, of public transactions, of
proofs of innocence and of WalletSession; the refinement of LedgerBalance; the proofs
about spends in WalletSession, about QuickSync, about the choice of a quote, and about
PrivateTransactions; the proofs about TreeStores, with the refinement of LeafStore, and
about EventSources. What is left:

1. Rollback and rescan while a Sync runs, with histories that say which rows are in
   doubt.
2. Quick sync with an indexer that serves unconfirmed blocks: what a later rollback
   repairs.
3. V3 requests and spending solutions over several trees, against a reference
   definition.
4. The wallet details store and two processes on one checkpoint file.
5. Theorems: the type invariants that section 4 does not list; the safety of the first
   two items above, once they are modelled.
