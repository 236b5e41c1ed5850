------------------------------ MODULE EventSources ------------------------------
(***************************************************************************)
(* Where the wallet's events come from: the logs of the contracts, V2      *)
(* (pkg/events/v2.go) or V3 (pkg/events/v3.go) and the accumulators over   *)
(* them, and the items of a GraphQL indexer of V2                          *)
(* (pkg/quicksync/v2_graph.go), fetched page by page while the chain and   *)
(* the indexer go on. Hexadecimal spelling, timestamps, the case of        *)
(* addresses and the legacy commitments of the indexer are left out.       *)
(*                                                                         *)
(* The contracts and the indexer are external. A V2 contract puts all      *)
(* commitments of a call behind one another in one tree, and so its        *)
(* shields; a V3 accumulator puts each group of a log in one tree.         *)
(***************************************************************************)
EXTENDS AccumulatorV3

CONSTANTS
    Update,     \* what a call may do: [transacts, shields], see Mine
    Token,      \* ERC-20 tokens
    NoToken,    \* the token of an empty unshield
    LastTree,   \* bound: trees 0..LastTree
    MaxUpdates, \* bound: calls that are mined
    GraphLimit, \* defaultGraphLimit: the items of a page
    MaxItems    \* the items kept of a query

ASSUME SourcesAssumption ==
    /\ LastTree \in Nat /\ MaxUpdates \in Nat
    /\ {GraphLimit, MaxItems} \subseteq Nat \ {0}

\* The identifiers of transactions and nullifiers are made of their numbers, which
\* are less than this in a call and in a transaction.
IdBase == 1000

UnshieldItem == [token : Token, value : Nat \ {0}] \cup {[token |-> NoToken, value |-> 0]}

Call == [transacts : Seq([count : Nat, spends : 0..(IdBase - 1), unshield : UnshieldItem]),
         shields   : Seq([token : Token, value : Nat \ {0}])]

Counts(update) == [i \in DOMAIN update.transacts |-> update.transacts[i].count]

\* The contracts refuse an empty shield, and no call fills a tree by itself.
UpdateAssumption ==
    /\ NoToken \notin Token
    /\ \A update \in Update :
          /\ update \in Call
          /\ Len(update.transacts) < IdBase
          /\ SumOf(Counts(update)) <= TreeSize /\ Len(update.shields) <= TreeSize

ASSUME UpdatesAreCalls == UpdateAssumption

VARIABLES
    version,   \* of the contract
    next,      \* global position of the next leaf
    mined,     \* the calls, in order
    indexed,   \* the last block that the indexer serves
    scanned,   \* the last block that the wallet has imported
    query,     \* the indexer's query that is under way
    imported,  \* the events that the wallet has imported
    blocked    \* has a scan met a log that it cannot read?

vars == <<version, next, mined, indexed, scanned, query, imported, blocked>>

HeadBlock == IF mined = <<>> THEN 0 ELSE mined[Len(mined)].block
Mined(from, to) == {mined[n] : n \in {n \in DOMAIN mined : mined[n].block \in from..to}}

NoEvents == [commitments |-> {}, nullifiers |-> {}, unshields |-> {}, transactions |-> {}]

Together(events) ==
    [commitments |-> UNION {e.commitments : e \in events}, nullifiers |-> UNION {e.nullifiers : e \in events},
     unshields |-> UNION {e.unshields : e \in events}, transactions |-> UNION {e.transactions : e \in events}]

-----------------------------------------------------------------------------
(* The contracts. *)

FeeOf(value) == value \div FeeUnit

\* A group of n leaves from a position on stays in its tree.
InOneTree(position, n) == n = 0 \/ position \div TreeSize = (position + n - 1) \div TreeSize

NextTree(position) == (position \div TreeSize + 1) * TreeSize

\* Where the commitments of a call start and where its shields do, and where the
\* next leaf goes.
V2Positions(counts, shields) ==
    LET n == SumOf(counts)
        first == IF InOneTree(next, n) THEN next ELSE NextTree(next)
        shield == IF InOneTree(first + n, shields) THEN first + n ELSE NextTree(first + n)
    IN  [transact |-> first, shield |-> shield, next |-> shield + shields]

V3Positions(counts, shields) ==
    LET n == SumOf(counts)
        Fits(position) == \A i \in DOMAIN counts : InOneTree(position + Sums(counts)[i - 1], counts[i])
        first == IF Fits(next) THEN next ELSE NextTree(next)
    IN  [transact |-> first, shield |-> first + n, next |-> first + n + shields]

\* What the n-th call emits. Its notes are numbered.
Transact(n, update, i) ==
    [id |-> IdBase * n + i, unshield |-> update.transacts[i].unshield,
     nullifiers |-> {IdBase * (IdBase * n + i) + k : k \in 1..update.transacts[i].spends},
     notes |-> [j \in 1..update.transacts[i].count |-> <<n, "transact", Sums(Counts(update))[i - 1] + j>>]]

Transacts(n, update) == [i \in DOMAIN update.transacts |-> Transact(n, update, i)]

Shields(n, update) ==
    [i \in DOMAIN update.shields |->
        [token |-> update.shields[i].token, value |-> update.shields[i].value, note |-> <<n, "shield", i>>]]

\* A call of the contract: in the transaction of the call before it, in its block,
\* or in the next one.
Mine(update, place) ==
    LET n == Len(mined) + 1
        positions == IF version = "V2" THEN V2Positions(Counts(update), Len(update.shields))
                     ELSE V3Positions(Counts(update), Len(update.shields))
    IN  /\ n <= MaxUpdates
        /\ place # "block" => mined # <<>> /\ indexed < HeadBlock /\ scanned < HeadBlock
        /\ positions.next <= (LastTree + 1) * TreeSize
        /\ next' = positions.next
        /\ mined' = Append(mined,
              [n |-> n, block |-> IF place = "block" THEN HeadBlock + 1 ELSE HeadBlock,
               txid |-> IF place = "transaction" THEN mined[n - 1].txid ELSE n,
               transact |-> positions.transact, shield |-> positions.shield,
               transacts |-> Transacts(n, update), shields |-> Shields(n, update)])
        /\ UNCHANGED <<version, indexed, scanned, query, imported, blocked>>

\* The leaves a call made: where each of its notes is.
Notes(u) == UNION {{u.transacts[i].notes[j] : j \in DOMAIN u.transacts[i].notes} : i \in DOMAIN u.transacts}
PositionIn(u, note) == (IF note[2] = "shield" THEN u.shield ELSE u.transact) + note[3] - 1
Leaves(u) == {<<note, PositionIn(u, note)>> : note \in Notes(u) \cup {u.shields[i].note : i \in DOMAIN u.shields}}

-----------------------------------------------------------------------------
(* The logs of a V2 contract, and what is read out of them. *)

V2Logs(u) ==
    {[topic |-> "Nullified", txid |-> u.txid, block |-> u.block, nullifiers |-> u.transacts[i].nullifiers]
        : i \in {i \in DOMAIN u.transacts : u.transacts[i].nullifiers # {}}}
    \cup {[topic |-> "Unshield", txid |-> u.txid, block |-> u.block, index |-> u.transacts[i].id,
           token |-> u.transacts[i].unshield.token, fee |-> FeeOf(u.transacts[i].unshield.value),
           amount |-> u.transacts[i].unshield.value - FeeOf(u.transacts[i].unshield.value)]
            : i \in HasUnshield(u)}
    \cup {[topic |-> "Transact", txid |-> u.txid, block |-> u.block, tree |-> u.transact \div TreeSize,
           start |-> u.transact % TreeSize, hash |-> Notes(u)] : x \in {x \in {1} : Notes(u) # {}}}
    \cup {[topic |-> "Shield", txid |-> u.txid, block |-> u.block, tree |-> u.shield \div TreeSize,
           start |-> u.shield % TreeSize, commitments |-> u.shields,
           fees |-> [i \in DOMAIN u.shields |-> FeeOf(u.shields[i].value)]] : x \in {x \in {1} : u.shields # <<>>}}

\* A fee of zero is the empty string.
feeString(fee) == IF fee = 0 THEN NoFee ELSE fee

\* The hash, the preimage and the encrypted bundle are the note's.
formatV2ShieldCommitments(log) ==
    {[tree |-> log.tree, index |-> log.start + i - 1, note |-> log.commitments[i].note,
      fee |-> feeString(log.fees[i]), batchIndex |-> NoIndex, txid |-> log.txid, block |-> log.block]
        : i \in DOMAIN log.commitments}

\* The hashes of the log are in order, and so are the ciphertexts.
formatV2TransactCommitments(log) ==
    {[tree |-> log.tree, index |-> log.start + note[3] - 1, note |-> note, fee |-> NoFee,
      batchIndex |-> NoIndex, txid |-> log.txid, block |-> log.block] : note \in log.hash}

FormatV2ShieldEvent(log) == [NoEvents EXCEPT !.commitments = formatV2ShieldCommitments(log)]

FormatV2TransactEvent(log) == [NoEvents EXCEPT !.commitments = formatV2TransactCommitments(log)]

FormatV2UnshieldEvent(log) ==
    [NoEvents EXCEPT !.unshields =
        {[txid |-> log.txid, logIndex |-> <<log.index>>, token |-> log.token, fee |-> log.fee,
          amount |-> log.amount, railgunTxid |-> 0, block |-> log.block]}]

FormatV2NullifiedEvents(log) ==
    [NoEvents EXCEPT !.nullifiers =
        {[nullifier |-> n, txid |-> log.txid, block |-> log.block] : n \in log.nullifiers}]

ParseV2Log(log) ==
    CASE log.topic = "Shield" -> FormatV2ShieldEvent(log)
      [] log.topic = "Transact" -> FormatV2TransactEvent(log)
      [] log.topic = "Unshield" -> FormatV2UnshieldEvent(log)
      [] log.topic = "Nullified" -> FormatV2NullifiedEvents(log)

AccumulateV2Logs(from, to) ==
    Together({ParseV2Log(log) : log \in UNION {V2Logs(u) : u \in Mined(from, to)}})

-----------------------------------------------------------------------------
(* The log of a V3 accumulator. *)

Tokens(u) == {u.transacts[i].unshield.token : i \in HasUnshield(u)} \cup {u.shields[i].token : i \in DOMAIN u.shields}

\* The fee that is due of the items of a token.
FeesDue(items, token) ==
    SumOf([i \in DOMAIN items |-> IF items[i].token = token THEN FeeOf(items[i].value) ELSE 0])

FeeTaken(u, token) == FeesDue(Unshields(u), token) + FeesDue(u.shields, token)

V3Log(u) ==
    [txid |-> u.txid, block |-> u.block, tree |-> u.transact \div TreeSize, start |-> u.transact % TreeSize,
     transacts |-> u.transacts, shields |-> u.shields, fees |-> [token \in Tokens(u) |-> FeeTaken(u, token)]]

\* One log that cannot be read fails the whole range.
AccumulateV3Logs(from, to) ==
    IF \A u \in Mined(from, to) : Processed(V3Log(u))
    THEN {Together({ProcessV3AccumulatorStateUpdate(V3Log(u)) : u \in Mined(from, to)})}
    ELSE {}

-----------------------------------------------------------------------------
(* The indexer. Its identifiers are strings: within a block they are in no *)
(* order of the tree; here they are in the opposite one.                   *)

Fields == <<"nullifiers", "unshields", "commitments">>

GraphItems(field, u) ==
    CASE field = "nullifiers" ->
           {[id |-> n, block |-> u.block, txid |-> u.txid, nullifier |-> n]
               : n \in UNION {u.transacts[i].nullifiers : i \in DOMAIN u.transacts}}
      [] field = "unshields" ->
           {[id |-> u.transacts[i].id, block |-> u.block, txid |-> u.txid, logIndex |-> u.transacts[i].id,
             token |-> u.transacts[i].unshield.token, fee |-> FeeOf(u.transacts[i].unshield.value),
             amount |-> u.transacts[i].unshield.value - FeeOf(u.transacts[i].unshield.value)]
               : i \in HasUnshield(u)}
      [] field = "commitments" ->
           {[id |-> (LastTree + 1) * TreeSize - leaf[2], block |-> u.block, txid |-> u.txid, note |-> leaf[1],
             tree |-> leaf[2] \div TreeSize, position |-> leaf[2] % TreeSize,
             batchStart |-> (IF leaf[1][2] = "shield" THEN u.shield ELSE u.transact) % TreeSize,
             fee |-> IF leaf[1][2] = "shield" THEN FeeOf(u.shields[leaf[1][3]].value) ELSE NoFee]
               : leaf \in Leaves(u)}

Items(field) == UNION {GraphItems(field, u) : u \in Mined(1, indexed)}

Precedes(x, y) ==
    \/ x.block < y.block
    \/ x.block = y.block /\ x.id < y.id

FirstItems(items, n) == {x \in items : Cardinality({y \in items : Precedes(y, x)}) < n}

\* Mutant of Rest: the commitments' query asks for the blocks behind the cursor.
RestByBlock(items, cursor) ==
    {x \in items : IF cursor.id >= 0 /\ "note" \in DOMAIN x THEN x.block > cursor.block ELSE Precedes(cursor, x)}

\* The items behind the cursor.
Rest(items, cursor) == {x \in items : Precedes(cursor, x)}

StartCursor(start) == [block |-> start, id |-> -1]

NoQuery == [field |-> 0, start |-> 0, cursor |-> StartCursor(0), items |-> {}, seen |-> 0, answers |-> <<>>]

\* The query starts with the first block that is not imported.
FetchV2Graph ==
    /\ version = "V2" /\ query.field = 0 /\ scanned < indexed
    /\ query' = [NoQuery EXCEPT !.field = 1, !.start = scanned + 1,
                                !.cursor = StartCursor(scanned + 1), !.seen = indexed]
    /\ UNCHANGED <<version, next, mined, indexed, scanned, imported, blocked>>

\* createGraphCommitmentBatches: the commitments of a batch in their order.
Batches(items) ==
    {[start |-> c.batchStart, commitments |-> {d \in items : d.tree = c.tree /\ d.batchStart = c.batchStart}] : c \in items}

Position(batch, c) == c.position

formatGraphCommitmentV2(batch, c) ==
    [tree |-> c.tree, index |-> Position(batch, c), note |-> c.note, fee |-> c.fee,
     batchIndex |-> NoIndex, txid |-> c.txid, block |-> c.block]

formatV2GraphEvents(answers) ==
    [NoEvents EXCEPT
        !.nullifiers = {[nullifier |-> x.nullifier, txid |-> x.txid, block |-> x.block] : x \in answers[1]},
        !.unshields = {[txid |-> x.txid, logIndex |-> <<x.logIndex>>, token |-> x.token, fee |-> x.fee,
                        amount |-> x.amount, railgunTxid |-> 0, block |-> x.block] : x \in answers[2]},
        !.commitments = UNION {{formatGraphCommitmentV2(batch, c) : c \in batch.commitments} : batch \in Batches(answers[3])}]

LastBlock(answers) == Max({x.block : x \in UNION {answers[i] : i \in DOMAIN answers}} \cup {0})

\* fetchGraphPage, and what fetchGraphPages does with the page: on to the next
\* page, or to the next query. The answer of a query is kept in query.answers.
fetchGraphPage ==
    LET page == FirstItems(Rest(Items(Fields[query.field]), query.cursor), GraphLimit)
        items == query.items \cup page
        last == CHOOSE x \in items : \A y \in items : ~Precedes(x, y)
        ends == Cardinality(items) >= MaxItems \/ Cardinality(page) < GraphLimit
    IN  /\ query.field \in DOMAIN Fields
        /\ query' = IF ~ends THEN [query EXCEPT !.items = items, !.cursor = [block |-> last.block, id |-> last.id]]
                    ELSE [query EXCEPT !.field = @ + 1, !.items = {}, !.cursor = StartCursor(query.start),
                                       !.answers = Append(@, FirstItems(items, MaxItems))]
        /\ UNCHANGED <<version, next, mined, indexed, scanned, imported, blocked>>

\* The three answers are there: their events are imported.
FetchReturns ==
    /\ query.field = Len(Fields) + 1
    /\ imported' = Together({imported, formatV2GraphEvents(query.answers)})
    /\ scanned' = Max({scanned, LastBlock(query.answers)})
    /\ query' = NoQuery
    /\ UNCHANGED <<version, next, mined, indexed, blocked>>

\* The wallet gives the query up and scans the logs.
QueryFails ==
    /\ query.field # 0
    /\ query' = NoQuery
    /\ UNCHANGED <<version, next, mined, indexed, scanned, imported, blocked>>

\* The indexer follows the chain by whole blocks.
Index ==
    /\ version = "V2" /\ indexed < HeadBlock
    /\ indexed' = indexed + 1
    /\ UNCHANGED <<version, next, mined, scanned, query, imported, blocked>>

\* A chunk of the scan of the logs, from any block: a rescan imports again.
ScanLogs(from, to) ==
    LET found == IF version = "V2" THEN {AccumulateV2Logs(from, to)} ELSE AccumulateV3Logs(from, to)
    IN  /\ query.field = 0
        /\ from <= scanned + 1 /\ from <= to /\ to <= HeadBlock
        /\ imported' = Together({imported} \cup found)
        /\ scanned' = IF found = {} THEN scanned ELSE Max({scanned, to})
        /\ blocked' = (blocked \/ found = {})
        /\ UNCHANGED <<version, next, mined, indexed, query>>

Init ==
    /\ version \in {"V2", "V3"}
    /\ next = 0
    /\ mined = <<>>
    /\ indexed = 0 /\ scanned = 0
    /\ query = NoQuery
    /\ imported = NoEvents
    /\ blocked = FALSE

Next ==
    \/ \E update \in Update, place \in {"transaction", "sameblock", "block"} : Mine(update, place)
    \/ Index
    \/ FetchV2Graph
    \/ fetchGraphPage
    \/ FetchReturns
    \/ QueryFails
    \/ \E from, to \in 1..MaxUpdates : ScanLogs(from, to)

Spec == Init /\ [][Next]_vars

-----------------------------------------------------------------------------
(* Properties. *)

\* The shape of the state: no commitment gets a place outside of a tree
\* (ProcessV3AccumulatorStateUpdate).
TypeOK ==
    /\ version \in {"V2", "V3"}
    /\ next \in 0..((LastTree + 1) * TreeSize)
    /\ {indexed, scanned} \subseteq 0..HeadBlock
    /\ query.field \in 0..(Len(Fields) + 1)
    /\ \A c \in imported.commitments : c.tree \in 0..LastTree /\ c.index \in 0..(TreeSize - 1)

\* Every commitment is imported with the place, the transaction and the block that
\* the contract gave it, and a V3 scan leaves none out. A V3 transaction points at
\* the first of its leaves. The two sources of V2 tell the same: imported again
\* from the other, an event changes nothing but the spelling of a fee of zero. The
\* annotation of a V3 commitment is found at its number among the commitments of
\* the log, unless a transaction before it has none or several.
\* (FormatV2TransactEvent, formatGraphCommitmentV2, ProcessV3AccumulatorStateUpdate)
RowsMatchContract ==
    /\ \A c \in imported.commitments : \E u \in Mined(1, HeadBlock) :
          c.txid = u.txid /\ c.block = u.block /\ <<c.note, c.tree * TreeSize + c.index>> \in Leaves(u)
    /\ version = "V3" =>
          \A u \in Mined(1, scanned) : \A leaf \in Leaves(u) : \E c \in imported.commitments : c.note = leaf[1]
    /\ \A t \in imported.transactions : \E u \in Mined(1, HeadBlock) : \E i \in DOMAIN u.transacts :
          /\ t.id = u.transacts[i].id
          /\ t.position # UnshieldOnly /\ u.transacts[i].notes # <<>> =>
                t.tree * TreeSize + t.position = PositionIn(u, u.transacts[i].notes[1])
    /\ version = "V2" =>
          /\ \A c, d \in imported.commitments : c.tree = d.tree /\ c.index = d.index =>
                {c.fee, d.fee} \subseteq {NoFee, 0} \/ c = d
          /\ \A c, d \in imported.unshields : c.txid = d.txid /\ c.logIndex = d.logIndex => c = d
    /\ version = "V3" => \A c \in imported.commitments : c.note[2] = "transact" =>
          LET u == mined[c.note[1]]
              i == CHOOSE i \in DOMAIN u.transacts : \E j \in DOMAIN u.transacts[i].notes : u.transacts[i].notes[j] = c.note
          IN  c.batchIndex = c.note[3] - 1 \/ \E h \in 1..(i - 1) : Len(u.transacts[h].notes) # 1

\* The pages of each of the three queries leave out nothing that was indexed when
\* the first began, up to the last item that was kept, or at all when fewer were
\* kept than may be. The third answer, the commitments, is there until the events
\* of all three are imported. (fetchGraphPages)
PagesComplete ==
    \A i \in DOMAIN query.answers :
        LET all == {x \in Items(Fields[i]) : x.block \in query.start..query.seen}
            kept == query.answers[i]
        IN  \A x \in all \ kept :
                /\ \A y \in kept : Precedes(y, x)
                /\ Cardinality(kept) = MaxItems

\* The fees of a token's unshields and shields in a log are never more than the
\* treasury took of it; when the log is about one token, they are that up to the
\* rounding, and exactly that when it has one unshield at most, and one shield.
\* They are worked out by values that may not go together, which stops the scan:
\* only on a V3 log with two unshields, two shields, or both of one token.
\* (v3TreasuryFeeMap, ProcessV3AccumulatorStateUpdate)
FeesAddUpOrBlock ==
    /\ version = "V3" => \A u \in Mined(1, scanned) : \A token \in Tokens(u) :
          LET log == V3Log(u)
              unshields == {i \in HasUnshield(u) : u.transacts[i].unshield.token = token}
              shields == {i \in DOMAIN u.shields : u.shields[i].token = token}
              fees == SumOf([i \in DOMAIN u.transacts |-> IF i \in unshields THEN UnshieldFee(log, i) ELSE 0])
                      + SumOf([i \in DOMAIN u.shields |-> IF i \in shields THEN ShieldFee(log, i) ELSE 0])
              items == Cardinality(unshields) + Cardinality(shields)
          IN  /\ fees <= FeeTaken(u, token)
              /\ Tokens(u) = {token} => fees > FeeTaken(u, token) - items
              /\ Tokens(u) = {token} /\ Cardinality(unshields) <= 1 /\ Cardinality(shields) <= 1 =>
                    fees = FeeTaken(u, token)
    /\ blocked => \E u \in Mined(1, HeadBlock) :
          /\ version = "V3"
          /\ \/ Cardinality(HasUnshield(u)) > 1
             \/ Len(u.shields) > 1
             \/ \E i \in HasUnshield(u), j \in DOMAIN u.shields :
                   u.transacts[i].unshield.token = u.shields[j].token

\* Two unshields are stored under one key only when one transaction has two V3
\* logs, whose transactions are numbered from zero each. (FormatV3UnshieldEvent)
UnshieldKeysDiffer ==
    \A x, y \in imported.unshields :
        x # y /\ x.txid = y.txid /\ x.logIndex = y.logIndex =>
            /\ version = "V3"
            /\ x.railgunTxid \div IdBase # y.railgunTxid \div IdBase

=============================================================================
