----------------------------- MODULE AccumulatorV3 -----------------------------
(***************************************************************************)
(* ProcessV3AccumulatorStateUpdate (pkg/events/v3.go): the events that are *)
(* read out of one AccumulatorStateUpdate log. The log says where its      *)
(* first leaf is and what fee the treasury took of each token; the places  *)
(* of the other leaves and the fee of each unshield and shield are worked  *)
(* out here. Hashes and ciphertexts are notes; every token is an ERC-20.   *)
(*                                                                         *)
(* A log: [txid, block, tree, start, transacts, shields, fees], where a    *)
(* transact is [notes, nullifiers, unshield, id] and an unshield or shield *)
(* [token, value], its value 0 for none.                                   *)
(***************************************************************************)
EXTENDS Integers, Sequences, FiniteSets, FiniteSetsExt

CONSTANTS
    TreeSize,   \* txid.TreeMaxItems (65536)
    FeeUnit     \* the smallest value a fee is due of (400)

ASSUME AccumulatorAssumption == {TreeSize, FeeUnit} \subseteq Nat \ {0}

NoFee == -1         \* an empty fee string
NoIndex == -1       \* a nil batch index
UnshieldOnly == -1  \* GlobalUTXOTreeUnshieldEvent, GlobalUTXOPositionUnshieldEvent

\* The sums of the first items of a sequence of numbers, and of all.
Sums(x) ==
    LET sum[i \in 0..Len(x)] == IF i = 0 THEN 0 ELSE sum[i - 1] + x[i]
    IN  sum

SumOf(x) == Sums(x)[Len(x)]

-----------------------------------------------------------------------------
(* Where the leaves are. *)

Advance(place, n) ==
    IF place.index + n >= TreeSize THEN [tree |-> place.tree + 1, index |-> 0]
    ELSE [place EXCEPT !.index = @ + n]

\* Mutant of Sizes: an unshield is counted as a leaf.
SizesWithUnshield(log) ==
    [i \in DOMAIN log.transacts |->
        Len(log.transacts[i].notes) + (IF log.transacts[i].unshield.value > 0 THEN 1 ELSE 0)]
    \o [i \in DOMAIN log.shields |-> 1]

\* The leaves of each transaction, then one of each shield.
Sizes(log) ==
    [i \in DOMAIN log.transacts |-> Len(log.transacts[i].notes)] \o [i \in DOMAIN log.shields |-> 1]

\* utxoTree and utxoStartingIndex, as the loops go over the log.
Places(log) ==
    LET sizes == Sizes(log)
        place[i \in 0..Len(sizes)] ==
            IF i = 0 THEN [tree |-> log.tree, index |-> log.start] ELSE Advance(place[i - 1], sizes[i])
    IN  [i \in DOMAIN sizes |-> place[i - 1]]

-----------------------------------------------------------------------------
(* Fees. *)

Unshields(log) == [i \in DOMAIN log.transacts |-> log.transacts[i].unshield]

Total(items) == SumOf([i \in DOMAIN items |-> items[i].value])

\* The value of the first of the items that is of the token.
FirstValue(items, token) ==
    LET of == {i \in DOMAIN items : items[i].token = token}
    IN  IF of = {} THEN 0 ELSE items[Min(of)].value

\* Mutant of v3TreasuryFeeMap: both portions are rounded down.
v3TreasuryFeeMapRounded(log) ==
    [token \in DOMAIN log.fees |->
        LET unshield == FirstValue(Unshields(log), token)
            shield == FirstValue(log.shields, token)
            Part(value) == IF unshield + shield = 0 THEN 0 ELSE (value * log.fees[token]) \div (unshield + shield)
        IN  [shield |-> Part(shield), unshield |-> Part(unshield)]]

\* A token's fee, split between its first unshield and its first shield; the
\* smaller of the two is rounded down.
v3TreasuryFeeMap(log) ==
    [token \in DOMAIN log.fees |->
        LET unshield == FirstValue(Unshields(log), token)
            shield == FirstValue(log.shields, token)
            fee == log.fees[token]
            smaller == (Min({unshield, shield}) * fee) \div (unshield + shield)
        IN  IF unshield + shield = 0 THEN [shield |-> 0, unshield |-> 0]
            ELSE IF unshield < shield THEN [shield |-> fee - smaller, unshield |-> smaller]
            ELSE [shield |-> smaller, unshield |-> fee - smaller]]

\* An item's share of its token's portion: by its value among the items of every
\* token.
Share(portion, item, items) ==
    IF Total(items) = 0 THEN 0 ELSE (portion * item.value) \div Total(items)

UnshieldFee(log, i) ==
    LET item == Unshields(log)[i]
    IN  Share(v3TreasuryFeeMap(log)[item.token].unshield, item, Unshields(log))

ShieldFee(log, i) ==
    LET item == log.shields[i]
    IN  Share(v3TreasuryFeeMap(log)[item.token].shield, item, log.shields)

\* "expected an unshield fee in treasuryFeeMap"
FeeMissing(value, fee) == value >= FeeUnit /\ fee = 0

HasUnshield(log) == {i \in DOMAIN log.transacts : log.transacts[i].unshield.value > 0}

\* Is the log read without an error? "expected unshield token hash in
\* treasuryFeeMap", "expected an unshield fee in treasuryFeeMap", and the same of
\* the shields. The other errors of the function are about logs that an
\* accumulator does not write (counts that do not add up to the hashes or the
\* ciphertexts, a token type or a hash that cannot be converted) or about the bytes
\* of a ciphertext (fewer than 16), which a note here does not have.
Processed(log) ==
    /\ \A i \in HasUnshield(log) :
          /\ log.transacts[i].unshield.token \in DOMAIN log.fees
          /\ ~FeeMissing(log.transacts[i].unshield.value, UnshieldFee(log, i))
    /\ \A i \in DOMAIN log.shields :
          /\ log.shields[i].token \in DOMAIN log.fees
          /\ ~FeeMissing(log.shields[i].value, ShieldFee(log, i))

-----------------------------------------------------------------------------
(* The events. *)

BatchIndex(transactIndex, i) == transactIndex + i

\* formatV3TransactCommitments; i and j count from one.
TransactCommitments(log, i) ==
    LET place == Places(log)[i]
        notes == log.transacts[i].notes
    IN  {[tree |-> place.tree, index |-> place.index + j - 1, note |-> notes[j], fee |-> NoFee,
          batchIndex |-> BatchIndex(i - 1, j - 1), txid |-> log.txid, block |-> log.block] : j \in DOMAIN notes}

\* formatV3ShieldCommitment
ShieldCommitment(log, i) ==
    LET place == Places(log)[Len(log.transacts) + i]
    IN  [tree |-> place.tree, index |-> place.index, note |-> log.shields[i].note, fee |-> ShieldFee(log, i),
         batchIndex |-> NoIndex, txid |-> log.txid, block |-> log.block]

\* Mutant of FormatV3UnshieldEvent: the index of the log in its transaction.
FormatV3UnshieldEventFirst(log, i) ==
    LET item == log.transacts[i].unshield
    IN  [txid |-> log.txid, logIndex |-> <<0>>, token |-> item.token, fee |-> UnshieldFee(log, i),
         amount |-> item.value - UnshieldFee(log, i), railgunTxid |-> log.transacts[i].id, block |-> log.block]

\* The event is numbered by its transaction in the log.
FormatV3UnshieldEvent(log, i) ==
    LET item == log.transacts[i].unshield
    IN  [txid |-> log.txid, logIndex |-> <<i - 1>>, token |-> item.token, fee |-> UnshieldFee(log, i),
         amount |-> item.value - UnshieldFee(log, i), railgunTxid |-> log.transacts[i].id, block |-> log.block]

FormatV3NullifiedEvents(log, i) ==
    {[nullifier |-> n, txid |-> log.txid, block |-> log.block] : n \in log.transacts[i].nullifiers}

\* A transaction that only unshields has no place in the tree.
FormatV3RailgunTransactionEvent(log, i) ==
    LET transact == log.transacts[i]
        unshieldOnly == transact.notes = <<>> /\ transact.unshield.value > 0
        place == Places(log)[i]
    IN  [id |-> transact.id, block |-> log.block,
         tree |-> IF unshieldOnly THEN UnshieldOnly ELSE place.tree,
         position |-> IF unshieldOnly THEN UnshieldOnly ELSE place.index]

ProcessV3AccumulatorStateUpdate(log) ==
    [commitments |-> (UNION {TransactCommitments(log, i) : i \in DOMAIN log.transacts})
                     \cup {ShieldCommitment(log, i) : i \in DOMAIN log.shields},
     nullifiers |-> UNION {FormatV3NullifiedEvents(log, i) : i \in DOMAIN log.transacts},
     unshields |-> {FormatV3UnshieldEvent(log, i) : i \in HasUnshield(log)},
     transactions |-> {FormatV3RailgunTransactionEvent(log, i) : i \in DOMAIN log.transacts}]

=============================================================================
