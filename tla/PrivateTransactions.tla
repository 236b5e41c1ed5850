-------------------------- MODULE PrivateTransactions --------------------------
(***************************************************************************)
(* UnshieldBaseTokenV2 and UnshieldERC20V2 (sdk/private_transactions.go,   *)
(* sdk/broadcaster.go): calls of one runtime select notes, read their      *)
(* Merkle proofs, prove, submit and wait, while the wallet imports what    *)
(* was mined. Nothing reserves a note, and the manifest of the proof       *)
(* artifacts is one file that every call overwrites. The contract and the  *)
(* broadcasters are external. One token; protocol fees are left out.       *)
(***************************************************************************)
EXTENDS NoteSelection, TransactionHistory, Sequences

CONSTANTS
    Caller,
    Request,    \* [base, relayed, rejects, configured : BOOLEAN, amount : Nat]
    Deposits,   \* key -> value: leaves there may be to begin with, 0 for another's
    LastTree,   \* bound: trees are 0..LastTree
    ShieldValue,\* values that are deposited for the wallet later
    Quote,      \* fees per unit of gas that broadcasters ask
    GasEstimate,
    FeeScale,   \* defaultBroadcasterFeeUnitScale
    CircuitMax, \* the built-in circuits have up to CircuitMax nullifiers (3)
    MaxShields, \* bound: later deposits
    MaxFaults   \* bound: failed downloads, refusals and lost answers

ASSUME PrivateAssumption ==
    /\ {LastTree, GasEstimate, MaxShields, MaxFaults} \subseteq Nat
    /\ {FeeScale, CircuitMax} \subseteq Nat \ {0}
    /\ TreeSize > 1 /\ LastTree < 2^16
    /\ Quote \subseteq Nat /\ ShieldValue \subseteq Nat \ {0}
    /\ Request \subseteq [base : BOOLEAN, relayed : BOOLEAN, rejects : BOOLEAN,
                          configured : BOOLEAN, amount : Nat]

VARIABLES
    leaf,      \* key -> what the note at it is worth to the wallet
    size,      \* tree -> leaves on chain
    revealed,  \* keys of the wallet's notes whose nullifier is on chain
    log,       \* mined transactions: [tree, leaves, notes, spends, unshield]
    imported,  \* how many of them the wallet has imported
    root,      \* tree -> leaves in the wallet's tree
    known,     \* notes in the wallet state
    marked,    \* notes it holds as spent
    valid,     \* notes whose proof of innocence is valid
    call,      \* caller -> its call
    pool,      \* calls whose transaction may still be mined
    outcome,   \* caller -> what became of its transaction
    manifest,  \* railgun-artifacts.json
    files,     \* circuits -> its verification key on disk
    shields, faults

chain == <<leaf, size, revealed, log, pool, outcome>>
wallet == <<imported, root, known, marked, valid>>
artifacts == <<manifest, files>>
bounds == <<shields, faults>>
vars == <<chain, wallet, call, artifacts, bounds>>

Trees == 0..LastTree
Keys == 0..((LastTree + 1) * TreeSize - 1)

\* The contract fills its trees from the left.
ASSUME DepositsAssumption ==
    \A deposit \in Deposits : \A k \in DOMAIN deposit :
        /\ k \in Keys /\ deposit[k] \in Nat
        /\ \A j \in Keys : TreeOf(j) = TreeOf(k) /\ j < k => j \in DOMAIN deposit

NoRequest == [base |-> FALSE, relayed |-> FALSE, rejects |-> FALSE, configured |-> FALSE, amount |-> 0]

PC == {"start", "quote", "select", "proofs", "artifacts", "truncate", "write", "prove",
       "submit", "wait", "done", "failed"}

NoCall == [pc |-> "start", reason |-> "none", request |-> NoRequest, fee |-> 0, amount |-> 0,
           offered |-> {}, inputs |-> {}, todo |-> {}, roots |-> {}, seen |-> 0]

At(c, pc) == call[c].pc = pc
Goto(c, pc) == call' = [call EXCEPT ![c].pc = pc]
Fail(c, reason) == call' = [call EXCEPT ![c].pc = "failed", ![c].reason = reason]
Fault == faults < MaxFaults /\ faults' = faults + 1

-----------------------------------------------------------------------------
(* What a call builds. *)

\* calculateBroadcasterFeeAmount; 0 is an error.
FeeAmount(quote) == (quote * GasEstimate) \div FeeScale

TotalIn(r) == CalculateTotalSpend(r.inputs, leaf)

\* dummyGroupChangeValue: the inputs less every output.
Change(r) == TotalIn(r) - r.amount - r.fee

Note(value, from, to, type) == [value |-> value, from |-> from, to |-> to, type |-> type]

\* The new notes: the broadcaster's fee, the change.
Outputs(r) ==
    (IF r.request.relayed THEN <<Note(r.fee, "wallet", "other", "fee")>> ELSE <<>>)
    \o (IF Change(r) > 0 THEN <<Note(Change(r), "wallet", "wallet", "change")>> ELSE <<>>)

\* The relay adapt contract goes on after a failed call when a broadcaster sends.
RequireSuccess(r) == ~r.request.relayed

\* The nullifiers and the calls that the proof's bound parameters hold the hash
\* of, and those that the contract hashes: the ones that are sent.
AdaptParams(r) == <<r.inputs, RequireSuccess(r)>>
SentParams(r) == <<r.inputs, ~r.request.relayed>>

\* The one group of the batch: the notes of a tree, what they become, and the change
\* after it.
requestInputsForDummyGroup(r) ==
    [tree |-> TreeOf(Min(r.inputs)), roots |-> r.roots, utxos |-> r.inputs,
     outputs |-> Outputs(r), adaptParams |-> AdaptParams(r)]

\* The unshield is a commitment too, the last one. The number of the tree is a
\* uint16.
GenerateTransactionRequestV2(inputs) ==
    [tree |-> inputs.tree % 2^16, roots |-> inputs.roots,
     nullifiers |-> {PositionOf(k) : k \in inputs.utxos},
     commitments |-> Len(inputs.outputs) + 1, adaptParams |-> inputs.adaptParams]

\* GenerateUnprovedTransactionsV2, of the one group; signed by the wallet.
UnprovedTransaction(r) == GenerateTransactionRequestV2(requestInputsForDummyGroup(r))

\* RailgunArtifactKey
CircuitOf(r) ==
    LET tx == UnprovedTransaction(r) IN <<Cardinality(tx.nullifiers), tx.commitments>>

\* The constraints of the circuit: each input is below the one root, and as much
\* goes in as comes out.
Satisfied(r) ==
    LET tx == UnprovedTransaction(r)
    IN  /\ Cardinality(tx.roots) = 1
        /\ \A n \in tx.nullifiers : \A leaves \in tx.roots : n < leaves
        /\ TotalIn(r) = r.amount + MapThenSumSet(LAMBDA i : Outputs(r)[i].value, DOMAIN Outputs(r))

\* The notes that the contract takes a transaction's nullifiers for.
SpentBy(tx) == {Key(tx.tree, n) : n \in tx.nullifiers}

\* Would the contract execute the transaction now? A call that fails reverts when
\* success is required.
Executes(r) ==
    LET tx == UnprovedTransaction(r)
    IN  /\ SpentBy(tx) \cap revealed = {}
        /\ r.request.base => tx.adaptParams = SentParams(r)
        /\ ~(r.request.base /\ r.request.rejects /\ RequireSuccess(r))

-----------------------------------------------------------------------------
(* The chain. *)

\* The tree that new leaves go to: a batch that does not fit starts the next one.
CurrentTree == Max({t \in Trees : size[t] > 0} \cup {0})
TargetTree(n) == IF size[CurrentTree] + n > TreeSize THEN CurrentTree + 1 ELSE CurrentTree

\* A transaction adds leaves, reveals spends and pays the rest out.
Emit(notes, spends, unshield) ==
    LET t == TargetTree(Len(notes))
        first == Key(t, size[t])
        leaves == first..(first + Len(notes) - 1)
        Worth(note) == IF note.to = "wallet" THEN note.value ELSE 0
    IN  /\ t \in Trees
        /\ leaf' = [k \in Keys |-> IF k \in leaves THEN Worth(notes[k - first + 1]) ELSE leaf[k]]
        /\ size' = [size EXCEPT ![t] = @ + Len(notes)]
        /\ revealed' = revealed \cup spends
        /\ log' = Append(log, [tree |-> t, leaves |-> leaves, notes |-> [k \in leaves |-> notes[k - first + 1]],
                               spends |-> spends, unshield |-> unshield])

\* ShieldBaseToken, and a shield of anyone for the wallet.
Shield(value) ==
    /\ shields < MaxShields
    /\ shields' = shields + 1
    /\ Emit(<<Note(value, "shield", "wallet", NoType)>>, {}, 0)
    /\ UNCHANGED <<wallet, call, artifacts, faults, pool, outcome>>

\* A base token that the recipient refuses stays with the relay adapt contract.
Mine(c) ==
    LET r == call[c]
    IN  /\ c \in pool
        /\ pool' = pool \ {c}
        /\ IF Executes(r)
           THEN /\ Emit(Outputs(r), SpentBy(UnprovedTransaction(r)), r.amount)
                /\ outcome' = [outcome EXCEPT ![c] = IF r.request.base /\ r.request.rejects
                                                     THEN "stuck" ELSE "paid"]
           ELSE /\ outcome' = [outcome EXCEPT ![c] = "reverted"]
                /\ UNCHANGED <<leaf, size, revealed, log>>
        /\ UNCHANGED <<wallet, call, artifacts, bounds>>

-----------------------------------------------------------------------------
(* The wallet's sync, and its proofs of innocence. *)

\* markNullifiersSpent: a note is found by the nullifier of its global position,
\* the chain reveals that of its position in the tree.
NullifierKeys(spends) == {PositionOf(k) : k \in spends}

\* What the import makes of the notes of a transaction, by store.
NotesOf(n, isSent) ==
    UNION {txoFromV2CommitmentWithDirection(log[n].notes[k], k, n)
              : k \in {k \in log[n].leaves : IsSent(log[n].notes[k]) = isSent}}

\* The notes of a mined transaction enter the state, then its nullifiers mark.
Sync ==
    /\ imported < Len(log)
    /\ imported' = imported + 1
    /\ LET entry == log[imported + 1]
       IN  /\ known' = known \cup {txo.id : txo \in NotesOf(imported + 1, FALSE)}
           /\ marked' = marked \cup (NullifierKeys(entry.spends) \cap known')
           /\ root' = [root EXCEPT ![entry.tree] = @ + Cardinality(entry.leaves)]
    /\ UNCHANGED <<chain, valid, call, artifacts, bounds>>

\* The POI refresh brings the notes to the spendable bucket.
RefreshPOIs ==
    /\ valid # known
    /\ valid' = known
    /\ UNCHANGED <<chain, imported, root, known, marked, call, artifacts, bounds>>

-----------------------------------------------------------------------------
(* A call, up to its transaction. *)

Begin(c, request) ==
    /\ At(c, "start")
    /\ call' = [call EXCEPT ![c].pc = IF request.relayed THEN "quote" ELSE "select",
                            ![c].request = request]
    /\ UNCHANGED <<chain, wallet, artifacts, bounds>>

\* selectRandomBroadcaster gives up after SelectTimeout.
SelectBroadcaster(c) ==
    /\ At(c, "quote")
    /\ \/ \E quote \in Quote :
            IF FeeAmount(quote) = 0 THEN Fail(c, "fee")
            ELSE call' = [call EXCEPT ![c].pc = "select", ![c].fee = FeeAmount(quote)]
       \/ Fail(c, "broadcaster")
    /\ UNCHANGED <<chain, wallet, artifacts, bounds>>

\* Mutant of Spendable: a note is spendable as soon as it is valid.
SpendableOrSpent == valid

\* spendableTokenTreeBalances.
Spendable == valid \ marked

\* Mutant of Asked: the fee is taken out of what was asked.
AskedLessFee(r, balance) == (IF r.request.amount = 0 THEN balance ELSE r.request.amount) - r.fee

\* A nil amount asks for all there is, less the fee.
Asked(r, balance) == IF r.request.amount = 0 THEN balance - r.fee ELSE r.request.amount

SelectUTXOs(c) ==
    LET r == call[c]
        amount == Asked(r, CalculateTotalSpend(Spendable, leaf))
        solutions == CreateSimpleSatisfyingUTXOGroup(Spendable, leaf, amount + r.fee)
    IN  /\ At(c, "select")
        /\ IF amount <= 0 THEN Fail(c, "balance")
           ELSE IF solutions \subseteq {{}}
           THEN call' = [call EXCEPT ![c].pc = "failed", ![c].reason = "utxos",
                                     ![c].amount = amount, ![c].offered = Spendable]
           ELSE \E inputs \in solutions :
                  call' = [call EXCEPT ![c].pc = "proofs", ![c].amount = amount,
                                       ![c].offered = Spendable, ![c].seen = imported,
                                       ![c].inputs = inputs, ![c].todo = inputs]
        /\ UNCHANGED <<chain, wallet, artifacts, bounds>>

\* proofConfigForUnshield: a configured manifest is used as it is.
NeedsManifest(r) == ~r.request.configured

\* buildUnshieldTokenBatchInputs refuses proofs below different roots.
OneRoot(roots) == Cardinality(roots) = 1

\* The proofs are read one at a time, the tree may grow in between. The
\* transaction is built and signed once they are all there.
UTXOMerkleProofForTXO(c) ==
    LET r == call[c]
        k == CHOOSE k \in r.todo : \A j \in r.todo \ {k} : Before(k, j, leaf)
        roots == r.roots \cup {root[TreeOf(k)]}
        next == IF r.todo # {k} THEN "proofs"
                ELSE IF NeedsManifest(r) THEN "artifacts" ELSE "prove"
    IN  /\ At(c, "proofs")
        /\ IF OneRoot(roots)
           THEN call' = [call EXCEPT ![c].pc = next, ![c].todo = @ \ {k}, ![c].roots = roots]
           ELSE Fail(c, "roots")
        /\ UNCHANGED <<chain, wallet, artifacts, bounds>>

-----------------------------------------------------------------------------
(* ensureDefaultRailgunArtifactManifest, and the proof. *)

BuiltIn == (1..CircuitMax) \X (1..3)

\* LocalArtifactGetter.GetArtifacts: the manifest, as it is when it is loaded.
HasArtifacts(r) == NeedsManifest(r) => CircuitOf(r) \in manifest.circuits

\* VerifyRailgun: a proof is verified with the key on disk.
Verified(r) == NeedsManifest(r) => files[CircuitOf(r)] = "good"

\* The verification key has no hash: whatever a download brings is kept.
EnsureArtifacts(c) ==
    LET circuit == CircuitOf(call[c])
    IN  /\ At(c, "artifacts")
        /\ \/ /\ circuit \notin BuiltIn
              /\ Fail(c, "circuit")
              /\ UNCHANGED <<files, faults>>
           \/ /\ circuit \in BuiltIn
              /\ files' = [files EXCEPT ![circuit] = IF @ = "absent" THEN "good" ELSE @]
              /\ Goto(c, "truncate")
              /\ UNCHANGED faults
           \/ /\ circuit \in BuiltIn /\ files[circuit] = "absent"
              /\ Fault
              /\ \/ Fail(c, "download") /\ UNCHANGED files
                 \/ Goto(c, "truncate") /\ files' = [files EXCEPT ![circuit] = "bad"]
        /\ UNCHANGED <<chain, wallet, manifest, shields>>

\* os.WriteFile empties the manifest, then writes it, with this circuit alone.
TruncateManifest(c) ==
    /\ At(c, "truncate")
    /\ manifest' = [by |-> c, circuits |-> {}]
    /\ Goto(c, "write")
    /\ UNCHANGED <<chain, wallet, files, bounds>>

WriteManifest(c) ==
    /\ At(c, "write")
    /\ manifest' = [by |-> c, circuits |-> {CircuitOf(call[c])}]
    /\ Goto(c, "prove")
    /\ UNCHANGED <<chain, wallet, files, bounds>>

\* The prover loads the manifest, finds the circuit, proves and verifies.
ProveRailgun(c) ==
    LET r == call[c]
    IN  /\ At(c, "prove")
        /\ IF ~HasArtifacts(r) THEN Fail(c, "manifest")
           ELSE IF ~Satisfied(r) THEN Fail(c, "witness")
           ELSE IF ~Verified(r) THEN Fail(c, "verify")
           ELSE Goto(c, "submit")
        /\ UNCHANGED <<chain, wallet, artifacts, bounds>>

-----------------------------------------------------------------------------
(* Submission. *)

\* sendRelayAdaptRequest: the gas estimate fails when the transaction would.
SelfBroadcast(c) ==
    /\ At(c, "submit") /\ ~call[c].request.relayed
    /\ IF Executes(call[c])
       THEN Goto(c, "wait") /\ pool' = pool \cup {c}
       ELSE Fail(c, "estimate") /\ UNCHANGED pool
    /\ UNCHANGED <<leaf, size, revealed, log, outcome, wallet, artifacts, bounds>>

\* submitViaBroadcaster: the broadcaster refuses what would revert, and may
\* refuse anything; the answer to a transaction it sent may be lost.
Relay(c) ==
    /\ At(c, "submit") /\ call[c].request.relayed
    /\ \/ /\ ~Executes(call[c])
          /\ Fail(c, "estimate")
          /\ UNCHANGED <<pool, faults>>
       \/ /\ Executes(call[c])
          /\ Goto(c, "wait") /\ pool' = pool \cup {c}
          /\ UNCHANGED faults
       \/ /\ Executes(call[c]) /\ Fault
          /\ \/ Fail(c, "answer") /\ pool' = pool \cup {c}
             \/ Fail(c, "refused") /\ UNCHANGED pool
    /\ UNCHANGED <<leaf, size, revealed, log, outcome, wallet, artifacts, shields>>

\* Mutant of Receipt: the receipt is not asked for its status.
ReceiptOfAny(c) ==
    /\ At(c, "wait") /\ outcome[c] # "none"
    /\ Goto(c, "done")
    /\ UNCHANGED <<chain, wallet, artifacts, bounds>>

Receipt(c) ==
    /\ At(c, "wait") /\ outcome[c] # "none"
    /\ IF outcome[c] = "reverted" THEN Fail(c, "reverted") ELSE Goto(c, "done")
    /\ UNCHANGED <<chain, wallet, artifacts, bounds>>

\* The wait fails: an error when self-broadcast, ignored when relayed.
WaitFails(c) ==
    /\ At(c, "wait")
    /\ Fault
    /\ call' = [call EXCEPT ![c].pc = IF call[c].request.relayed THEN "done" ELSE "failed",
                            ![c].reason = "receipt"]
    /\ UNCHANGED <<chain, wallet, artifacts, shields>>

-----------------------------------------------------------------------------
Init ==
    /\ \E deposit \in Deposits :
        /\ leaf = [k \in Keys |-> IF k \in DOMAIN deposit THEN deposit[k] ELSE 0]
        /\ size = [t \in Trees |-> Cardinality(InTree(DOMAIN deposit, t))]
    /\ revealed = {} /\ log = <<>> /\ pool = {}
    /\ outcome = [c \in Caller |-> "none"]
    /\ imported = 0
    /\ root = size
    /\ known = {k \in Keys : leaf[k] > 0}
    /\ marked = {}
    /\ valid = known
    /\ call = [c \in Caller |-> NoCall]
    /\ manifest = [by |-> "none", circuits |-> {}]
    /\ files = [circuit \in BuiltIn |-> "absent"]
    /\ shields = 0 /\ faults = 0

Next ==
    \/ \E value \in ShieldValue : Shield(value)
    \/ Sync
    \/ RefreshPOIs
    \/ \E c \in Caller :
        \/ \E request \in Request : Begin(c, request)
        \/ SelectBroadcaster(c)
        \/ SelectUTXOs(c)
        \/ UTXOMerkleProofForTXO(c)
        \/ EnsureArtifacts(c)
        \/ TruncateManifest(c)
        \/ WriteManifest(c)
        \/ ProveRailgun(c)
        \/ SelfBroadcast(c)
        \/ Relay(c)
        \/ Mine(c)
        \/ Receipt(c)
        \/ WaitFails(c)

Spec == Init /\ [][Next]_vars

-----------------------------------------------------------------------------
(* Properties. *)

\* The shape of the state; what is marked is known, and the manifest names
\* built-in circuits only (ensureDefaultRailgunArtifactManifest).
TypeOK ==
    /\ leaf \in [Keys -> Nat]
    /\ size \in [Trees -> 0..TreeSize] /\ root \in [Trees -> 0..TreeSize]
    /\ revealed \subseteq Keys
    /\ marked \subseteq known /\ valid \subseteq known /\ known \subseteq Keys
    /\ imported \in 0..Len(log)
    /\ pool \subseteq Caller
    /\ outcome \in [Caller -> {"none", "paid", "stuck", "reverted"}]
    /\ \A c \in Caller : call[c].pc \in PC /\ call[c].amount \in Int
    /\ manifest.circuits \subseteq BuiltIn
    /\ files \in [BuiltIn -> {"absent", "good", "bad"}]

\* The notes that are selected are of one tree, cover what is asked and the fee,
\* are as few as a circuit takes, and would not cover it without the largest of
\* them. A call is told that there are none only when no tree covers it
\* with the notes of a circuit, when a later tree, up to the last one with notes,
\* holds too little, none of them included, or when the smallest notes are too
\* many. (CreateSimpleSatisfyingUTXOGroup)
SelectedOrRefused ==
    \A c \in Caller :
        LET r == call[c]
            need == r.amount + r.fee
            largest == Max({leaf[k] : k \in r.inputs})
            Total(t) == CalculateTotalSpend(InTree(r.offered, t), leaf)
            Covers(t) == \E notes \in SUBSET InTree(r.offered, t) :
                            /\ Cardinality(notes) <= MaxInputs
                            /\ CalculateTotalSpend(notes, leaf) >= need
        IN  /\ r.inputs # {} =>
                /\ \E t \in Trees : r.inputs \subseteq InTree(r.offered, t)
                /\ Cardinality(r.inputs) <= MaxInputs
                /\ TotalIn(r) >= need /\ TotalIn(r) - largest < need
            /\ r.reason = "utxos" =>
                \A t \in Trees : Covers(t) =>
                    \/ \E k \in r.offered : \E u \in (t + 1)..TreeOf(k) : Total(u) < need
                    \/ Cardinality(Ascending(InTree(r.offered, t), leaf, need)) > MaxInputs

\* What is asked is what is paid, and nothing of the wallet's is lost: what its
\* unspent notes are worth on chain, and the amounts and fees of the calls that
\* were mined, add up to what was deposited. (dummyGroupChangeValue, applyBroadcasterFeeToInputs)
ValueKept ==
    LET mined == {c \in Caller : outcome[c] \in {"paid", "stuck"}}
        out == [c \in Caller |-> call[c].amount + call[c].fee]
        change == [c \in Caller |-> Change(call[c])]
        Deposited == CalculateTotalSpend({k \in Keys : leaf[k] > 0}, leaf) - CalculateTotalSpend(mined, change)
    IN  /\ CalculateTotalSpend(Keys \ revealed, leaf) + CalculateTotalSpend(mined, out) = Deposited
        /\ \A c \in mined :
              IF call[c].request.amount > 0 THEN call[c].amount = call[c].request.amount
              ELSE call[c].amount + call[c].fee = CalculateTotalSpend(call[c].offered, leaf)

\* A call whose result is a success has been paid for in full, unless it was a
\* broadcaster's transaction and the wait for it failed, or its recipient took
\* no base token. One that fails has spent nothing and will not, unless the
\* broadcaster's answer was lost or the wait failed. (submitViaBroadcaster, sendRelayAdaptRequest)
ResultTold ==
    \A c \in Caller :
        LET r == call[c]
        IN  /\ At(c, "done") =>
                  \/ outcome[c] = "paid"
                  \/ outcome[c] = "stuck" /\ r.request.relayed /\ r.request.rejects
                  \/ r.request.relayed /\ r.reason = "receipt"
            /\ At(c, "failed") =>
                  \/ c \notin pool /\ outcome[c] \in {"none", "reverted"}
                  \/ r.reason \in {"answer", "receipt"}

\* What the history shows as received, less the fees it shows as paid, is what the
\* wallet owns, what it has unshielded, which the history of V2 does not show, and
\* its own change, which it shows as received. (TransactionHistory, txoFromV2CommitmentWithDirection)
HistoryAddsUp ==
    LET entries == 1..imported
        txos == UNION {NotesOf(n, FALSE) : n \in entries}
        history == TransactionHistory(txos, UNION {NotesOf(n, TRUE) : n \in entries})
        first == {k \in Keys : leaf[k] > 0} \ UNION {log[n].leaves : n \in DOMAIN log}
        spent == UNION {log[n].spends : n \in entries}
        change == {k \in UNION {log[n].leaves : n \in entries} :
                      \E n \in entries : k \in log[n].leaves /\ log[n].notes[k].type = "change"}
        owned == (first \cup UNION {log[n].leaves : n \in entries}) \ spent
    IN  CalculateTotalSpend(first, leaf) + TotalValue(UNION {entry.receive : entry \in history})
            - TotalValue(UNION {entry.fee : entry \in history})
        = CalculateTotalSpend(owned, leaf) + MapThenSumSet(LAMBDA n : log[n].unshield, entries)
          + CalculateTotalSpend(change, leaf)

\* What the import is for, whatever the tree: the wallet has marked every note
\* whose nullifier it has imported. (markNullifiersSpent)
SpentIsMarked == imported = Len(log) => revealed \cap known \subseteq marked

\* A proof fails only when another call has put its own circuit in the manifest,
\* when a download brought a wrong key, or when the tree grew between two
\* Merkle proofs: never on what the call itself has built. A transaction that
\* the contract would not execute, or did not, spends a note that another call
\* spent after this one had looked, or a note of a later tree; or its recipient
\* takes no base token. (ensureDefaultRailgunArtifactManifest,
\* buildUnshieldTokenBatchInputs, selectSpendableUTXOs, RelayAdaptParamsUnshieldBaseTokenV2)
FailsOnlyIfRaced ==
    [][\A c \in Caller :
        LET r == call'[c]
        IN  r.reason # call[c].reason =>
                /\ r.reason # "witness"
                /\ r.reason = "manifest" => manifest.by # c
                /\ r.reason = "verify" => files[CircuitOf(r)] = "bad"
                /\ r.reason = "roots" => imported > r.seen
                /\ r.reason \in {"estimate", "reverted"} =>
                      \/ \E k \in r.inputs : TreeOf(k) > 0 /\ k \in revealed
                      \/ \E n \in (r.seen + 1)..Len(log) : r.inputs \cap log[n].spends # {}
                      \/ r.request.base /\ r.request.rejects /\ ~r.request.relayed]_vars

=============================================================================
