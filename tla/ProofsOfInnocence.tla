-------------------------- MODULE ProofsOfInnocence --------------------------
(***************************************************************************)
(* The statuses of proofs of innocence in a wallet: goroutines of the      *)
(* application refresh them from the POI node (wallet/poi_refresh.go),     *)
(* generate and submit the proofs of their transactions and mark them      *)
(* (poi/pre_transaction.go, wallet/poi_event_store.go), while a Sync       *)
(* imports transactions and rolls them back. The node is external.         *)
(***************************************************************************)
EXTENDS PoiManager, Sequences

CONSTANTS
    Txo,        \* TXOs the wallet has received
    Event,      \* sent commitments and unshields of its transactions
    Tx,         \* its transactions
    Unshield,   \* the events that are unshields
    In, Out,    \* transaction -> the TXOs it spends, the events it makes
    Shield,     \* TXOs from a shield; the others are transact, from before POIs
    Refresher,  \* goroutines that refresh
    MaxNode,    \* bound: what the node does by itself
    MaxReorg    \* bound: rollbacks

ASSUME PoiAssumption ==
    /\ Txo \cap Event = {} /\ Shield \subseteq Txo /\ Unshield \subseteq Event
    /\ In \in [Tx -> (SUBSET Txo) \ {{}}] /\ Out \in [Tx -> SUBSET Event]
    /\ \A e \in Event : \E t \in Tx : e \in Out[t]
    /\ \A t, u \in Tx : t # u => Out[t] \cap Out[u] = {}
    /\ MaxNode \in Nat /\ MaxReorg \in Nat

VARIABLES
    mined,     \* transactions on the chain
    stored,    \* TXO or event -> its statuses; an event only while it is there
    node,      \* TXO or event -> list -> what the node knows
    refresh,   \* refresher -> its call
    submit,    \* the application's call that generates and submits proofs
    wrong,     \* history: events that another transaction's submission marked
    raced,     \* history: events written back after a rollback deleted them
    refused,   \* history: transactions whose proof the node had no input for
    steps,     \* history: what the node did by itself
    reorgs     \* history: rollbacks

vars == <<mined, stored, node, refresh, submit, wrong, raced, refused, steps, reorgs>>

Item == Txo \cup Event
TxOf(e) == CHOOSE t \in Tx : e \in Out[t]
SpentBy(x) == {t \in Tx : x \in In[t]}

\* What the manager is given of a stored TXO.
txoOf(x) == [spent |-> SpentBy(x) \cap mined # {}, shield |-> x \in Shield,
             change |-> FALSE, legacy |-> TRUE, pois |-> stored[x]]

NoCall == [pc |-> "idle", todo |-> {}, answer |-> <<>>]
NoSubmission == [pc |-> "idle", tx |-> CHOOSE t \in Tx : TRUE, lists |-> {}, done |-> {},
                 blind |-> FALSE]

\* The shape of the state: a status stored is one of a list (StoredSpentPOIEvent).
TypeOK ==
    /\ mined \subseteq Tx
    /\ Txo \subseteq DOMAIN stored /\ DOMAIN stored \subseteq Item
    /\ \A i \in DOMAIN stored : stored[i] \in POIs
    /\ node \in [Item -> [List -> Status]]
    /\ \A r \in Refresher : /\ refresh[r].pc \in {"idle", "txos", "events", "write"}
                            /\ refresh[r].todo \subseteq Item
    /\ submit.pc \in {"idle", "submit", "mark"} /\ submit.lists \subseteq List
    /\ wrong \cup raced \subseteq Event /\ refused \subseteq Tx
    /\ steps \in 0 .. MaxNode /\ reorgs \in 0 .. MaxReorg

Init ==
    /\ mined = {}
    /\ stored = [x \in Txo |-> NilPOIs]
    /\ node = [i \in Item |-> [l \in List |-> "Missing"]]
    /\ refresh = [r \in Refresher |-> NoCall]
    /\ submit = NoSubmission
    /\ wrong = {} /\ raced = {} /\ refused = {}
    /\ steps = 0 /\ reorgs = 0

-----------------------------------------------------------------------------
(* The node and the Sync beside the calls.                                 *)

\* The lists take in a shield or block it, and verify a proof.
NodeAdvances(i, l, status) ==
    /\ steps < MaxNode
    /\ \/ i \in Shield /\ node[i][l] = "Missing" /\ status \in {"Valid", "ShieldBlocked"}
       \/ node[i][l] = "ProofSubmitted" /\ status = "Valid"
    /\ node' = [node EXCEPT ![i][l] = status]
    /\ steps' = steps + 1
    /\ UNCHANGED <<mined, stored, refresh, submit, wrong, raced, refused, reorgs>>

\* The store with records upserted, and what a rollback leaves of it.
With(f, set, pois) == [i \in DOMAIN f \cup set |-> IF i \in set THEN pois ELSE f[i]]

\* Mutant of Without: the second loop, over the unshields, is missing.
WithoutSent(f, set) == [i \in DOMAIN f \ (set \ Unshield) |-> f[i]]

Without(f, set) == [i \in DOMAIN f \ set |-> f[i]]

\* A Sync imports the transaction, for the first time or again: its events are
\* upserted without statuses.
Import(t) ==
    /\ \A u \in mined \ {t} : In[u] \cap In[t] = {}
    /\ mined' = mined \cup {t}
    /\ stored' = With(stored, Out[t], NilPOIs)
    /\ wrong' = wrong \ Out[t]
    /\ raced' = raced \ Out[t]
    /\ UNCHANGED <<node, refresh, submit, refused, steps, reorgs>>

\* A Sync's rollback deletes the events, whoever has listed them.
RollbackToBlock(t) ==
    /\ t \in mined /\ reorgs < MaxReorg
    /\ mined' = mined \ {t}
    /\ stored' = Without(stored, Out[t])
    /\ wrong' = wrong \ Out[t]
    /\ raced' = raced \ Out[t]
    /\ reorgs' = reorgs + 1
    /\ UNCHANGED <<node, refresh, submit, refused, steps>>

-----------------------------------------------------------------------------
(* RefreshPOIs and RefreshSpentPOIEvents: list, ask, write.                *)

\* The candidates among the TXOs, or among the events, of the store.
ListCandidates(r, kind) ==
    /\ refresh[r].pc = "idle"
    /\ LET candidates == {i \in DOMAIN stored : ShouldRetrieve(stored[i])} \cap
                         (IF kind = "txos" THEN Txo ELSE Event)
       IN  /\ candidates # {}
           /\ refresh' = [refresh EXCEPT ![r] =
                 [pc |-> kind, todo |-> candidates, answer |-> <<>>]]
    /\ UNCHANGED <<mined, stored, node, submit, wrong, raced, refused, steps, reorgs>>

\* One request for the batch; candidates the answer leaves out are skipped.
Ask(r) ==
    /\ refresh[r].pc \in {"txos", "events"}
    /\ \E known \in {refresh[r].todo} \cup {{i} : i \in refresh[r].todo} :
          refresh' = [refresh EXCEPT ![r] =
              [pc |-> "write", todo |-> known, answer |-> [i \in known |-> node[i]]]]
    /\ UNCHANGED <<mined, stored, node, submit, wrong, raced, refused, steps, reorgs>>

AskFails(r) ==
    /\ refresh[r].pc \in {"txos", "events"}
    /\ refresh' = [refresh EXCEPT ![r] = NoCall]
    /\ UNCHANGED <<mined, stored, node, submit, wrong, raced, refused, steps, reorgs>>

\* UpdateTXOPOIs on a TXO that is there; an event is upserted as it was listed,
\* whether it is still there or not.
WriteBack(r, i) ==
    LET call == refresh[r] IN
    /\ call.pc = "write"
    /\ i \in call.todo
    /\ stored' = With(stored, {i}, call.answer[i])
    /\ refresh' = [refresh EXCEPT ![r] =
          IF call.todo = {i} THEN NoCall
          ELSE [pc |-> "write", todo |-> call.todo \ {i}, answer |-> call.answer]]
    /\ wrong' = wrong \ {i}
    /\ raced' = IF i \in Event /\ TxOf(i) \notin mined THEN raced \cup {i} ELSE raced
    /\ UNCHANGED <<mined, node, submit, refused, steps, reorgs>>

-----------------------------------------------------------------------------
(* GenerateAndSubmitPreTransactionPOIs for the lists the status shows, then *)
(* MarkSpentPOIProofsSubmitted.                                            *)

outputsOf(t) == Out[t] \cap DOMAIN stored

\* formatSpentStatusGroup: the lists for a transaction that the store knows.
ListKeysCanGenerate(t) ==
    GetListKeysCanGenerateSpentPOIs({stored[x] : x \in In[t]},
                                    {stored[e] : e \in outputsOf(t)}, FALSE)

BeginSubmit(t) ==
    /\ submit.pc = "idle"
    /\ t \in mined /\ outputsOf(t) = Out[t]
    /\ ListKeysCanGenerate(t) # {}
    /\ submit' = [pc |-> "submit", tx |-> t, lists |-> ListKeysCanGenerate(t), done |-> {},
                  blind |-> \E x \in In[t] : stored[x] = NilPOIs]
    /\ UNCHANGED <<mined, stored, node, refresh, wrong, raced, refused, steps, reorgs>>

\* The inputs that the node has a merkle proof of on the list.
POIMerkleProofs(t, l) == {x \in In[t] : node[x][l] = "Valid"}

\* PreparePreTransactionPOIInputs: a proof for each of the inputs, of which there
\* is one at least. What is proved are the commitments but the last, when that is
\* the unshield, which the id of the transaction stands for.
PreparePreTransactionPOIInputs(t, proofs) ==
    {[blindedCommitmentsOut |-> Out[t] \ Unshield,
      railgunTxidIfHasUnshield |-> Out[t] \cap Unshield]
        : ins \in {In[t]} \cap ((SUBSET proofs) \ {{}})}

SubmitPOI(l) ==
    LET t == submit.tx IN
    /\ submit.pc = "submit"
    /\ l \in submit.lists \ submit.done
    /\ \E prepared \in PreparePreTransactionPOIInputs(t, POIMerkleProofs(t, l)) :
          node' = [i \in Item |->
              IF i \in prepared.blindedCommitmentsOut \cup prepared.railgunTxidIfHasUnshield
                   /\ node[i][l] = "Missing"
              THEN [node[i] EXCEPT ![l] = "ProofSubmitted"] ELSE node[i]]
    /\ submit' = [submit EXCEPT !.done = @ \cup {l},
                     !.pc = IF submit.lists = submit.done \cup {l} THEN "mark" ELSE @]
    /\ UNCHANGED <<mined, stored, refresh, wrong, raced, refused, steps, reorgs>>

\* The inputs cannot be prepared: the whole call fails, whatever it has submitted
\* by then. The history leaves out the calls that began with an input never
\* refreshed.
SubmitRefused(l) ==
    LET t == submit.tx IN
    /\ submit.pc = "submit"
    /\ l \in submit.lists \ submit.done
    /\ PreparePreTransactionPOIInputs(t, POIMerkleProofs(t, l)) = {}
    /\ submit' = NoSubmission
    /\ refused' = IF submit.blind THEN refused ELSE refused \cup {t}
    /\ UNCHANGED <<mined, stored, node, refresh, wrong, raced, steps, reorgs>>

\* Any other error of the proof or of the node.
SubmitFails ==
    /\ submit.pc = "submit"
    /\ submit' = NoSubmission
    /\ UNCHANGED <<mined, stored, node, refresh, wrong, raced, refused, steps, reorgs>>

\* MarkProofSubmitted: every event in the store, for the lists submitted.
MarkProofSubmitted ==
    LET marked == {e \in Event \cap DOMAIN stored : e \notin Out[submit.tx] /\
              \E l \in submit.done : l \in findListsForNewPOIs(stored[e])}
    IN  /\ submit.pc = "mark"
        /\ stored' = [i \in DOMAIN stored |-> IF i \in Txo THEN stored[i]
                          ELSE markPOIsProofSubmitted(stored[i], submit.done)]
        /\ wrong' = wrong \cup marked
        /\ submit' = NoSubmission
        /\ UNCHANGED <<mined, node, refresh, raced, refused, steps, reorgs>>

\* SubmitLegacyTransactPOIEvents: for the TXOs from before the launch, on all
\* lists that some TXO of the wallet is not valid on.
SubmitLegacy ==
    LET candidates == {x \in Txo : ShouldSubmitLegacyTransactEventsTXO(txoOf(x))}
        lists == GetListKeysCanSubmitLegacyTransactEvents({stored[x] : x \in Txo})
    IN  /\ candidates # {} /\ lists # {}
        /\ node' = [i \in Item |-> [l \in List |->
              IF i \in candidates /\ l \in lists /\ node[i][l] = "Missing"
              THEN "ProofSubmitted" ELSE node[i][l]]]
        /\ node' # node
        /\ UNCHANGED <<mined, stored, refresh, submit, wrong, raced, refused, steps, reorgs>>

Next ==
    \/ \E i \in Item, l \in List, s \in {"Valid", "ShieldBlocked"} : NodeAdvances(i, l, s)
    \/ \E t \in Tx : Import(t) \/ RollbackToBlock(t) \/ BeginSubmit(t)
    \/ \E r \in Refresher :
          \/ \E kind \in {"txos", "events"} : ListCandidates(r, kind)
          \/ Ask(r) \/ AskFails(r)
          \/ \E i \in refresh[r].todo : WriteBack(r, i)
    \/ \E l \in List : SubmitPOI(l) \/ SubmitRefused(l)
    \/ SubmitFails \/ MarkProofSubmitted \/ SubmitLegacy

Spec == Init /\ [][Next]_vars

-----------------------------------------------------------------------------

\* tokenBalancesFromTXOs: the TXOs that the balance of the buckets is made of; no
\* bucket stands for all of them.
TokenBalances(buckets) ==
    {x \in Txo : buckets # {} => GetBalanceBucket(txoOf(x)) \in buckets}

\* BalancesByBucket
BalancesByBucket == [bucket \in Bucket |-> TokenBalances({bucket})]

\* A TXO that counts as spendable is one that the node has called valid on every
\* active list and that no mined transaction spends; each TXO counts in one
\* bucket, and what a chain without proofs calls spendable are the unspent ones.
\* (GetBalanceBucket, tokenBalancesFromTXOs, GetSpendableBalanceBuckets)
SpendableIsValid ==
    /\ \A x \in TokenBalances(GetSpendableBalanceBuckets(TRUE)) :
          /\ SpentBy(x) \cap mined = {}
          /\ \A l \in Active : node[x][l] = "Valid"
    /\ \A x \in Txo : Cardinality({b \in Bucket : x \in BalancesByBucket[b]}) = 1
    /\ TokenBalances(GetSpendableBalanceBuckets(FALSE)) = {x \in Txo : SpentBy(x) \cap mined = {}}

\* An event of a transaction that is off the chain is in the store only if a
\* refresh that had listed it wrote it back after the rollback.
EventsMinedUnlessRaced ==
    \A e \in Event \cap DOMAIN stored : TxOf(e) \in mined \/ e \in raced

\* What the node has no proof of is still seen to need one, if the inputs are
\* valid in the store, unless the submission of another transaction's proof has
\* marked the event (MarkProofSubmitted marks them all). And a proof is only
\* generated for lists the inputs are valid on: the node refuses none.
\* (GetListKeysCanGenerateSpentPOIs)
ProofOwedUnlessMarked ==
    /\ \A t \in Tx, l \in List :
          /\ t \in mined
          /\ \A x \in In[t] : l \in DOMAIN stored[x] /\ stored[x][l] = "Valid"
          /\ \E e \in outputsOf(t) \ wrong : node[e][l] = "Missing"
          => l \in ListKeysCanGenerate(t)
    /\ refused = {}

=============================================================================
