------------------------ MODULE ProofsOfInnocence_proofs ------------------------
(***************************************************************************)
(* The safety properties of ProofsOfInnocence, for any number of TXOs,     *)
(* transactions, lists and refreshers, and whatever the node does.         *)
(***************************************************************************)
EXTENDS ProofsOfInnocence, FiniteSetTheorems, TLAPS

-----------------------------------------------------------------------------
(* The inductive invariant. *)

\* What the node is known to know of an item on a list: a status that was reported
\* says no more than the node knows, now and later.
Backed(pois, i) ==
    \A l \in DOMAIN pois :
        /\ pois[l] = "Valid" => node[i][l] = "Valid"
        /\ pois[l] # "Missing" => node[i][l] # "Missing"

\* As Backed, for the lists that a proof was submitted for.
Known(pois, i) ==
    \A l \in DOMAIN pois : pois[l] \in {"ProofSubmitted", "Valid"} => node[i][l] # "Missing"

NodeInv == node \in [Item -> [List -> Status]]

StoredInv ==
    /\ Txo \subseteq DOMAIN stored /\ DOMAIN stored \subseteq Item
    /\ \A i \in DOMAIN stored : DOMAIN stored[i] \subseteq List
    /\ \A x \in Txo : Backed(stored[x], x)
    /\ \A e \in (Event \cap DOMAIN stored) \ wrong : Known(stored[e], e)

\* The answers in the hands of the refreshers.
RefreshInv ==
    /\ refresh = [r \in Refresher |-> refresh[r]]
    /\ \A r \in Refresher : refresh[r].todo \subseteq Item
    /\ \A r \in Refresher : refresh[r].pc = "write" =>
          \A i \in refresh[r].todo :
              refresh[r].answer[i] \in [List -> Status] /\ Backed(refresh[r].answer[i], i)

\* What has been submitted, and what the node must have for what has not been.
SubmitInv ==
    submit.pc # "idle" =>
        /\ submit.tx \in Tx /\ submit.lists \subseteq List /\ submit.done \subseteq List
        /\ \A l \in submit.done, e \in Out[submit.tx] : node[e][l] # "Missing"
        /\ ~submit.blind => \A l \in submit.lists, x \in In[submit.tx] : node[x][l] = "Valid"

IInv ==
    /\ NodeInv
    /\ StoredInv
    /\ RefreshInv
    /\ SubmitInv
    /\ EventsMinedUnlessRaced
    /\ refused = {}

-----------------------------------------------------------------------------
(* The initial states, and the steps one by one. *)

LEMMA InitIInv == Init => IInv
<1>. SUFFICES ASSUME Init PROVE IInv
  OBVIOUS
<1>1. NodeInv
  BY DEF Init, NodeInv, Status
<1>2. StoredInv
  BY PoiAssumption DEF Init, StoredInv, Backed, NilPOIs, Item
<1>3. RefreshInv /\ SubmitInv
  BY DEF Init, RefreshInv, NoCall, SubmitInv, NoSubmission
<1>4. EventsMinedUnlessRaced
  BY PoiAssumption DEF Init, EventsMinedUnlessRaced
<1>. QED
  BY <1>1, <1>2, <1>3, <1>4 DEF Init, IInv

\* The node forgets nothing that it has said.
Grows ==
    /\ node' \in [Item -> [List -> Status]]
    /\ \A i \in Item, l \in List : /\ node[i][l] = "Valid" => node'[i][l] = "Valid"
                                   /\ node[i][l] # "Missing" => node'[i][l] # "Missing"

LEMMA GrowStep ==
    ASSUME IInv, Grows, UNCHANGED <<mined, stored, refresh, wrong, raced>>
    PROVE  NodeInv' /\ StoredInv' /\ RefreshInv' /\ EventsMinedUnlessRaced'
<1>1. NodeInv'
  BY DEF Grows, NodeInv
<1>2. StoredInv'
  BY PoiAssumption DEF IInv, Grows, StoredInv, Backed, Known, Item
<1>3. RefreshInv'
  BY DEF IInv, Grows, RefreshInv, Backed
<1>4. EventsMinedUnlessRaced'
  BY DEF IInv, EventsMinedUnlessRaced, TxOf
<1>. QED
  BY <1>1, <1>2, <1>3, <1>4

\* What a submission relies on stays as well.
LEMMA GrowSubmitStep ==
    ASSUME IInv, Grows, UNCHANGED submit
    PROVE  SubmitInv'
<1>1. \A t \in Tx : In[t] \subseteq Item /\ Out[t] \subseteq Item
  BY PoiAssumption DEF Item
<1>. QED
  BY <1>1 DEF IInv, Grows, SubmitInv

LEMMA NodeAdvancesStep ==
    ASSUME IInv, NEW i \in Item, NEW l \in List, NEW s \in {"Valid", "ShieldBlocked"},
           NodeAdvances(i, l, s)
    PROVE  IInv'
<1>1. /\ node' = [node EXCEPT ![i][l] = s]
      /\ \/ node[i][l] = "Missing"
         \/ node[i][l] = "ProofSubmitted"
      /\ UNCHANGED <<mined, stored, refresh, submit, wrong, raced, refused>>
  BY DEF NodeAdvances
<1>2. Grows
  BY <1>1 DEF IInv, NodeInv, Grows, Status
<1>. QED
  BY <1>1, <1>2, GrowStep, GrowSubmitStep DEF IInv

LEMMA SubmitLegacyStep == ASSUME IInv, SubmitLegacy PROVE IInv'
<1>1. PICK candidates, lists :
          node' = [i \in Item |-> [l \in List |->
              IF i \in candidates /\ l \in lists /\ node[i][l] = "Missing"
              THEN "ProofSubmitted" ELSE node[i][l]]]
  BY DEF SubmitLegacy
<1>2. UNCHANGED <<mined, stored, refresh, submit, wrong, raced, refused>>
  BY DEF SubmitLegacy
<1>3. Grows
  BY <1>1 DEF IInv, NodeInv, Grows, Status
<1>. QED
  BY <1>2, <1>3, GrowStep, GrowSubmitStep DEF IInv

LEMMA TxOfOut == \A t \in Tx : \A e \in Out[t] : TxOf(e) = t
BY PoiAssumption DEF TxOf

LEMMA OutOfTxOf == \A e \in Event : TxOf(e) \in Tx /\ e \in Out[TxOf(e)]
BY PoiAssumption DEF TxOf

LEMMA ImportStep ==
    ASSUME IInv, NEW t \in Tx, Import(t)
    PROVE  IInv'
<1>1. /\ mined' = mined \cup {t}
      /\ stored' = With(stored, Out[t], NilPOIs)
      /\ wrong' = wrong \ Out[t] /\ raced' = raced \ Out[t]
      /\ UNCHANGED <<node, refresh, submit, refused>>
  BY DEF Import
<1>2. Out[t] \subseteq Event /\ Out[t] \cap Txo = {}
  BY PoiAssumption
<1>3. /\ DOMAIN stored' = DOMAIN stored \cup Out[t]
      /\ \A i \in Out[t] : stored'[i] = NilPOIs
      /\ \A i \in DOMAIN stored \ Out[t] : stored'[i] = stored[i]
  BY <1>1 DEF With
<1>4. StoredInv'
  <2>1. Txo \subseteq DOMAIN stored' /\ DOMAIN stored' \subseteq Item
    BY <1>2, <1>3 DEF IInv, StoredInv, Item
  <2>2. DOMAIN NilPOIs = {}
    BY DEF NilPOIs
  <2>3. \A i \in DOMAIN stored' : DOMAIN stored'[i] \subseteq List
    BY <1>3, <2>2 DEF IInv, StoredInv
  <2>4. \A x \in Txo : Backed(stored[x], x)'
    BY <1>1, <1>2, <1>3 DEF IInv, StoredInv, Backed
  <2>5. \A e \in (Event \cap DOMAIN stored') \ wrong' : Known(stored[e], e)'
    BY <1>1, <1>3, <2>2 DEF IInv, StoredInv, Known
  <2>. QED
    BY <2>1, <2>3, <2>4, <2>5 DEF StoredInv
<1>5. NodeInv' /\ RefreshInv' /\ SubmitInv'
  BY <1>1 DEF IInv, NodeInv, RefreshInv, Backed, SubmitInv
<1>6. EventsMinedUnlessRaced'
  <2>. SUFFICES ASSUME NEW e \in Event, e \in DOMAIN stored'
                PROVE  TxOf(e) \in mined' \/ e \in raced'
    BY DEF EventsMinedUnlessRaced, TxOf
  <2>1. CASE e \in Out[t]
    BY <1>1, <2>1, TxOfOut
  <2>2. CASE e \notin Out[t]
    BY <1>1, <1>3, <2>2 DEF IInv, EventsMinedUnlessRaced
  <2>. QED
    BY <2>1, <2>2
<1>. QED
  BY <1>1, <1>4, <1>5, <1>6 DEF IInv

LEMMA RollbackToBlockStep ==
    ASSUME IInv, NEW t \in Tx, RollbackToBlock(t)
    PROVE  IInv'
<1>1. /\ mined' = mined \ {t}
      /\ stored' = Without(stored, Out[t])
      /\ wrong' = wrong \ Out[t] /\ raced' = raced \ Out[t]
      /\ UNCHANGED <<node, refresh, submit, refused>>
  BY DEF RollbackToBlock
<1>2. Out[t] \cap Txo = {}
  BY PoiAssumption
<1>3. /\ DOMAIN stored' = DOMAIN stored \ Out[t]
      /\ \A i \in DOMAIN stored \ Out[t] : stored'[i] = stored[i]
  BY <1>1 DEF Without
<1>4. StoredInv'
  <2>1. Txo \subseteq DOMAIN stored' /\ DOMAIN stored' \subseteq Item
    BY <1>2, <1>3 DEF IInv, StoredInv
  <2>2. \A i \in DOMAIN stored' : DOMAIN stored'[i] \subseteq List
    BY <1>3 DEF IInv, StoredInv
  <2>3. \A x \in Txo : Backed(stored[x], x)'
    BY <1>1, <1>2, <1>3 DEF IInv, StoredInv, Backed
  <2>4. \A e \in (Event \cap DOMAIN stored') \ wrong' : Known(stored[e], e)'
    BY <1>1, <1>3 DEF IInv, StoredInv, Known
  <2>. QED
    BY <2>1, <2>2, <2>3, <2>4 DEF StoredInv
<1>5. NodeInv' /\ RefreshInv' /\ SubmitInv'
  BY <1>1 DEF IInv, NodeInv, RefreshInv, Backed, SubmitInv
<1>6. EventsMinedUnlessRaced'
  <2>. SUFFICES ASSUME NEW e \in Event, e \in DOMAIN stored'
                PROVE  TxOf(e) \in mined' \/ e \in raced'
    BY DEF EventsMinedUnlessRaced, TxOf
  <2>1. e \notin Out[t] /\ TxOf(e) # t
    BY <1>3, OutOfTxOf
  <2>. QED
    BY <1>1, <1>3, <2>1 DEF IInv, EventsMinedUnlessRaced
<1>. QED
  BY <1>1, <1>4, <1>5, <1>6 DEF IInv

\* A refresher that lists, asks or gives up changes nothing but its call.
LEMMA RefreshStep ==
    ASSUME IInv, RefreshInv',
           UNCHANGED <<mined, stored, node, submit, wrong, raced, refused>>
    PROVE  IInv'
<1>1. NodeInv' /\ StoredInv'
  BY DEF IInv, NodeInv, StoredInv, Backed, Known
<1>2. SubmitInv' /\ EventsMinedUnlessRaced'
  BY DEF IInv, SubmitInv, EventsMinedUnlessRaced, TxOf
<1>. QED
  BY <1>1, <1>2 DEF IInv

LEMMA ListCandidatesStep ==
    ASSUME IInv, NEW r \in Refresher, NEW kind \in {"txos", "events"}, ListCandidates(r, kind)
    PROVE  IInv'
<1>1. PICK candidates \in SUBSET DOMAIN stored :
          refresh' = [refresh EXCEPT ![r] = [pc |-> kind, todo |-> candidates, answer |-> <<>>]]
  BY DEF ListCandidates
<1>2. UNCHANGED <<mined, stored, node, submit, wrong, raced, refused>>
  BY DEF ListCandidates
<1>3. RefreshInv'
  BY <1>1, <1>2 DEF IInv, RefreshInv, Backed, StoredInv
<1>. QED
  BY <1>2, <1>3, RefreshStep

LEMMA AskStep ==
    ASSUME IInv, NEW r \in Refresher, Ask(r)
    PROVE  IInv'
<1>1. PICK known \in SUBSET refresh[r].todo :
          refresh' = [refresh EXCEPT ![r] =
              [pc |-> "write", todo |-> known, answer |-> [i \in known |-> node[i]]]]
  BY DEF Ask
<1>2. UNCHANGED <<mined, stored, node, submit, wrong, raced, refused>>
  BY DEF Ask
<1>3. refresh[r].todo \subseteq Item
  BY DEF IInv, RefreshInv
<1>4. \A i \in known : node[i] \in [List -> Status]
  BY <1>3 DEF IInv, NodeInv
<1>5. RefreshInv'
  BY <1>1, <1>2, <1>3, <1>4 DEF IInv, RefreshInv, Backed
<1>. QED
  BY <1>2, <1>5, RefreshStep

LEMMA AskFailsStep ==
    ASSUME IInv, NEW r \in Refresher, AskFails(r)
    PROVE  IInv'
<1>1. RefreshInv'
  <2>1. refresh' = [refresh EXCEPT ![r] = NoCall] /\ UNCHANGED node
    BY DEF AskFails
  <2>2. NoCall.todo = {} /\ NoCall.pc = "idle"
    BY DEF NoCall
  <2>3. refresh' = [q \in Refresher |-> IF q = r THEN NoCall ELSE refresh[q]]
    BY <2>1 DEF IInv, RefreshInv
  <2>. QED
    BY <2>1, <2>2, <2>3 DEF IInv, RefreshInv, Backed
<1>. QED
  BY <1>1, RefreshStep DEF AskFails

LEMMA WriteBackStep ==
    ASSUME IInv, NEW r \in Refresher, NEW i \in refresh[r].todo, WriteBack(r, i)
    PROVE  IInv'
<1>. DEFINE pois == refresh[r].answer[i]
<1>1. /\ stored' = With(stored, {i}, pois)
      /\ refresh' = [refresh EXCEPT ![r] =
             IF refresh[r].todo = {i} THEN NoCall
             ELSE [pc |-> "write", todo |-> refresh[r].todo \ {i}, answer |-> refresh[r].answer]]
      /\ wrong' = wrong \ {i}
      /\ raced' = IF i \in Event /\ TxOf(i) \notin mined THEN raced \cup {i} ELSE raced
      /\ UNCHANGED <<mined, node, submit, refused>>
  BY DEF WriteBack
<1>2. /\ i \in Item /\ pois \in [List -> Status] /\ Backed(pois, i)
  BY DEF WriteBack, IInv, RefreshInv
<1>. HIDE DEF pois
<1>3. /\ DOMAIN stored' = DOMAIN stored \cup {i}
      /\ stored'[i] = pois
      /\ \A j \in DOMAIN stored \ {i} : stored'[j] = stored[j]
  BY <1>1 DEF With
<1>4. StoredInv'
  <2>1. Txo \subseteq DOMAIN stored' /\ DOMAIN stored' \subseteq Item
    BY <1>2, <1>3 DEF IInv, StoredInv
  <2>2. \A j \in DOMAIN stored' : DOMAIN stored'[j] \subseteq List
    BY <1>2, <1>3 DEF IInv, StoredInv
  <2>3. \A x \in Txo : Backed(stored[x], x)'
    <3>. TAKE x \in Txo
    <3>1. x \in DOMAIN stored /\ Backed(stored[x], x)
      BY DEF IInv, StoredInv
    <3>2. UNCHANGED node
      BY <1>1
    <3>3. CASE x = i
      BY ONLY <1>2, <1>3, <3>2, <3>3 DEF Backed
    <3>4. CASE x # i
      <4>1. stored'[x] = stored[x]
        BY <1>3, <3>1, <3>4
      <4>. QED
        BY ONLY <3>1, <3>2, <4>1 DEF Backed
    <3>. QED
      BY <3>3, <3>4
  <2>4. Known(pois, i)
    BY <1>2 DEF Backed, Known
  <2>5. \A e \in (Event \cap DOMAIN stored') \ wrong' : Known(stored[e], e)'
    <3>. TAKE e \in (Event \cap DOMAIN stored') \ wrong'
    <3>1. node' = node /\ wrong' = wrong \ {i}
      BY <1>1
    <3>2. CASE e = i
      BY ONLY <1>3, <2>4, <3>1, <3>2 DEF Known
    <3>3. CASE e # i
      <4>1. e \in (Event \cap DOMAIN stored) \ wrong /\ stored'[e] = stored[e]
        BY <1>3, <3>1, <3>3
      <4>2. Known(stored[e], e)
        BY <4>1 DEF IInv, StoredInv
      <4>. QED
        BY ONLY <3>1, <4>1, <4>2 DEF Known
    <3>. QED
      BY <3>2, <3>3
  <2>. QED
    BY <2>1, <2>2, <2>3, <2>5 DEF StoredInv
<1>5. RefreshInv'
  <2>1. \A q \in Refresher : /\ refresh'[q].todo \subseteq refresh[q].todo
                             /\ refresh'[q].pc = "write" =>
                                   refresh[q].pc = "write" /\ refresh'[q].answer = refresh[q].answer
    BY <1>1 DEF IInv, RefreshInv, NoCall, WriteBack
  <2>2. refresh' = [q \in Refresher |-> refresh'[q]]
    BY <1>1 DEF IInv, RefreshInv
  <2>3. UNCHANGED node
    BY <1>1
  <2>. QED
    BY <2>1, <2>2, <2>3 DEF IInv, RefreshInv, Backed
<1>6. NodeInv' /\ SubmitInv'
  BY <1>1 DEF IInv, NodeInv, SubmitInv
<1>7. EventsMinedUnlessRaced'
  <2>. SUFFICES ASSUME NEW e \in Event, e \in DOMAIN stored'
                PROVE  TxOf(e) \in mined' \/ e \in raced'
    BY DEF EventsMinedUnlessRaced, TxOf
  <2>. QED
    BY <1>1, <1>3 DEF IInv, EventsMinedUnlessRaced
<1>. QED
  BY <1>1, <1>4, <1>5, <1>6, <1>7 DEF IInv

\* A proof is begun for lists that the inputs are valid on.
LEMMA BeginSubmitStep ==
    ASSUME IInv, NEW t \in Tx, BeginSubmit(t)
    PROVE  IInv'
<1>1. /\ submit' = [pc |-> "submit", tx |-> t, lists |-> ListKeysCanGenerate(t), done |-> {},
                    blind |-> \E x \in In[t] : stored[x] = NilPOIs]
      /\ UNCHANGED <<mined, stored, node, refresh, wrong, raced, refused>>
  BY DEF BeginSubmit
<1>2. ListKeysCanGenerate(t) \subseteq List
  BY DEF ListKeysCanGenerate, GetListKeysCanGenerateSpentPOIs, ListKeysWithValidInputPOIs
<1>3. ASSUME NEW l \in ListKeysCanGenerate(t), NEW x \in In[t], stored[x] # NilPOIs
      PROVE  node[x][l] = "Valid"
  <2>1. l \in DOMAIN stored[x] /\ stored[x][l] = "Valid"
    BY <1>3 DEF ListKeysCanGenerate, GetListKeysCanGenerateSpentPOIs, ListKeysWithValidInputPOIs
  <2>2. x \in Txo
    BY PoiAssumption
  <2>. QED
    BY <2>1, <2>2 DEF IInv, StoredInv, Backed
<1>4. SubmitInv'
  BY <1>1, <1>2, <1>3 DEF SubmitInv
<1>5. NodeInv' /\ StoredInv' /\ RefreshInv'
  BY <1>1 DEF IInv, NodeInv, StoredInv, RefreshInv, Backed, Known
<1>6. EventsMinedUnlessRaced'
  BY <1>1 DEF IInv, EventsMinedUnlessRaced, TxOf
<1>. QED
  BY <1>1, <1>4, <1>5, <1>6 DEF IInv

LEMMA SubmitPOIStep ==
    ASSUME IInv, NEW l \in List, SubmitPOI(l)
    PROVE  IInv'
<1>. DEFINE t == submit.tx
<1>1. /\ submit.pc = "submit" /\ l \in submit.lists
      /\ submit' = [submit EXCEPT !.done = @ \cup {l},
                        !.pc = IF submit.lists = submit.done \cup {l} THEN "mark" ELSE @]
      /\ UNCHANGED <<mined, stored, refresh, wrong, raced, refused>>
  BY DEF SubmitPOI
<1>2. t \in Tx /\ Out[t] \subseteq Item /\ In[t] \subseteq Item
  BY <1>1, PoiAssumption DEF IInv, SubmitInv, Item
<1>3. node' = [i \in Item |-> IF i \in Out[t] /\ node[i][l] = "Missing"
                              THEN [node[i] EXCEPT ![l] = "ProofSubmitted"] ELSE node[i]]
  <2>1. PICK prepared \in PreparePreTransactionPOIInputs(t, POIMerkleProofs(t, l)) :
            node' = [i \in Item |->
                IF i \in prepared.blindedCommitmentsOut \cup prepared.railgunTxidIfHasUnshield
                     /\ node[i][l] = "Missing"
                THEN [node[i] EXCEPT ![l] = "ProofSubmitted"] ELSE node[i]]
    BY DEF SubmitPOI
  <2>2. prepared.blindedCommitmentsOut \cup prepared.railgunTxidIfHasUnshield = Out[t]
    BY DEF PreparePreTransactionPOIInputs
  <2>. QED
    BY <2>1, <2>2
<1>. HIDE DEF t
<1>4. Grows
  BY <1>3 DEF IInv, NodeInv, Grows, Status
<1>5. \A e \in Out[t] : node'[e][l] # "Missing"
  BY <1>2, <1>3 DEF IInv, NodeInv
<1>6. /\ submit'.tx = t /\ submit'.lists = submit.lists /\ submit'.blind = submit.blind
      /\ submit'.done = submit.done \cup {l}
  BY <1>1 DEF t
<1>7. SubmitInv'
  BY <1>1, <1>2, <1>4, <1>5, <1>6 DEF IInv, SubmitInv, Grows, t
<1>. QED
  BY <1>1, <1>4, <1>7, GrowStep DEF IInv

\* The node has a proof of every input, on every list of a call that did not begin
\* blindly.
LEMMA SubmitRefusedStep ==
    ASSUME IInv, NEW l \in List, SubmitRefused(l)
    PROVE  IInv'
<1>. DEFINE t == submit.tx
<1>1. /\ submit.pc = "submit" /\ l \in submit.lists
      /\ PreparePreTransactionPOIInputs(t, POIMerkleProofs(t, l)) = {}
      /\ submit' = NoSubmission
      /\ refused' = IF submit.blind THEN refused ELSE refused \cup {t}
      /\ UNCHANGED <<mined, stored, node, refresh, wrong, raced>>
  BY DEF SubmitRefused
<1>2. t \in Tx /\ In[t] # {}
  BY <1>1, PoiAssumption DEF IInv, SubmitInv
<1>3. submit.blind
  <2>. SUFFICES ASSUME ~submit.blind PROVE FALSE
    OBVIOUS
  <2>1. POIMerkleProofs(t, l) = In[t]
    BY <1>1 DEF IInv, SubmitInv, POIMerkleProofs
  <2>2. In[t] \in {In[t]} \cap ((SUBSET POIMerkleProofs(t, l)) \ {{}})
    BY <1>2, <2>1
  <2>. QED
    BY <1>1, <2>2 DEF PreparePreTransactionPOIInputs
<1>4. NodeInv' /\ StoredInv' /\ RefreshInv' /\ SubmitInv'
  BY <1>1 DEF IInv, NodeInv, StoredInv, RefreshInv, Backed, Known, SubmitInv, NoSubmission
<1>5. EventsMinedUnlessRaced'
  BY <1>1 DEF IInv, EventsMinedUnlessRaced, TxOf
<1>. QED
  BY <1>1, <1>3, <1>4, <1>5 DEF IInv

LEMMA SubmitFailsStep == ASSUME IInv, SubmitFails PROVE IInv'
<1>1. /\ submit' = NoSubmission
      /\ UNCHANGED <<mined, stored, node, refresh, wrong, raced, refused>>
  BY DEF SubmitFails
<1>2. NodeInv' /\ StoredInv' /\ RefreshInv' /\ SubmitInv'
  BY <1>1 DEF IInv, NodeInv, StoredInv, RefreshInv, Backed, Known, SubmitInv, NoSubmission
<1>3. EventsMinedUnlessRaced'
  BY <1>1 DEF IInv, EventsMinedUnlessRaced, TxOf
<1>. QED
  BY <1>1, <1>2, <1>3 DEF IInv

\* The events of the transaction are submitted; those of another are wrong if their
\* statuses change.
LEMMA MarkProofSubmittedStep == ASSUME IInv, MarkProofSubmitted PROVE IInv'
<1>. DEFINE done == submit.done
            marked == {e \in Event \cap DOMAIN stored : e \notin Out[submit.tx] /\
                          \E l \in done : l \in findListsForNewPOIs(stored[e])}
<1>1. /\ submit.pc = "mark"
      /\ stored' = [i \in DOMAIN stored |-> IF i \in Txo THEN stored[i]
                        ELSE markPOIsProofSubmitted(stored[i], done)]
      /\ wrong' = wrong \cup marked
      /\ submit' = NoSubmission
      /\ UNCHANGED <<mined, node, refresh, raced, refused>>
  BY DEF MarkProofSubmitted
<1>2. done \subseteq List /\ \A e \in Out[submit.tx], l \in done : node[e][l] # "Missing"
  BY <1>1 DEF IInv, SubmitInv
<1>3. ASSUME NEW e \in (Event \cap DOMAIN stored) \ wrong'
      PROVE  Known(markPOIsProofSubmitted(stored[e], done), e)
  <2>1. Known(stored[e], e) /\ DOMAIN stored[e] \subseteq List
    BY <1>1, <1>3 DEF IInv, StoredInv
  <2>2. CASE e \in Out[submit.tx]
    BY <1>2, <2>1, <2>2 DEF Known, markPOIsProofSubmitted
  <2>3. CASE e \notin Out[submit.tx]
    <3>1. \A l \in done : l \notin findListsForNewPOIs(stored[e])
      BY <1>1, <1>3, <2>3
    <3>2. \A l \in done : l \in DOMAIN stored[e] /\ stored[e][l] \in {"ProofSubmitted", "Valid"}
      BY <1>2, <3>1 DEF findListsForNewPOIs
    <3>. QED
      BY <2>1, <3>2 DEF Known, markPOIsProofSubmitted
  <2>. QED
    BY <2>2, <2>3
<1>. HIDE DEF done, marked
<1>4. StoredInv'
  <2>1. Txo \cap Event = {} /\ DOMAIN stored' = DOMAIN stored
    BY <1>1, PoiAssumption
  <2>2. \A i \in DOMAIN stored : DOMAIN markPOIsProofSubmitted(stored[i], done) \subseteq List
    BY <1>2 DEF IInv, StoredInv, markPOIsProofSubmitted
  <2>3. \A i \in DOMAIN stored' : DOMAIN stored'[i] \subseteq List
    BY <1>1, <2>2 DEF IInv, StoredInv
  <2>4. \A x \in Txo : Backed(stored[x], x)'
    BY <1>1 DEF IInv, StoredInv, Backed
  <2>5. \A e \in (Event \cap DOMAIN stored') \ wrong' : Known(stored[e], e)'
    BY <1>1, <1>3, <2>1 DEF Known
  <2>. QED
    BY <2>1, <2>3, <2>4, <2>5 DEF IInv, StoredInv
<1>5. NodeInv' /\ RefreshInv' /\ SubmitInv'
  BY <1>1 DEF IInv, NodeInv, RefreshInv, Backed, SubmitInv, NoSubmission
<1>6. EventsMinedUnlessRaced'
  BY <1>1 DEF IInv, EventsMinedUnlessRaced, TxOf
<1>. QED
  BY <1>1, <1>4, <1>5, <1>6 DEF IInv

LEMMA NextIInv == IInv /\ [Next]_vars => IInv'
<1>. SUFFICES ASSUME IInv, [Next]_vars PROVE IInv'
  OBVIOUS
<1>1. CASE UNCHANGED vars
  <2>1. RefreshInv'
    BY <1>1 DEF vars, IInv, RefreshInv, Backed
  <2>. QED
    BY <1>1, <2>1, RefreshStep DEF vars
<1>2. ASSUME NEW i \in Item, NEW l \in List, NEW s \in {"Valid", "ShieldBlocked"},
             NodeAdvances(i, l, s)
      PROVE  IInv'
  BY <1>2, NodeAdvancesStep
<1>3. ASSUME NEW t \in Tx, Import(t) \/ RollbackToBlock(t) \/ BeginSubmit(t)
      PROVE  IInv'
  BY <1>3, ImportStep, RollbackToBlockStep, BeginSubmitStep
<1>4. ASSUME NEW r \in Refresher, NEW kind \in {"txos", "events"}, ListCandidates(r, kind)
      PROVE  IInv'
  BY <1>4, ListCandidatesStep
<1>5. ASSUME NEW r \in Refresher, Ask(r) \/ AskFails(r)
      PROVE  IInv'
  BY <1>5, AskStep, AskFailsStep
<1>6. ASSUME NEW r \in Refresher, NEW i \in refresh[r].todo, WriteBack(r, i)
      PROVE  IInv'
  BY <1>6, WriteBackStep
<1>7. ASSUME NEW l \in List, SubmitPOI(l) \/ SubmitRefused(l)
      PROVE  IInv'
  BY <1>7, SubmitPOIStep, SubmitRefusedStep
<1>8. CASE SubmitFails \/ MarkProofSubmitted \/ SubmitLegacy
  BY <1>8, SubmitFailsStep, MarkProofSubmittedStep, SubmitLegacyStep
<1>. QED
  BY <1>1, <1>2, <1>3, <1>4, <1>5, <1>6, <1>7, <1>8 DEF Next

-----------------------------------------------------------------------------
(* The theorems. *)

\* What is stored and what the calls hold says no more than the node knows
\* (RefreshPOIs, GenerateAndSubmitPreTransactionPOIs).
THEOREM Inductive == Spec => []IInv
  BY InitIInv, NextIInv, PTL DEF Spec

LEMMA BucketOf == ASSUME NEW txo PROVE GetBalanceBucket(txo) \in Bucket
BY DEF GetBalanceBucket, Unproved, Bucket

\* What counts as spendable is valid and unspent, and every TXO is in one bucket
\* (GetBalanceBucket).
THEOREM SpendableIsValidHolds == Spec => []SpendableIsValid
<1>1. ASSUME IInv PROVE SpendableIsValid
  <2>1. ASSUME NEW x \in TokenBalances(GetSpendableBalanceBuckets(TRUE))
        PROVE  SpentBy(x) \cap mined = {} /\ \A l \in Active : node[x][l] = "Valid"
    <3>1. x \in Txo /\ GetBalanceBucket(txoOf(x)) = "Spendable"
      BY <2>1 DEF TokenBalances, GetSpendableBalanceBuckets
    <3>2. ~txoOf(x).spent /\ HasValidPOIsActiveLists(txoOf(x).pois)
      BY <3>1 DEF GetBalanceBucket, Unproved
    <3>3. \A l \in Active : l \in DOMAIN stored[x] /\ stored[x][l] = "Valid"
      BY <3>2 DEF HasValidPOIsActiveLists, validatePOIStatusForLists, hasAllKeys, txoOf
    <3>. QED
      BY <1>1, <3>1, <3>2, <3>3 DEF IInv, StoredInv, Backed, txoOf
  <2>2. ASSUME NEW x \in Txo
        PROVE  Cardinality({b \in Bucket : x \in BalancesByBucket[b]}) = 1
    <3>1. \A b \in Bucket : x \in BalancesByBucket[b] <=> GetBalanceBucket(txoOf(x)) = b
      BY DEF BalancesByBucket, TokenBalances
    <3>2. {b \in Bucket : x \in BalancesByBucket[b]} = {GetBalanceBucket(txoOf(x))}
      BY <3>1, BucketOf
    <3>. QED
      BY <3>2, FS_Singleton
  <2>3. TokenBalances(GetSpendableBalanceBuckets(FALSE)) = {x \in Txo : SpentBy(x) \cap mined = {}}
    <3>1. \A x \in Txo : GetBalanceBucket(txoOf(x)) = "Spent" <=> SpentBy(x) \cap mined # {}
      BY DEF GetBalanceBucket, Unproved, txoOf
    <3>2. \A x \in Txo : x \in TokenBalances(GetSpendableBalanceBuckets(FALSE))
                             <=> GetBalanceBucket(txoOf(x)) # "Spent"
      BY BucketOf DEF TokenBalances, GetSpendableBalanceBuckets, Bucket
    <3>. QED
      BY <3>1, <3>2 DEF TokenBalances
  <2>. QED
    BY <2>1, <2>2, <2>3 DEF SpendableIsValid
<1>. QED
  BY <1>1, Inductive, PTL

\* An event that is off the chain is in the store only by a refresh that wrote it
\* back (RefreshSpentPOIEvents, RollbackToBlock).
THEOREM EventsMinedHolds == Spec => []EventsMinedUnlessRaced
<1>1. IInv => EventsMinedUnlessRaced
  BY DEF IInv
<1>. QED
  BY <1>1, Inductive, PTL

\* A proof that the node lacks is still owed, unless another submission marked the
\* event, and no proof is begun that the node must refuse
\* (GetListKeysCanGenerateSpentPOIs, MarkProofSubmitted).
THEOREM ProofOwedHolds == Spec => []ProofOwedUnlessMarked
<1>1. ASSUME IInv PROVE ProofOwedUnlessMarked
  <2>1. ASSUME NEW t \in Tx, NEW l \in List, t \in mined,
               \A x \in In[t] : l \in DOMAIN stored[x] /\ stored[x][l] = "Valid",
               NEW e \in outputsOf(t) \ wrong, node[e][l] = "Missing"
        PROVE  l \in ListKeysCanGenerate(t)
    <3>1. l \in ListKeysWithValidInputPOIs({stored[x] : x \in In[t]})
      BY <2>1 DEF ListKeysWithValidInputPOIs
    <3>2. e \in Event \cap DOMAIN stored
      BY PoiAssumption DEF outputsOf
    <3>3. Known(stored[e], e)
      BY <1>1, <3>2 DEF IInv, StoredInv
    <3>4. l \in findListsForNewPOIs(stored[e])
      BY <2>1, <3>3 DEF findListsForNewPOIs, Known
    <3>. QED
      BY <3>1, <3>4 DEF ListKeysCanGenerate, GetListKeysCanGenerateSpentPOIs
  <2>. QED
    BY <1>1, <2>1 DEF IInv, ProofOwedUnlessMarked
<1>. QED
  BY <1>1, Inductive, PTL

=============================================================================
