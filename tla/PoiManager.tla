----------------------------- MODULE PoiManager -----------------------------
(***************************************************************************)
(* What poi.Manager makes of the statuses that the POI node has reported:  *)
(* the bucket of a TXO's balance, whether a status is worth asking for     *)
(* again, and the lists a proof may be generated for. The statuses of a    *)
(* TXO or an event are a function from the lists it has one for; the nil   *)
(* map, of something that was never refreshed, is the empty function.      *)
(***************************************************************************)
EXTENDS Integers, FiniteSets

CONSTANTS
    List,     \* the POI lists of the manager
    Active    \* those of type Active; the others only gather

ASSUME ListAssumption == Active \subseteq List

Status == {"Valid", "ShieldBlocked", "ProofSubmitted", "Missing"}
POIs == UNION {[ls -> Status] : ls \in SUBSET List}
NilPOIs == [l \in {} |-> "Missing"]

Bucket == {"Spent", "ShieldPending", "MissingInternalPOI", "MissingExternalPOI",
           "Spendable", "ShieldBlocked", "ProofSubmitted"}

hasAllKeys(pois, lists) == lists \subseteq DOMAIN pois

validatePOIStatusForLists(pois, lists, statuses) ==
    /\ hasAllKeys(pois, lists)
    /\ \A l \in lists : pois[l] \in statuses

\* Mutant of HasValidPOIsActiveLists: a submitted proof counts as a valid one.
HasSubmittedPOIsActiveLists(pois) ==
    validatePOIStatusForLists(pois, Active, {"Valid", "ProofSubmitted"})

HasValidPOIsActiveLists(pois) == validatePOIStatusForLists(pois, Active, {"Valid"})

hasValidPOIsAllLists(pois) == validatePOIStatusForLists(pois, List, {"Valid"})

On(pois, statuses) == \E l \in Active \cap DOMAIN pois : pois[l] \in statuses

\* The bucket of something that no list has proved yet.
Unproved(txo) ==
    IF txo.shield THEN "ShieldPending"
    ELSE IF txo.change THEN "MissingInternalPOI" ELSE "MissingExternalPOI"

GetBalanceBucket(txo) ==
    IF txo.spent THEN "Spent"
    ELSE IF ~hasAllKeys(txo.pois, Active) THEN Unproved(txo)
    ELSE IF HasValidPOIsActiveLists(txo.pois) THEN "Spendable"
    ELSE IF On(txo.pois, {"ShieldBlocked"}) THEN "ShieldBlocked"
    ELSE IF ~txo.shield /\ On(txo.pois, {"ProofSubmitted"}) THEN "ProofSubmitted"
    ELSE Unproved(txo)

GetSpendableBalanceBuckets(required) ==
    IF required THEN {"Spendable"} ELSE Bucket \ {"Spent"}

\* The three ShouldRetrieve..., of something that can be asked for.
ShouldRetrieve(pois) == ~hasValidPOIsAllLists(pois)

\* ShouldGenerateSpentPOIs... of a sent commitment or an unshield.
findListsForNewPOIs(pois) ==
    {l \in List : l \notin DOMAIN pois \/ pois[l] \notin {"ProofSubmitted", "Valid"}}

\* Inputs that were never refreshed do not count.
ListKeysWithValidInputPOIs(inputs) ==
    {l \in List : \A pois \in inputs \ {NilPOIs} :
        l \in DOMAIN pois /\ pois[l] = "Valid"}

\* Mutant of GetListKeysCanGenerateSpentPOIs: only lists that no output is on.
GetListKeysNoOutputOn(inputs, outputs, legacy) ==
    {l \in IF legacy THEN List ELSE ListKeysWithValidInputPOIs(inputs) :
        outputs # {} /\ \A pois \in outputs : l \in findListsForNewPOIs(pois)}

\* The lists some output still needs a proof for.
GetListKeysCanGenerateSpentPOIs(inputs, outputs, legacy) ==
    {l \in IF legacy THEN List ELSE ListKeysWithValidInputPOIs(inputs) :
        \E pois \in outputs : l \in findListsForNewPOIs(pois)}

\* A transact TXO from before the launch of POIs that was refreshed at least once.
ShouldSubmitLegacyTransactEventsTXO(txo) ==
    /\ txo.legacy /\ ~txo.shield
    /\ txo.pois # NilPOIs
    /\ ~hasValidPOIsAllLists(txo.pois)

\* Over every TXO of the wallet, also those that no event is submitted for.
GetListKeysCanSubmitLegacyTransactEvents(txos) ==
    {l \in List : \E pois \in txos : l \notin DOMAIN pois \/ pois[l] # "Valid"}

\* poi_submission.go: a valid status stays.
markPOIsProofSubmitted(pois, lists) ==
    [l \in DOMAIN pois \cup lists |->
        IF l \in lists /\ (l \notin DOMAIN pois \/ pois[l] # "Valid")
        THEN "ProofSubmitted" ELSE pois[l]]

=============================================================================
