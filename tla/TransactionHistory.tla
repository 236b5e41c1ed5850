--------------------------- MODULE TransactionHistory ---------------------------
(***************************************************************************)
(* What the import makes of a note of a V2 transaction                     *)
(* (pkg/wallet/importer.go), and the history that the wallet tells from    *)
(* its stores (pkg/wallet/transaction_history.go): what it received, from  *)
(* the state store, and what it sent, from the spent POI events. Keys,     *)
(* timestamps, memos and addresses are left out, and so are unshields: the *)
(* history reads them from the TXID store, which a V2 import does not fill.*)
(*                                                                         *)
(* A note: [value, from, to, type], from "shield" for a shield, type its    *)
(* output type.                                                            *)
(***************************************************************************)
EXTENDS Integers, FiniteSets, FiniteSetsExt

NoType == "none"    \* a nil OutputType

-----------------------------------------------------------------------------
(* The import. *)

\* The receiver of a note can read it, and its sender; only the sender can read
\* its annotation.
tryDecryptV2(note, isSent) ==
    IF isSent THEN note.from = "wallet" ELSE note.to = "wallet"

OutputType(note, isSent) == IF isSent THEN note.type ELSE NoType

\* Mutant of IsSent: what the wallet sent is what it can read as the sender.
IsSentFirst(note) == tryDecryptV2(note, TRUE)

\* The wallet is a receiver before it is a sender: its own change is received.
IsSent(note) == ~tryDecryptV2(note, FALSE) /\ tryDecryptV2(note, TRUE)

\* A shield has no sender and is not encrypted: it is the wallet's when its random
\* gives the public key of the note.
txoFromShieldCommitment(note, id, txid) ==
    {[id |-> id, txid |-> txid, value |-> note.value, type |-> NoType] : to \in {"wallet"} \cap {note.to}}

\* A note goes to one store, or to none; there it is [id, txid, value, type].
txoFromV2CommitmentWithDirection(note, id, txid) ==
    IF note.from = "shield" THEN txoFromShieldCommitment(note, id, txid)
    ELSE {[id |-> id, txid |-> txid, value |-> note.value, type |-> OutputType(note, isSent)]
            : isSent \in {s \in {IsSent(note)} : tryDecryptV2(note, s)}}

-----------------------------------------------------------------------------
(* The history: an entry for each transaction. *)

Of(records, txid) == {r \in records : r.txid = txid /\ r.value > 0}

\* The entry of what was sent in a transaction.
transactionSpendHistory(sent, txid) ==
    [fee |-> {r \in Of(sent, txid) : r.type = "fee"},
     change |-> {r \in Of(sent, txid) : r.type = "change"},
     transfer |-> {r \in Of(sent, txid) : r.type \notin {"fee", "change"}}]

\* matchingChangeOrLegacyTransfer: an amount is the change that it equals. Every
\* sent note of an import has a type, so that no entry is a legacy one.
matchingChange(spend, received) == \E r \in spend.change : r.value = received.value

\* A received amount that is change is not listed again.
TransactionHistory(txos, sent) ==
    {LET spend == transactionSpendHistory(sent, txid)
     IN  [txid |-> txid, fee |-> spend.fee, change |-> spend.change, transfer |-> spend.transfer,
          receive |-> {r \in Of(txos, txid) : ~matchingChange(spend, r)}]
        : txid \in {r.txid : r \in {r \in txos \cup sent : r.value > 0}}}

TotalValue(amounts) == MapThenSumSet(LAMBDA r : r.value, amounts)

=============================================================================
