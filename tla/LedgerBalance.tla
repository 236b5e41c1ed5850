--------------------------- MODULE LedgerBalance ---------------------------
(***************************************************************************)
(* What a synced wallet promises, without stores, chunks or calls: for     *)
(* each TXID version there is a cursor into the finalized ledger, and the  *)
(* wallet's balance is the notes it received before the cursor less those  *)
(* spent before the cursor. There are two exceptions. A spend the wallet   *)
(* was unable to record: its note may stay in the balance. And the notes    *)
(* that the wallet cannot tell from others of the ledger: of them the      *)
(* balance promises nothing.                                               *)
(***************************************************************************)
EXTENDS Integers

CONSTANTS Version, Row, Block, Received, Nullifier, VersionOf, Spends, KeyOf, MarkedKey

VARIABLES
    ledger,   \* the finalized rows
    cursor,   \* version -> the first block the wallet has not accounted for
    balance,  \* version -> the notes the wallet takes to be unspent
    missed    \* the nullifiers the wallet failed to record

ledgerVars == <<ledger, cursor, balance, missed>>

\* The events of version v before block k.
Before(v, k) ==
    {r.event : r \in {r \in ledger : VersionOf[r.event] = v /\ r.block < k}}

\* The notes of a ledger that another note has the record of, that another's
\* spend marks, or that their own spend does not mark.
Contested(rows) ==
    {c \in Received : \E r \in rows :
        \/ r.event \in Received \ {c} /\ KeyOf[r.event] = KeyOf[c]
        \/ /\ r.event \in Nullifier /\ Spends[r.event] \in Received
           /\ (MarkedKey[r.event] = KeyOf[c]) # (Spends[r.event] = c)}

\* The notes unspent before block k, if the nullifiers in ignored are.
Unspent(v, k, ignored) ==
    (Before(v, k) \cap Received)
        \ ({Spends[x] : x \in (Before(v, k) \cap Nullifier) \ ignored}
              \cup Contested(ledger))

Init ==
    /\ ledger = {}
    /\ cursor = [v \in Version |-> 1]
    /\ balance = [v \in Version |-> {}]
    /\ missed = {}

\* Blocks become final, always ahead of every cursor; they may bring notes that
\* contest an earlier one.
Finalize ==
    /\ ledger \subseteq ledger'
    /\ \A r \in ledger' \ ledger : r.block >= cursor[VersionOf[r.event]]
    /\ balance' = [v \in Version |-> balance[v] \ Contested(ledger')]
    /\ UNCHANGED <<cursor, missed>>

Miss ==
    /\ \E x \in Nullifier : missed' = missed \cup {x}
    /\ UNCHANGED <<ledger, cursor, balance>>

Advance(v) ==
    /\ \E k \in Block, ignored \in SUBSET missed :
          /\ k + 1 > cursor[v]
          /\ cursor' = [cursor EXCEPT ![v] = k + 1]
          /\ balance' = [balance EXCEPT ![v] = Unspent(v, k + 1, ignored)]
    /\ UNCHANGED <<ledger, missed>>

Next == Finalize \/ Miss \/ \E v \in Version : Advance(v)

Spec == Init /\ [][Next]_ledgerVars

=============================================================================
