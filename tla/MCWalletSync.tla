---------------------------- MODULE MCWalletSync ----------------------------
(* Instances of WalletSync for TLC. *)
EXTENDS WalletSync, TLC

CONSTANTS a, b

\* A session with both versions active: a received V2 commitment and its
\* nullifier, and a V3 transaction that pays the wallet at the same position of
\* its own tree and unshields.
MCNote == {"c1", "c2"}
MCSpend == {"n1"}
MCUnshield == {"u1"}
MCTx == {"t1"}
MCBoth == [e \in MCNote \cup MCSpend \cup MCUnshield \cup MCTx |->
              IF e \in {"c1", "n1"} THEN "V2" ELSE "V3"]
MCOwner == [c \in MCNote |-> "received"]
MCSpends == [x \in MCSpend |-> "c1"]
FirstPosition == [e \in MCNote \cup MCSpend \cup MCUnshield \cup MCTx |-> 0]
V2ThenV3 == <<"V2", "V3">>

\* The transaction and its unshield are of one V3 log: one block holds both.
OneLog == \A blk \in Block : "t1" \in chain[blk] <=> "u1" \in chain[blk]

\* The notes alone, for calls that overlap.
MCNone == {}
NotesBoth == [e \in MCNote \cup MCSpend |-> MCBoth[e]]
NotesPosition == [e \in MCNote \cup MCSpend |-> 0]
MCSymmetry == Permutations({a, b})

=============================================================================
