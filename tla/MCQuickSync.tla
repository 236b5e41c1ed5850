---------------------------- MODULE MCQuickSync ----------------------------
(* Instances of QuickSync for TLC. *)
EXTENDS QuickSync

CONSTANTS a

\* Received and sent V2 commitments, and the nullifier of the received one.
MCNotes == {"c1", "c2"}
MCSpend == {"n1"}
MCNone == {}
MCVersion == [e \in MCNotes \cup MCSpend |-> "V2"]
MCOwner == [c \in MCNotes |-> IF c = "c1" THEN "received" ELSE "sent"]
MCSpends == [x \in MCSpend |-> "c1"]
MCPosition == [e \in MCNotes \cup MCSpend |-> IF e = "c2" THEN 1 ELSE 0]
OnlyV2 == <<"V2">>

=============================================================================
