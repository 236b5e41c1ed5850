-------------------------- MODULE MCWalletSession --------------------------
(* Instances of WalletSession for TLC. *)
EXTENDS WalletSession, TLC

CONSTANTS a

MCNone == {}
V2ThenV3 == <<"V2", "V3">>

\* A received V2 commitment and its nullifier, and a V3 unshield.
MCNote == {"c1"}
MCSpend == {"n1"}
MCUnshield == {"u1"}
MCVersion == [e \in MCNote \cup MCSpend \cup MCUnshield |->
                 IF e = "u1" THEN "V3" ELSE "V2"]
MCOwner == [c \in MCNote |-> "received"]
MCSpends == [x \in MCSpend |-> "c1"]
MCPosition == [e \in MCNote \cup MCSpend \cup MCUnshield |-> 0]

\* The V2 commitment and its nullifier, and a received V3 commitment at the
\* same position of its own tree.
TwoNotes == {"c1", "c2"}
TwoVersion == [e \in TwoNotes \cup MCSpend |-> IF e = "c2" THEN "V3" ELSE "V2"]
TwoOwner == [c \in TwoNotes |-> "received"]
TwoPosition == [e \in TwoNotes \cup MCSpend |-> 0]

=============================================================================
