------------------------- MODULE MCProofsOfInnocence -------------------------
(* Instances of ProofsOfInnocence for TLC. *)
EXTENDS ProofsOfInnocence

CONSTANTS in1, in2, s, u, b, A, B, L1, r1

\* Transaction A spends a shield and makes a sent commitment and an unshield; B
\* spends a TXO from before the launch of POIs.
MCIn == [t \in {A, B} |-> IF t = A THEN {in1} ELSE {in2}]
MCOut == [t \in {A, B} |-> IF t = A THEN {s, u} ELSE {b}]

=============================================================================
