-------------------------- MODULE MCPublicTransactions --------------------------
(* An instance of PublicTransactions for TLC: two shields and a plain transfer. *)
EXTENDS PublicTransactions

CONSTANTS s1, s2, t

MCAmount == [c \in Call |-> IF c = s1 THEN 1 ELSE IF c = s2 THEN 2 ELSE 0]

=============================================================================
