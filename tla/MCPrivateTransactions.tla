------------------------- MODULE MCPrivateTransactions -------------------------
(* An instance of PrivateTransactions for TLC: notes in trees of four leaves. The *)
(* wallet of the last deposit has no note in the second of its three trees.       *)
EXTENDS PrivateTransactions, TLC

CONSTANTS a, b

MCDeposits == {0 :> 1 @@ 1 :> 1 @@ 2 :> 2,
               0 :> 1 @@ 1 :> 1 @@ 2 :> 2 @@ 3 :> 0 @@ 4 :> 2,
               [k \in 0..11 |-> IF k = 0 THEN 4 ELSE IF k < 8 THEN 0 ELSE 1]}

R(base, relayed, rejects, configured, amount) ==
    [base |-> base, relayed |-> relayed, rejects |-> rejects,
     configured |-> configured, amount |-> amount]

MCRequest == {R(TRUE, TRUE, FALSE, FALSE, 1), R(TRUE, TRUE, TRUE, TRUE, 1), R(TRUE, FALSE, TRUE, TRUE, 2),
              R(FALSE, FALSE, FALSE, FALSE, 3),
              R(FALSE, FALSE, FALSE, TRUE, 4), R(FALSE, FALSE, FALSE, FALSE, 1), R(FALSE, TRUE, FALSE, TRUE, 0),
              R(FALSE, TRUE, FALSE, TRUE, 2)}

Symmetry == Permutations(Caller)

=============================================================================
