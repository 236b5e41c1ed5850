---------------------------- MODULE MCEventSources ----------------------------
(* An instance of EventSources for TLC: trees of four leaves, fees from a value of two. *)
EXTENDS EventSources, TLC

Of(token, value) == [token |-> token, value |-> value]
None == Of(NoToken, 0)
T(count, spends, unshield) == [count |-> count, spends |-> spends, unshield |-> unshield]
U(transacts, shields) == [transacts |-> transacts, shields |-> shields]

MCUpdate == {
    U(<<T(2, 1, None)>>, <<>>),
    U(<<T(0, 1, Of("a", 1))>>, <<>>),
    U(<<>>, <<Of("a", 1), Of("a", 4)>>),
    U(<<T(1, 1, None), T(1, 1, Of("a", 2))>>, <<>>),
    U(<<T(1, 1, Of("a", 5))>>, <<Of("a", 4)>>),
    U(<<T(2, 2, Of("a", 8)), T(1, 1, Of("b", 2))>>, <<>>),
    U(<<T(2, 1, Of("a", 8)), T(1, 1, Of("a", 4))>>, <<Of("b", 3)>>)}

=============================================================================
