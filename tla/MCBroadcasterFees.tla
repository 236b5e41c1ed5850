--------------------------- MODULE MCBroadcasterFees ---------------------------
(* An instance of BroadcasterFees for TLC: one trusted signer, one other. *)
EXTENDS BroadcasterFees, TLC

CONSTANTS t, b

MCFilters == {[allow |-> {}, block |-> {}], [allow |-> {b}, block |-> {}]}

MCOffer ==
    (t :> {<<20, "plain">>, <<27, "plain">>})
    @@ (b :> {<<24, "plain">>, <<24, "busy">>, <<27, "otherAdapt">>, <<27, "otherList">>,
              <<24, "oldVersion">>})

MCMaxQuotes == (t :> 2) @@ (b :> 1)

=============================================================================
