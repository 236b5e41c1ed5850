------------------------ MODULE MCBroadcasterClient ------------------------
(* Instances of BroadcasterClient for TLC. *)
EXTENDS BroadcasterClient, TLC

CONSTANTS a, p, q

=============================================================================
