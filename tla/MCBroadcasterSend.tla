------------------------- MODULE MCBroadcasterSend -------------------------
(* Instances of BroadcasterSend for TLC. *)
EXTENDS BroadcasterSend, TLC

CONSTANTS t, u, h

=============================================================================
