--------------------------- MODULE MCChannelInbox ---------------------------
(* The servers of two clients; a good event and a malformed one. *)
EXTENDS ChannelInbox, TLC

CONSTANTS p, q

MCDrains == p :> 1 @@ q :> 1
MCKinds  == 1 :> {"verdict", "request"} @@ 2 :> {"malformed"}
=============================================================================
