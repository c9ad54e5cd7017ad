--------------------------- MODULE MCOutboundQueue ---------------------------
(***************************************************************************)
(* Two messages, one of them with an upload, and two faults: a message can  *)
(* be sent, lost, redriven, and lost again.                                 *)
(***************************************************************************)
EXTENDS OutboundQueue

=============================================================================
