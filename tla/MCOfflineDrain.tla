--------------------------- MODULE MCOfflineDrain ---------------------------
(***************************************************************************)
(* Pages of two, a backlog of up to five (two full pages and a partial one),*)
(* three connections, so that two generations of watchdogs overlap a third. *)
(***************************************************************************)
EXTENDS OfflineDrain

=============================================================================
