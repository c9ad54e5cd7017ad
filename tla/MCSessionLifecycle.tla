------------------------- MODULE MCSessionLifecycle -------------------------
(***************************************************************************)
(* Two drivers (a connection and the one that replaces it), two concurrent  *)
(* connect calls, one collection, a QR budget of two.                       *)
(***************************************************************************)
EXTENDS SessionLifecycle

=============================================================================
