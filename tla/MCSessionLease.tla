--------------------------- MODULE MCSessionLease ---------------------------
(***************************************************************************)
(* Two processes and the smallest TTL for which late ticks and clock skew   *)
(* both have room: Period 1, MaxLag 1, MaxSkew 1, TTL 3.                     *)
(***************************************************************************)
EXTENDS SessionLease

=============================================================================
