--------------------------- MODULE MCAppStateSync ---------------------------
(***************************************************************************)
(* Two log entries under two keys, so that a snapshot can lack the first    *)
(* and the patch that follows it the second.                                *)
(***************************************************************************)
EXTENDS AppStateSync

TwoKeys == <<"k1", "k2">>
=============================================================================
