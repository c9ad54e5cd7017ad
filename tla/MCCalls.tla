------------------------------ MODULE MCCalls -------------------------------
(***************************************************************************)
(* Two agents who may answer the same call, one of which is followed; four  *)
(* sequence numbers and six packets, so that the sequence numbers wrap.      *)
(***************************************************************************)
EXTENDS Calls

=============================================================================
