----------------------------- MODULE MCPreKeys -----------------------------
(***************************************************************************)
(* Two peers, batches of two and a floor of one: a peer that takes the last *)
(* key makes the supply low.  Two faults, so that an upload can be lost and *)
(* the connection that repairs it can be lost too.                          *)
(***************************************************************************)
EXTENDS PreKeys

=============================================================================
