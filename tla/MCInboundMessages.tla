-------------------------- MODULE MCInboundMessages --------------------------
(***************************************************************************)
(* The message of a contact and another one of any kind: a second message,  *)
(* one of our own, an edit or a revoke of the first, or a history chunk      *)
(* that carries it; one fault and one resend.                               *)
(***************************************************************************)
EXTENDS InboundMessages

=============================================================================
