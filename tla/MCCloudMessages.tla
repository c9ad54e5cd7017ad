-------------------------- MODULE MCCloudMessages --------------------------
(***************************************************************************)
(* One message each way and two deliveries handled at a time; a dead        *)
(* webhook beside a Redis target that answers; a bus of two events, so that *)
(* a worker held up by the dead one falls behind.                           *)
(***************************************************************************)
EXTENDS CloudMessages

=============================================================================
