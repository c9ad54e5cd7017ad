------------------------------ MODULE Custody ------------------------------
(***************************************************************************)
(* Store and forward, in either direction: one side has undertaken to       *)
(* deliver messages, the other one puts them on record.  The first keeps    *)
(* each of them until the other has it, and what is on record stays there.  *)
(* Between the two, messages and acks may be lost, repeated or overtaken,   *)
(* and either side may stop and start again.                                *)
(***************************************************************************)
CONSTANT Msgs

VARIABLES
    kept,   \* the messages one side still has to deliver
    safe    \* the messages the other side has, or that are past delivering

Init == kept = {} /\ safe = {}

Undertake(ms) ==
    /\ kept' = kept \cup ms
    /\ UNCHANGED safe

Secure(ms) ==
    /\ safe' = safe \cup ms
    /\ UNCHANGED kept

LetGo(ms) ==
    /\ ms \subseteq safe
    /\ kept' = kept \ ms
    /\ UNCHANGED safe

Next == \E ms \in SUBSET Msgs : Undertake(ms) \/ Secure(ms) \/ LetGo(ms)

Spec == Init /\ [][Next]_<<kept, safe>>

=============================================================================
