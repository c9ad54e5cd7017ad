----------------------------- MODULE AtMostOnce -----------------------------
(***************************************************************************)
(* What the receiving end of a Signal session promises: every message key   *)
(* opens one message, whatever the order, the number and the sessions the   *)
(* ciphertexts arrive in.                                                   *)
(***************************************************************************)
CONSTANTS
    Keys,   \* the message keys: a session and a counter of a chain in it
    Msgs

VARIABLE opened \* the pairs of a key and a message that it has opened

Init == opened = {}

Open(k, m) ==
    /\ \A n \in Msgs : <<k, n>> \notin opened
    /\ opened' = opened \cup {<<k, m>>}

Next == \E k \in Keys, m \in Msgs : Open(k, m)

Spec == Init /\ [][Next]_opened

=============================================================================
