-------------------------------- MODULE Pipe --------------------------------
(***************************************************************************)
(* What a connection promises in one direction: the other end reads what    *)
(* was written, all of it up to a point, once and in order.                 *)
(***************************************************************************)
EXTENDS Naturals, Sequences

VARIABLES
    put,    \* what was written
    got     \* what was read

Init == put = <<>> /\ got = <<>>

Write ==
    /\ Len(put') = Len(put) + 1
    /\ SubSeq(put', 1, Len(put)) = put
    /\ UNCHANGED got

Read ==
    /\ Len(got) < Len(put)
    /\ got' = Append(got, put[Len(got) + 1])
    /\ UNCHANGED put

Next == Write \/ Read

Spec == Init /\ [][Next]_<<put, got>>

=============================================================================
