----------------------------- MODULE SoleHolder -----------------------------
(***************************************************************************)
(* What a lease promises to the processes that share it.  One of them at a  *)
(* time relies on it, and only on a row in its own name; while one does,    *)
(* the row neither changes hands nor goes away.  A hand-over therefore      *)
(* passes through a state in which nobody relies on the lease.              *)
(***************************************************************************)
CONSTANTS
    Instances,  \* the processes
    None        \* no row

VARIABLES
    owner,      \* whose name is in the row
    holders     \* the processes that rely on it

Init == owner = None /\ holders = {}

\* The row is taken, taken over or deleted.
Pass(to) ==
    /\ holders = {}
    /\ owner' = to
    /\ UNCHANGED holders

Settle(i) ==
    /\ holders = {}
    /\ owner = i
    /\ holders' = {i}
    /\ UNCHANGED owner

Leave(i) ==
    /\ holders = {i}
    /\ holders' = {}
    /\ UNCHANGED owner

Next ==
    \/ \E to \in Instances \cup {None} : Pass(to)
    \/ \E i \in Instances : Settle(i) \/ Leave(i)

Spec == Init /\ [][Next]_<<owner, holders>>

=============================================================================
