------------------------------ MODULE Rollover ------------------------------
(***************************************************************************)
(* The rollover counter of an audio stream (call.rs): a packet carries only *)
(* the low part of its number, and the high part, which is needed to        *)
(* decrypt it, is kept by both ends: RocTracker by the one that sends,       *)
(* RecvRocTracker by the one that receives.                                 *)
(***************************************************************************)
EXTENDS Integers

CONSTANTS
    Half,   \* half of the sequence numbers (2^15)
    Rocs    \* values of the rollover counter (2^32)

ASSUME RolloverAssumption == Half \in Nat \ {0, 1} /\ Rocs \in Nat \ {0, 1, 2}

Seqs == 2 * Half

Trackers == [roc : 0 .. Rocs - 1, last : 0 .. Seqs - 1, initialized : BOOLEAN]

NewTracker == [roc |-> 0, last |-> 0, initialized |-> FALSE]

Up(roc) == IF roc = Rocs - 1 THEN 0 ELSE roc + 1

Down(roc) == IF roc = 0 THEN Rocs - 1 ELSE roc - 1

\* RtpStream::next_packet: sequence numbers wrap.
NextSeq(seq) == IF seq = Seqs - 1 THEN 0 ELSE seq + 1

\* RocTracker::advance, for the sequence number of the packet to be sent.
Advance(t, seq) ==
    [roc |-> IF t.initialized /\ seq - t.last < -Half THEN Up(t.roc) ELSE t.roc,
     last |-> seq,
     initialized |-> TRUE]

\* RecvRocTracker::estimate_roc.
Estimate(t, seq) ==
    IF ~t.initialized THEN t.roc
    ELSE IF t.last < Half
    THEN IF seq - t.last > Half THEN Down(t.roc) ELSE t.roc
    ELSE IF t.last - seq > Half THEN Up(t.roc) ELSE t.roc

\* Mutated: a late packet takes the counter back.
CommitBackwards(t, roc, seq) == [roc |-> roc, last |-> seq, initialized |-> TRUE]

\* RecvRocTracker::commit_roc, for an authenticated packet.
Commit(t, roc, seq) ==
    IF ~t.initialized THEN [roc |-> t.roc, last |-> seq, initialized |-> TRUE]
    ELSE IF roc = t.roc THEN [t EXCEPT !.last = IF seq > @ THEN seq ELSE @]
    ELSE IF roc = Up(t.roc) THEN [roc |-> roc, last |-> seq, initialized |-> TRUE]
    ELSE t

=============================================================================
