------------------------------ MODULE Ratchet ------------------------------
(***************************************************************************)
(* A receiving chain of a Signal session: SessionCipher::decrypt.           *)
(*                                                                         *)
(* A chain is the index of its next key and the counters below it whose     *)
(* keys were derived on the way and are kept for late messages.  A call     *)
(* that fails leaves no trace: its caller drops the record it worked on.    *)
(***************************************************************************)
EXTENDS Naturals, FiniteSets

CONSTANT MaxSkipped     \* MAX_SKIPPED_MESSAGE_KEYS (2000)

ASSUME MaxSkippedAssumption == MaxSkipped \in Nat

\* Never more late keys than the cache has room for, all of counters below the index.
Chains ==
    {ch \in [index : Nat, skipped : SUBSET Nat] :
        /\ ch.skipped \subseteq 0..(ch.index - 1)
        /\ IsFiniteSet(ch.skipped)
        /\ Cardinality(ch.skipped) <= MaxSkipped}

NewChain == [index |-> 0, skipped |-> {}]

\* The counters whose keys have opened a message.
Used(chain) == 0..(chain.index - 1) \ chain.skipped

\* A late counter needs its cached key; a gap must fit into the cache.
Accepts(chain, c) ==
    IF c < chain.index
    THEN c \in chain.skipped
    ELSE Cardinality(chain.skipped) + (c - chain.index) <= MaxSkipped

After(chain, c) ==
    IF c < chain.index
    THEN [chain EXCEPT !.skipped = @ \ {c}]
    ELSE [index |-> c + 1, skipped |-> chain.skipped \cup chain.index..(c - 1)]

=============================================================================
