------------------------------- MODULE Egress -------------------------------
(***************************************************************************)
(* The event bus of a session and the egress worker behind it, which hands  *)
(* every event to the session's webhooks and its Redis target.              *)
(*                                                                         *)
(* The bus is a broadcast channel: it keeps the last Capacity events, and a *)
(* receiver that has fallen further behind loses the ones before them.  The *)
(* worker is one task; it deals with an event completely, retries and their *)
(* pauses included, before it takes the next.                               *)
(*                                                                         *)
(* Events are numbered in the order they are sent.  Which targets are       *)
(* enabled and admit the event is looked up for each one, here any set.     *)
(* The event log, which the worker writes first and nothing else here       *)
(* reads, is left out.                                                      *)
(***************************************************************************)
EXTENDS Naturals, Sequences

CONSTANTS
    Targets,     \* egress targets
    Webhooks,    \* ... of which these are retried; the others are Redis
    Healthy,     \* ... and these always answer
    NoTarget,
    Capacity,    \* events the bus keeps (256)
    MaxRetries   \* MAX_RETRIES (3)

ASSUME EgressAssumption ==
    /\ Webhooks \subseteq Targets
    /\ Healthy \subseteq Targets
    /\ NoTarget \notin Targets
    /\ Capacity \in Nat \ {0}
    /\ MaxRetries \in Nat

VARIABLES
    emitted,   \* the events sent on the bus so far
    cursor,    \* the next event the worker will receive; 0 without a worker
    work,      \* the event in its hands, the targets still due, the one it is at, its attempts
    seen       \* the last event each target that answers has received

egress == <<emitted, cursor, work, seen>>

NoWork == [event |-> 0, due |-> {}, at |-> NoTarget, attempts |-> 0, paused |-> FALSE]

EgressInit ==
    /\ emitted = <<>>
    /\ cursor = 0
    /\ work = NoWork
    /\ seen = [t \in Healthy |-> 0]

\* events.send: without a worker nobody hears it.
Emit(events) == emitted' = emitted \o events

\* Mutated: no worker is started.
EnsureNothing == UNCHANGED cursor

\* ensure_egress_worker: the first call starts the worker, which hears what is sent from now on.
EnsureWorker == cursor' = IF cursor = 0 THEN Len(emitted) + 1 ELSE cursor

Oldest == IF Len(emitted) > Capacity THEN Len(emitted) - Capacity + 1 ELSE 1

\* RecvError::Lagged: the receiver goes on with the oldest event there is.
Lagged ==
    /\ work = NoWork
    /\ cursor \in 1 .. Oldest - 1
    /\ cursor' = Oldest
    /\ UNCHANGED <<emitted, work, seen>>

\* deliver_event begins: the targets for this event, which are worked off one by one.  If there
\* are none, or they cannot be listed, it is dropped.
Receive ==
    /\ work = NoWork
    /\ cursor \in Oldest .. Len(emitted)
    /\ cursor' = cursor + 1
    /\ \/ UNCHANGED work
       \/ \E due \in SUBSET Targets : \E first \in due :
             work' = [event |-> cursor, due |-> due, at |-> first, attempts |-> 0,
                      paused |-> FALSE]
    /\ UNCHANGED <<emitted, seen>>

\* Mutated: the target stays on the list.
TargetStays ==
    LET left == work.due \ {work.at}
    IN  IF left = {} THEN work' = NoWork
        ELSE \E next \in left : work' = [work EXCEPT !.at = next, !.attempts = 0]

\* The worker is through with the target.
TargetDone ==
    LET left == work.due \ {work.at}
    IN  IF left = {} THEN work' = NoWork
        ELSE \E next \in left :
                work' = [work EXCEPT !.due = left, !.at = next, !.attempts = 0]

\* Mutated: attempts that are not counted.
SameAttempt(n) == n

NextAttempt(n) == n + 1

\* deliver_with_retry: no further attempt.
GivesUp(t) == t \notin Webhooks \/ work.attempts >= MaxRetries

\* A 2xx answer, or the Redis command went through.
Delivered ==
    /\ work.at # NoTarget /\ ~work.paused
    /\ seen' = [t \in Healthy |-> IF t = work.at THEN work.event ELSE seen[t]]
    /\ TargetDone
    /\ UNCHANGED <<emitted, cursor>>

\* The attempt fails: after a pause the event is sent again, or given up.
Fails ==
    /\ work.at \notin {NoTarget} \cup Healthy /\ ~work.paused
    /\ IF GivesUp(work.at)
       THEN TargetDone
       ELSE work' = [work EXCEPT !.attempts = NextAttempt(@), !.paused = TRUE]
    /\ UNCHANGED <<emitted, cursor, seen>>

BackoffOver ==
    /\ work.paused
    /\ work' = [work EXCEPT !.paused = FALSE]
    /\ UNCHANGED <<emitted, cursor, seen>>

\* A target without a usable configuration is passed over.
BadConfig ==
    /\ work.at \notin {NoTarget} \cup Healthy /\ ~work.paused
    /\ work.attempts = 0
    /\ TargetDone
    /\ UNCHANGED <<emitted, cursor, seen>>

Worker ==
    \/ Lagged
    \/ Receive
    \/ Delivered
    \/ Fails
    \/ BackoffOver
    \/ BadConfig

\* The worker ends with the process.
WorkerGone == cursor' = 0 /\ work' = NoWork /\ UNCHANGED <<emitted, seen>>

=============================================================================
