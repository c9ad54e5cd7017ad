---------------------------- MODULE SessionLease ----------------------------
(***************************************************************************)
(* Cross-instance leasing of one session (RUWA_LEASING).                    *)
(*                                                                         *)
(* Several ruwa processes share one store.  The row of session_leases says  *)
(* which process may hold the session's WhatsApp socket.  A process takes   *)
(* the row in SessionManager::connect, renews it from the select loop of    *)
(* run_connection every Period seconds, and deletes it when its driver task *)
(* ends.  Between two connections (the back-off of run_with_reconnect) the  *)
(* driver neither renews the row nor looks at it again.                     *)
(*                                                                         *)
(* Time.  The row's heartbeat_ts is kept as its age, the seconds since it   *)
(* was written, capped at AgeCap: the code only compares it with the TTL.   *)
(* Every process reads its own wall clock, skew[i] seconds ahead of real    *)
(* time, so that a peer's heartbeat looks older or younger than it is.      *)
(*                                                                         *)
(* One session and one driver per process: what a driver does besides its   *)
(* lease is the subject of SessionLifecycle.                                *)
(***************************************************************************)
EXTENDS Integers

CONSTANTS
    Instances,  \* the ruwa processes that share the store
    None,       \* no lease row
    TTL,        \* RUWA_LEASE_TTL_SECS
    MaxLag,     \* how late a renewal tick may run (a busy branch body, a slow close)
    MaxDial,    \* how long a dial may take: the connect and the handshake timeout
    MaxSkew,    \* how far the wall clocks of two processes may be apart
    MaxStops    \* bound on crashes and shutdowns

VARIABLES
    owner,      \* owner_id of the lease row, None when there is no row
    age,        \* seconds since the row's heartbeat_ts was written
    skew,       \* per process, how far its wall clock is ahead
    pc,         \* per process, where its driver is
    confirmed,  \* per process: this connection has renewed the lease
    since,      \* per process: seconds since that renewal or, without one, since the dial
                \* or the select loop was entered
    tail,       \* per process: a driver has returned, its lease_release is still to run
    stopping,   \* per process: shutdown() has latched the flag
    wait,       \* per process: boot-time revival pending (connect_when_lease_free)
    stops       \* crashes and shutdowns so far

vars == <<owner, age, skew, pc, confirmed, since, tail, stopping, wait, stops>>

\* The tick period of the renewal branch, (ttl / 3).max(1).
Period == IF TTL \div 3 > 1 THEN TTL \div 3 ELSE 1

\* A renewal, or the end of the connection, comes at most this long after the last renewal.
Deadline == Period + MaxLag

AgeCap == TTL + MaxSkew + 1

ASSUME NoneAssumption == None \notin Instances

ASSUME TimeAssumption ==
    /\ TTL \in Nat \ {0}
    /\ MaxLag \in Nat
    /\ MaxDial \in Nat
    /\ MaxSkew \in Nat
    /\ Deadline + MaxSkew <= TTL

ASSUME StopsAssumption == MaxStops \in Nat

Places == {"down",      \* the process is not running
           "idle",      \* running, no driver
           "dial",      \* connect_wa and the Noise handshake
           "loop",      \* the select loop of run_connection: a live socket
           "closing",   \* the close frame is being sent: the socket is still live
           "backoff"}   \* the wait of run_with_reconnect

(***************************************************************************)
(* The statements of store.rs on session_leases.                            *)
(***************************************************************************)

\* heartbeat_ts + ttl < now, on the clock of i.
Stale(i) == owner # None /\ age + skew[i] - skew[owner] > TTL

\* Plausible bugs are kept next to the definition they mutate: a steal that forgets the TTL,
\* one that forgets staleness, a heartbeat written ahead of the clock.
AcquirableIgnoringTtl(i) ==
    owner \in {None, i} \/ (owner # None /\ age + skew[i] - skew[owner] > 0)

AcquirableNeverStale(i) == owner \in {None, i}

\* The conflict clause of lease_acquire's UPSERT.
Acquirable(i) == owner \in {None, i} \/ Stale(i)

Acquire(i) ==
    /\ Acquirable(i)
    /\ owner' = i
    /\ age' = 0

\* Mutated: a DELETE that forgets whose row it is.
ReleaseAnyone(i) == owner' = None /\ age' = 0

\* lease_release, an owner-scoped DELETE.
Release(i) ==
    /\ owner' = IF owner = i THEN None ELSE owner
    /\ age' = IF owner = i THEN 0 ELSE age

(***************************************************************************)
(* What the end of a connection does to the driver's variables.             *)
(***************************************************************************)

Goto(i, place) ==
    /\ pc' = [pc EXCEPT ![i] = place]
    /\ confirmed' = [confirmed EXCEPT ![i] = FALSE]
    /\ since' = [since EXCEPT ![i] = 0]

\* A driver task that forgets its last statement.
ReturnKeepingLease(i) ==
    /\ ~tail[i]
    /\ Goto(i, "idle")
    /\ UNCHANGED tail

\* run_with_reconnect returns; the release is the last statement of the task.
Return(i) ==
    /\ ~tail[i]
    /\ Goto(i, "idle")
    /\ tail' = [tail EXCEPT ![i] = TRUE]

(***************************************************************************)
(* Starting a driver.                                                       *)
(***************************************************************************)

\* POST /connect, or POST /reconnect where there is no socket to bounce: the row is taken
\* before the driver is spawned, and set_task_handle aborts whatever driver there was.  An
\* aborted driver does not release.
Connect(i) ==
    /\ pc[i] # "down"
    /\ ~stopping[i]
    /\ Acquire(i)
    /\ Goto(i, "dial")
    /\ UNCHANGED <<skew, tail, stopping, wait, stops>>

\* POST /reconnect on a driver stuck in its dial: the driver is aborted first, and then
\* connect answers 409 because a peer holds a fresh lease.
ReconnectRefused(i) ==
    /\ pc[i] = "dial"
    /\ ~stopping[i]
    /\ ~Acquirable(i)
    /\ Goto(i, "idle")
    /\ UNCHANGED <<owner, age, skew, tail, stopping, wait, stops>>

\* A poll of the boot-time revival.  A driver in its back-off leaves the session
\* Disconnected, which is what lease_wait_still_wanted looks at.
WaiterConnect(i) ==
    /\ wait[i]
    /\ ~stopping[i]
    /\ pc[i] \in {"idle", "backoff"}
    /\ Acquire(i)
    /\ Goto(i, "dial")
    /\ wait' = [wait EXCEPT ![i] = FALSE]
    /\ UNCHANGED <<skew, tail, stopping, stops>>

WaiterQuits(i) ==
    /\ wait[i]
    /\ stopping[i] \/ pc[i] \notin {"idle", "backoff"}
    /\ wait' = [wait EXCEPT ![i] = FALSE]
    /\ UNCHANGED <<owner, age, skew, pc, confirmed, since, tail, stopping, stops>>

(***************************************************************************)
(* The driver.                                                              *)
(***************************************************************************)

\* The handshake succeeds.  It takes network round trips, so a predecessor's release, which
\* follows its return without an await, has run by now.
DialOk(i) ==
    /\ pc[i] = "dial"
    /\ ~tail[i]
    /\ Goto(i, "loop")
    /\ UNCHANGED <<owner, age, skew, tail, stopping, wait, stops>>

\* The connection fails: back off, redial at once (restart_required), or stop on shutdown.
ConnectionFails(i) ==
    \/ /\ ~stopping[i]
       /\ \E place \in {"backoff", "dial"} : Goto(i, place)
       /\ UNCHANGED tail
    \/ /\ stopping[i]
       /\ Return(i)

DialFails(i) ==
    /\ pc[i] = "dial"
    /\ ConnectionFails(i)
    /\ UNCHANGED <<owner, age, skew, stopping, wait, stops>>

SocketDrops(i) ==
    /\ pc[i] = "loop"
    /\ ConnectionFails(i)
    /\ UNCHANGED <<owner, age, skew, stopping, wait, stops>>

\* The renewal branch of the select loop: an UPDATE scoped to our owner_id, and a clean exit
\* when it changes no row.
Renew(i) ==
    /\ pc[i] = "loop"
    /\ \/ /\ owner = i
          /\ age' = 0
          /\ since' = [since EXCEPT ![i] = 0]
          /\ confirmed' = [confirmed EXCEPT ![i] = TRUE]
          /\ UNCHANGED <<pc, tail>>
       \/ /\ owner # i
          /\ Return(i)
          /\ UNCHANGED age
    /\ UNCHANGED <<owner, skew, stopping, wait, stops>>

\* Logout, stream replaced, login rejected: the driver ends without a retry.
Halts(i) ==
    /\ pc[i] = "loop"
    /\ Return(i)
    /\ UNCHANGED <<owner, age, skew, stopping, wait, stops>>

\* The reconnect and the shutdown branch both send a close frame and wait for it; the
\* renewal branch is not polled meanwhile.
BeginClose(i) ==
    /\ pc[i] = "loop"
    /\ pc' = [pc EXCEPT ![i] = "closing"]
    /\ UNCHANGED <<owner, age, skew, confirmed, since, tail, stopping, wait, stops>>

Closed(i) ==
    /\ pc[i] = "closing"
    /\ \/ /\ stopping[i]
          /\ Return(i)
       \/ /\ ~stopping[i]
          /\ Goto(i, "dial")
          /\ UNCHANGED tail
    /\ UNCHANGED <<owner, age, skew, stopping, wait, stops>>

\* The back-off ends: straight into the next dial, without a look at the lease.
Redial(i) ==
    /\ pc[i] = "backoff"
    /\ Goto(i, "dial")
    /\ UNCHANGED <<owner, age, skew, tail, stopping, wait, stops>>

BackoffStopped(i) ==
    /\ pc[i] = "backoff"
    /\ stopping[i]
    /\ Return(i)
    /\ UNCHANGED <<owner, age, skew, stopping, wait, stops>>

ReleaseLease(i) ==
    /\ tail[i]
    /\ Release(i)
    /\ tail' = [tail EXCEPT ![i] = FALSE]
    /\ UNCHANGED <<skew, pc, confirmed, since, stopping, wait, stops>>

(***************************************************************************)
(* The process.                                                             *)
(***************************************************************************)

Down(i) ==
    /\ Goto(i, "down")
    /\ tail' = [tail EXCEPT ![i] = FALSE]
    /\ stopping' = [stopping EXCEPT ![i] = FALSE]
    /\ wait' = [wait EXCEPT ![i] = FALSE]

\* SIGTERM: SessionManager::shutdown latches the flag.
Shutdown(i) ==
    /\ pc[i] # "down"
    /\ ~stopping[i]
    /\ stops < MaxStops
    /\ stops' = stops + 1
    /\ stopping' = [stopping EXCEPT ![i] = TRUE]
    /\ UNCHANGED <<owner, age, skew, pc, confirmed, since, tail, wait>>

\* shutdown() has joined the driver.
ProcessEnds(i) ==
    /\ stopping[i]
    /\ pc[i] = "idle"
    /\ ~tail[i]
    /\ Down(i)
    /\ UNCHANGED <<owner, age, skew, stops>>

\* A crash, or the end of the ten seconds shutdown() waits for its drivers.
Dies(i) ==
    /\ pc[i] # "down"
    /\ \/ stopping[i] /\ UNCHANGED stops
       \/ ~stopping[i] /\ stops < MaxStops /\ stops' = stops + 1
    /\ Down(i)
    /\ UNCHANGED <<owner, age, skew>>

\* restore_all and autoconnect_restored, with the same RUWA_INSTANCE_ID as before (a process
\* with a generated id is another member of Instances).
Boot(i) ==
    /\ pc[i] = "down"
    /\ pc' = [pc EXCEPT ![i] = "idle"]
    /\ wait' = [wait EXCEPT ![i] = TRUE]
    /\ UNCHANGED <<owner, age, skew, confirmed, since, tail, stopping, stops>>

\* The first tick of the renewal interval is immediate, so a new select loop is overdue after
\* MaxLag.
Patience(i) ==
    CASE pc[i] = "dial" -> MaxDial
      [] pc[i] # "dial" /\ confirmed[i] -> Deadline
      [] OTHER -> MaxLag

Timed(i) == pc[i] \in {"dial", "loop", "closing"}

Older(a) == IF a < AgeCap THEN a + 1 ELSE a

\* One second passes, provided nobody is overdue.
Tick ==
    /\ \A i \in Instances : Timed(i) => since[i] < Patience(i)
    /\ age' = IF owner = None THEN 0 ELSE Older(age)
    /\ since' = [i \in Instances |-> IF Timed(i) THEN Older(since[i]) ELSE since[i]]
    /\ UNCHANGED <<owner, skew, pc, confirmed, tail, stopping, wait, stops>>

Init ==
    /\ owner = None
    /\ age = 0
    /\ skew \in [Instances -> 0..MaxSkew]
    /\ pc = [i \in Instances |-> "down"]
    /\ confirmed = [i \in Instances |-> FALSE]
    /\ since = [i \in Instances |-> 0]
    /\ tail = [i \in Instances |-> FALSE]
    /\ stopping = [i \in Instances |-> FALSE]
    /\ wait = [i \in Instances |-> FALSE]
    /\ stops = 0

InstanceStep(i) ==
    \/ Connect(i) \/ ReconnectRefused(i) \/ WaiterConnect(i) \/ WaiterQuits(i)
    \/ DialOk(i) \/ DialFails(i) \/ SocketDrops(i) \/ Renew(i) \/ Halts(i)
    \/ BeginClose(i) \/ Closed(i) \/ Redial(i) \/ BackoffStopped(i)
    \/ ReleaseLease(i)
    \/ Shutdown(i) \/ ProcessEnds(i) \/ Dies(i) \/ Boot(i)

Next == Tick \/ \E i \in Instances : InstanceStep(i)

\* Time passes, timers fire (a dial ends, if only by its timeout), and a task that is runnable
\* is run.  No fairness on operators, on crashes, on boots or on what the network answers.
Fairness ==
    /\ WF_vars(Tick)
    /\ \A i \in Instances :
          /\ WF_vars(WaiterConnect(i))
          /\ WF_vars(WaiterQuits(i))
          /\ WF_vars(DialOk(i) \/ DialFails(i))
          /\ WF_vars(Renew(i))
          /\ WF_vars(Closed(i))
          /\ WF_vars(ReleaseLease(i))

Spec == Init /\ [][Next]_vars /\ Fairness

(***************************************************************************)
(* Properties.                                                              *)
(***************************************************************************)

\* Types of the variables.
TypeOK ==
    /\ owner \in Instances \cup {None}
    /\ age \in 0..AgeCap
    /\ skew \in [Instances -> 0..MaxSkew]
    /\ pc \in [Instances -> Places]
    /\ confirmed \in [Instances -> BOOLEAN]
    /\ since \in [Instances -> 0..AgeCap]
    /\ tail \in [Instances -> BOOLEAN]
    /\ stopping \in [Instances -> BOOLEAN]
    /\ wait \in [Instances -> BOOLEAN]
    /\ stops \in 0..MaxStops

\* A connection that has renewed the lease at least once is alone: no peer can steal, release
\* or overwrite the row between two of its renewals (session.rs, the renewal branch: "so a
\* sibling instance can't steal it while we hold a live socket"), whatever the clocks, as long
\* as Period + MaxLag + MaxSkew stays within the TTL.
ConfirmedExclusive ==
    \A i, j \in Instances : confirmed[i] /\ confirmed[j] => i = j

\* The lease keeps its promise (SoleHolder) towards the connections that have renewed it: such a
\* connection stands on a row of its own, which no steal, late release, abort or crash of
\* anybody touches until that connection has ended.  Between two of them there is a state with
\* none (connect: "so only one instance holds a live socket per session"; DEPLOY.md: "the new
\* instance waits for the old one to release its lease, then connects (a clean handoff)").
Lease == INSTANCE SoleHolder WITH holders <- {i \in Instances : confirmed[i]}

HandsOver == Lease!Spec

\* An idle process holds no lease that nobody will give back: the row of a process without a
\* driver is about to be released, or is a row from before a crash that the pending revival
\* will take over (session.rs, the end of the driver task: "Release our lease so another
\* instance can claim the session immediately instead of waiting out the TTL").
NoLeakedLease ==
    \A i \in Instances :
        owner = i /\ pc[i] = "idle" => tail[i] \/ wait[i] \/ stopping[i]

\* The hand-over of a deploy ends: once every peer is gone, stopped or crashed, a process that
\* waits for the lease does not sit without a driver for ever (connect_when_lease_free, and
\* the staleness test for a peer that could not release).
HandoffCompletes ==
    \A i \in Instances :
        <>[](\A j \in Instances \ {i} : pc[j] = "down")
            => []<>(~wait[i] \/ pc[i] # "idle")

=============================================================================
