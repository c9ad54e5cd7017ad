-------------------------- MODULE SessionLifecycle --------------------------
(***************************************************************************)
(* The life of one WhatsApp Web session inside one process, leasing off:    *)
(* the HTTP handlers of SessionManager (connect, reconnect, logout, delete, *)
(* shutdown), the driver task run_with_reconnect with its run_connection,   *)
(* and the tasks that outlive a connection (the app-state fetches and the   *)
(* 30 s timer of begin_sync).                                               *)
(*                                                                         *)
(* A task runs without interruption between two awaits, so the places of a  *)
(* driver are its awaits; "exited" is the one exception, the stretch from   *)
(* run_connection's return to run_with_reconnect's decision, in which other *)
(* threads may still write the status.  abort() kills a driver at its next  *)
(* await, that is at once unless it is "exited".                            *)
(*                                                                         *)
(* Notify::notify_waiters wakes only who is waiting.  A select loop is not  *)
(* waiting while it runs the body of a branch, and a loop that takes another*)
(* ready branch drops the wake-up: both lose the signal.                    *)
(***************************************************************************)
EXTENDS Naturals

CONSTANTS
    Collections,  \* the app-state collections of AppStateCollection::all
    QrLimit,      \* qr_refresh_limit()
    MaxDrivers,   \* bound: drivers ever spawned
    MaxCallers    \* bound: concurrent connect calls between their check and their spawn

ASSUME CollectionsAssumption == Collections # {}

ASSUME BoundsAssumption ==
    /\ QrLimit \in Nat \ {0}
    /\ MaxDrivers \in Nat \ {0}
    /\ MaxCallers \in Nat \ {0}

VARIABLES
    ses,       \* the fields of struct Session
    drv,       \* the driver tasks, by the order of their spawning
    spawned,   \* how many there are
    handle,    \* task_handle, 0 when empty
    checked,   \* connect calls that have passed the status check and not yet spawned
    fetching,  \* collections an app-state task is still applying
    phase,     \* of the process: "up", "stopping" (the shutdown flag), "down"
    deleted    \* the session has been removed from the registry

vars == <<ses, drv, spawned, handle, checked, fetching, phase, deleted>>

Drivers == 1..MaxDrivers

Statuses == {"Pending", "Connecting", "AwaitingQr", "Syncing", "Connected",
             "Disconnected", "ProxyError", "LoggedOut", "Blocked"}

\* The awaits of a driver, and "none" (not spawned), "new" (not polled yet), "exited", "done".
Places == {"none", "new", "dial", "handshake", "loop", "closing", "unpair", "flush", "exited",
           "backoff", "done"}

Signals == {"logout", "reconnect"}

NoTask == [pc |-> "none", aborted |-> FALSE, woken |-> {}, login |-> FALSE,
           ended |-> FALSE, terminal |-> FALSE]

Finished == [NoTask EXCEPT !.pc = "done"]

Running(d) == drv[d].pc \notin {"none", "done"} /\ ~drv[d].aborted

(***************************************************************************)
(* Methods of Session, as functions of the record.                          *)
(***************************************************************************)

\* Mutated: no timer is armed.
begin_sync_untimed(s) ==
    [s EXCEPT !.ready = FALSE, !.synced = {}, !.status = "Syncing"]

begin_sync(s) ==
    [s EXCEPT !.ready = FALSE, !.synced = {}, !.status = "Syncing", !.deadline = TRUE]

mark_ready(s) ==
    IF s.ready THEN s
    ELSE [s EXCEPT !.ready = TRUE, !.deadline = FALSE, !.status = "Connected"]

\* begin_sync and the mark_ready of another thread are several statements each.  What they can
\* leave that no order of the two would: mark_ready between the clearing of the flag and the
\* setting of the status, or its flag before and its status after them.
Overtaken(s) ==
    {[begin_sync(s) EXCEPT !.ready = TRUE]}
        \cup {t \in {[begin_sync(s) EXCEPT !.status = "Connected", !.deadline = armed] :
                       armed \in BOOLEAN} : ~s.ready}

mark_collection_synced(s, c) ==
    LET t == [s EXCEPT !.synced = @ \cup {c}]
    IN  IF t.synced = Collections THEN mark_ready(t) ELSE t

status_is_live(st) == st \in {"Connected", "Connecting", "Syncing", "AwaitingQr"}

reconnect_can_bounce(st, live) == live /\ status_is_live(st)

\* abort() on the driver in the slot, if there is one.
AbortNothing(tasks, d) == tasks

Abort(tasks, d) ==
    IF d = 0 THEN tasks
    ELSE [tasks EXCEPT ![d] = IF @.pc = "exited" THEN [@ EXCEPT !.aborted = TRUE]
                              ELSE Finished]

\* notify_waiters: every driver in its back-off hears it, and the select loops in heard.
Notify(signal, heard, places) ==
    [d \in Drivers |->
        IF drv[d].pc \in places /\ (drv[d].pc = "loop" => d \in heard)
        THEN [drv[d] EXCEPT !.woken = @ \cup {signal}]
        ELSE drv[d]]

Loops == {d \in Drivers : drv[d].pc = "loop"}

(***************************************************************************)
(* Handlers.  Each runs on its own thread.  connect reads the status first  *)
(* and acts on it later: another caller, or the driver, may come between.   *)
(***************************************************************************)

Registered == ~deleted /\ phase # "down"

\* The states connect treats as "already on it".
ConnectRefuses(st) == st \in {"Connecting", "Connected", "Syncing"}

ConnectCheck ==
    /\ Registered
    /\ checked < MaxCallers
    /\ ~ConnectRefuses(ses.status)
    /\ checked' = checked + 1
    /\ UNCHANGED <<ses, drv, spawned, handle, fetching, phase, deleted>>

\* The flags a deliberate retry clears.
ClearNoFlag(s) == s

ClearVerdict(s) == [s EXCEPT !.blocked = FALSE, !.expect = FALSE]

\* The rest of connect: spawn the driver, set_task_handle aborts the one before.
ConnectStart ==
    /\ phase # "down"
    /\ checked > 0
    /\ spawned < MaxDrivers
    /\ checked' = checked - 1
    /\ spawned' = spawned + 1
    /\ ses' = [ClearVerdict(ses) EXCEPT !.status = "Connecting"]
    /\ drv' = [Abort(drv, handle) EXCEPT ![spawned + 1] = [NoTask EXCEPT !.pc = "new"]]
    /\ handle' = spawned + 1
    /\ UNCHANGED <<fetching, phase, deleted>>

\* reconnect, a socket to bounce: request_reconnect.
ReconnectBounce ==
    /\ Registered
    /\ reconnect_can_bounce(ses.status, ses.live)
    /\ ses' = [ses EXCEPT !.restart = TRUE]
    /\ \E heard \in SUBSET Loops : drv' = Notify("reconnect", heard, {"loop"})
    /\ UNCHANGED <<spawned, handle, checked, fetching, phase, deleted>>

\* reconnect, a status that looks live without a socket: abort_task, then connect.
RescueKeepingStatus(s) == [s EXCEPT !.live = FALSE]

Rescue(s) == [s EXCEPT !.live = FALSE, !.status = "Disconnected"]

ReconnectRescue ==
    /\ Registered
    /\ status_is_live(ses.status)
    /\ ~reconnect_can_bounce(ses.status, ses.live)
    /\ checked < MaxCallers
    /\ ses' = Rescue(ses)
    /\ drv' = Abort(drv, handle)
    /\ handle' = 0
    /\ checked' = checked + IF ConnectRefuses(ses'.status) THEN 0 ELSE 1
    /\ UNCHANGED <<spawned, fetching, phase, deleted>>

Logout ==
    /\ Registered
    /\ ses' = [ses EXCEPT !.paired = FALSE, !.status = "LoggedOut"]
    /\ \E heard \in SUBSET Loops : drv' = Notify("logout", heard, {"loop", "backoff"})
    /\ UNCHANGED <<spawned, handle, checked, fetching, phase, deleted>>

\* delete: out of the registry, then abort_all_tasks.
Delete ==
    /\ Registered
    /\ deleted' = TRUE
    /\ ses' = [ses EXCEPT !.live = FALSE, !.deadline = FALSE]
    /\ drv' = Abort(drv, handle)
    /\ handle' = 0
    /\ UNCHANGED <<spawned, checked, fetching, phase>>

\* shutdown latches the flag and takes the handle to join it.
Shutdown ==
    /\ phase = "up"
    /\ phase' = "stopping"
    /\ handle' = 0
    /\ UNCHANGED <<ses, drv, spawned, checked, fetching, deleted>>

\* The join is over, or its ten seconds are; the sweep parks what looks live, and the process
\* ends with every task that is left.
ShutdownReturns ==
    /\ phase = "stopping"
    /\ phase' = "down"
    /\ ses' = IF status_is_live(ses.status)
              THEN [ses EXCEPT !.status = "Disconnected"] ELSE ses
    /\ drv' = [d \in Drivers |-> IF drv[d].pc = "none" THEN drv[d] ELSE Finished]
    /\ handle' = 0
    /\ checked' = 0
    /\ fetching' = {}
    /\ UNCHANGED <<spawned, deleted>>

(***************************************************************************)
(* The driver.                                                              *)
(***************************************************************************)

Unchanged == UNCHANGED <<spawned, handle, checked, phase, deleted>>

\* A new attempt: reached_success is reset, and the TCP and TLS dial begins.
Attempt(d, s) ==
    /\ ses' = [s EXCEPT !.success = FALSE]
    /\ drv' = [drv EXCEPT ![d] = IF @.aborted THEN Finished
                                 ELSE [NoTask EXCEPT !.pc = "dial",
                                                     !.terminal = drv[d].terminal]]

\* No aborted driver is still on its way from its return to its decision.  That stretch has no
\* await; the model lets it end before the first poll of the driver that replaces it.
Settled == \A d \in Drivers : ~drv[d].aborted

\* The first poll of run_with_reconnect.
Start(d) ==
    /\ drv[d].pc = "new" /\ Settled
    /\ \/ /\ phase = "stopping"
          /\ drv' = [drv EXCEPT ![d] = Finished]
          /\ UNCHANGED ses
       \/ /\ phase = "up"
          /\ Attempt(d, [ses EXCEPT !.qr = 0])
    /\ UNCHANGED fetching /\ Unchanged

\* A malformed proxy_url: parked, no attempt.
StartBadProxy(d) ==
    /\ drv[d].pc = "new" /\ Settled
    /\ phase = "up"
    /\ ses' = [ses EXCEPT !.status = "ProxyError"]
    /\ drv' = [drv EXCEPT ![d] = Finished]
    /\ UNCHANGED fetching /\ Unchanged

\* The dial succeeds: the client payload is a login when a jid is known, a registration
\* otherwise, and the Noise handshake begins.
DialOk(d) ==
    /\ drv[d].pc = "dial"
    /\ drv' = [drv EXCEPT ![d].pc = "handshake", ![d].login = ses.paired]
    /\ UNCHANGED <<ses, fetching>> /\ Unchanged

HandshakeOk(d) ==
    /\ drv[d].pc = "handshake"
    /\ ses' = [ses EXCEPT !.status = "AwaitingQr", !.live = TRUE]
    /\ drv' = [drv EXCEPT ![d].pc = "loop"]
    /\ UNCHANGED fetching /\ Unchanged

\* run_connection returns an error: its cleanup, status Disconnected.
Fails(d) ==
    /\ ses' = [ses EXCEPT !.live = FALSE, !.status = "Disconnected"]
    /\ drv' = [drv EXCEPT ![d].pc = "exited", ![d].woken = {}, ![d].ended = FALSE]
    /\ UNCHANGED fetching /\ Unchanged

\* run_connection returns Ok: its cleanup, and the driver task ends.
ReturnsOk(d, s) ==
    /\ ses' = [s EXCEPT !.live = FALSE]
    /\ drv' = [drv EXCEPT ![d] = Finished]
    /\ UNCHANGED fetching /\ Unchanged

DialFails(d) == drv[d].pc \in {"dial", "handshake"} /\ Fails(d)

\* The socket closes, a send fails, or the rx watchdog finds it silent.
SocketFails(d) == drv[d].pc = "loop" /\ Fails(d)

\* A node is handled; wake-ups that were ready as well are dropped with the other branches.
\* After a stream error or a failure the server only closes.
Handles(d, s, ended, terminal) ==
    /\ drv[d].pc = "loop"
    /\ ~drv[d].ended
    /\ ses' = s
    /\ drv' = [drv EXCEPT ![d].woken = {}, ![d].ended = ended,
                          ![d].terminal = @ \/ terminal]
    /\ Unchanged

\* A new sync round: alone, or while the timer of an earlier round or an app-state task that
\* completes the set is in mark_ready.
SyncRound(d, s) ==
    \/ Handles(d, begin_sync(s), FALSE, FALSE) /\ UNCHANGED fetching
    \/ /\ ses.deadline
       /\ \E t \in Overtaken(s) : Handles(d, t, FALSE, FALSE)
       /\ UNCHANGED fetching
    \/ \E c \in fetching :
          /\ ses.synced \cup {c} = Collections
          /\ \E t \in Overtaken(s) : Handles(d, t, FALSE, FALSE)
          /\ fetching' = fetching \ {c}

\* <iq><pair-success>
PairSuccess(d) ==
    /\ ~drv[d].login
    /\ ~ses.paired
    /\ SyncRound(d, [ses EXCEPT !.paired = TRUE])

\* <success>
LoginSuccess(d) ==
    /\ drv[d].login
    /\ ~ses.success
    /\ SyncRound(d, [ses EXCEPT !.success = TRUE])

\* An app-state sync reply: a task is spawned that applies the collection.
SyncReply(d) ==
    /\ ses.success
    /\ Handles(d, ses, FALSE, FALSE)
    /\ \E c \in Collections : fetching' = fetching \cup {c}

\* <stream:error><conflict type="replaced"/>
StreamReplaced(d) ==
    /\ Handles(d, [ses EXCEPT !.expect = TRUE], TRUE, TRUE)
    /\ UNCHANGED fetching

\* <stream:error code="515">
StreamRestart(d) ==
    /\ Handles(d, [ses EXCEPT !.restart = TRUE], TRUE, FALSE)
    /\ UNCHANGED fetching

\* The budget of QR windows is used up by this one (mutated: never).
QrNeverSpent(n) == FALSE

QrSpent(n) == n >= QrLimit

\* <stream:error><ping/>: the QR window or an idle stream.  Only an unpaired session spends its
\* budget.
IdlePing(d) ==
    /\ \/ /\ ses.paired
          /\ Handles(d, [ses EXCEPT !.restart = TRUE], TRUE, FALSE)
       \/ /\ ~ses.paired
          /\ ~QrSpent(ses.qr + 1)
          /\ Handles(d, [ses EXCEPT !.qr = @ + 1, !.restart = TRUE], TRUE, FALSE)
       \/ /\ ~ses.paired
          /\ QrSpent(ses.qr + 1)
          /\ Handles(d, [ses EXCEPT !.qr = @ + 1, !.expect = TRUE], TRUE, TRUE)
    /\ UNCHANGED fetching

\* <stream:error code="401|403"> and <failure>
AuthRejected(d) ==
    /\ Handles(d, [ses EXCEPT !.blocked = TRUE, !.expect = TRUE], TRUE, TRUE)
    /\ UNCHANGED fetching

\* Any other <stream:error>
StreamTransient(d) ==
    /\ Handles(d, ses, TRUE, FALSE)
    /\ UNCHANGED fetching

\* The reconnect branch sends a close frame and fails.
TakeReconnect(d) ==
    /\ drv[d].pc = "loop"
    /\ "reconnect" \in drv[d].woken
    /\ drv' = [drv EXCEPT ![d].pc = "closing", ![d].woken = {}]
    /\ UNCHANGED <<ses, fetching>> /\ Unchanged

CloseSent(d) == drv[d].pc = "closing" /\ Fails(d)

\* The logout branch sends remove-companion-device and ends the driver.
TakeLogout(d) ==
    /\ drv[d].pc = "loop"
    /\ "logout" \in drv[d].woken
    /\ drv' = [drv EXCEPT ![d].pc = "unpair", ![d].woken = {}]
    /\ UNCHANGED <<ses, fetching>> /\ Unchanged

UnpairSent(d) == drv[d].pc = "unpair" /\ ReturnsOk(d, ses)

\* The shutdown branch flushes what is queued, closes and ends the driver (mutated: only a
\* connection that has logged in listens for it).
TakeShutdownAfterLogin(d) ==
    /\ drv[d].pc = "loop"
    /\ phase = "stopping"
    /\ ses.success
    /\ drv' = [drv EXCEPT ![d].pc = "flush", ![d].woken = {}]
    /\ UNCHANGED <<ses, fetching>> /\ Unchanged

TakeShutdown(d) ==
    /\ drv[d].pc = "loop"
    /\ phase = "stopping"
    /\ drv' = [drv EXCEPT ![d].pc = "flush", ![d].woken = {}]
    /\ UNCHANGED <<ses, fetching>> /\ Unchanged

FlushSent(d) ==
    drv[d].pc = "flush" /\ ReturnsOk(d, [ses EXCEPT !.status = "Disconnected"])

\* run_with_reconnect after a failed connection: stop, halt, redial at once or back off.
DecideIgnoringVerdict(d) ==
    /\ drv[d].pc = "exited"
    /\ \/ /\ phase = "stopping"
          /\ drv' = [drv EXCEPT ![d] = Finished]
          /\ UNCHANGED ses
       \/ /\ phase = "up"
          /\ Attempt(d, [ses EXCEPT !.status = "Connecting"])
    /\ UNCHANGED fetching /\ Unchanged

Decide(d) ==
    /\ drv[d].pc = "exited"
    /\ \/ /\ phase = "stopping"
          /\ drv' = [drv EXCEPT ![d] = Finished]
          /\ UNCHANGED ses
       \/ /\ phase = "up" /\ ses.expect
          /\ ses' = [ses EXCEPT !.expect = FALSE, !.blocked = FALSE,
                                !.status = IF ses.blocked THEN "Blocked" ELSE "Disconnected"]
          /\ drv' = [drv EXCEPT ![d] = Finished]
       \/ /\ phase = "up" /\ ~ses.expect /\ ses.status = "LoggedOut"
          /\ drv' = [drv EXCEPT ![d] = Finished]
          /\ UNCHANGED ses
       \/ /\ phase = "up" /\ ~ses.expect /\ ses.status # "LoggedOut" /\ ses.restart
          /\ Attempt(d, [ses EXCEPT !.restart = FALSE, !.status = "Connecting"])
       \/ /\ phase = "up" /\ ~ses.expect /\ ses.status # "LoggedOut" /\ ~ses.restart
          /\ drv' = [drv EXCEPT ![d] = IF @.aborted THEN Finished
                                       ELSE [@ EXCEPT !.pc = "backoff"]]
          /\ UNCHANGED ses
    /\ UNCHANGED fetching /\ Unchanged

\* The back-off ends by its timer, by logout or by shutdown, whichever is polled first.
BackoffElapsed(d) ==
    /\ drv[d].pc = "backoff"
    /\ Attempt(d, [ses EXCEPT !.status = "Connecting"])
    /\ UNCHANGED fetching /\ Unchanged

BackoffCancelled(d) ==
    /\ drv[d].pc = "backoff"
    /\ "logout" \in drv[d].woken \/ phase = "stopping"
    /\ drv' = [drv EXCEPT ![d] = Finished]
    /\ UNCHANGED <<ses, fetching>> /\ Unchanged

(***************************************************************************)
(* Tasks that no connection owns.                                           *)
(***************************************************************************)

\* An app-state task has applied its collection, or left it for a missing key.
FetchDone(c) ==
    /\ phase # "down"
    /\ c \in fetching
    /\ fetching' = fetching \ {c}
    /\ \/ ses' = mark_collection_synced(ses, c)
       \/ UNCHANGED ses
    /\ UNCHANGED drv /\ Unchanged

\* The timer of begin_sync.
DeadlineFires ==
    /\ phase # "down"
    /\ ses.deadline
    /\ ses' = [mark_ready(ses) EXCEPT !.deadline = FALSE]
    /\ UNCHANGED <<drv, fetching>> /\ Unchanged

(***************************************************************************)
(* The specification.                                                       *)
(***************************************************************************)

Init ==
    /\ \E paired \in BOOLEAN :
          ses = [status |-> IF paired THEN "Disconnected" ELSE "Pending", paired |-> paired,
                 expect |-> FALSE, blocked |-> FALSE, restart |-> FALSE, success |-> FALSE,
                 qr |-> 0, live |-> FALSE, ready |-> FALSE, synced |-> {},
                 deadline |-> FALSE]
    /\ drv = [d \in Drivers |-> NoTask]
    /\ spawned = 0
    /\ handle = 0
    /\ checked = 0
    /\ fetching = {}
    /\ phase = "up"
    /\ deleted = FALSE

Handler ==
    \/ ConnectCheck \/ ConnectStart \/ ReconnectBounce \/ ReconnectRescue
    \/ Logout \/ Delete \/ Shutdown \/ ShutdownReturns

DriverStep(d) ==
    \/ Start(d) \/ StartBadProxy(d) \/ DialOk(d) \/ HandshakeOk(d) \/ DialFails(d)
    \/ SocketFails(d)
    \/ PairSuccess(d) \/ LoginSuccess(d) \/ SyncReply(d)
    \/ StreamReplaced(d) \/ StreamRestart(d) \/ IdlePing(d) \/ AuthRejected(d)
    \/ StreamTransient(d)
    \/ TakeReconnect(d) \/ CloseSent(d) \/ TakeLogout(d) \/ UnpairSent(d)
    \/ TakeShutdown(d) \/ FlushSent(d)
    \/ Decide(d) \/ BackoffElapsed(d) \/ BackoffCancelled(d)

Next ==
    \/ Handler
    \/ \E d \in Drivers : DriverStep(d)
    \/ \E c \in Collections : FetchDone(c)
    \/ DeadlineFires

\* A runnable task is run, every await of a driver ends (a dial and a send by their timeouts,
\* a stream the server has ended by its close) and timers fire.  A handler that has passed its
\* check goes on.  Nothing is assumed of operators or of what the server sends.
Fairness ==
    /\ WF_vars(ConnectStart)
    /\ WF_vars(DeadlineFires)
    /\ \A d \in Drivers :
          /\ WF_vars(Start(d) \/ StartBadProxy(d))
          /\ WF_vars(DialOk(d) \/ HandshakeOk(d) \/ DialFails(d))
          /\ WF_vars(drv[d].ended /\ SocketFails(d))
          /\ WF_vars(CloseSent(d))
          /\ WF_vars(UnpairSent(d))
          /\ WF_vars(TakeShutdown(d))
          /\ WF_vars(FlushSent(d))
          /\ WF_vars(Decide(d))
          /\ WF_vars(BackoffElapsed(d) \/ BackoffCancelled(d))

Spec == Init /\ [][Next]_vars /\ Fairness

(***************************************************************************)
(* Properties.                                                              *)
(***************************************************************************)

\* Types of the variables.
TypeOK ==
    /\ ses \in [status : Statuses, paired : BOOLEAN, expect : BOOLEAN, blocked : BOOLEAN,
                restart : BOOLEAN, success : BOOLEAN, qr : 0..QrLimit, live : BOOLEAN,
                ready : BOOLEAN, synced : SUBSET Collections, deadline : BOOLEAN]
    /\ drv \in [Drivers -> [pc : Places, aborted : BOOLEAN, woken : SUBSET Signals,
                            login : BOOLEAN, ended : BOOLEAN, terminal : BOOLEAN]]
    /\ spawned \in 0..MaxDrivers
    /\ handle \in 0..spawned
    /\ checked \in 0..MaxCallers
    /\ fetching \subseteq Collections
    /\ phase \in {"up", "stopping", "down"}
    /\ deleted \in BOOLEAN

\* However connect, reconnect and the drivers interleave, at most one driver is left running
\* (set_task_handle: "Aborting guarantees exactly one driver per session").  A shutdown has
\* taken the handle, so a connect that races it starts a second driver; that one never dials.
OneDriver ==
    \A d, e \in Drivers :
        /\ Running(d) /\ Running(e)
        /\ phase = "up" \/ "new" \notin {drv[d].pc, drv[e].pc}
        => d = e

\* A status that says somebody is at work has a driver at work behind it, or a connect call
\* about to start one: no interleaving of aborts, rescues and failures leaves a session
\* "connecting" with nobody connecting (session.rs, reconnect: "so an operator can unstick a
\* connecting session without restarting the process").
NoOrphan ==
    ses.status \in {"Connecting", "AwaitingQr", "Syncing"} =>
        \/ \E d \in Drivers : Running(d)
        \/ checked > 0
        \/ deleted
        \/ phase # "up"

\* A driver whose connection WhatsApp ended for good (replaced, 401/403, failure, QR budget
\* spent) never dials again (run_with_reconnect: "Stop here instead of fighting for it").
RejectedHalts ==
    [][\A d \in Drivers :
          drv[d].terminal /\ drv[d].pc # "dial" => drv'[d].pc # "dial"]_vars

\* A driver gives up only on a verdict of its own connection, never on a flag that an earlier
\* driver left behind (the expect_disconnect flag lives in the session and not in the driver).
NoFalseHalt ==
    [][\A d \in Drivers :
          /\ drv[d].pc = "exited" /\ ~drv[d].aborted
          /\ drv'[d].pc = "done"
          /\ phase' = "up"
          /\ ses.status # "LoggedOut"
          => drv[d].terminal]_vars

\* The sync phase ends, by the last collection, by its timer or with its connection
\* (begin_sync: "a consumer waiting forever is worse than possibly-incomplete contact names"),
\* with one exception: a round whose flag was taken by another thread while begin_sync ran.
SyncEnds ==
    (ses.status = "Syncing" /\ ~ses.ready /\ ~deleted) ~>
        (ses.status # "Syncing" \/ ses.ready \/ deleted)

\* A shutdown winds every driver down by itself, wherever it finds it: dialling, in its loop,
\* backing off or not yet polled (shutdown: "all driver/connection tasks observe it").
DrainsOnShutdown ==
    phase = "stopping" ~> (\A d \in Drivers : ~Running(d))

=============================================================================
