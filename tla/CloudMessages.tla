--------------------------- MODULE CloudMessages ---------------------------
(***************************************************************************)
(* The messages of a Cloud API session: webhook deliveries (cloud_ingest),  *)
(* sends through the HTTP API (cloud_send_record), the rows they share and  *)
(* the events they put on the session's bus (Egress).                       *)
(*                                                                         *)
(* Every webhook delivery and every API call is a task of the HTTP server.  *)
(* They are cut at their statements on the store and at the events they     *)
(* send.  Meta neither orders nor dedupes what it delivers: any item may be *)
(* delivered at any time after the message exists, and again, also while    *)
(* an earlier delivery is being handled.  A delivery carries one item.      *)
(*                                                                         *)
(* Of the session's status only whether it is logged out matters here.      *)
(***************************************************************************)
EXTENDS Egress, FiniteSets

CONSTANTS
    Inbound,         \* messages from customers
    Outbound,        \* messages from the business
    Reports,         \* statuses Meta reports
    Tasks,           \* webhook deliveries handled at a time
    MaxDeliveries,   \* bound on webhook deliveries
    MaxRestarts      \* bound on restarts of the process

ASSUME CloudAssumption ==
    /\ Inbound \cap Outbound = {}
    /\ Reports \subseteq {"sent", "delivered", "read", "failed"}
    /\ {MaxDeliveries, MaxRestarts} \subseteq Nat

VARIABLES
    rows,        \* messages: the status column, "none" without a row, "null" for an inbound one
    task,        \* webhook deliveries being handled
    call,        \* the API call, or whoever sends the message
    parked,      \* logged out
    deliveries,
    restarts

cloud == <<rows, task, call, parked, deliveries, restarts>>
vars == <<egress, cloud>>

Statuses == {"sent", "delivered", "read", "failed"}

Item(kind, id, status) == [kind |-> kind, id |-> id, status |-> status]

Items ==
    {Item("message", m, "null") : m \in Inbound}
        \cup {Item("echo", o, "sent") : o \in Outbound}
        \cup {Item("status", o, s) : o \in Outbound, s \in Reports}

Event(id, what) == <<id, what>>

Idle == [at |-> "idle", item |-> Item("none", "none", "none")]

Init ==
    /\ EgressInit
    /\ rows = [id \in Inbound \cup Outbound |-> "none"]
    /\ task = [k \in Tasks |-> Idle]
    /\ call = [o \in Outbound |-> "new"]
    /\ parked = FALSE
    /\ deliveries = 0
    /\ restarts = 0

\* status_rank_sql.
Rank(status) ==
    CASE status = "sent" -> 1
      [] status = "delivered" -> 2
      [] status = "read" -> 3
      [] status = "failed" -> 4
      [] OTHER -> 0

\* Mutated: a repeated status counts as an advance.
AdvancesAgain(id, status) == rows[id] # "none" /\ Rank(status) >= Rank(rows[id])

\* message_advance_status: the row exists and moves forward.
Advances(id, status) == rows[id] # "none" /\ Rank(status) > Rank(rows[id])

Goto(k, place) == task' = [task EXCEPT ![k].at = place]

Finish(k) == task' = [task EXCEPT ![k] = Idle]

(***************************************************************************)
(* cloud_ingest.                                                            *)
(***************************************************************************)

\* What Meta can have to say.
Deliverable(i) == i \in {j \in Items : j.kind = "message" \/ call[j.id] \notin {"new", "refused"}}

\* A delivery arrives.  One for a session that is logged out is ignored; otherwise the worker is
\* started first.
Arrives(k, i) ==
    /\ task[k] = Idle
    /\ deliveries < MaxDeliveries
    /\ Deliverable(i)
    /\ deliveries' = deliveries + 1
    /\ IF parked
       THEN UNCHANGED <<task, cursor>>
       ELSE /\ task' = [task EXCEPT ![k] = [at |-> i.kind, item |-> i]]
            /\ EnsureWorker
    /\ UNCHANGED <<emitted, work, seen, rows, call, parked, restarts>>

\* message_exists, for a message and for an echo.
CheckKnown(k) ==
    /\ task[k].at \in {"message", "echo"}
    /\ IF rows[task[k].item.id] # "none" THEN Finish(k) ELSE Goto(k, "insert")
    /\ UNCHANGED <<egress, rows, call, parked, deliveries, restarts>>

\* message_insert.  A message that has come in meanwhile is no error, an echo is.
InsertRow(k) ==
    LET i == task[k].item
    IN  /\ task[k].at = "insert"
        /\ IF rows[i.id] = "none"
           THEN rows' = [rows EXCEPT ![i.id] = i.status] /\ Goto(k, "emit")
           ELSE /\ IF i.kind = "message" THEN Goto(k, "emit") ELSE Finish(k)
                /\ UNCHANGED rows
        /\ UNCHANGED <<egress, call, parked, deliveries, restarts>>

AdvanceStatus(k) ==
    LET i == task[k].item
    IN  /\ task[k].at = "status"
        /\ IF Advances(i.id, i.status)
           THEN rows' = [rows EXCEPT ![i.id] = i.status] /\ Goto(k, "emit")
           ELSE Finish(k) /\ UNCHANGED rows
        /\ UNCHANGED <<egress, call, parked, deliveries, restarts>>

\* Mutated: the echo is taken for a message only, or its first lifecycle event left to the
\* statuses.
AnnouncesMessage(i) ==
    IF i.kind = "status" THEN <<Event(i.id, i.status)>> ELSE <<Event(i.id, "message")>>

\* The events of an item.
Announces(i) ==
    CASE i.kind = "message" -> <<Event(i.id, "message")>>
      [] i.kind = "echo" -> <<Event(i.id, "message"), Event(i.id, "sent")>>
      [] i.kind = "status" -> <<Event(i.id, i.status)>>

EmitItem(k) ==
    /\ task[k].at = "emit"
    /\ Emit(Announces(task[k].item))
    /\ Finish(k)
    /\ UNCHANGED <<cursor, work, seen, rows, call, parked, deliveries, restarts>>

\* The store fails: the item is logged and skipped, and Meta gets its 200.
SkipItem(k) ==
    /\ task[k].at \in {"message", "echo", "insert", "status"}
    /\ Finish(k)
    /\ UNCHANGED <<egress, rows, call, parked, deliveries, restarts>>

Ingest(k) ==
    CheckKnown(k) \/ InsertRow(k) \/ AdvanceStatus(k) \/ EmitItem(k) \/ SkipItem(k)

(***************************************************************************)
(* cloud_send_record and cloud_record_outbound.                             *)
(***************************************************************************)

CallTo(o, place) ==
    /\ call' = [call EXCEPT ![o] = place]
    /\ UNCHANGED <<task, parked, deliveries, restarts>>

\* Graph answers; or the message is sent from elsewhere.
Send(o) ==
    /\ call[o] = "new"
    /\ \E place \in {"accepted", "refused", "elsewhere"} : CallTo(o, place)
    /\ UNCHANGED <<egress, rows>>

\* The row, unless there is one: then the call fails, although the message is sent.
RecordOutbound(o) ==
    /\ call[o] = "accepted"
    /\ IF rows[o] = "none"
       THEN rows' = [rows EXCEPT ![o] = "sent"] /\ CallTo(o, "recorded")
       ELSE UNCHANGED rows /\ CallTo(o, "failed")
    /\ UNCHANGED egress

EmitSent(o) ==
    /\ call[o] = "recorded"
    /\ Emit(<<Event(o, "sent")>>)
    /\ CallTo(o, "done")
    /\ UNCHANGED <<cursor, work, seen, rows>>

Record(o) == RecordOutbound(o) \/ EmitSent(o)

(***************************************************************************)
(* The session and the process.                                             *)
(***************************************************************************)

\* connect starts the worker.
Connect ==
    /\ cursor = 0 \/ parked
    /\ parked' = FALSE
    /\ EnsureWorker
    /\ UNCHANGED <<emitted, work, seen, rows, task, call, deliveries, restarts>>

Logout ==
    /\ ~parked
    /\ parked' = TRUE
    /\ UNCHANGED <<egress, rows, task, call, deliveries, restarts>>

\* Handlers, the bus and the worker are gone; whoever made an API call sees it break.
Restart ==
    /\ restarts < MaxRestarts
    /\ restarts' = restarts + 1
    /\ WorkerGone
    /\ task' = [k \in Tasks |-> Idle]
    /\ call' = [o \in Outbound |-> IF call[o] \in {"accepted", "recorded"} THEN "broken"
                                                                          ELSE call[o]]
    /\ UNCHANGED <<rows, parked, deliveries>>

WorkerStep == Worker /\ UNCHANGED cloud

Next ==
    \/ \E k \in Tasks : Ingest(k) \/ \E i \in Items : Arrives(k, i)
    \/ \E o \in Outbound : Send(o) \/ Record(o)
    \/ WorkerStep
    \/ Connect
    \/ Logout
    \/ Restart

\* Handlers and the worker go on.
Fairness ==
    /\ \A k \in Tasks : WF_vars(Ingest(k))
    /\ WF_vars(WorkerStep)

Spec == Init /\ [][Next]_vars /\ Fairness

-----------------------------------------------------------------------------

Times(event) == Cardinality({n \in 1 .. Len(emitted) : emitted[n] = event})

\* Each step in the life of an outbound message is announced once, however often and in whatever
\* order its statuses are delivered, whether the API call or an echo records it
\* (message_advance_status: "retries never re-emit").
LifecycleOnce == \A o \in Outbound, s \in Statuses : Times(Event(o, s)) <= 1

\* Somebody is about to send the event.
AboutTo(event) ==
    \/ \E k \in Tasks : task[k].at = "emit" /\ \E n \in DOMAIN Announces(task[k].item) :
                                                  Announces(task[k].item)[n] = event
    \/ \E o \in Outbound : call[o] = "recorded" /\ event = Event(o, "sent")

\* Whoever follows the events knows what is in the table: the state of every row has been
\* announced or is about to be.  A restart between the row and its event breaks this: the
\* redelivery finds the row and is dropped.
RowAnnounced ==
    \A id \in Inbound \cup Outbound :
        LET event == Event(id, IF rows[id] = "null" THEN "message" ELSE rows[id])
        IN  rows[id] # "none" => Times(event) > 0 \/ AboutTo(event) \/ restarts > 0

\* What is due to a target is news to it: a target that answers receives every event once at
\* most, and in the order of the bus, however the worker retries other targets, lags behind,
\* or is started again after a restart (spawn_egress_worker: "Spawn it exactly once per
\* session").
DueIsNews ==
    \A t \in Healthy : t \in work.due => work.event \in seen[t] + 1 .. Len(emitted)

\* The worker has dealt with the event, or the bus has dropped it.
Through(event) == \E n \in 1 .. cursor - 1 : emitted[n] = event /\ work.event # n

\* A message that was stored reaches the worker and is worked off, on whatever instance the
\* webhook landed: a dead receiver does not wedge the worker.
Surfaces ==
    \A m \in Inbound :
        rows[m] # "none" ~> (Through(Event(m, "message")) \/ restarts > 0)

\* A failing target never blocks the others: one that answers receives what is due to it.
Isolated ==
    \A t \in Healthy :
        t \in work.due ~> (t \notin work.due /\ seen[t] = cursor - 1) \/ cursor = 0

=============================================================================
