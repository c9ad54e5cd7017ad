---------------------------- MODULE OutboundQueue ----------------------------
(***************************************************************************)
(* The way of an outgoing message of a WhatsApp Web session from the HTTP   *)
(* handler to the server's <ack>: the row of outbound_queue, the in-memory  *)
(* channel of the session, the send pump, the 60 s ack waiter, and what is  *)
(* done again after a reconnect or a restart.                               *)
(*                                                                         *)
(* The channel belongs to the session, its receiver to the pump of the      *)
(* connection that took it.  A connection that ends by itself replaces the  *)
(* channel (reset_send_queue); the pump it leaves behind still works off    *)
(* what it has, on a dispatcher whose wire is gone.  A driver that is       *)
(* aborted replaces nothing: its pump keeps the receiver.                   *)
(*                                                                         *)
(* The contents of a message, its encryption and the order of the channel   *)
(* are left out: chan counts the copies of each op.  Statements on the      *)
(* store succeed.  Ephemeral ops (RawNode) are not queued in the table and  *)
(* are not modelled.                                                        *)
(***************************************************************************)
EXTENDS Naturals

CONSTANTS
    Msgs,      \* message ids
    Media,     \* the ones whose op refers to an uploaded file
    None,      \* no op
    MaxFaults  \* bound: connections lost, dials failed, drivers aborted, crashes

ASSUME MsgsAssumption == Media \subseteq Msgs /\ None \notin Msgs

ASSUME FaultsAssumption == MaxFaults \in Nat

VARIABLES
    table,     \* rows of outbound_queue
    status,    \* messages.status
    pushing,   \* handlers between the upsert and the push
    accepted,  \* messages a handler has answered 202 for
    chan,      \* copies of each op in the session's current channel
    holder,    \* of its receiver: "parked" (nobody), "live" or "dead" (the pump of a
               \* connection that is up, or of one that was aborted)
    taken,     \* the op that pump is working on
    stray,     \* ops still held by pumps whose channel has been replaced
    up,        \* a connection is in its select loop
    wire,      \* <message> nodes on their way to the server
    acks,      \* <ack> nodes on their way back
    waiting,   \* ack waiters registered with the current dispatcher
    marked,    \* ack waiters that have set the status, and not yet deleted the row
    answered,  \* messages the server has acked, with or without an error
    fileGone,  \* uploads wiped by a redeploy
    faults

vars == <<table, status, pushing, accepted, chan, holder, taken, stray, up, wire, acks,
          waiting, marked, answered, fileGone, faults>>

handler == <<pushing, accepted>>
channel == <<chan, holder, taken, stray>>
network == <<up, wire, acks>>
waiters == <<waiting, marked>>
outside == <<fileGone, faults>>

Empty == [m \in Msgs |-> 0]

Init ==
    /\ table = {}
    /\ status = [m \in Msgs |-> "none"]
    /\ pushing = {}
    /\ accepted = {}
    /\ chan = Empty
    /\ holder = "parked"
    /\ taken = None
    /\ stray = {}
    /\ up = FALSE
    /\ wire = {}
    /\ acks = {}
    /\ waiting = {}
    /\ marked = {}
    /\ answered = {}
    /\ fileGone = {}
    /\ faults = 0

(***************************************************************************)
(* The handler: the messages row and the queue row are written, the op is   *)
(* pushed, and the caller gets 202 whatever the push returned.              *)
(***************************************************************************)

Persist(m) ==
    /\ status[m] = "none"
    /\ status' = [status EXCEPT ![m] = "queued"]
    /\ table' = table \cup {m}
    /\ pushing' = pushing \cup {m}
    /\ UNCHANGED <<accepted, channel, network, waiters, answered, outside>>

\* enqueue_send: send_tx always belongs to the current channel.
Push(m) ==
    /\ m \in pushing
    /\ pushing' = pushing \ {m}
    /\ accepted' = accepted \cup {m}
    /\ chan' = [chan EXCEPT ![m] = @ + 1]
    /\ UNCHANGED <<table, status, holder, taken, stray, network, waiters, answered, outside>>

(***************************************************************************)
(* A connection begins.                                                     *)
(***************************************************************************)

\* The rows a drain leaves in the table: those of media ops without a file are dropped (mutated:
\* every row is taken out).
KeptNothing == {}

Kept == table \ fileGone

\* The copies of m that a drain pushes (mutated: rows are read and not pushed).
DrainedNothing(m) == 0

Drained(m) == IF m \in table \ fileGone THEN 1 ELSE 0

\* The receiver is free: the drain pushes every row behind what is in the channel already,
\* and a pump is spawned.
ConnUpDrains ==
    /\ ~up
    /\ holder = "parked"
    /\ up' = TRUE
    /\ holder' = "live"
    /\ table' = Kept
    /\ chan' = [m \in Msgs |-> chan[m] + Drained(m)]
    /\ UNCHANGED <<status, handler, taken, stray, wire, acks, waiters, answered, outside>>

\* Another pump owns the receiver: no drain, no pump.
ConnUpWithoutPump ==
    /\ ~up
    /\ holder = "dead"
    /\ up' = TRUE
    /\ UNCHANGED <<table, status, handler, channel, wire, acks, waiters, answered, outside>>

(***************************************************************************)
(* The send pump.                                                           *)
(***************************************************************************)

PumpTake(m) ==
    /\ holder # "parked"
    /\ taken = None
    /\ chan[m] > 0
    /\ taken' = m
    /\ chan' = [chan EXCEPT ![m] = @ - 1]
    /\ UNCHANGED <<table, status, handler, holder, stray, network, waiters, answered,
                   outside>>

\* The tail of a send: register the ack, ship the node, status "sent".  A second waiter for
\* the same id replaces the first, whose channel closes.
PumpShips(m) ==
    /\ taken = m
    /\ m \notin fileGone
    /\ taken' = None
    /\ status' = [status EXCEPT ![m] = "sent"]
    /\ IF holder = "live"
       THEN wire' = wire \cup {m} /\ waiting' = waiting \cup {m}
       ELSE UNCHANGED <<wire, waiting>>
    /\ UNCHANGED <<table, handler, chan, holder, stray, up, acks, marked, answered, outside>>

\* Mutated: a send that fails takes its row along.
PumpFailsForGood(m) ==
    /\ taken = m
    /\ taken' = None
    /\ table' = table \ {m}
    /\ UNCHANGED <<status, handler, chan, holder, stray, network, waiters, answered, outside>>

\* handle_send_op fails (no devices, an IQ without an answer, an upload): logged, dropped.
PumpFails(m) ==
    /\ taken = m
    /\ taken' = None
    /\ UNCHANGED <<table, status, handler, chan, holder, stray, network, waiters, answered,
                   outside>>

\* A pump that lost its channel ends its work: "sent" on a wire that is gone, or a failure.
StrayShips(m) ==
    /\ m \in stray
    /\ stray' = stray \ {m}
    /\ \/ status' = [status EXCEPT ![m] = "sent"]
       \/ UNCHANGED status
    /\ UNCHANGED <<table, handler, chan, holder, taken, network, waiters, answered, outside>>

(***************************************************************************)
(* The server.                                                              *)
(***************************************************************************)

\* It takes the message for delivery, or rejects it; both are acked, the second with an error.
ServerTakes(m) ==
    /\ up
    /\ m \in wire
    /\ wire' = wire \ {m}
    /\ acks' = acks \cup {m}
    /\ answered' = answered \cup {m}
    /\ UNCHANGED <<table, status, handler, channel, up, waiters, outside>>

(***************************************************************************)
(* The ack and its waiter.                                                  *)
(***************************************************************************)

\* The recv loop resolves the waiter, if there is one, and the waiter sets the status; an error
\* attribute is logged only.
AckArrives(m) ==
    /\ up
    /\ m \in acks
    /\ acks' = acks \ {m}
    /\ \/ /\ m \in waiting
          /\ waiting' = waiting \ {m}
          /\ marked' = marked \cup {m}
          /\ status' = [status EXCEPT ![m] = "delivered"]
       \/ /\ m \notin waiting
          /\ UNCHANGED <<waiting, marked, status>>
    /\ UNCHANGED <<table, handler, channel, up, wire, answered, outside>>

\* Mutated: a timeout handled like an ack.
AckTimesOutAsAcked(m) ==
    /\ m \in waiting
    /\ waiting' = waiting \ {m}
    /\ marked' = marked \cup {m}
    /\ status' = [status EXCEPT ![m] = "delivered"]
    /\ UNCHANGED <<table, handler, channel, network, answered, outside>>

AckTimesOut(m) ==
    /\ m \in waiting
    /\ waiting' = waiting \ {m}
    /\ UNCHANGED <<table, status, handler, channel, network, marked, answered, outside>>

\* The waiter's second statement.
WaiterDeletes(m) ==
    /\ m \in marked
    /\ marked' = marked \ {m}
    /\ table' = table \ {m}
    /\ UNCHANGED <<status, handler, channel, network, waiting, answered, outside>>

(***************************************************************************)
(* A connection ends.                                                       *)
(***************************************************************************)

Fault == faults < MaxFaults /\ faults' = faults + 1

\* The waiters whose dispatcher is dropped end without an answer.
WireGone ==
    /\ up' = FALSE
    /\ wire' = {}
    /\ acks' = {}
    /\ waiting' = {}

\* reset_send_queue: a fresh channel, parked; the old one is worked off by its pump, if it has
\* one.
ResetSendQueue ==
    /\ chan' = Empty
    /\ holder' = "parked"
    /\ taken' = None
    /\ stray' = IF holder = "parked" THEN stray
                ELSE stray \cup {m \in Msgs : chan[m] > 0 \/ taken = m}

\* run_connection returns: a dial that failed, or a connection that was lost or closed.
ConnEnds ==
    /\ Fault
    /\ WireGone
    /\ ResetSendQueue
    /\ UNCHANGED <<table, status, handler, marked, answered, fileGone>>

\* The driver is aborted in its select loop: set_task_handle of a newer connect, which takes a
\* session that is still AwaitingQr for idle.
ConnAborted ==
    /\ Fault
    /\ up
    /\ WireGone
    /\ holder' = "dead"
    /\ UNCHANGED <<table, status, handler, chan, taken, stray, marked, answered, fileGone>>

\* The process ends, and is started again; a redeploy loses the uploads.
Crash ==
    /\ Fault
    /\ up' = FALSE
    /\ wire' = {} /\ acks' = {}
    /\ waiting' = {} /\ marked' = {}
    /\ pushing' = {}
    /\ chan' = Empty
    /\ holder' = "parked"
    /\ taken' = None
    /\ stray' = {}
    /\ fileGone' \in {fileGone, Media}
    /\ UNCHANGED <<table, status, accepted, answered>>

MsgStep(m) ==
    \/ Persist(m) \/ Push(m)
    \/ PumpTake(m) \/ PumpShips(m) \/ PumpFails(m) \/ StrayShips(m)
    \/ ServerTakes(m)
    \/ AckArrives(m) \/ AckTimesOut(m) \/ WaiterDeletes(m)

Next ==
    \/ \E m \in Msgs : MsgStep(m)
    \/ ConnUpDrains \/ ConnUpWithoutPump
    \/ ConnEnds \/ ConnAborted \/ Crash

\* run_with_reconnect dials again after every failure, and a task that can run is run.  Nothing
\* is assumed of the server, of the faults or of how a send ends.
Fairness ==
    /\ WF_vars(ConnUpDrains)
    /\ \A m \in Msgs :
          /\ WF_vars(Push(m))
          /\ WF_vars(PumpTake(m))
          /\ WF_vars(PumpShips(m) \/ PumpFails(m))
          /\ WF_vars(WaiterDeletes(m))

Spec == Init /\ [][Next]_vars /\ Fairness

(***************************************************************************)
(* Properties.                                                              *)
(***************************************************************************)

\* Types of the variables.  An op is in the channel at most twice: pushed by its handler and
\* drained from its row.
TypeOK ==
    /\ table \subseteq Msgs
    /\ status \in [Msgs -> {"none", "queued", "sent", "delivered"}]
    /\ pushing \subseteq Msgs
    /\ accepted \subseteq Msgs
    /\ chan \in [Msgs -> 0..2]
    /\ holder \in {"parked", "live", "dead"}
    /\ taken \in Msgs \cup {None}
    /\ stray \subseteq Msgs
    /\ up \in BOOLEAN
    /\ wire \subseteq Msgs
    /\ acks \subseteq Msgs
    /\ waiting \subseteq Msgs
    /\ marked \subseteq Msgs
    /\ answered \subseteq Msgs
    /\ fileGone \subseteq Media
    /\ faults \in 0..MaxFaults

\* An accepted message keeps its row until the server has answered it or its file is gone,
\* through reconnects, failed sends, timeouts and crashes (send_text: "the persisted row stays
\* as a record of intent - caller can reconnect and re-drive").
NoLostMessage ==
    \A m \in accepted : m \in table \/ m \in answered \/ m \in fileGone

\* The table is an outbox (Custody): every row, accepted or not, of a handler that crashed before
\* its push or of one that was sent twice, stays until the server has answered or the upload is
\* gone, and what the server has answered is not forgotten (drain_outbound_queue: "so a
\* reconnect picks up where we left off").
Outbox == INSTANCE Custody WITH kept <- table, safe <- answered \cup fileGone

KeepsCustody == Outbox!Spec

\* A message is recorded as delivered only if the server has acked it, never because a waiter
\* timed out, a connection closed or an old pump shipped it into nowhere (SessionEvent::
\* MessageDelivered: "Server acknowledged delivery of an outbound message").
DeliveredMeansAcked ==
    \A m \in Msgs : status[m] = "delivered" => m \in answered

\* A row that is there while the session is offline is taken up again once a connection lasts,
\* unless the pump of an aborted connection keeps the channel (drain_outbound_queue: "so a
\* reconnect picks up where we left off").
Redriven ==
    \A m \in Msgs :
        (m \in table /\ ~up)
            ~> (m \notin table \/ (holder = "live" /\ taken = m) \/ holder = "dead")

=============================================================================
