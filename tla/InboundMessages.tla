--------------------------- MODULE InboundMessages ---------------------------
(***************************************************************************)
(* An inbound <message> of a WhatsApp Web session, from the stanza to the   *)
(* row of messages and the event that consumers see.                        *)
(*                                                                         *)
(* The recv loop decrypts the stanza, which saves the ratchet, and then     *)
(* persists, emits, acks and answers.  A stanza that does not decrypt       *)
(* leaves a placeholder row; the sender is asked to send it again (a retry  *)
(* receipt, at most Give - 1 times), the own phone is asked for a copy, and *)
(* a timer surfaces the placeholder unless the row has healed by then.      *)
(* Edits and revokes are applied to the row of their target.  History       *)
(* chunks are ingested by a task of their own.                              *)
(*                                                                         *)
(* Whether a stanza decrypts is not determined here (see PreKeys), except   *)
(* that no ciphertext decrypts twice.  The body of a message is reduced to  *)
(* the original text, the edited one, or none.                              *)
(***************************************************************************)
EXTENDS Naturals

CONSTANTS
    Msgs,       \* message ids
    Target,     \* the message of a contact that edits and revokes are about
    None,       \* no stanza in the recv loop
    Give,       \* failed deliveries after which no further retry is asked for (5)
    MaxFaults,  \* bound on lost connections and restarts
    MaxResends  \* bound on the resends of the sender

ASSUME MsgsAssumption == Target \in Msgs /\ None \notin Msgs

ASSUME BoundsAssumption == Give \in Nat \ {0, 1} /\ MaxFaults \in Nat /\ MaxResends \in Nat

Kinds == {"chat",      \* a message of a contact
          "own",       \* one of our account, sent from another of its devices
          "edit",      \* an edit of Target
          "revoke",    \* a revoke of Target
          "history"}   \* the notification of a heavy history chunk, which carries Target

VARIABLES
    kind,       \* what a message is; never changes
    row,        \* the row of a message in its own chat
    ghost,      \* own messages with a placeholder row in the chat with ourselves
    applied,    \* edits and revokes written into the row of their target
    retries,    \* Session::message_retries
    armed,      \* sleeping placeholder timers of a message
    surfaced,   \* messages whose placeholder has been sent to consumers
    stanza,     \* the server's side: not sent, queued for us, or consumed
    given,      \* stanzas delivered on this connection
    spent,      \* messages whose queued ciphertext has been decrypted already
    busy,       \* the stanza between decryption and persistence
    readable,   \* it has decrypted
    acks,       \* <ack class="message"> nodes on their way
    asks,       \* retry receipts on their way
    phone,      \* placeholder resend requests at the own phone
    ingests,    \* running history ingest tasks
    stamp,      \* history_synced_at: never, on an earlier connection, or on this one
    up,
    restarted,
    faults,
    resends

rows == <<kind, row, ghost, applied>>
loop == <<busy, readable, spent>>
network == <<stanza, given, acks, asks, phone>>
history == <<ingests, stamp>>
outside == <<up, restarted, faults, resends>>
vars == <<rows, retries, armed, surfaced, network, loop, history, outside>>

NoRow == [type |-> "none", text |-> "null", revoked |-> FALSE]

Init ==
    /\ kind \in [Msgs -> Kinds]
    /\ kind[Target] = "chat"
    /\ row = [m \in Msgs |-> NoRow]
    /\ ghost = {} /\ applied = {}
    /\ retries = [m \in Msgs |-> 0]
    /\ armed = [m \in Msgs |-> 0]
    /\ surfaced = {}
    /\ stanza = [m \in Msgs |-> "unsent"]
    /\ given = {} /\ spent = {}
    /\ busy = None
    /\ readable = FALSE
    /\ acks = {} /\ asks = {} /\ phone = {}
    /\ ingests = {}
    /\ stamp = "never"
    /\ up = FALSE
    /\ restarted = FALSE
    /\ faults = 0
    /\ resends = 0

(***************************************************************************)
(* The statements of store.rs on messages.                                  *)
(***************************************************************************)

\* Mutated: an upsert without its WHERE clause.
HealedAlways(r) == [r EXCEPT !.type = "content", !.text = "orig"]

\* message_insert of a readable message: the conflict clause replaces a placeholder only, and
\* leaves the other columns alone.
Healed(r) ==
    IF r.type = "content" THEN r ELSE [r EXCEPT !.type = "content", !.text = "orig"]

\* Mutated: a placeholder that is not stored.
WithPlaceholderNot(r) == r

\* message_insert of a placeholder.
WithPlaceholder(r) == IF r.type = "none" THEN [r EXCEPT !.type = "undecryptable"] ELSE r

\* messages_insert_batch, INSERT OR IGNORE.
Backfilled(r) ==
    IF r.type = "none" THEN [r EXCEPT !.type = "content", !.text = "orig"] ELSE r

\* Mutated: a revoke that deletes the row.
MarkRevokedAway(r) == NoRow

\* message_mark_edited and message_mark_revoked, on whatever row has the id.
MarkEdited(r) == [r EXCEPT !.text = "new"]

MarkRevoked(r) == [r EXCEPT !.text = "null", !.revoked = TRUE]

Stored(m) == row[m].type # "none" \/ m \in ghost

(***************************************************************************)
(* The recv loop.                                                           *)
(***************************************************************************)

\* The server sends a new message, ours to fetch while we are online.
ServerSends(m) ==
    /\ stanza[m] = "unsent"
    /\ stanza' = [stanza EXCEPT ![m] = "queued"]
    /\ UNCHANGED <<rows, retries, armed, surfaced, given, acks, asks, phone, loop, history,
                   outside>>

\* The first half of process_inbound_message.  A successful decryption has saved the advanced
\* ratchet, so that the same ciphertext fails from now on.
Decrypt(m) ==
    /\ up
    /\ busy = None
    /\ stanza[m] = "queued"
    /\ m \notin given
    /\ given' = given \cup {m}
    /\ busy' = m
    /\ readable' \in IF m \in spent THEN {FALSE} ELSE BOOLEAN
    /\ spent' = IF readable' THEN spent \cup {m} ELSE spent
    /\ UNCHANGED <<rows, retries, armed, surfaced, stanza, acks, asks, phone, history, outside>>

\* Every stanza is acked to the server, after it has been dealt with.
Done ==
    /\ acks' = acks \cup {busy}
    /\ busy' = None
    /\ readable' = FALSE
    /\ UNCHANGED <<stanza, given, spent, outside>>

\* Mutated: the timer is left to the second failed delivery.
TimersAfterTwo(m, count) == IF count = 2 THEN armed[m] + 1 ELSE armed[m]

Timers(m, count) == IF count = 1 THEN armed[m] + 1 ELSE armed[m]

\* A retry receipt asks the sender to send the message again, until it is time to give up.
AskSender(m, count) == asks' = IF count < Give THEN asks \cup {m} ELSE asks

\* The own phone is asked for a copy on the first failed delivery.
AskPhone(m, count) == phone' = IF count = 1 THEN phone \cup {m} ELSE phone

\* A delivery that could not be read: a placeholder row (that of an own message under the chat
\* with ourselves, where its stanza came from), the timer, the receipt and the request.
PersistPlaceholder(m) ==
    /\ busy = m
    /\ ~readable
    /\ retries' = [retries EXCEPT ![m] = @ + 1]
    /\ IF kind[m] = "own"
       THEN ghost' = ghost \cup {m} /\ UNCHANGED row
       ELSE row' = [row EXCEPT ![m] = WithPlaceholder(@)] /\ UNCHANGED ghost
    /\ armed' = [armed EXCEPT ![m] = Timers(m, retries'[m])]
    /\ AskSender(m, retries'[m])
    /\ AskPhone(m, retries'[m])
    /\ Done
    /\ UNCHANGED <<kind, applied, surfaced, history>>

\* A message with content, and an edit or a revoke whose target is not stored.
PersistContent(m) ==
    /\ busy = m
    /\ readable
    /\ \/ kind[m] \in {"chat", "own"}
       \/ kind[m] \in {"edit", "revoke"} /\ ~Stored(Target)
    /\ row' = [row EXCEPT ![m] = Healed(@)]
    /\ retries' = [retries EXCEPT ![m] = 0]
    /\ Done
    /\ UNCHANGED <<kind, ghost, applied, armed, surfaced, asks, phone, history>>

\* An edit or a revoke is written into its target: no row of its own.
ApplyToTarget(m) ==
    /\ busy = m
    /\ readable
    /\ kind[m] \in {"edit", "revoke"}
    /\ Stored(Target)
    /\ row' = [row EXCEPT ![Target] = IF @.type = "none" THEN @
                                      ELSE IF kind[m] = "edit" THEN MarkEdited(@)
                                      ELSE MarkRevoked(@)]
    /\ applied' = applied \cup {m}
    /\ retries' = [retries EXCEPT ![m] = 0]
    /\ Done
    /\ UNCHANGED <<kind, ghost, armed, surfaced, asks, phone, history>>

\* should_skip_history_sync: a heavy chunk is redundant when one was stored on an earlier
\* connection.
Redundant == stamp = "earlier"

\* A history notification: protocol only, neither row nor event; its task is spawned or not.
HandleHistory(m) ==
    /\ busy = m
    /\ readable
    /\ kind[m] = "history"
    /\ ingests' = IF Redundant THEN ingests ELSE ingests \cup {m}
    /\ retries' = [retries EXCEPT ![m] = 0]
    /\ Done
    /\ UNCHANGED <<rows, armed, surfaced, asks, phone, stamp>>

(***************************************************************************)
(* Tasks.                                                                   *)
(***************************************************************************)

\* The grace period is over: the placeholder is sent to the consumers if the row under which it
\* was stored has not healed.
TimerFires(m) ==
    /\ armed[m] > 0
    /\ armed' = [armed EXCEPT ![m] = @ - 1]
    /\ surfaced' = IF m \in ghost \/ row[m].type = "undecryptable"
                   THEN surfaced \cup {m} ELSE surfaced
    /\ UNCHANGED <<rows, retries, network, loop, history, outside>>

\* ingest_history_sync_notification: the rows of the chunk, here the target's, then the stamp.
IngestStores(h) ==
    /\ h \in ingests
    /\ ingests' = ingests \ {h}
    /\ row' = [row EXCEPT ![Target] = Backfilled(@)]
    /\ stamp' = "current"
    /\ UNCHANGED <<kind, ghost, applied, retries, armed, surfaced, network, loop, outside>>

\* A download or a decryption that fails is logged.
IngestFails(h) ==
    /\ h \in ingests
    /\ ingests' = ingests \ {h}
    /\ UNCHANGED <<rows, retries, armed, surfaced, network, loop, stamp, outside>>

(***************************************************************************)
(* The server, the sender and the phone.                                    *)
(***************************************************************************)

AckArrives(m) ==
    /\ up
    /\ m \in acks
    /\ acks' = acks \ {m}
    /\ stanza' = [stanza EXCEPT ![m] = "consumed"]
    /\ UNCHANGED <<rows, retries, armed, surfaced, given, asks, phone, loop, history, outside>>

\* The receipt follows the ack on the socket.  The sender encrypts the message anew, or does
\* not answer.
SenderResends(m) ==
    /\ up
    /\ m \in asks \ acks
    /\ asks' = asks \ {m}
    /\ \/ /\ resends < MaxResends
          /\ resends' = resends + 1
          /\ stanza' = [stanza EXCEPT ![m] = "queued"]
          /\ given' = given \ {m}
          /\ spent' = spent \ {m}
       \/ UNCHANGED <<resends, stanza, given, spent>>
    /\ UNCHANGED <<rows, retries, armed, surfaced, acks, phone, busy, readable, history, up,
                   restarted, faults>>

\* restore_resent_message, for the copy that our phone sends: under the message's own chat and
\* id, as a row of its own also when it is an edit or a revoke.  A notification carries no
\* chat content.
PhoneAnswers(m) ==
    /\ up
    /\ busy = None
    /\ m \in phone
    /\ phone' = phone \ {m}
    /\ \/ /\ kind[m] # "history"
          /\ row' = [row EXCEPT ![m] = Healed(@)]
          /\ retries' = [retries EXCEPT ![m] = 0]
       \/ UNCHANGED <<row, retries>>
    /\ UNCHANGED <<kind, ghost, applied, armed, surfaced, stanza, given, acks, asks, loop,
                   history, outside>>

\* On a later connection the phone pushes its history again.
PhoneRepushes(h) ==
    /\ up
    /\ kind[h] = "history"
    /\ stanza[h] = "consumed"
    /\ h \notin given
    /\ stanza' = [stanza EXCEPT ![h] = "queued"]
    /\ spent' = spent \ {h}
    /\ UNCHANGED <<rows, retries, armed, surfaced, given, acks, asks, phone, busy, readable,
                   history, outside>>

(***************************************************************************)
(* Connections and the process.                                             *)
(***************************************************************************)

\* <success>: what is queued and was not acked is delivered again; chunks stored until now are
\* of an earlier connection.
ConnUp ==
    /\ ~up
    /\ up' = TRUE
    /\ given' = {}
    /\ stamp' = IF stamp = "current" THEN "earlier" ELSE stamp
    /\ UNCHANGED <<rows, retries, armed, surfaced, stanza, acks, asks, phone, loop, ingests,
                   restarted, faults, resends>>

Fault == faults < MaxFaults /\ faults' = faults + 1

WireGone == up' = FALSE /\ acks' = {} /\ asks' = {}

\* The connection is lost, or bounced by a reconnect, which also clears the retry counters.
ConnEnds ==
    /\ Fault
    /\ up
    /\ busy = None
    /\ WireGone
    /\ retries' \in {retries, [m \in Msgs |-> 0]}
    /\ UNCHANGED <<rows, armed, surfaced, stanza, given, phone, loop, history, restarted,
                   resends>>

\* The process ends and starts again: counters, timers, tasks and a stanza that was decrypted
\* but not persisted are gone.
Restart ==
    /\ Fault
    /\ WireGone
    /\ restarted' = TRUE
    /\ busy' = None
    /\ readable' = FALSE
    /\ retries' = [m \in Msgs |-> 0]
    /\ armed' = [m \in Msgs |-> 0]
    /\ ingests' = {}
    /\ UNCHANGED <<rows, surfaced, stanza, given, spent, phone, stamp, resends>>

MsgStep(m) ==
    \/ ServerSends(m) \/ Decrypt(m)
    \/ PersistPlaceholder(m) \/ PersistContent(m) \/ ApplyToTarget(m) \/ HandleHistory(m)
    \/ TimerFires(m) \/ IngestStores(m) \/ IngestFails(m)
    \/ AckArrives(m) \/ SenderResends(m) \/ PhoneAnswers(m) \/ PhoneRepushes(m)

Next == (\E m \in Msgs : MsgStep(m)) \/ ConnUp \/ ConnEnds \/ Restart

\* A timer fires.  Nothing is assumed of the network.
Fairness == \A m \in Msgs : WF_vars(TimerFires(m))

Spec == Init /\ [][Next]_vars /\ Fairness

(***************************************************************************)
(* Properties.                                                              *)
(***************************************************************************)

\* What the server will not deliver again is on record: as a row, a placeholder, or in the row
\* of its target.  The ratchet is saved before the row is written, so that a restart in between
\* makes the redelivered stanza unreadable; it must still end in a placeholder and a retry
\* (process_inbound_message: "Failed-decrypt rows still land in `messages`").
NoSilentLoss ==
    \A m \in Msgs :
        stanza[m] = "consumed" /\ kind[m] # "history" => Stored(m) \/ m \in applied

\* The table takes over from the server (Custody): the server lets go of a stanza only when its
\* message is on record, and no statement, of a revoke, a heal, a copy from the phone or a
\* history chunk, and no restart takes it off the record again.
Server ==
    INSTANCE Custody WITH
        kept <- {m \in Msgs : stanza[m] = "queued" /\ kind[m] # "history"},
        safe <- {m \in Msgs : Stored(m) \/ m \in applied}

TakesCustody == Server!Spec

\* A readable row is never overwritten by another copy of the message: no late placeholder, no
\* resent, restored or backfilled original undoes an edit (message_insert: "a duplicate delivery
\* of an already-stored message is dropped").
ContentKept ==
    [][\A m \in Msgs :
          row[m].type = "content" =>
              /\ row'[m].type = "content"
              /\ row'[m].text = "orig" => row[m].text = "orig"]_vars

\* A placeholder does not stay between us and the server: its message is read after all, or, after
\* the grace period, the placeholder reaches the consumers, unless the process is restarted
\* meanwhile ("so nothing is silently lost").  The timer is armed on the first failed delivery
\* only, and the counter that says which one is the first is cleared by reconnects, heals and
\* restored copies.
Surfaced ==
    \A m \in Msgs :
        (row[m].type = "undecryptable" \/ m \in ghost) ~>
            (row[m].type = "content" \/ m \in surfaced \/ restarted)

=============================================================================
