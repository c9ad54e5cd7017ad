-------------------------------- MODULE Calls --------------------------------
(***************************************************************************)
(* A one-to-one audio call, which the peer makes or we dial: its signalling  *)
(* in the recv loop, the WebSocket tasks of the agents who answer or dial    *)
(* it, the media loop each of them starts, and the audio the peer sends.     *)
(*                                                                         *)
(* An agent's task waits for the relay, for the peer, for its socket and    *)
(* for the media loop, and the peer can hang up meanwhile.  Nothing keeps   *)
(* two agents from answering the same call.  The end of a call is passed on *)
(* by Notify::notify_waiters, which only reaches a task that waits for it:  *)
(* the bridge does so from a certain point on, the media loop whenever it   *)
(* is not dealing with a packet.                                            *)
(*                                                                         *)
(* Of a call id, which is all the maps of the session are keyed by, there    *)
(* is one.  Audio is followed in one direction, from the peer, who is taken  *)
(* to run this code as well, to one agent.  Codecs, the relay's own          *)
(* protocol and the events about the call are left out.                      *)
(***************************************************************************)
EXTENDS Rollover, Sequences

CONSTANTS
    Agents,      \* WebSocket connections
    Followed,    \* the one whose audio is followed
    NoAgent,
    MaxPackets   \* bound on the packets of the peer

ASSUME CallsAssumption ==
    /\ Followed \in Agents
    /\ NoAgent \notin Agents
    /\ MaxPackets \in Nat
    /\ MaxPackets < Seqs * (Rocs - 1)

VARIABLES
    dialled,    \* we call the peer; never changes
    ringing,    \* the offer is in Session::pending_calls
    active,     \* the agent whose Notify is in Session::active_calls
    waiter,     \* Session::outbound_accepts: "none", "waiting", or what became of it
    unspent,    \* the offer's callKey has not been decrypted
    at,         \* where the task of an agent is
    open,       \* agents whose socket is open
    shipped,    \* agents who have shipped an <accept> or an <offer>
    broken,     \* agents whose task ended without a relay after that
    alarm,      \* the bridge's Notified: "none", "waiting" or "fired"
    media,      \* the media loop of an agent: waiting in its "select", "woken" there, "busy"
    peer,       \* the other end: "idle", "ringing", "talking" or "gone"
    inbox,      \* <call> stanzas on their way to us
    told,       \* we have sent a <terminate> or a <reject>
    sender,     \* the peer's RocTracker
    seq,        \* the peer's next sequence number
    sent,       \* packets of the peer so far
    wire,       \* packets on their way
    receiver,   \* our RecvRocTracker
    highest     \* history: the latest packet we have decrypted

maps == <<dialled, ringing, active, waiter, unspent>>
tasks == <<at, open, shipped, broken, alarm, media>>
far == <<peer, inbox, told>>
audio == <<sender, seq, sent, wire, receiver, highest>>
vars == <<maps, tasks, far, audio>>

Init ==
    /\ dialled \in BOOLEAN
    /\ ringing = FALSE
    /\ active = NoAgent
    /\ waiter = "none"
    /\ unspent = TRUE
    /\ at = [a \in Agents |-> "idle"]
    /\ open = {} /\ shipped = {} /\ broken = {}
    /\ alarm = [a \in Agents |-> "none"]
    /\ media = [a \in Agents |-> "off"]
    /\ peer = "idle"
    /\ inbox = <<>>
    /\ told = FALSE
    /\ sender = NewTracker
    /\ seq = 1
    /\ sent = 0
    /\ wire = {}
    /\ receiver = NewTracker
    /\ highest = 0

Goto(a, place) == at' = [at EXCEPT ![a] = place]

(***************************************************************************)
(* The session.                                                             *)
(***************************************************************************)

\* Mutated: the entry stays behind.
EndKeepingEntry == UNCHANGED <<active, alarm, media>>

\* active_call_end: the entry goes, and who waits on its Notify is woken.
End ==
    /\ active' = NoAgent
    /\ IF active = NoAgent
       THEN UNCHANGED <<alarm, media>>
       ELSE /\ alarm' = [alarm EXCEPT ![active] = IF @ = "waiting" THEN "fired" ELSE @]
            /\ media' = [media EXCEPT ![active] = IF @ = "select" THEN "woken" ELSE @]

\* <offer>.
OfferArrives ==
    /\ inbox # <<>> /\ Head(inbox) = "offer"
    /\ inbox' = Tail(inbox)
    /\ ringing' = TRUE
    /\ UNCHANGED <<dialled, active, waiter, unspent, tasks, peer, told, audio>>

\* Too many other calls ring: pending_call_insert evicts this one.
Evicted ==
    /\ ringing
    /\ ringing' = FALSE
    /\ UNCHANGED <<dialled, active, waiter, unspent, tasks, far, audio>>

\* <accept>: outbound_accept_fire.
AcceptArrives ==
    /\ inbox # <<>> /\ Head(inbox) = "accept"
    /\ inbox' = Tail(inbox)
    /\ waiter' = IF waiter = "waiting" THEN "accepted" ELSE waiter
    /\ UNCHANGED <<dialled, ringing, active, unspent, tasks, peer, told, audio>>

\* <terminate> or <reject>.
EndArrives ==
    /\ inbox # <<>> /\ Head(inbox) = "end"
    /\ inbox' = Tail(inbox)
    /\ ringing' = FALSE
    /\ waiter' = IF waiter = "waiting" THEN "dropped" ELSE waiter
    /\ End
    /\ UNCHANGED <<dialled, unspent, at, open, shipped, broken, peer, told, audio>>

\* The reject endpoint looks at none of the maps.
Reject ==
    /\ ~dialled
    /\ peer # "idle"
    /\ told' = TRUE
    /\ UNCHANGED <<maps, tasks, peer, inbox, audio>>

(***************************************************************************)
(* Answering: run_call_audio_bridge.                                        *)
(***************************************************************************)

\* The call rings when the socket is opened.
OpenAnswer(a) ==
    /\ ~dialled
    /\ at[a] = "idle"
    /\ ringing
    /\ open' = open \cup {a}
    /\ Goto(a, "load")
    /\ UNCHANGED <<maps, shipped, broken, alarm, media, far, audio>>

\* decrypt_call_key reads the Signal record and writes it back: once it is written the offer
\* does not decrypt any more.
LoadRecord(a) ==
    /\ at[a] = "load"
    /\ Goto(a, IF unspent THEN "save" ELSE "done")
    /\ UNCHANGED <<maps, open, shipped, broken, alarm, media, far, audio>>

SaveRecord(a) ==
    /\ at[a] = "save"
    /\ unspent' = FALSE
    /\ Goto(a, "accept")
    /\ UNCHANGED <<dialled, ringing, active, waiter, open, shipped, broken, alarm, media, far,
                   audio>>

\* The offer lacks what is needed to answer it, or the session has no connection.
NoRelayInOffer(a) ==
    /\ at[a] = "accept"
    /\ Goto(a, "done")
    /\ UNCHANGED <<maps, open, shipped, broken, alarm, media, far, audio>>

ShipAccept(a) ==
    /\ at[a] = "accept"
    /\ shipped' = shipped \cup {a}
    /\ peer' = IF peer = "ringing" THEN "talking" ELSE peer
    /\ Goto(a, "relay")
    /\ UNCHANGED <<maps, open, broken, alarm, media, inbox, told, audio>>

(***************************************************************************)
(* Dialling: place_call and run_dial_audio_bridge.                          *)
(***************************************************************************)

\* The waiter is registered before the offer is shipped.
OpenDial(a) ==
    /\ dialled
    /\ waiter = "none"
    /\ at[a] = "idle"
    /\ open' = open \cup {a}
    /\ shipped' = shipped \cup {a}
    /\ waiter' = "waiting"
    /\ peer' = "ringing"
    /\ Goto(a, "ack")
    /\ UNCHANGED <<dialled, ringing, active, unspent, broken, alarm, media, inbox, told, audio>>

OfferAcked(a) ==
    /\ at[a] = "ack"
    /\ Goto(a, "relay")
    /\ UNCHANGED <<maps, open, shipped, broken, alarm, media, far, audio>>

\* Ten seconds without an ack, or an ack without a relay.
NotRouted(a) ==
    /\ at[a] = "ack"
    /\ waiter' = "cancelled"
    /\ broken' = broken \cup {a}
    /\ Goto(a, "done")
    /\ UNCHANGED <<dialled, ringing, active, unspent, open, shipped, alarm, media, far, audio>>

\* The peer has picked up.
Picked(a) ==
    /\ at[a] = "pickup"
    /\ waiter = "accepted"
    /\ Goto(a, "start")
    /\ UNCHANGED <<maps, open, shipped, broken, alarm, media, far, audio>>

\* Mutated: nobody tells the peer that the call was given up.
GiveUpQuietly == UNCHANGED told

GiveUp == told' = TRUE

\* A minute is over, or the peer has declined: the peer is told in both cases.
NotPicked(a) ==
    /\ at[a] = "pickup"
    /\ waiter \in {"waiting", "dropped"}
    /\ waiter' = "cancelled"
    /\ GiveUp
    /\ Goto(a, "done")
    /\ UNCHANGED <<dialled, ringing, active, unspent, open, shipped, broken, alarm, media, peer,
                   inbox, audio>>

(***************************************************************************)
(* The relay, and bridge_media_over_ws.                                     *)
(***************************************************************************)

\* connect_and_allocate: an answered call stops ringing only now.
RelayUp(a) ==
    /\ at[a] = "relay"
    /\ ringing' = (ringing /\ dialled)
    /\ Goto(a, IF dialled THEN "pickup" ELSE "start")
    /\ UNCHANGED <<dialled, active, waiter, unspent, open, shipped, broken, alarm, media, far,
                   audio>>

\* The relay does not answer in time, or refuses: the task ends there.
RelayFails(a) ==
    /\ at[a] = "relay"
    /\ broken' = broken \cup {a}
    /\ Goto(a, "done")
    /\ UNCHANGED <<maps, open, shipped, alarm, media, far, audio>>

\* The media loop is spawned and its Notify registered, over that of another agent.
StartMedia(a) ==
    /\ at[a] = "start"
    /\ media' = [media EXCEPT ![a] = "busy"]
    /\ active' = a
    /\ Goto(a, "greet")
    /\ UNCHANGED <<dialled, ringing, waiter, unspent, open, shipped, broken, alarm, far, audio>>

\* The agent has been sent the start message.  From here on the bridge can be woken.
Greet(a) ==
    /\ at[a] = "greet"
    /\ alarm' = [alarm EXCEPT ![a] = "waiting"]
    /\ Goto(a, "bridge")
    /\ UNCHANGED <<maps, open, shipped, broken, media, far, audio>>

\* The call is over for the bridge: its Notify was fired, or its socket is closed.  If the entry
\* is still there, whoever's it is, the peer is told.
HangUp(a) ==
    /\ at[a] = "bridge"
    /\ alarm[a] = "fired" \/ a \notin open
    /\ told' = (told \/ active # NoAgent)
    /\ End
    /\ Goto(a, "join")
    /\ UNCHANGED <<dialled, ringing, waiter, unspent, open, shipped, broken, peer, inbox, audio>>

\* Mutated: the media loop is not awaited.
JoinAtOnce(a) ==
    /\ at[a] = "join"
    /\ Goto(a, "done")
    /\ UNCHANGED <<maps, open, shipped, broken, alarm, media, far, audio>>

Join(a) ==
    /\ at[a] = "join"
    /\ media[a] = "done"
    /\ Goto(a, "done")
    /\ UNCHANGED <<maps, open, shipped, broken, alarm, media, far, audio>>

\* The agent closes its socket, which nobody looks at before the bridge runs.
CloseSocket(a) ==
    /\ a \in open
    /\ open' = open \ {a}
    /\ UNCHANGED <<maps, at, shipped, broken, alarm, media, far, audio>>

(***************************************************************************)
(* The media loop.                                                          *)
(***************************************************************************)

\* A branch of its select ends.
MediaWaits(a) ==
    /\ media[a] = "busy"
    /\ media' = [media EXCEPT ![a] = "select"]
    /\ UNCHANGED <<maps, at, open, shipped, broken, alarm, far, audio>>

\* A tick or a packet.  A select that has been woken may find another branch ready as well and
\* take that one: nothing is left of the wake-up then.
MediaWorks(a) ==
    /\ media[a] \in {"select", "woken"}
    /\ media' = [media EXCEPT ![a] = "busy"]
    /\ UNCHANGED <<maps, at, open, shipped, broken, alarm, far, audio>>

\* It was woken, or the relay is gone.
MediaEnds(a) ==
    /\ media[a] \in {"select", "woken", "busy"}
    /\ media' = [media EXCEPT ![a] = "done"]
    /\ UNCHANGED <<maps, at, open, shipped, broken, alarm, far, audio>>

\* unprotect_audio_rtp: the tag only verifies under the packet's own rollover counter.
Receive(p) ==
    /\ media[Followed] \in {"select", "woken"}
    /\ media' = [media EXCEPT ![Followed] = "busy"]
    /\ IF Estimate(receiver, p.seq) = p.roc
       THEN /\ receiver' = Commit(receiver, p.roc, p.seq)
            /\ highest' = IF p.n > highest THEN p.n ELSE highest
       ELSE UNCHANGED <<receiver, highest>>
    /\ UNCHANGED <<maps, at, open, shipped, broken, alarm, far, sender, seq, sent, wire>>

(***************************************************************************)
(* The peer.  Of its audio every packet may arrive late, again, or never.    *)
(***************************************************************************)

PeerCalls ==
    /\ ~dialled
    /\ peer = "idle"
    /\ peer' = "ringing"
    /\ inbox' = Append(inbox, "offer")
    /\ UNCHANGED <<maps, tasks, told, audio>>

PeerAnswers ==
    /\ dialled
    /\ peer = "ringing"
    /\ peer' = "talking"
    /\ inbox' = Append(inbox, "accept")
    /\ UNCHANGED <<maps, tasks, told, audio>>

\* It declines or hangs up, or is never heard of again.
PeerLeaves ==
    /\ peer \in {"ringing", "talking"}
    /\ peer' = "gone"
    /\ inbox' \in {inbox, Append(inbox, "end")}
    /\ UNCHANGED <<maps, tasks, told, audio>>

PeerSends ==
    /\ peer = "talking"
    /\ sent < MaxPackets
    /\ sent' = sent + 1
    /\ sender' = Advance(sender, seq)
    /\ wire' = wire \cup {[roc |-> sender'.roc, seq |-> seq, n |-> sent']}
    /\ seq' = NextSeq(seq)
    /\ UNCHANGED <<maps, tasks, far, receiver, highest>>

(***************************************************************************)
(* The specification.                                                       *)
(***************************************************************************)

\* An agent's task from the upgrade to its end.  Every wait of it but the last has a timeout.
Task(a) ==
    \/ LoadRecord(a) \/ SaveRecord(a) \/ NoRelayInOffer(a) \/ ShipAccept(a)
    \/ OfferAcked(a) \/ NotRouted(a) \/ Picked(a) \/ NotPicked(a)
    \/ RelayUp(a) \/ RelayFails(a) \/ StartMedia(a) \/ Greet(a) \/ HangUp(a) \/ Join(a)

Stanza == OfferArrives \/ AcceptArrives \/ EndArrives

Next ==
    \/ Stanza \/ Evicted \/ Reject
    \/ PeerCalls \/ PeerAnswers \/ PeerLeaves \/ PeerSends
    \/ \E p \in wire : Receive(p)
    \/ \E a \in Agents :
        \/ OpenAnswer(a) \/ OpenDial(a) \/ CloseSocket(a) \/ Task(a)
        \/ MediaWaits(a) \/ MediaWorks(a) \/ MediaEnds(a)

Fairness == \A a \in Agents : WF_vars(Task(a))

Spec == Init /\ [][Next]_vars

FairSpec == Spec /\ Fairness

(***************************************************************************)
(* Properties.                                                              *)
(***************************************************************************)

\* State invariant: the types, and a media loop exists exactly from the start of the bridge on,
\* and is over when the task is (bridge_media_over_ws awaits it).
TypeOK ==
    /\ dialled \in BOOLEAN /\ ringing \in BOOLEAN /\ unspent \in BOOLEAN /\ told \in BOOLEAN
    /\ active \in Agents \cup {NoAgent}
    /\ waiter \in {"none", "waiting", "accepted", "dropped", "cancelled"}
    /\ at \in [Agents -> {"idle", "load", "save", "accept", "ack", "relay", "pickup", "start",
                          "greet", "bridge", "join", "done"}]
    /\ open \in SUBSET Agents /\ shipped \in SUBSET Agents /\ broken \in SUBSET Agents
    /\ alarm \in [Agents -> {"none", "waiting", "fired"}]
    /\ media \in [Agents -> {"off", "select", "woken", "busy", "done"}]
    /\ peer \in {"idle", "ringing", "talking", "gone"}
    /\ inbox \in Seq({"offer", "accept", "end"})
    /\ sender \in Trackers /\ receiver \in Trackers
    /\ seq \in 0 .. Seqs - 1
    /\ sent \in 0 .. MaxPackets /\ highest \in 0 .. MaxPackets
    /\ wire \in SUBSET [roc : 0 .. Rocs - 1, seq : 0 .. Seqs - 1, n : 1 .. MaxPackets]
    /\ \A a \in Agents :
        /\ at[a] \in {"greet", "bridge", "join"} => media[a] # "off"
        /\ at[a] = "done" => media[a] \in {"off", "done"}

\* A packet the receiver must be able to decrypt: no further from the latest one than half of the
\* sequence numbers, or of the first round when it has not had any.
Near(p) ==
    IF receiver.initialized
    THEN p.n - highest < Half /\ highest - p.n < Half
    ELSE p.n < Seqs

\* Safety: no reordered, repeated or lost packet, and no wrap of the sequence numbers, ever puts
\* the receiver out of step: the counter it estimates for a packet is the one the sender used
\* (RecvRocTracker against RocTracker, call.rs).
InStep == \A p \in wire : Near(p) => Estimate(receiver, p.seq) = p.roc

\* Safety: an entry of active_calls always belongs to a bridge that is still running, whoever
\* answered, hung up or was hung up on, in whatever order: when a bridge ends, the entry, which
\* decides whether the peer is told, is not that of a call that is over (active_call_register
\* and active_call_end, which share one key).
EntryLive == active # NoAgent => at[active] \in {"greet", "bridge"}

\* Liveness: when an agent's socket is closed after the peer was shipped an <accept> or an
\* <offer>, the peer learns that the call is over, unless it left by itself or the relay never
\* worked ("Closing the socket hangs up", docs/CALLS.md).
HangsUp ==
    \A a \in Agents :
        (a \in shipped /\ a \notin open) ~> (told \/ peer = "gone" \/ a \in broken)

=============================================================================
