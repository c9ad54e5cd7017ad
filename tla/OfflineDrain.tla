---------------------------- MODULE OfflineDrain ----------------------------
(***************************************************************************)
(* The paged drain of the server's offline queue: struct OfflineDrain, its  *)
(* four methods on Session, and the watchdog task each drain spawns.        *)
(*                                                                         *)
(* After login the server announces its backlog (offline_preview), delivers *)
(* a page per request, says nothing at the end of a page that is not full,  *)
(* and holds live messages back until the backlog is empty.  The client     *)
(* therefore asks again when a page is full and, from the watchdog, when a  *)
(* page that has begun goes quiet.                                          *)
(*                                                                         *)
(* The drain's state belongs to the session: it survives a reconnect, and   *)
(* so do watchdogs, which send through whatever connection is current.      *)
(*                                                                         *)
(* Time is abstracted: a page that has begun may look idle at any moment.   *)
(* A page looks stalled only where nothing is going to come; a server that  *)
(* takes longer than OFFLINE_PAGE_START_TIMEOUT to begin a page is outside  *)
(* the model.                                                               *)
(***************************************************************************)
EXTENDS Naturals

CONSTANTS
    PageSize,      \* OFFLINE_PAGE_SIZE
    MaxQueue,      \* bound: stanzas that are ever queued
    MaxAsked,      \* bound: page requests the server has not read yet
    MaxGeneration  \* bound: drains, one per connection

ASSUME DrainAssumption ==
    /\ PageSize \in Nat \ {0}
    /\ MaxQueue \in Nat
    /\ MaxAsked \in Nat \ {0}
    /\ MaxGeneration \in Nat \ {0}

VARIABLES
    up,          \* a connection, and with it the iq_client, exists
    previewed,   \* it has seen the server's offline_preview
    ended,       \* it has seen the end marker
    queue,       \* stanzas left at the server
    later,       \* stanzas that will still be queued
    asked,       \* page requests on their way
    page,        \* stanzas the server may still deliver for the request it serves
    begun,       \* it has delivered at least one for it
    active, generation, page_seen,  \* the fields of struct OfflineDrain
    dog          \* the watchdog of each generation

server == <<previewed, ended, queue, later, page, begun>>
vars == <<up, previewed, ended, queue, later, asked, page, begun,
          active, generation, page_seen, dog>>

Generations == 1..MaxGeneration

\* A watchdog sleeps, has found the page idle or stalled, or has exited.
DogStates == {"none", "asleep", "idle", "stall", "exited"}

Init ==
    /\ up = FALSE
    /\ previewed = FALSE
    /\ ended = FALSE
    /\ queue \in 0..MaxQueue
    /\ later = MaxQueue - queue
    /\ asked = 0
    /\ page = 0
    /\ begun = FALSE
    /\ active = FALSE
    /\ generation = 0
    /\ page_seen = 0
    /\ dog = [g \in Generations |-> "none"]

(***************************************************************************)
(* The connection.                                                          *)
(***************************************************************************)

Connect ==
    /\ ~up
    /\ generation < MaxGeneration
    /\ up' = TRUE
    /\ previewed' = FALSE
    /\ ended' = FALSE
    /\ UNCHANGED <<queue, later, asked, page, begun, active, generation, page_seen, dog>>

\* What is on the wire is lost; the drain's fields are left as they are.
Disconnect ==
    /\ up
    /\ generation < MaxGeneration
    /\ up' = FALSE
    /\ previewed' = FALSE
    /\ asked' = 0
    /\ page' = 0
    /\ begun' = FALSE
    /\ UNCHANGED <<ended, queue, later, active, generation, page_seen, dog>>

(***************************************************************************)
(* The client.                                                              *)
(***************************************************************************)

\* The page request on the wire (mutated: left out while the server is busy with a page).
AskUnlessBusy == asked' = IF page > 0 THEN asked ELSE asked + 1

Ask == asked' = asked + 1

\* request_offline_page: nothing when no drain is active.
RequestPage ==
    \/ /\ active
       /\ asked < MaxAsked
       /\ page_seen' = 0
       /\ Ask
    \/ /\ ~active
       /\ UNCHANGED <<page_seen, asked>>

\* begin_offline_drain, its first request and its watchdog.  A small backlog is streamed
\* without being asked for.
OfflinePreview ==
    /\ up
    /\ ~previewed
    /\ generation < MaxGeneration
    /\ previewed' = TRUE
    /\ active' = TRUE
    /\ generation' = generation + 1
    /\ page_seen' = 0
    /\ asked' = 1
    /\ page' \in {0, queue}
    /\ begun' = FALSE
    /\ dog' = [dog EXCEPT ![generation + 1] = "asleep"]
    /\ UNCHANGED <<up, ended, queue, later>>

\* page_seen >= OFFLINE_PAGE_SIZE
PageFull(n) == n >= PageSize

\* note_offline_stanza: a full page asks for the next.
OfflineStanza ==
    /\ up
    /\ previewed
    /\ page > 0
    /\ queue > 0
    /\ queue' = queue - 1
    /\ page' = page - 1
    /\ begun' = TRUE
    /\ \/ /\ ~active
          /\ UNCHANGED <<page_seen, asked>>
       \/ /\ active
          /\ ~PageFull(page_seen + 1)
          /\ page_seen' = page_seen + 1
          /\ UNCHANGED asked
       \/ /\ active
          /\ PageFull(page_seen + 1)
          /\ page_seen' = 0
          /\ Ask
    /\ UNCHANGED <<up, previewed, ended, later, active, generation, dog>>

\* finish_offline_drain
OfflineEnd ==
    /\ up
    /\ previewed
    /\ queue = 0
    /\ ~ended
    /\ ended' = TRUE
    /\ active' = FALSE
    /\ UNCHANGED <<up, previewed, queue, later, asked, page, begun, generation, page_seen,
                   dog>>

(***************************************************************************)
(* The watchdog of generation g.  It looks under the lock, releases it, and *)
(* acts on what it saw.                                                     *)
(***************************************************************************)

Wake(g, state) ==
    /\ dog[g] = "asleep"
    /\ dog' = [dog EXCEPT ![g] = state]
    /\ UNCHANGED <<up, server, asked, active, generation, page_seen>>

DogLeaves(g) ==
    /\ ~active \/ generation # g
    /\ Wake(g, "exited")

DogSeesIdle(g) ==
    /\ active /\ generation = g
    /\ page_seen > 0
    /\ asked < MaxAsked
    /\ Wake(g, "idle")

\* Nothing comes: no connection, or a connection before its preview, or an empty queue.
NothingComes == ~up \/ ~previewed \/ queue = 0 \/ (asked = 0 /\ page = 0)

DogSeesStall(g) ==
    /\ active /\ generation = g
    /\ page_seen = 0
    /\ NothingComes
    /\ Wake(g, "stall")

\* The next page, through the current connection's dispatcher.
DogAsksOnce(g) ==
    /\ dog[g] = "idle"
    /\ up
    /\ RequestPage
    /\ dog' = [dog EXCEPT ![g] = "exited"]
    /\ UNCHANGED <<up, server, active, generation>>

DogAsks(g) ==
    /\ dog[g] = "idle"
    /\ up
    /\ RequestPage
    /\ dog' = [dog EXCEPT ![g] = "asleep"]
    /\ UNCHANGED <<up, server, active, generation>>

DogFindsNoClient(g) ==
    /\ dog[g] = "idle"
    /\ ~up
    /\ dog' = [dog EXCEPT ![g] = "exited"]
    /\ UNCHANGED <<up, server, asked, active, generation, page_seen>>

\* The drain is given up, if it is still this watchdog's.
DogGivesUpBlindly(g) ==
    /\ dog[g] = "stall"
    /\ active' = FALSE
    /\ dog' = [dog EXCEPT ![g] = "exited"]
    /\ UNCHANGED <<up, server, asked, generation, page_seen>>

DogGivesUp(g) ==
    /\ dog[g] = "stall"
    /\ active' = (active /\ generation # g)
    /\ dog' = [dog EXCEPT ![g] = "exited"]
    /\ UNCHANGED <<up, server, asked, generation, page_seen>>

(***************************************************************************)
(* The server, as the client's comments describe it.                        *)
(***************************************************************************)

\* A message for this device: queued while it is away or the backlog is not drained.
Arrives ==
    /\ later > 0
    /\ ~previewed \/ queue > 0
    /\ queue' = queue + 1
    /\ later' = later - 1
    /\ UNCHANGED <<up, previewed, ended, asked, page, begun, active, generation, page_seen,
                   dog>>

\* It turns to the next request when it is done with a page.
ServerReads ==
    /\ up
    /\ asked > 0
    /\ page = 0
    /\ asked' = asked - 1
    /\ page' = PageSize
    /\ begun' = FALSE
    /\ UNCHANGED <<up, previewed, ended, queue, later, active, generation, page_seen, dog>>

\* It ends a page before it is full, without a word.
ServerStops ==
    /\ up
    /\ begun
    /\ page > 0
    /\ page' = 0
    /\ UNCHANGED <<up, previewed, ended, queue, later, asked, begun, active, generation,
                   page_seen, dog>>

DogStep(g) ==
    \/ DogLeaves(g) \/ DogSeesIdle(g) \/ DogSeesStall(g)
    \/ DogAsks(g) \/ DogFindsNoClient(g) \/ DogGivesUp(g)

Next ==
    \/ Connect \/ Disconnect
    \/ OfflinePreview \/ OfflineStanza \/ OfflineEnd
    \/ Arrives \/ ServerReads \/ ServerStops
    \/ \E g \in Generations : DogStep(g)

\* The server serves the requests it reads, the recv loop takes what arrives, and a watchdog
\* polls every 500 ms.
Fairness ==
    /\ WF_vars(Connect)
    /\ WF_vars(OfflinePreview)
    /\ WF_vars(OfflineStanza)
    /\ WF_vars(OfflineEnd)
    /\ WF_vars(ServerReads)
    /\ \A g \in Generations : WF_vars(DogStep(g))

Spec == Init /\ [][Next]_vars /\ Fairness

(***************************************************************************)
(* Properties.                                                              *)
(***************************************************************************)

\* Types of the variables; a page never counts up to its size without being renewed.
TypeOK ==
    /\ up \in BOOLEAN
    /\ previewed \in BOOLEAN
    /\ ended \in BOOLEAN
    /\ queue \in Nat
    /\ later \in Nat
    /\ queue + later <= MaxQueue
    /\ asked \in Nat
    /\ page \in Nat
    /\ begun \in BOOLEAN
    /\ active \in BOOLEAN
    /\ generation \in 0..MaxGeneration
    /\ page_seen \in 0..(PageSize - 1)
    /\ dog \in [Generations -> DogStates]

\* A backlog is never left without somebody who will move it: a request is on its way, the
\* server is still on a page, or the page has begun and the idle watchdog of this very drain is
\* watching it (begin_offline_drain: "so a partial page (no end marker) can't stall the
\* drain").
NoSilentStall ==
    up /\ previewed /\ queue > 0 =>
        /\ active
        /\ dog[generation] \in {"asleep", "idle"}
        /\ asked > 0 \/ page > 0 \/ page_seen > 0

\* No step ends the drain of a connection that still has a backlog, in particular not the
\* give-up of an earlier connection's watchdog, decided before the new preview.
NeverAbandoned ==
    [][active /\ ~active' => ~up \/ ~previewed \/ queue = 0]_vars

\* On a connection that lasts the backlog is drained to the end and the drain is over.
DrainCompletes ==
    <>[]up => <>[](queue = 0 /\ ~active)

=============================================================================
