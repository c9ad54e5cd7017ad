------------------------- MODULE OfflineDrainProofs -------------------------
(***************************************************************************)
(* Proofs about OfflineDrain, for every page size, backlog and number of    *)
(* connections: the types, that a backlog is never left unattended, and     *)
(* that no watchdog ends a drain that is not its own.                       *)
(*                                                                         *)
(* NoSilentStall is not inductive.  When the server ends a page early it is *)
(* the stanzas counted on that page that keep the watchdog awake, so the    *)
(* invariant has to say that a begun page has been counted, unless a newer  *)
(* request is on its way (PageCounted); and the watchdog of the current     *)
(* generation exists from the preview on (PreviewHasDog).                   *)
(***************************************************************************)
EXTENDS OfflineDrain, TLAPS

\* A page the server has begun has left its mark in page_seen.
PageCounted ==
    up /\ previewed /\ queue > 0 /\ begun => asked > 0 \/ page_seen > 0

\* A connection that has seen its preview has a drain of its own.
PreviewHasDog == previewed => generation \in Generations

\* The inductive invariant.
DrainInv == PreviewHasDog /\ NoSilentStall /\ PageCounted

\* A watchdog's move changes one entry of dog.
LEMMA DogType ==
    ASSUME dog \in [Generations -> DogStates], NEW g \in Generations, NEW s \in DogStates
    PROVE  [dog EXCEPT ![g] = s] \in [Generations -> DogStates]
  OBVIOUS

\* RequestPage keeps the types of what it writes.
LEMMA RequestType ==
    ASSUME TypeOK, RequestPage
    PROVE  asked' \in Nat /\ page_seen' \in 0..(PageSize - 1)
  BY DrainAssumption DEF TypeOK, RequestPage, Ask

\* Every step keeps the types; a page never counts up to its size.
LEMMA TypeStep == TypeOK /\ [Next]_vars => TypeOK'
<1> SUFFICES ASSUME TypeOK, [Next]_vars PROVE TypeOK'
  OBVIOUS
<1> USE DrainAssumption
<1>1. CASE Connect
  BY <1>1 DEF TypeOK, Connect
<1>2. CASE Disconnect
  BY <1>2 DEF TypeOK, Disconnect
<1>3. CASE OfflinePreview
  <2>1. generation + 1 \in Generations
    BY <1>3 DEF TypeOK, OfflinePreview, Generations
  <2>2. dog' \in [Generations -> DogStates]
    BY <1>3, <2>1, DogType DEF TypeOK, OfflinePreview, DogStates
  <2>3. /\ up' \in BOOLEAN /\ previewed' \in BOOLEAN /\ ended' \in BOOLEAN
        /\ begun' \in BOOLEAN /\ active' \in BOOLEAN
    BY <1>3 DEF TypeOK, OfflinePreview
  <2>4. /\ queue' \in Nat /\ later' \in Nat /\ queue' + later' <= MaxQueue
        /\ asked' \in Nat /\ page' \in Nat
        /\ generation' \in 0..MaxGeneration
        /\ page_seen' \in 0..(PageSize - 1)
    BY <1>3 DEF TypeOK, OfflinePreview
  <2> QED
    BY <2>2, <2>3, <2>4 DEF TypeOK
<1>4. CASE OfflineStanza
  BY <1>4 DEF TypeOK, OfflineStanza, PageFull, Ask
<1>5. CASE OfflineEnd
  BY <1>5 DEF TypeOK, OfflineEnd
<1>6. CASE Arrives
  BY <1>6 DEF TypeOK, Arrives
<1>7. CASE ServerReads
  <2>1. asked' \in Nat /\ page' \in Nat
    BY <1>7 DEF TypeOK, ServerReads
  <2>2. begun' \in BOOLEAN
    BY <1>7 DEF ServerReads
  <2>3. UNCHANGED <<up, previewed, ended, queue, later, active, generation, page_seen, dog>>
    BY <1>7 DEF ServerReads
  <2> QED
    BY <2>1, <2>2, <2>3 DEF TypeOK
<1>8. CASE ServerStops
  BY <1>8 DEF TypeOK, ServerStops
<1>9. ASSUME NEW g \in Generations, DogStep(g)
      PROVE  TypeOK'
  <2>1. ASSUME NEW s \in DogStates, Wake(g, s) PROVE TypeOK'
    <3>1. dog' \in [Generations -> DogStates]
      BY <2>1, DogType DEF TypeOK, Wake
    <3> QED
      BY <2>1, <3>1 DEF TypeOK, Wake, server
  <2>2. CASE DogLeaves(g) \/ DogSeesIdle(g) \/ DogSeesStall(g)
    BY <2>1, <2>2 DEF DogLeaves, DogSeesIdle, DogSeesStall, DogStates
  <2>3. CASE DogAsks(g)
    <3>1. dog' \in [Generations -> DogStates]
      BY <2>3, DogType DEF TypeOK, DogAsks, DogStates
    <3> QED
      BY <2>3, <3>1, RequestType DEF TypeOK, DogAsks, server
  <2>4. CASE DogFindsNoClient(g)
    <3>1. dog' \in [Generations -> DogStates]
      BY <2>4, DogType DEF TypeOK, DogFindsNoClient, DogStates
    <3> QED
      BY <2>4, <3>1 DEF TypeOK, DogFindsNoClient, server
  <2>5. CASE DogGivesUp(g)
    <3>1. dog' \in [Generations -> DogStates]
      BY <2>5, DogType DEF TypeOK, DogGivesUp, DogStates
    <3>2. active' \in BOOLEAN
      BY <2>5 DEF DogGivesUp
    <3> QED
      BY <2>5, <3>1, <3>2 DEF TypeOK, DogGivesUp, server
  <2> QED
    BY <1>9, <2>2, <2>3, <2>4, <2>5 DEF DogStep
<1>10. CASE UNCHANGED vars
  BY <1>10 DEF TypeOK, vars
<1> QED
  BY <1>1, <1>2, <1>3, <1>4, <1>5, <1>6, <1>7, <1>8, <1>9, <1>10 DEF Next

\* Every step of the client, the server and the watchdogs keeps the drain attended.
LEMMA DrainInvStep == TypeOK /\ DrainInv /\ [Next]_vars => DrainInv'
<1> SUFFICES ASSUME TypeOK, DrainInv, [Next]_vars PROVE DrainInv'
  OBVIOUS
<1> USE DrainAssumption DEF DrainInv, PreviewHasDog, NoSilentStall, PageCounted
<1>1. CASE Connect
  BY <1>1 DEF TypeOK, Connect
<1>2. CASE Disconnect
  BY <1>2 DEF TypeOK, Disconnect
<1>3. CASE OfflinePreview
  <2>1. generation + 1 \in Generations
    BY <1>3 DEF TypeOK, OfflinePreview, Generations
  <2>2. dog'[generation'] = "asleep"
    BY <1>3, <2>1 DEF TypeOK, OfflinePreview
  <2> QED
    BY <1>3, <2>1, <2>2 DEF TypeOK, OfflinePreview
<1>4. CASE OfflineStanza
  BY <1>4 DEF TypeOK, OfflineStanza, PageFull, Ask
<1>5. CASE OfflineEnd
  BY <1>5 DEF TypeOK, OfflineEnd
<1>6. CASE Arrives
  BY <1>6 DEF TypeOK, Arrives
<1>7. CASE ServerReads
  BY <1>7 DEF TypeOK, ServerReads
<1>8. CASE ServerStops
  BY <1>8 DEF TypeOK, ServerStops
<1>9. ASSUME NEW g \in Generations, DogStep(g)
      PROVE  DrainInv'
  <2>1. CASE DogLeaves(g)
    <3>1. ASSUME active PROVE dog'[generation] = dog[generation]
      BY <2>1, <3>1 DEF TypeOK, DogLeaves, Wake
    <3> QED
      BY <2>1, <3>1 DEF TypeOK, DogLeaves, Wake, server
  <2>2. CASE DogSeesIdle(g)
    <3>1. generation = g /\ dog'[generation] = "idle"
      BY <2>2 DEF TypeOK, DogSeesIdle, Wake
    <3> QED
      BY <2>2, <3>1 DEF TypeOK, DogSeesIdle, Wake, server
  <2>3. CASE DogSeesStall(g)
    <3>1. ~(up /\ previewed /\ queue > 0)
      BY <2>3 DEF TypeOK, DogSeesStall, NothingComes
    <3> QED
      BY <2>3, <3>1 DEF DogSeesStall, Wake, server
  <2>4. CASE DogAsks(g)
    <3>1. g = generation => dog'[generation] = "asleep"
      BY <2>4 DEF TypeOK, DogAsks
    <3>2. g # generation => dog'[generation] = dog[generation]
      BY <2>4 DEF TypeOK, DogAsks
    <3>3. active => asked' > 0
      BY <2>4 DEF TypeOK, DogAsks, RequestPage, Ask
    <3> QED
      BY <2>4, <3>1, <3>2, <3>3 DEF TypeOK, DogAsks, server
  <2>5. CASE DogFindsNoClient(g)
    BY <2>5 DEF DogFindsNoClient, server
  <2>6. CASE DogGivesUp(g)
    <3>1. up /\ previewed /\ queue > 0 => g # generation
      BY <2>6 DEF DogGivesUp
    <3>2. g # generation => dog'[generation] = dog[generation]
      BY <2>6 DEF TypeOK, DogGivesUp
    <3>3. g # generation => active' = active
      BY <2>6 DEF TypeOK, DogGivesUp
    <3> QED
      BY <2>6, <3>1, <3>2, <3>3 DEF DogGivesUp, server
  <2> QED
    BY <1>9, <2>1, <2>2, <2>3, <2>4, <2>5, <2>6 DEF DogStep
<1>10. CASE UNCHANGED vars
  BY <1>10 DEF vars
<1> QED
  BY <1>1, <1>2, <1>3, <1>4, <1>5, <1>6, <1>7, <1>8, <1>9, <1>10 DEF Next

\* The initial states have the types and no connection.
LEMMA InitInv == Init => TypeOK /\ DrainInv
<1> SUFFICES ASSUME Init PROVE TypeOK /\ DrainInv
  OBVIOUS
<1>1. queue \in Nat /\ later \in Nat /\ queue + later <= MaxQueue
  BY DrainAssumption DEF Init
<1>2. asked \in Nat /\ page \in Nat /\ generation \in 0..MaxGeneration
      /\ page_seen \in 0..(PageSize - 1)
  BY DrainAssumption DEF Init
<1>3. dog \in [Generations -> DogStates]
  BY DEF Init, DogStates
<1>4. /\ up \in BOOLEAN /\ previewed \in BOOLEAN /\ ended \in BOOLEAN
      /\ begun \in BOOLEAN /\ active \in BOOLEAN
  BY DEF Init
<1> QED
  BY <1>1, <1>2, <1>3, <1>4
  DEF Init, TypeOK, DrainInv, PreviewHasDog, NoSilentStall, PageCounted

\* The fields of struct OfflineDrain keep their ranges; in particular page_seen stays below
\* the page size whatever note_offline_stanza, the watchdogs and reconnects do.
THEOREM TypeCorrect == Spec => []TypeOK
<1>1. Init => TypeOK
  BY InitInv
<1>2. TypeOK /\ [Next]_vars => TypeOK'
  BY TypeStep
<1> QED
  BY <1>1, <1>2, PTL DEF Spec

\* The inductive invariant holds in every reachable state.
LEMMA Attended == Spec => [](TypeOK /\ DrainInv)
<1>1. Init => TypeOK /\ DrainInv
  BY InitInv
<1>2. TypeOK /\ DrainInv /\ [Next]_vars => (TypeOK /\ DrainInv)'
  BY TypeStep, DrainInvStep
<1> QED
  BY <1>1, <1>2, PTL DEF Spec

\* A backlog of a connection that has been announced always has a request, a page in progress
\* or this drain's own watchdog behind it (begin_offline_drain, note_offline_stanza).
THEOREM NoStall == Spec => []NoSilentStall
<1>1. DrainInv => NoSilentStall
  BY DEF DrainInv
<1> QED
  BY <1>1, Attended, PTL

\* A step that ends a drain has no backlog to abandon.
LEMMA AbandonStep ==
    TypeOK /\ DrainInv /\ [Next]_vars /\ active /\ ~active' => ~up \/ ~previewed \/ queue = 0
<1> SUFFICES ASSUME TypeOK, DrainInv, [Next]_vars, active, ~active',
                    up, previewed, queue # 0
             PROVE  FALSE
  OBVIOUS
<1>1. dog[generation] \in {"asleep", "idle"}
  BY DEF TypeOK, DrainInv, NoSilentStall
<1>2. ASSUME NEW g \in Generations, DogStep(g) PROVE FALSE
  BY <1>1, <1>2
  DEF DogStep, DogLeaves, DogSeesIdle, DogSeesStall, Wake, DogAsks, DogFindsNoClient,
      DogGivesUp
<1>3. ~Connect /\ ~Disconnect /\ ~OfflinePreview /\ ~OfflineStanza /\ ~Arrives
      /\ ~ServerReads /\ ~ServerStops
  BY DEF Connect, Disconnect, OfflinePreview, OfflineStanza, Arrives, ServerReads, ServerStops
<1>4. ~OfflineEnd
  BY DEF OfflineEnd
<1>5. active' # active
  OBVIOUS
<1> QED
  BY <1>2, <1>3, <1>4, <1>5 DEF Next, vars

\* The give-up of the watchdog task, decided under the lock and carried out after it, never
\* ends the drain of a connection that still has a backlog.
THEOREM Unabandoned == Spec => NeverAbandoned
<1>1. TypeOK /\ DrainInv /\ [Next]_vars
        => [active /\ ~active' => ~up \/ ~previewed \/ queue = 0]_vars
  BY AbandonStep DEF vars
<1> QED
  BY <1>1, Attended, PTL DEF Spec, NeverAbandoned

=============================================================================
