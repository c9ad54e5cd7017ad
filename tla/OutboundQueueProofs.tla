------------------------- MODULE OutboundQueueProofs -------------------------
(***************************************************************************)
(* Proofs about OutboundQueue, for any set of messages and any number of    *)
(* faults: the types, that no accepted message is lost, that only the       *)
(* server's answer makes a message "delivered", and that the table keeps    *)
(* the promise of Custody.                                                  *)
(*                                                                         *)
(* None of the three is inductive.  The bound on the copies of an op needs  *)
(* to know who may still push one (CopiesInv); the two others need that     *)
(* acks, and with them the waiters that will delete a row, exist only for   *)
(* answered messages (AnswerInv), and that the row is there from before the *)
(* push (RowInv).                                                           *)
(***************************************************************************)
EXTENDS OutboundQueue, TLAPS

\* An op gets its copies from one push and one drain: before its push, and before the drain of
\* a parked channel, there is one less.
CopiesInv ==
    \A m \in Msgs :
        /\ status[m] = "none" => m \notin table /\ m \notin pushing /\ chan[m] = 0
        /\ m \in pushing => chan[m] <= 1
        /\ holder = "parked" => chan[m] <= 1
        /\ holder = "parked" /\ m \in pushing => chan[m] = 0

\* Acks and waiters about to delete a row belong to answered messages.
AnswerInv == acks \subseteq answered /\ marked \subseteq answered

\* The row is written before the push.
RowInv == \A m \in pushing \cup accepted : m \in table \/ m \in answered \/ m \in fileGone

\* The inductive invariant.
QueueInv == CopiesInv /\ AnswerInv /\ RowInv /\ DeliveredMeansAcked

\* The initial states satisfy it.
LEMMA InitInv == Init => TypeOK /\ QueueInv
<1> SUFFICES ASSUME Init PROVE TypeOK /\ QueueInv
  OBVIOUS
<1>1. chan \in [Msgs -> 0..2] /\ faults \in 0..MaxFaults
  BY FaultsAssumption DEF Init, Empty
<1>2. up \in BOOLEAN
  BY DEF Init
<1>3. /\ status \in [Msgs -> {"none", "queued", "sent", "delivered"}]
      /\ holder \in {"parked", "live", "dead"}
      /\ taken \in Msgs \cup {None}
  BY DEF Init
<1>4. TypeOK
  BY <1>1, <1>2, <1>3 DEF Init, TypeOK
<1>5. CopiesInv
  <2>1. table = {} /\ pushing = {} /\ \A m \in Msgs : chan[m] = 0
    BY DEF Init, Empty
  <2>2. ASSUME NEW m \in Msgs PROVE chan[m] <= 1
    <3>1. chan[m] = 0
      BY <2>1
    <3> QED
      BY <3>1
  <2> QED
    BY <2>1, <2>2, Zenon DEF CopiesInv
<1> QED
  BY <1>4, <1>5 DEF Init, QueueInv, AnswerInv, RowInv, DeliveredMeansAcked

USE DEF handler, channel, network, waiters, outside

\* What every step does to the channel keeps its type: at most two copies of an op.
LEMMA ChanType ==
    ASSUME TypeOK, CopiesInv, [Next]_vars
    PROVE  chan' \in [Msgs -> 0..2]
<1> USE DEF TypeOK
<1>1. ASSUME NEW m \in Msgs, Push(m) PROVE chan' \in [Msgs -> 0..2]
  <2>1. chan[m] + 1 \in 0..2
    BY <1>1 DEF Push, CopiesInv
  <2> QED
    BY <1>1, <2>1 DEF Push
<1>2. ASSUME NEW m \in Msgs, PumpTake(m) PROVE chan' \in [Msgs -> 0..2]
  <2>1. chan[m] - 1 \in 0..2
    BY <1>2 DEF PumpTake
  <2> QED
    BY <1>2, <2>1 DEF PumpTake
<1>3. CASE ConnUpDrains
  <2>1. \A m \in Msgs : chan[m] + Drained(m) \in 0..2
    BY <1>3 DEF ConnUpDrains, CopiesInv, Drained
  <2> QED
    BY <1>3, <2>1 DEF ConnUpDrains
<1>4. CASE ConnEnds \/ Crash
  BY <1>4 DEF ConnEnds, ResetSendQueue, Crash, Empty
<1>5. ASSUME NEW m \in Msgs, MsgStep(m), ~Push(m), ~PumpTake(m)
      PROVE  chan' \in [Msgs -> 0..2]
  BY <1>5
  DEF MsgStep, Persist, PumpShips, PumpFails, StrayShips, ServerTakes, AckArrives, AckTimesOut,
      WaiterDeletes
<1>6. CASE ConnUpWithoutPump \/ ConnAborted \/ UNCHANGED vars
  BY <1>6 DEF ConnUpWithoutPump, ConnAborted, vars
<1> QED
  BY <1>1, <1>2, <1>3, <1>4, <1>5, <1>6 DEF Next

\* A status is only ever replaced by one of the three an update writes.
LEMMA StatusType ==
    ASSUME TypeOK, [Next]_vars
    PROVE  /\ status' \in [Msgs -> {"none", "queued", "sent", "delivered"}]
           /\ \A m \in Msgs : status'[m] = "none" => status[m] = "none"
<1> USE DEF TypeOK
<1>1. ASSUME NEW m \in Msgs, MsgStep(m)
      PROVE  status' = status
             \/ \E s \in {"queued", "sent", "delivered"} : status' = [status EXCEPT ![m] = s]
  BY <1>1
  DEF MsgStep, Persist, Push, PumpTake, PumpShips, PumpFails, StrayShips, ServerTakes,
      AckArrives, AckTimesOut, WaiterDeletes
<1>2. CASE \/ ConnUpDrains \/ ConnUpWithoutPump \/ ConnEnds \/ ConnAborted \/ Crash
           \/ UNCHANGED vars
  BY <1>2 DEF ConnUpDrains, ConnUpWithoutPump, ConnEnds, ConnAborted, Crash, vars
<1> QED
  BY <1>1, <1>2 DEF Next

\* Every step keeps the types.
LEMMA TypeStep == TypeOK /\ CopiesInv /\ [Next]_vars => TypeOK'
<1> SUFFICES ASSUME TypeOK, CopiesInv, [Next]_vars PROVE TypeOK'
  OBVIOUS
<1>1. chan' \in [Msgs -> 0..2]
  BY ChanType
<1>2. status' \in [Msgs -> {"none", "queued", "sent", "delivered"}]
  BY StatusType
<1>3. faults' \in 0..MaxFaults
  BY FaultsAssumption
  DEF TypeOK, Next, vars, MsgStep, Persist, Push, PumpTake, PumpShips, PumpFails, StrayShips,
      ServerTakes, AckArrives, AckTimesOut, WaiterDeletes, ConnUpDrains, ConnUpWithoutPump,
      ConnEnds, ConnAborted, Crash, Fault
<1>4. up' \in BOOLEAN
  BY DEF TypeOK, Next, vars, MsgStep, Persist, Push, PumpTake, PumpShips, PumpFails, StrayShips,
      ServerTakes, AckArrives, AckTimesOut, WaiterDeletes, ConnUpDrains, ConnUpWithoutPump,
      ConnEnds, ConnAborted, WireGone, Crash
<1>5. /\ table' \subseteq Msgs
      /\ pushing' \subseteq Msgs
      /\ accepted' \subseteq Msgs
  BY DEF TypeOK, Next, vars, MsgStep, Persist, Push, PumpTake, PumpShips, PumpFails, StrayShips,
      ServerTakes, AckArrives, AckTimesOut, WaiterDeletes, ConnUpDrains, ConnUpWithoutPump,
      ConnEnds, ConnAborted, Crash, Kept
<1>6. /\ holder' \in {"parked", "live", "dead"}
      /\ taken' \in Msgs \cup {None}
      /\ stray' \subseteq Msgs
  BY DEF TypeOK, Next, vars, MsgStep, Persist, Push, PumpTake, PumpShips, PumpFails, StrayShips,
      ServerTakes, AckArrives, AckTimesOut, WaiterDeletes, ConnUpDrains, ConnUpWithoutPump,
      ConnEnds, ConnAborted, Crash, ResetSendQueue
<1>7. /\ wire' \subseteq Msgs /\ acks' \subseteq Msgs
      /\ waiting' \subseteq Msgs /\ marked' \subseteq Msgs
  BY DEF TypeOK, Next, vars, MsgStep, Persist, Push, PumpTake, PumpShips, PumpFails, StrayShips,
      ServerTakes, AckArrives, AckTimesOut, WaiterDeletes, ConnUpDrains, ConnUpWithoutPump,
      ConnEnds, ConnAborted, WireGone, Crash
<1>8. /\ answered' \subseteq Msgs
      /\ fileGone' \subseteq Media
  BY DEF TypeOK, Next, vars, MsgStep, Persist, Push, PumpTake, PumpShips, PumpFails, StrayShips,
      ServerTakes, AckArrives, AckTimesOut, WaiterDeletes, ConnUpDrains, ConnUpWithoutPump,
      ConnEnds, ConnAborted, Crash
<1> QED
  BY <1>1, <1>2, <1>3, <1>4, <1>5, <1>6, <1>7, <1>8 DEF TypeOK

\* Copies are added by a push, once, and by the drain of a parked channel, once.
LEMMA CopiesStep == TypeOK /\ CopiesInv /\ [Next]_vars => CopiesInv'
<1> SUFFICES ASSUME TypeOK, CopiesInv, [Next]_vars PROVE CopiesInv'
  OBVIOUS
<1> USE DEF CopiesInv
<1>0. \A m \in Msgs : chan[m] \in 0..2
  BY DEF TypeOK
<1>s. \A m \in Msgs : status'[m] = "none" => status[m] = "none"
  BY StatusType
<1>1. ASSUME NEW m \in Msgs, MsgStep(m) PROVE CopiesInv'
  <2>1. CASE Persist(m)
    <3>1. status'[m] = "queued"
      BY <2>1 DEF TypeOK, Persist
    <3> QED
      BY <1>0, <1>s, <2>1, <3>1 DEF Persist
  <2>2. CASE Push(m)
    <3>1. /\ chan'[m] = chan[m] + 1
          /\ \A n \in Msgs \ {m} : chan'[n] = chan[n]
      BY <2>2 DEF TypeOK, Push
    <3> QED
      BY <1>0, <1>s, <2>2, <3>1 DEF Push
  <2>3. CASE PumpTake(m)
    <3>1. /\ chan'[m] = chan[m] - 1
          /\ \A n \in Msgs \ {m} : chan'[n] = chan[n]
      BY <2>3 DEF TypeOK, PumpTake
    <3> QED
      BY <1>0, <1>s, <2>3, <3>1 DEF PumpTake
  <2>4. CASE \/ PumpShips(m) \/ PumpFails(m) \/ StrayShips(m) \/ ServerTakes(m)
             \/ AckArrives(m) \/ AckTimesOut(m)
    <3>1. UNCHANGED <<table, pushing, chan, holder>>
      BY <2>4 DEF PumpShips, PumpFails, StrayShips, ServerTakes, AckArrives, AckTimesOut
    <3> QED
      BY <1>s, <3>1
  <2>5. CASE WaiterDeletes(m)
    BY <1>s, <2>5 DEF WaiterDeletes
  <2> QED
    BY <1>1, <2>1, <2>2, <2>3, <2>4, <2>5 DEF MsgStep
<1>2. CASE ConnUpDrains
  <2>1. \A m \in Msgs : chan'[m] = chan[m] + Drained(m) /\ Drained(m) \in {0, 1}
    BY <1>2 DEF ConnUpDrains, Drained
  <2>2. \A m \in Msgs : m \notin table => Drained(m) = 0
    BY DEF Drained
  <2>3. holder = "parked" /\ holder' = "live" /\ UNCHANGED <<status, pushing>>
        /\ table' \subseteq table
    BY <1>2 DEF ConnUpDrains, Kept
  <2> QED
    BY <1>0, <2>1, <2>2, <2>3
<1>3. CASE ConnEnds \/ Crash
  <2>1. /\ \A m \in Msgs : chan'[m] = 0
        /\ UNCHANGED <<status, table>>
        /\ pushing' \subseteq pushing
    BY <1>3 DEF ConnEnds, ResetSendQueue, Crash, Empty
  <2> QED
    BY <2>1
<1>4. CASE ConnUpWithoutPump \/ ConnAborted
  BY <1>4 DEF ConnUpWithoutPump, ConnAborted
<1>5. CASE UNCHANGED vars
  BY <1>5 DEF vars
<1> QED
  BY <1>1, <1>2, <1>3, <1>4, <1>5 DEF Next

\* What the server has answered stays answered, and only it makes acks.
LEMMA AnswerStep == TypeOK /\ AnswerInv /\ [Next]_vars => AnswerInv' /\ answered \subseteq answered'
<1> SUFFICES ASSUME TypeOK, AnswerInv, [Next]_vars
             PROVE  AnswerInv' /\ answered \subseteq answered'
  OBVIOUS
<1>1. ASSUME NEW m \in Msgs, MsgStep(m) PROVE AnswerInv' /\ answered \subseteq answered'
  BY <1>1
  DEF AnswerInv, MsgStep, Persist, Push, PumpTake, PumpShips, PumpFails, StrayShips,
      ServerTakes, AckArrives, AckTimesOut, WaiterDeletes
<1>2. CASE \/ ConnUpDrains \/ ConnUpWithoutPump \/ ConnEnds \/ ConnAborted \/ Crash
           \/ UNCHANGED vars
  BY <1>2
  DEF AnswerInv, ConnUpDrains, ConnUpWithoutPump, ConnEnds, ConnAborted, WireGone, Crash, vars
<1> QED
  BY <1>1, <1>2 DEF Next

\* A row goes away by the waiter of an answered message or by the loss of its file.
LEMMA RowStep == TypeOK /\ AnswerInv /\ RowInv /\ [Next]_vars => RowInv'
<1> SUFFICES ASSUME TypeOK, AnswerInv, RowInv, [Next]_vars PROVE RowInv'
  OBVIOUS
<1>1. answered \subseteq answered'
  BY AnswerStep
<1>2. ASSUME NEW m \in Msgs, MsgStep(m) PROVE RowInv'
  <2>1. CASE Persist(m)
    BY <1>1, <2>1 DEF RowInv, Persist
  <2>2. CASE Push(m)
    BY <1>1, <2>2 DEF RowInv, Push
  <2>3. CASE \/ PumpTake(m) \/ PumpShips(m) \/ PumpFails(m) \/ StrayShips(m)
             \/ ServerTakes(m) \/ AckArrives(m) \/ AckTimesOut(m)
    <3>1. UNCHANGED <<table, pushing, accepted, fileGone>>
      BY <2>3
      DEF PumpTake, PumpShips, PumpFails, StrayShips, ServerTakes, AckArrives, AckTimesOut
    <3> QED
      BY <1>1, <3>1 DEF RowInv
  <2>4. CASE WaiterDeletes(m)
    BY <1>1, <2>4 DEF RowInv, AnswerInv, WaiterDeletes
  <2> QED
    BY <1>2, <2>1, <2>2, <2>3, <2>4 DEF MsgStep
<1>3. CASE ConnUpDrains
  BY <1>1, <1>3 DEF RowInv, ConnUpDrains, Kept
<1>4. CASE Crash
  BY <1>1, <1>4 DEF RowInv, Crash, TypeOK
<1>5. CASE ConnUpWithoutPump \/ ConnEnds \/ ConnAborted \/ UNCHANGED vars
  BY <1>1, <1>5 DEF RowInv, ConnUpWithoutPump, ConnEnds, ConnAborted, vars
<1> QED
  BY <1>2, <1>3, <1>4, <1>5 DEF Next

\* Only the arrival of an ack writes "delivered".
LEMMA DeliveredStep ==
    TypeOK /\ AnswerInv /\ DeliveredMeansAcked /\ [Next]_vars => DeliveredMeansAcked'
<1> SUFFICES ASSUME TypeOK, AnswerInv, DeliveredMeansAcked, [Next]_vars
             PROVE  DeliveredMeansAcked'
  OBVIOUS
<1>1. answered \subseteq answered'
  BY AnswerStep
<1>2. ASSUME NEW m \in Msgs, MsgStep(m) PROVE DeliveredMeansAcked'
  <2>1. CASE AckArrives(m)
    BY <1>1, <2>1 DEF DeliveredMeansAcked, AnswerInv, AckArrives, TypeOK
  <2>2. CASE ~AckArrives(m)
    <3>1. status' = status
          \/ \E s \in {"queued", "sent"} : status' = [status EXCEPT ![m] = s]
      BY <1>2, <2>2
      DEF MsgStep, Persist, Push, PumpTake, PumpShips, PumpFails, StrayShips, ServerTakes,
          AckTimesOut, WaiterDeletes
    <3> QED
      BY <1>1, <3>1 DEF DeliveredMeansAcked, TypeOK
  <2> QED
    BY <2>1, <2>2
<1>3. CASE \/ ConnUpDrains \/ ConnUpWithoutPump \/ ConnEnds \/ ConnAborted \/ Crash
           \/ UNCHANGED vars
  <2>1. UNCHANGED status
    BY <1>3 DEF ConnUpDrains, ConnUpWithoutPump, ConnEnds, ConnAborted, Crash, vars
  <2> QED
    BY <1>1, <2>1 DEF DeliveredMeansAcked
<1> QED
  BY <1>2, <1>3 DEF Next

\* The inductive invariant holds in every reachable state.
LEMMA QueueInvariant == Spec => [](TypeOK /\ QueueInv)
<1>1. Init => TypeOK /\ QueueInv
  BY InitInv
<1>2. TypeOK /\ QueueInv /\ [Next]_vars => (TypeOK /\ QueueInv)'
  BY TypeStep, CopiesStep, AnswerStep, RowStep, DeliveredStep DEF QueueInv
<1> QED
  BY <1>1, <1>2, PTL DEF Spec

\* Type correctness, and with it that an op is never in the channel more than twice: its
\* handler's push (enqueue_send) and the drain of its row are the only sources.
THEOREM TypeCorrect == Spec => []TypeOK
  BY QueueInvariant, PTL

\* Whatever fails, times out, crashes or is sent twice, an accepted message keeps its
\* outbound_queue row until the server has answered it or its upload is gone.
THEOREM NothingLost == Spec => []NoLostMessage
<1>1. QueueInv => NoLostMessage
  BY DEF QueueInv, RowInv, NoLostMessage
<1> QED
  BY <1>1, QueueInvariant, PTL

\* update_message_status(..., "delivered") is reached only by the server's <ack>.
THEOREM DeliveredIsAcked == Spec => []DeliveredMeansAcked
<1>1. QueueInv => DeliveredMeansAcked
  BY DEF QueueInv
<1> QED
  BY <1>1, QueueInvariant, PTL

(***************************************************************************)
(* The refinement of Custody.                                               *)
(***************************************************************************)

Safe == answered \cup fileGone

\* A row is deleted by the waiter of an answered message, or by a drain because its file is gone.
LEMMA RowsGo ==
    ASSUME TypeOK, AnswerInv, ConnUpDrains \/ \E m \in Msgs : WaiterDeletes(m)
    PROVE  Outbox!Next
<1>1. UNCHANGED Safe
  BY DEF ConnUpDrains, WaiterDeletes, Safe
<1>2. CASE ConnUpDrains
  <2>1. fileGone \in SUBSET Msgs
    BY MsgsAssumption DEF TypeOK
  <2>2. Outbox!LetGo(fileGone)
    BY <1>1, <1>2 DEF Outbox!LetGo, ConnUpDrains, Kept, Safe
  <2> QED
    BY <2>1, <2>2 DEF Outbox!Next
<1>3. ASSUME NEW m \in Msgs, WaiterDeletes(m) PROVE Outbox!Next
  <2>1. {m} \subseteq Safe /\ table' = table \ {m}
    BY <1>3 DEF AnswerInv, WaiterDeletes, Safe
  <2>2. Outbox!LetGo({m})
    BY <1>1, <2>1 DEF Outbox!LetGo, Safe
  <2> QED
    BY <2>2 DEF Outbox!Next
<1> QED
  BY <1>2, <1>3

\* Every step is a step of Custody or none.
LEMMA CustodyStep ==
    ASSUME TypeOK, AnswerInv, [Next]_vars
    PROVE  [Outbox!Next]_<<table, Safe>>
<1>1. ASSUME NEW m \in Msgs, Persist(m) PROVE Outbox!Next
  <2>1. Outbox!Undertake({m})
    BY <1>1 DEF Outbox!Undertake, Persist
  <2> QED
    BY <2>1 DEF Outbox!Next
<1>2. ASSUME NEW m \in Msgs, ServerTakes(m) PROVE Outbox!Next
  <2>1. Outbox!Secure({m})
    BY <1>2 DEF Outbox!Secure, ServerTakes
  <2> QED
    BY <2>1 DEF Outbox!Next
<1>3. CASE Crash
  <2>1. fileGone \subseteq fileGone' /\ fileGone' \in SUBSET Msgs
    BY <1>3, MsgsAssumption DEF Crash, TypeOK
  <2>2. Outbox!Secure(fileGone')
    BY <1>3, <2>1 DEF Outbox!Secure, Crash
  <2> QED
    BY <2>1, <2>2 DEF Outbox!Next
<1>4. ASSUME NEW m \in Msgs,
             \/ Push(m) \/ PumpTake(m) \/ PumpShips(m) \/ PumpFails(m) \/ StrayShips(m)
             \/ AckArrives(m) \/ AckTimesOut(m)
      PROVE  UNCHANGED <<table, Safe>>
  BY <1>4
  DEF Push, PumpTake, PumpShips, PumpFails, StrayShips, AckArrives, AckTimesOut, Safe
<1>5. CASE ConnUpWithoutPump \/ ConnEnds \/ ConnAborted \/ UNCHANGED vars
  BY <1>5 DEF ConnUpWithoutPump, ConnEnds, ConnAborted, vars, Safe
<1> QED
  BY <1>1, <1>2, <1>3, <1>4, <1>5, RowsGo DEF Next, MsgStep

\* outbound_queue is an outbox: no row goes before the server has answered it or its upload is
\* gone, for any messages and through any number of faults.
THEOREM Refinement == Spec => KeepsCustody
<1>1. Init => Outbox!Init
  BY DEF Init, Outbox!Init
<1>2. TypeOK /\ QueueInv /\ [Next]_vars => [Outbox!Next]_<<table, Safe>>
  BY CustodyStep DEF QueueInv
<1> QED
  BY <1>1, <1>2, QueueInvariant, PTL DEF Spec, KeepsCustody, Outbox!Spec, Safe

=============================================================================
