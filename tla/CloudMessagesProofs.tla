------------------------ MODULE CloudMessagesProofs ------------------------
(***************************************************************************)
(* Proofs about CloudMessages, for every set of messages, every number of   *)
(* concurrent webhook deliveries and any egress targets: a step in the life *)
(* of an outbound message is announced once (LifecycleOnce), the state of a *)
(* row is announced or about to be (RowAnnounced), and what is due to a     *)
(* target is news to it (DueIsNews).                                        *)
(*                                                                         *)
(* An event is on the bus, or in the hands of one handler that has written  *)
(* the row and not sent the event yet.  The invariant counts both (Once):   *)
(* for a given message and status there is one such place at most, and none *)
(* that the row has not reached (Reached).  Whoever takes the right to send *)
(* the event moves the row past it in the same statement, so that nobody    *)
(* can take it twice.                                                       *)
(***************************************************************************)
EXTENDS CloudMessages, FiniteSetTheorems, SequenceTheorems, TLAPS

Events == (Inbound \cup Outbound) \X ({"message"} \cup Statuses)

Places == {"idle", "message", "echo", "status", "insert", "emit"}

\* Types of what the properties are about; what a handler has in hand fits where it is.
TypeOK ==
    /\ emitted \in Seq(Events)
    /\ rows \in [Inbound \cup Outbound -> {"none", "null"} \cup Statuses]
    /\ task \in [Tasks -> [at : Places, item : Items \cup {Idle.item}]]
    /\ \A k \in Tasks :
          /\ task[k].at # "idle" => task[k].item \in Items
          /\ task[k].at \in {"message", "echo", "status"} => task[k].item.kind = task[k].at
          /\ task[k].at = "insert" => task[k].item.kind \in {"message", "echo"}
    /\ call \in [Outbound -> {"new", "accepted", "refused", "elsewhere", "recorded", "failed",
                              "done", "broken"}]
    /\ restarts \in Nat

\* The event is on the bus.
Said(event) == \E n \in 1 .. Len(emitted) : emitted[n] = event

\* It has been put there once at most.
Single(event) ==
    \A i, j \in 1 .. Len(emitted) : emitted[i] = event /\ emitted[j] = event => i = j

\* A delivery, or the API call, is about to put an event of a message's life there.
TaskSays(k, o, s) ==
    /\ task[k].at = "emit"
    /\ task[k].item.kind # "message"
    /\ task[k].item.id = o
    /\ task[k].item.status = s

CallSays(o, s) == call[o] = "recorded" /\ s = "sent"

\* An event of the life of an outbound message is in one place at most.
Once ==
    \A o \in Outbound, s \in Statuses :
        /\ Single(Event(o, s))
        /\ \A k \in Tasks : TaskSays(k, o, s) =>
              /\ ~Said(Event(o, s)) /\ ~CallSays(o, s)
              /\ \A l \in Tasks : TaskSays(l, o, s) => l = k
        /\ CallSays(o, s) => ~Said(Event(o, s))

\* The row has reached every status that is in some place.
Reached ==
    \A o \in Outbound, s \in Statuses :
        Said(Event(o, s)) \/ CallSays(o, s) \/ (\E k \in Tasks : TaskSays(k, o, s))
            => Rank(s) <= Rank(rows[o])

\* The event that belongs to the state of a row.
RowEvent(id) == Event(id, IF rows[id] = "null" THEN "message" ELSE rows[id])

\* RowAnnounced, said without counting.
Told ==
    \A id \in Inbound \cup Outbound :
        rows[id] # "none" => Said(RowEvent(id)) \/ AboutTo(RowEvent(id)) \/ restarts > 0

Inv == TypeOK /\ Once /\ Reached /\ Told

(***************************************************************************)
(* Operators.                                                               *)
(***************************************************************************)

\* status_rank_sql: every reported status ranks above a row without one.
LEMMA RankFacts ==
    /\ \A s \in {"none", "null"} \cup Statuses : Rank(s) \in Nat
    /\ \A s \in {"none", "null"} : Rank(s) = 0
    /\ \A s \in Statuses : Rank(s) > 0
BY DEF Rank, Statuses

\* What Meta delivers.
LEMMA ItemFacts ==
    ASSUME NEW i \in Items
    PROVE  \/ i.kind = "message" /\ i.id \in Inbound /\ i.status = "null"
           \/ i.kind = "echo" /\ i.id \in Outbound /\ i.status = "sent"
           \/ i.kind = "status" /\ i.id \in Outbound /\ i.status \in Statuses
BY CloudAssumption DEF Items, Item, Statuses

\* The events of an item: no two alike, and one of the message's life at most.
LEMMA AnnounceFacts ==
    ASSUME NEW i \in Items
    PROVE  /\ Announces(i) \in Seq(Events)
           /\ \A m, n \in 1 .. Len(Announces(i)) : Announces(i)[m] = Announces(i)[n] => m = n
           /\ \A o \in Outbound, s \in Statuses :
                 (\E n \in 1 .. Len(Announces(i)) : Announces(i)[n] = Event(o, s))
                    <=> (i.kind # "message" /\ i.id = o /\ i.status = s)
           /\ i.kind = "message" =>
                 \E n \in 1 .. Len(Announces(i)) : Announces(i)[n] = Event(i.id, "message")
<1>1. CASE i.kind = "message"
  <2>1. Announces(i) = <<Event(i.id, "message")>> /\ i.id \in Inbound
    BY <1>1, ItemFacts DEF Announces
  <2>2. Event(i.id, "message") \in Events
    BY <2>1 DEF Event, Events
  <2> QED
    BY <1>1, <2>1, <2>2 DEF Event, Statuses
<1>2. CASE i.kind = "echo"
  <2>1. Announces(i) = <<Event(i.id, "message"), Event(i.id, "sent")>>
        /\ i.id \in Outbound /\ i.status = "sent"
    BY <1>2, ItemFacts DEF Announces
  <2>2. Event(i.id, "message") \in Events /\ Event(i.id, "sent") \in Events
    BY <2>1 DEF Event, Events, Statuses
  <2> QED
    BY <1>2, <2>1, <2>2 DEF Event, Statuses
<1>3. CASE i.kind = "status"
  <2>1. Announces(i) = <<Event(i.id, i.status)>> /\ i.id \in Outbound /\ i.status \in Statuses
    BY <1>3, ItemFacts DEF Announces
  <2>2. Event(i.id, i.status) \in Events
    BY <2>1 DEF Event, Events
  <2> QED
    BY <1>3, <2>1, <2>2 DEF Event, Statuses
<1> QED
  BY <1>1, <1>2, <1>3, ItemFacts

\* Emit: the bus says what it said before and the new events, each in one place if it was new.
LEMMA EmitFacts ==
    ASSUME emitted \in Seq(Events), NEW a \in Seq(Events), Emit(a),
           \A m, n \in 1 .. Len(a) : a[m] = a[n] => m = n
    PROVE  /\ emitted' \in Seq(Events)
           /\ \A event : Said(event)' <=> (Said(event) \/ \E n \in 1 .. Len(a) : a[n] = event)
           /\ \A event :
                 Single(event) /\ ((\E n \in 1 .. Len(a) : a[n] = event) => ~Said(event))
                     => Single(event)'
<1> DEFINE old == Len(emitted)
           new == Len(a)
<1>1. /\ emitted' = emitted \o a /\ emitted' \in Seq(Events)
      /\ old \in Nat /\ new \in Nat /\ Len(emitted') = old + new
  BY DEF Emit
<1>2. \A i \in 1 .. old : i \in 1 .. Len(emitted') /\ emitted'[i] = emitted[i]
  BY <1>1
<1>3. \A i \in 1 .. Len(emitted') :
         \/ i \in 1 .. old /\ emitted'[i] = emitted[i]
         \/ i - old \in 1 .. new /\ emitted'[i] = a[i - old]
  BY <1>1
<1>4. \A n \in 1 .. new : old + n \in 1 .. Len(emitted') /\ emitted'[old + n] = a[n]
  BY <1>1
<1> HIDE DEF old, new
<1>5. ASSUME NEW event
      PROVE  Said(event)' <=> (Said(event) \/ \E n \in 1 .. new : a[n] = event)
  BY <1>2, <1>3, <1>4 DEF Said, old
<1>6. ASSUME NEW event, Single(event),
             (\E n \in 1 .. new : a[n] = event) => ~Said(event),
             NEW i \in 1 .. Len(emitted'), NEW j \in 1 .. Len(emitted'),
             emitted'[i] = event, emitted'[j] = event
      PROVE  i = j
  <2>1. CASE i \in 1 .. old /\ emitted'[i] = emitted[i]
    <3>1. Said(event)
      BY <1>6, <2>1 DEF Said, old
    <3>2. j \in 1 .. old /\ emitted'[j] = emitted[j]
      BY <1>3, <1>6, <3>1
    <3> QED
      BY <1>6, <2>1, <3>2 DEF Single, old
  <2>2. CASE i - old \in 1 .. new /\ emitted'[i] = a[i - old]
    <3>1. ~Said(event)
      BY <1>6, <2>2
    <3>2. j - old \in 1 .. new /\ emitted'[j] = a[j - old]
      BY <1>3, <1>6, <3>1 DEF Said, old
    <3>3. i - old = j - old
      BY <1>6, <2>2, <3>2 DEF new
    <3> QED
      BY <1>1, <3>3
  <2> QED
    BY <1>3, <2>1, <2>2
<1>7. ASSUME NEW event, Single(event),
             (\E n \in 1 .. new : a[n] = event) => ~Said(event)
      PROVE  Single(event)'
  BY <1>6, <1>7 DEF Single
<1> QED
  BY <1>1, <1>5, <1>7 DEF new

\* Among the events of an item is the one of the row that it writes.
LEMMA ItemSaysRow ==
    ASSUME NEW i \in Items
    PROVE  \E n \in DOMAIN Announces(i) :
              Announces(i)[n] = Event(i.id, IF i.status = "null" THEN "message" ELSE i.status)
<1>1. DOMAIN Announces(i) = 1 .. Len(Announces(i))
  BY AnnounceFacts
<1>2. CASE i.kind = "message"
  <2>1. i.status = "null"
    BY <1>2, ItemFacts
  <2> QED
    BY <1>1, <1>2, <2>1, AnnounceFacts
<1>3. CASE i.kind # "message"
  <2>1. i.id \in Outbound /\ i.status \in Statuses /\ i.status # "null"
    BY <1>3, ItemFacts DEF Statuses
  <2>2. \E n \in 1 .. Len(Announces(i)) : Announces(i)[n] = Event(i.id, i.status)
    BY <1>3, <2>1, AnnounceFacts
  <2> QED
    BY <1>1, <2>1, <2>2
<1> QED
  BY <1>2, <1>3

(***************************************************************************)
(* Steps that neither write a row nor send an event.                        *)
(***************************************************************************)

LEMMA QuietInv ==
    ASSUME Inv, TypeOK', emitted' = emitted, rows' = rows, restarts' = restarts,
           \A o \in Outbound : call'[o] = "recorded" <=> call[o] = "recorded",
           \A k \in Tasks :
              /\ task[k].at = "emit" => task'[k] = task[k]
              /\ task'[k].at = "emit" => task'[k] = task[k] \/ task'[k].item.kind = "message"
    PROVE  Inv'
<1>1. \A event : (Said(event)' <=> Said(event)) /\ (Single(event)' <=> Single(event))
  BY DEF Said, Single
<1>2. \A o \in Outbound, s \in Statuses : CallSays(o, s)' <=> CallSays(o, s)
  BY DEF CallSays
<1>3. \A k \in Tasks, o \in Outbound, s \in Statuses : TaskSays(k, o, s)' => TaskSays(k, o, s)
  BY DEF TaskSays
<1>4. Once'
  BY <1>1, <1>2, <1>3 DEF Inv, Once
<1>5. Reached'
  BY <1>1, <1>2, <1>3 DEF Inv, Reached
<1>6. ASSUME NEW event, AboutTo(event) PROVE AboutTo(event)'
  BY <1>6 DEF AboutTo
<1>7. Told'
  BY <1>1, <1>6 DEF Inv, Told, RowEvent
<1> QED
  BY <1>4, <1>5, <1>7 DEF Inv

\* The type invariant when one handler, or none, moves on.
LEMMA TaskType ==
    ASSUME TypeOK, NEW k \in Tasks, NEW t \in [at : Places, item : Items \cup {Idle.item}],
           t.at # "idle" => t.item \in Items,
           t.at \in {"message", "echo", "status"} => t.item.kind = t.at,
           t.at = "insert" => t.item.kind \in {"message", "echo"},
           task' = [task EXCEPT ![k] = t],
           emitted' \in Seq(Events),
           rows' \in [Inbound \cup Outbound -> {"none", "null"} \cup Statuses],
           call' = call, restarts' = restarts
    PROVE  TypeOK'
BY DEF TypeOK

\* A handler that ends, or goes on with the item it has.
LEMMA MoveFacts ==
    ASSUME TypeOK, NEW k \in Tasks
    PROVE  /\ Idle \in [at : Places, item : Items \cup {Idle.item}] /\ Idle.at = "idle"
           /\ Finish(k) => task' = [task EXCEPT ![k] = Idle]
           /\ \A place \in Places :
                 LET t == [task[k] EXCEPT !.at = place]
                 IN  /\ t \in [at : Places, item : Items \cup {Idle.item}]
                     /\ t.at = place /\ t.item = task[k].item
                     /\ Goto(k, place) => task' = [task EXCEPT ![k] = t]
<1>1. Idle \in [at : Places, item : Items \cup {Idle.item}] /\ Idle.at = "idle"
  BY DEF Idle, Places
<1>2. task \in [Tasks -> [at : Places, item : Items \cup {Idle.item}]]
  BY DEF TypeOK
<1> QED
  BY <1>1, <1>2 DEF Finish, Goto

\* A delivery arrives, or is dropped: its message is known, its status no advance, the store
\* fails.
LEMMA TaskQuietInv ==
    ASSUME Inv, NEW k \in Tasks,
           \/ \E i \in Items : Arrives(k, i)
           \/ CheckKnown(k) \/ SkipItem(k)
           \/ InsertRow(k) /\ rows[task[k].item.id] # "none"
           \/ AdvanceStatus(k) /\ ~Advances(task[k].item.id, task[k].item.status)
    PROVE  Inv'
<1> DEFINE T == [at : Places, item : Items \cup {Idle.item}]
<1>1. /\ TypeOK /\ task[k] \in T /\ emitted \in Seq(Events)
      /\ rows \in [Inbound \cup Outbound -> {"none", "null"} \cup Statuses]
  BY DEF Inv, TypeOK
<1>2. /\ task[k].at # "emit"
      /\ emitted' = emitted /\ rows' = rows /\ call' = call /\ restarts' = restarts
  BY <1>1, MoveFacts DEF Arrives, CheckKnown, SkipItem, InsertRow, AdvanceStatus, egress
<1> DEFINE Becomes(t) ==
             /\ task' = [task EXCEPT ![k] = t]
             /\ t.at # "idle" => t.item \in Items
             /\ t.at \in {"message", "echo", "status"} => t.item.kind = t.at
             /\ t.at = "insert" => t.item.kind \in {"message", "echo"}
             /\ t.at = "emit" => t.item.kind = "message"
<1>3. \E t \in T : Becomes(t)
  <2>1. CASE Finish(k)
    BY <1>1, <2>1, MoveFacts
  <2>2. CASE UNCHANGED task
    BY <1>1, <1>2, <2>2 DEF TypeOK
  <2>3. ASSUME NEW i \in Items, task' = [task EXCEPT ![k] = [at |-> i.kind, item |-> i]]
        PROVE  \E t \in T : Becomes(t)
    <3> DEFINE u == [at |-> i.kind, item |-> i]
    <3>1. u \in T /\ u.at = i.kind /\ u.item = i
      BY ItemFacts DEF Places
    <3>2. i.kind \in {"message", "echo", "status"}
      BY ItemFacts
    <3>3. task' = [task EXCEPT ![k] = u]
      BY <2>3
    <3> HIDE DEF u
    <3> QED
      BY <3>1, <3>2, <3>3
  <2>4. CASE CheckKnown(k) /\ Goto(k, "insert")
    <3> DEFINE u == [task[k] EXCEPT !.at = "insert"]
    <3>1. u \in T /\ u.at = "insert" /\ u.item = task[k].item /\ task' = [task EXCEPT ![k] = u]
      BY <1>1, <2>4, MoveFacts DEF Places
    <3>2. task[k].item \in Items /\ task[k].item.kind \in {"message", "echo"}
      BY <1>1, <2>4 DEF CheckKnown, TypeOK
    <3> HIDE DEF u
    <3> QED
      BY <3>1, <3>2
  <2>5. CASE InsertRow(k) /\ task[k].item.kind = "message" /\ Goto(k, "emit")
    <3> DEFINE u == [task[k] EXCEPT !.at = "emit"]
    <3>1. u \in T /\ u.at = "emit" /\ u.item = task[k].item /\ task' = [task EXCEPT ![k] = u]
      BY <1>1, <2>5, MoveFacts DEF Places
    <3>2. task[k].item \in Items
      BY <1>1, <2>5 DEF InsertRow, TypeOK
    <3> HIDE DEF u
    <3> QED
      BY <2>5, <3>1, <3>2
  <2> QED
    BY <2>1, <2>2, <2>3, <2>4, <2>5 DEF Arrives, CheckKnown, SkipItem, InsertRow, AdvanceStatus
<1>4. PICK t \in T : Becomes(t)
  BY <1>3
<1>5. TypeOK'
  BY <1>1, <1>2, <1>4, TaskType
<1>6. \A l \in Tasks :
         /\ task[l].at = "emit" => task'[l] = task[l]
         /\ task'[l].at = "emit" => task'[l] = task[l] \/ task'[l].item.kind = "message"
  BY <1>1, <1>2, <1>4 DEF TypeOK
<1> QED
  BY <1>2, <1>5, <1>6, QuietInv

\* The calls, the worker and the session's status.
LEMMA OtherQuietInv ==
    ASSUME Inv,
           \/ WorkerStep \/ Connect \/ Logout
           \/ \E o \in Outbound : Send(o) \/ (RecordOutbound(o) /\ rows[o] # "none")
           \/ UNCHANGED vars
    PROVE  Inv'
<1>1. emitted' = emitted
  BY DEF WorkerStep, Worker, Lagged, Receive, Delivered, Fails, BackoffOver, BadConfig, Connect,
     Logout, Send, RecordOutbound, egress, vars
<1>2. rows' = rows /\ task' = task /\ restarts' = restarts
  BY DEF WorkerStep, Connect, Logout, Send, RecordOutbound, CallTo, cloud, vars
<1>3. /\ call' \in [Outbound -> {"new", "accepted", "refused", "elsewhere", "recorded",
                                 "failed", "done", "broken"}]
      /\ \A o \in Outbound : call'[o] = "recorded" <=> call[o] = "recorded"
  BY DEF WorkerStep, Connect, Logout, Send, RecordOutbound, CallTo, cloud, vars, Inv, TypeOK
<1>4. TypeOK'
  BY <1>1, <1>2, <1>3 DEF Inv, TypeOK
<1> QED
  BY <1>1, <1>2, <1>3, <1>4, QuietInv

(***************************************************************************)
(* Steps that write a row.                                                  *)
(***************************************************************************)

\* A delivery inserts the row or advances its status, and has the event in hand.
LEMMA TaskWritesInv ==
    ASSUME Inv, NEW k \in Tasks,
           \/ InsertRow(k) /\ rows[task[k].item.id] = "none"
           \/ AdvanceStatus(k) /\ Advances(task[k].item.id, task[k].item.status)
    PROVE  Inv'
<1>0. PICK i : i = task[k].item
  OBVIOUS
<1> DEFINE T == [at : Places, item : Items \cup {Idle.item}]
           t == [task[k] EXCEPT !.at = "emit"]
<1>1. /\ TypeOK /\ emitted \in Seq(Events)
      /\ rows \in [Inbound \cup Outbound -> {"none", "null"} \cup Statuses]
      /\ task \in [Tasks -> T]
  BY DEF Inv, TypeOK
<1>2. task[k].at \in {"insert", "status"} /\ i \in Items
  BY <1>0, <1>1 DEF InsertRow, AdvanceStatus, TypeOK
<1>3. /\ rows' = [rows EXCEPT ![i.id] = i.status]
      /\ Goto(k, "emit")
      /\ emitted' = emitted /\ call' = call /\ restarts' = restarts
  BY <1>0 DEF InsertRow, AdvanceStatus, egress
<1>4. t \in T /\ t.at = "emit" /\ t.item = i /\ task' = [task EXCEPT ![k] = t]
  BY <1>0, <1>1, <1>3, MoveFacts DEF Places
<1> HIDE DEF t
<1>5. i.id \in Inbound \cup Outbound /\ i.status \in {"null"} \cup Statuses
  BY <1>2, ItemFacts DEF Statuses
<1>6. TypeOK'
  <2>1. rows' \in [Inbound \cup Outbound -> {"none", "null"} \cup Statuses]
    BY <1>1, <1>3, <1>5
  <2> QED
    BY <1>1, <1>2, <1>3, <1>4, <2>1, TaskType
<1>7. i.kind # "message" => i.id \in Outbound /\ i.status \in Statuses
                            /\ Rank(rows[i.id]) < Rank(i.status)
  <2>1. CASE InsertRow(k) /\ rows[task[k].item.id] = "none"
    BY <1>0, <1>2, <2>1, ItemFacts, RankFacts DEF Statuses
  <2>2. CASE AdvanceStatus(k) /\ Advances(task[k].item.id, task[k].item.status)
    <3>1. Rank(rows[i.id]) < Rank(i.status)
      BY <1>0, <1>1, <1>5, <2>2, RankFacts DEF Advances
    <3> QED
      BY <1>2, <3>1, ItemFacts DEF Statuses
  <2> QED
    BY <2>1, <2>2
<1>row. rows'[i.id] = i.status /\ \A id \in Inbound \cup Outbound : id # i.id => rows'[id] = rows[id]
  BY <1>1, <1>3, <1>5
<1>rank. \A o \in Outbound : Rank(rows[o]) \in Nat /\ Rank(rows'[o]) \in Nat
  <2>1. \A o \in Outbound : /\ rows[o] \in {"none", "null"} \cup Statuses
                            /\ rows'[o] \in {"none", "null"} \cup Statuses
    BY <1>6, <1>1 DEF TypeOK
  <2> QED
    BY <2>1, RankFacts
<1>8. \A o \in Outbound : Rank(rows[o]) <= Rank(rows'[o])
  <2> SUFFICES ASSUME NEW o \in Outbound PROVE Rank(rows[o]) <= Rank(rows'[o])
    OBVIOUS
  <2>0. Rank(rows[o]) \in Nat /\ Rank(rows'[o]) \in Nat
    BY <1>rank
  <2>1. CASE o = i.id
    <3>1. i.kind # "message"
      BY <1>2, <2>1, ItemFacts, CloudAssumption
    <3>2. rows'[o] = i.status /\ Rank(rows[o]) < Rank(i.status)
      BY <1>7, <1>row, <2>1, <3>1
    <3>3. Rank(rows[o]) < Rank(rows'[o])
      BY <3>2
    <3> QED
      BY <2>0, <3>3
  <2>2. CASE o # i.id
    <3>1. Rank(rows'[o]) = Rank(rows[o])
      BY <1>row, <2>2
    <3> QED
      BY <2>0, <3>1
  <2> QED
    BY <2>1, <2>2
<1>9. /\ \A event : (Said(event)' <=> Said(event)) /\ (Single(event)' <=> Single(event))
      /\ \A o \in Outbound, s \in Statuses : CallSays(o, s)' <=> CallSays(o, s)
  BY <1>3 DEF Said, Single, CallSays
<1>10. \A l \in Tasks, o \in Outbound, s \in Statuses :
          TaskSays(l, o, s)' =>
              TaskSays(l, o, s)
                  \/ (l = k /\ i.kind # "message" /\ o = i.id /\ s = i.status)
  BY <1>1, <1>4 DEF TaskSays
<1>11. i.kind # "message" =>
          /\ ~Said(Event(i.id, i.status)) /\ ~CallSays(i.id, i.status)
          /\ \A l \in Tasks : ~TaskSays(l, i.id, i.status)
  <2> SUFFICES ASSUME i.kind # "message"
               PROVE  /\ ~Said(Event(i.id, i.status)) /\ ~CallSays(i.id, i.status)
                      /\ \A l \in Tasks : ~TaskSays(l, i.id, i.status)
    OBVIOUS
  <2>1. i.id \in Outbound /\ i.status \in Statuses /\ Rank(rows[i.id]) < Rank(i.status)
    BY <1>7
  <2>2. Rank(rows[i.id]) \in Nat /\ Rank(i.status) \in Nat
    BY <1>rank, <2>1, RankFacts
  <2>3. ~(Rank(i.status) <= Rank(rows[i.id]))
    BY <2>1, <2>2
  <2> QED
    BY <2>1, <2>3 DEF Inv, Reached
<1>12. Once'
  BY <1>9, <1>10, <1>11 DEF Inv, Once
<1>13. Reached'
  <2> SUFFICES ASSUME NEW o \in Outbound, NEW s \in Statuses,
                      Said(Event(o, s))' \/ CallSays(o, s)'
                          \/ \E l \in Tasks : TaskSays(l, o, s)'
               PROVE  Rank(s) <= Rank(rows'[o])
    BY DEF Reached
  <2>1. CASE i.kind # "message" /\ o = i.id /\ s = i.status
    <3>1. Rank(rows'[o]) = Rank(s) /\ Rank(rows'[o]) \in Nat
      BY <1>row, <1>rank, <2>1
    <3> QED
      BY <3>1
  <2>2. CASE ~(i.kind # "message" /\ o = i.id /\ s = i.status)
    <3>1. Rank(s) <= Rank(rows[o])
      BY <1>9, <1>10, <2>2 DEF Inv, Reached
    <3>2. Rank(s) \in Nat /\ Rank(rows[o]) \in Nat /\ Rank(rows'[o]) \in Nat
      BY <1>1, <1>6, RankFacts DEF TypeOK
    <3> QED
      BY <1>8, <3>1, <3>2
  <2> QED
    BY <2>1, <2>2
<1>14. Told'
  <2> SUFFICES ASSUME NEW id \in Inbound \cup Outbound, rows'[id] # "none"
               PROVE  Said(RowEvent(id))' \/ AboutTo(RowEvent(id))' \/ restarts' > 0
    BY DEF Told
  <2>1. CASE id = i.id
    <3>1. RowEvent(id)' = Event(i.id, IF i.status = "null" THEN "message" ELSE i.status)
      BY <1>1, <1>3, <1>5, <2>1 DEF RowEvent
    <3>2. task'[k].at = "emit" /\ task'[k].item = i
      BY <1>1, <1>4
    <3> QED
      BY <1>2, <3>1, <3>2, ItemSaysRow DEF AboutTo
  <2>2. CASE id # i.id
    <3>1. rows'[id] = rows[id] /\ RowEvent(id)' = RowEvent(id)
      BY <1>1, <1>3, <2>2 DEF RowEvent
    <3>2. \A l \in Tasks : task[l].at = "emit" => task'[l] = task[l]
      BY <1>1, <1>2, <1>4
    <3>3. ASSUME NEW event, AboutTo(event) PROVE AboutTo(event)'
      BY <1>3, <3>2, <3>3 DEF AboutTo
    <3> QED
      BY <1>3, <1>9, <3>1, <3>3 DEF Inv, Told
  <2> QED
    BY <2>1, <2>2
<1> QED
  BY <1>6, <1>12, <1>13, <1>14 DEF Inv

\* An API call inserts the row of its message and has the event in hand: nobody had one before it,
\* for there was no row.
LEMMA CallWritesInv ==
    ASSUME Inv, NEW c \in Outbound, RecordOutbound(c), rows[c] = "none"
    PROVE  Inv'
<1>1. /\ TypeOK
      /\ rows \in [Inbound \cup Outbound -> {"none", "null"} \cup Statuses]
      /\ call \in [Outbound -> {"new", "accepted", "refused", "elsewhere", "recorded", "failed",
                                "done", "broken"}]
  BY DEF Inv, TypeOK
<1>2. /\ rows' = [rows EXCEPT ![c] = "sent"] /\ call' = [call EXCEPT ![c] = "recorded"]
      /\ emitted' = emitted /\ task' = task /\ restarts' = restarts
  BY DEF RecordOutbound, CallTo, egress
<1>3. /\ rows'[c] = "sent" /\ call'[c] = "recorded"
      /\ \A id \in Inbound \cup Outbound : id # c => rows'[id] = rows[id]
      /\ \A o \in Outbound : o # c => call'[o] = call[o]
  BY <1>1, <1>2
<1>4. /\ rows' \in [Inbound \cup Outbound -> {"none", "null"} \cup Statuses]
      /\ call' \in [Outbound -> {"new", "accepted", "refused", "elsewhere", "recorded", "failed",
                                 "done", "broken"}]
  BY <1>1, <1>2 DEF Statuses
<1>5. TypeOK'
  BY <1>1, <1>2, <1>4 DEF TypeOK
<1>6. /\ \A event : (Said(event)' <=> Said(event)) /\ (Single(event)' <=> Single(event))
      /\ \A k \in Tasks, o \in Outbound, s \in Statuses : TaskSays(k, o, s)' <=> TaskSays(k, o, s)
      /\ \A o \in Outbound, s \in Statuses :
            CallSays(o, s)' => CallSays(o, s) \/ (o = c /\ s = "sent")
  BY <1>2, <1>3 DEF Said, Single, TaskSays, CallSays
<1>7. ASSUME NEW s \in Statuses
      PROVE  /\ ~Said(Event(c, s)) /\ ~CallSays(c, s)
             /\ \A k \in Tasks : ~TaskSays(k, c, s)
  <2>1. ~(Rank(s) <= Rank(rows[c]))
    <3>1. Rank(rows[c]) = 0 /\ Rank(s) \in Nat /\ Rank(s) > 0
      BY RankFacts
    <3> QED
      BY <3>1
  <2> QED
    BY <2>1 DEF Inv, Reached
<1>8. Once'
  BY <1>6, <1>7 DEF Inv, Once
<1>9. Reached'
  <2> SUFFICES ASSUME NEW o \in Outbound, NEW s \in Statuses,
                      Said(Event(o, s))' \/ CallSays(o, s)'
                          \/ \E l \in Tasks : TaskSays(l, o, s)'
               PROVE  Rank(s) <= Rank(rows'[o])
    BY DEF Reached
  <2>1. CASE o = c
    <3>1. s = "sent"
      BY <1>6, <1>7, <2>1
    <3>2. Rank(rows'[o]) = Rank(s) /\ Rank(s) \in Nat
      BY <1>3, <2>1, <3>1, RankFacts
    <3> QED
      BY <3>2
  <2>2. CASE o # c
    <3>1. rows'[o] = rows[o]
      BY <1>3, <2>2
    <3>2. Rank(s) <= Rank(rows[o])
      BY <1>6, <2>2 DEF Inv, Reached
    <3> QED
      BY <3>1, <3>2
  <2> QED
    BY <2>1, <2>2
<1>10. Told'
  <2> SUFFICES ASSUME NEW id \in Inbound \cup Outbound, rows'[id] # "none"
               PROVE  Said(RowEvent(id))' \/ AboutTo(RowEvent(id))' \/ restarts' > 0
    BY DEF Told
  <2>1. CASE id = c
    <3>1. RowEvent(id)' = Event(c, "sent")
      BY <1>3, <2>1 DEF RowEvent
    <3> QED
      BY <1>3, <3>1 DEF AboutTo
  <2>2. CASE id # c
    <3>1. rows'[id] = rows[id] /\ RowEvent(id)' = RowEvent(id)
      BY <1>3, <2>2 DEF RowEvent
    <3>2. \A o \in Outbound : call[o] = "recorded" => call'[o] = "recorded"
      BY <1>3
    <3>3. ASSUME NEW event, AboutTo(event) PROVE AboutTo(event)'
      BY <1>2, <3>2, <3>3 DEF AboutTo
    <3> QED
      BY <1>2, <1>6, <3>1, <3>3 DEF Inv, Told
  <2> QED
    BY <2>1, <2>2
<1> QED
  BY <1>5, <1>8, <1>9, <1>10 DEF Inv

(***************************************************************************)
(* Steps that send events.                                                  *)
(***************************************************************************)

\* Whoever has the event of a message's life in hand puts it on the bus and has it no longer.
LEMMA SendInv ==
    ASSUME Inv, TypeOK', NEW a \in Seq(Events), Emit(a),
           \A m, n \in 1 .. Len(a) : a[m] = a[n] => m = n,
           rows' = rows, restarts' = restarts,
           \A k \in Tasks, o \in Outbound, s \in Statuses :
              TaskSays(k, o, s)' => /\ TaskSays(k, o, s)
                                    /\ \A n \in 1 .. Len(a) : a[n] # Event(o, s),
           \A o \in Outbound, s \in Statuses :
              CallSays(o, s)' => /\ CallSays(o, s)
                                 /\ \A n \in 1 .. Len(a) : a[n] # Event(o, s),
           \A o \in Outbound, s \in Statuses :
              (\E n \in 1 .. Len(a) : a[n] = Event(o, s)) =>
                  CallSays(o, s) \/ \E k \in Tasks : TaskSays(k, o, s),
           \A event : AboutTo(event) => AboutTo(event)' \/ \E n \in 1 .. Len(a) : a[n] = event
    PROVE  Inv'
<1>1. emitted \in Seq(Events)
  BY DEF Inv, TypeOK
<1>2. /\ \A event : Said(event)' <=> (Said(event) \/ \E n \in 1 .. Len(a) : a[n] = event)
      /\ \A event :
            Single(event) /\ ((\E n \in 1 .. Len(a) : a[n] = event) => ~Said(event))
                => Single(event)'
  BY <1>1, EmitFacts
<1>3. Once'
  <2> SUFFICES ASSUME NEW o \in Outbound, NEW s \in Statuses
               PROVE  /\ Single(Event(o, s))'
                      /\ \A k \in Tasks : TaskSays(k, o, s)' =>
                            /\ ~Said(Event(o, s))' /\ ~CallSays(o, s)'
                            /\ \A l \in Tasks : TaskSays(l, o, s)' => l = k
                      /\ CallSays(o, s)' => ~Said(Event(o, s))'
    BY DEF Once
  <2>1. /\ Single(Event(o, s))
        /\ \A k \in Tasks : TaskSays(k, o, s) =>
              /\ ~Said(Event(o, s)) /\ ~CallSays(o, s)
              /\ \A l \in Tasks : TaskSays(l, o, s) => l = k
        /\ CallSays(o, s) => ~Said(Event(o, s))
    BY DEF Inv, Once
  <2>2. (\E n \in 1 .. Len(a) : a[n] = Event(o, s)) => ~Said(Event(o, s))
    BY <2>1
  <2>3. Single(Event(o, s))'
    BY <1>2, <2>1, <2>2
  <2>4. ASSUME NEW k \in Tasks, TaskSays(k, o, s)'
        PROVE  /\ ~Said(Event(o, s))' /\ ~CallSays(o, s)'
               /\ \A l \in Tasks : TaskSays(l, o, s)' => l = k
    BY <1>2, <2>1, <2>4
  <2>5. ASSUME CallSays(o, s)' PROVE ~Said(Event(o, s))'
    BY <1>2, <2>1, <2>5
  <2> QED
    BY <2>3, <2>4, <2>5
<1>4. Reached'
  BY <1>2 DEF Inv, Reached
<1>5. Told'
  <2> SUFFICES ASSUME NEW id \in Inbound \cup Outbound, rows[id] # "none"
               PROVE  Said(RowEvent(id))' \/ AboutTo(RowEvent(id))' \/ restarts' > 0
    BY DEF Told
  <2>1. PICK event : event = RowEvent(id) /\ event = RowEvent(id)'
    BY DEF RowEvent
  <2>2. Said(event) \/ AboutTo(event) \/ restarts > 0
    BY <2>1 DEF Inv, Told
  <2>3. Said(event)' \/ AboutTo(event)' \/ restarts' > 0
    BY <1>2, <2>2
  <2> QED
    BY <2>1, <2>3
<1> QED
  BY <1>3, <1>4, <1>5 DEF Inv

\* A delivery sends the events of its item.
LEMMA EmitItemInv ==
    ASSUME Inv, NEW k \in Tasks, EmitItem(k)
    PROVE  Inv'
<1>0. PICK i : i = task[k].item
  OBVIOUS
<1>1. PICK a : a = Announces(i)
  OBVIOUS
<1>2. /\ TypeOK /\ task[k].at = "emit" /\ i \in Items
      /\ task \in [Tasks -> [at : Places, item : Items \cup {Idle.item}]]
  BY <1>0 DEF Inv, TypeOK, EmitItem
<1>3. /\ a \in Seq(Events)
      /\ \A m, n \in 1 .. Len(a) : a[m] = a[n] => m = n
      /\ \A o \in Outbound, s \in Statuses :
            (\E n \in 1 .. Len(a) : a[n] = Event(o, s))
                <=> (i.kind # "message" /\ i.id = o /\ i.status = s)
  BY <1>1, <1>2, AnnounceFacts
<1>4. /\ Emit(a) /\ Finish(k) /\ rows' = rows /\ call' = call /\ restarts' = restarts
  BY <1>0, <1>1 DEF EmitItem
<1>5. task' = [task EXCEPT ![k] = Idle] /\ Idle.at = "idle"
      /\ Idle \in [at : Places, item : Items \cup {Idle.item}]
  BY <1>2, <1>4, MoveFacts
<1>6. task'[k].at = "idle" /\ \A l \in Tasks : l # k => task'[l] = task[l]
  BY <1>2, <1>5
<1>7. TypeOK'
  <2>1. emitted' \in Seq(Events)
    BY <1>2, <1>3, <1>4, EmitFacts DEF TypeOK
  <2> QED
    BY <1>2, <1>4, <1>5, <2>1, TaskType DEF TypeOK
<1>8. \A o \in Outbound, s \in Statuses :
         TaskSays(k, o, s) <=> \E n \in 1 .. Len(a) : a[n] = Event(o, s)
  BY <1>0, <1>2, <1>3 DEF TaskSays
<1>9. ASSUME NEW l \in Tasks, NEW o \in Outbound, NEW s \in Statuses, TaskSays(l, o, s)'
      PROVE  TaskSays(l, o, s) /\ \A n \in 1 .. Len(a) : a[n] # Event(o, s)
  <2>1. l # k /\ TaskSays(l, o, s)
    BY <1>6, <1>9 DEF TaskSays
  <2>2. ~TaskSays(k, o, s)
    BY <2>1 DEF Inv, Once
  <2> QED
    BY <1>8, <2>1, <2>2
<1>10. ASSUME NEW o \in Outbound, NEW s \in Statuses, CallSays(o, s)'
       PROVE  CallSays(o, s) /\ \A n \in 1 .. Len(a) : a[n] # Event(o, s)
  <2>1. CallSays(o, s)
    BY <1>4, <1>10 DEF CallSays
  <2>2. ~TaskSays(k, o, s)
    BY <2>1 DEF Inv, Once
  <2> QED
    BY <1>8, <2>1, <2>2
<1>11. ASSUME NEW event, AboutTo(event)
       PROVE  AboutTo(event)' \/ \E n \in 1 .. Len(a) : a[n] = event
  <2>1. DOMAIN Announces(i) = 1 .. Len(a)
    BY <1>1, <1>3
  <2>2. CASE \E n \in DOMAIN Announces(i) : Announces(i)[n] = event
    BY <1>1, <2>1, <2>2
  <2>3. ASSUME NEW l \in Tasks, l # k, task[l].at = "emit",
               \E n \in DOMAIN Announces(task[l].item) : Announces(task[l].item)[n] = event
        PROVE  AboutTo(event)'
    BY <1>6, <2>3 DEF AboutTo
  <2>4. ASSUME NEW o \in Outbound, call[o] = "recorded", event = Event(o, "sent")
        PROVE  AboutTo(event)'
    BY <1>4, <2>4 DEF AboutTo
  <2> QED
    BY <1>0, <1>11, <2>2, <2>3, <2>4 DEF AboutTo
<1> QED
  BY <1>3, <1>4, <1>7, <1>8, <1>9, <1>10, <1>11, SendInv

\* An API call sends the event of the row that it has recorded.
LEMMA EmitSentInv ==
    ASSUME Inv, NEW c \in Outbound, EmitSent(c)
    PROVE  Inv'
<1>1. PICK a : a = <<Event(c, "sent")>>
  OBVIOUS
<1>2. /\ TypeOK /\ call[c] = "recorded"
      /\ call \in [Outbound -> {"new", "accepted", "refused", "elsewhere", "recorded", "failed",
                                "done", "broken"}]
  BY DEF Inv, TypeOK, EmitSent
<1>3. /\ a \in Seq(Events) /\ Len(a) = 1 /\ a[1] = Event(c, "sent")
      /\ \A m, n \in 1 .. Len(a) : a[m] = a[n] => m = n
  <2>1. Event(c, "sent") \in Events
    BY DEF Event, Events, Statuses
  <2> QED
    BY <1>1, <2>1
<1>4. /\ Emit(a) /\ rows' = rows /\ task' = task /\ restarts' = restarts
      /\ call' = [call EXCEPT ![c] = "done"]
  BY <1>1 DEF EmitSent, CallTo
<1>5. /\ call'[c] = "done" /\ \A o \in Outbound : o # c => call'[o] = call[o]
      /\ call' \in [Outbound -> {"new", "accepted", "refused", "elsewhere", "recorded", "failed",
                                 "done", "broken"}]
  BY <1>2, <1>4
<1>6. TypeOK'
  <2>1. emitted' \in Seq(Events)
    BY <1>2, <1>3, <1>4, EmitFacts DEF TypeOK
  <2> QED
    BY <1>2, <1>4, <1>5, <2>1 DEF TypeOK
<1>7. \A o \in Outbound, s \in Statuses :
         (\E n \in 1 .. Len(a) : a[n] = Event(o, s)) <=> (o = c /\ s = "sent")
  BY <1>3 DEF Event
<1>8. CallSays(c, "sent") /\ "sent" \in Statuses
  BY <1>2 DEF CallSays, Statuses
<1>9. ASSUME NEW k \in Tasks, NEW o \in Outbound, NEW s \in Statuses, TaskSays(k, o, s)'
      PROVE  TaskSays(k, o, s) /\ \A n \in 1 .. Len(a) : a[n] # Event(o, s)
  <2>1. TaskSays(k, o, s)
    BY <1>4, <1>9 DEF TaskSays
  <2>2. ~CallSays(o, s)
    BY <2>1 DEF Inv, Once
  <2> QED
    BY <1>7, <1>8, <2>1, <2>2
<1>10. ASSUME NEW o \in Outbound, NEW s \in Statuses, CallSays(o, s)'
       PROVE  CallSays(o, s) /\ \A n \in 1 .. Len(a) : a[n] # Event(o, s)
  <2>1. o # c /\ CallSays(o, s)
    BY <1>5, <1>10 DEF CallSays
  <2> QED
    BY <1>7, <2>1
<1>11. ASSUME NEW event, AboutTo(event)
       PROVE  AboutTo(event)' \/ \E n \in 1 .. Len(a) : a[n] = event
  <2>1. CASE event = Event(c, "sent")
    BY <1>3, <2>1
  <2>2. ASSUME NEW o \in Outbound, o # c, call[o] = "recorded", event = Event(o, "sent")
        PROVE  AboutTo(event)'
    BY <1>5, <2>2 DEF AboutTo
  <2>3. ASSUME NEW k \in Tasks, task[k].at = "emit",
               \E n \in DOMAIN Announces(task[k].item) : Announces(task[k].item)[n] = event
        PROVE  AboutTo(event)'
    BY <1>4, <2>3 DEF AboutTo
  <2> QED
    BY <1>11, <2>1, <2>2, <2>3 DEF AboutTo
<1> QED
  BY <1>3, <1>4, <1>6, <1>7, <1>8, <1>9, <1>10, <1>11, SendInv

(***************************************************************************)
(* The process, and the theorems.                                           *)
(***************************************************************************)

\* A restart takes the events out of everybody's hands, and is remembered.
LEMMA RestartInv ==
    ASSUME Inv, Restart
    PROVE  Inv'
<1>1. /\ TypeOK /\ restarts \in Nat
      /\ call \in [Outbound -> {"new", "accepted", "refused", "elsewhere", "recorded", "failed",
                                "done", "broken"}]
  BY DEF Inv, TypeOK
<1>2. /\ emitted' = emitted /\ rows' = rows /\ restarts' = restarts + 1
      /\ task' = [k \in Tasks |-> Idle]
      /\ call' = [o \in Outbound |-> IF call[o] \in {"accepted", "recorded"} THEN "broken"
                                                                            ELSE call[o]]
  BY DEF Restart, WorkerGone
<1>3. /\ Idle \in [at : Places, item : Items \cup {Idle.item}] /\ Idle.at = "idle"
  BY DEF Idle, Places
<1>4. /\ \A k \in Tasks : task'[k].at = "idle"
      /\ \A o \in Outbound : call'[o] # "recorded"
  BY <1>1, <1>2, <1>3
<1>5. TypeOK'
  <2>1. task' \in [Tasks -> [at : Places, item : Items \cup {Idle.item}]]
    BY <1>2, <1>3
  <2>2. call' \in [Outbound -> {"new", "accepted", "refused", "elsewhere", "recorded", "failed",
                                "done", "broken"}]
    BY <1>1, <1>2
  <2> QED
    BY <1>1, <1>2, <1>4, <2>1, <2>2 DEF TypeOK
<1>6. /\ \A event : (Said(event)' <=> Said(event)) /\ (Single(event)' <=> Single(event))
      /\ \A k \in Tasks, o \in Outbound, s \in Statuses : ~TaskSays(k, o, s)'
      /\ \A o \in Outbound, s \in Statuses : ~CallSays(o, s)'
  BY <1>2, <1>4 DEF Said, Single, TaskSays, CallSays
<1>7. Once'
  BY <1>6 DEF Inv, Once
<1>8. Reached'
  BY <1>2, <1>6 DEF Inv, Reached
<1>9. Told'
  BY <1>1, <1>2 DEF Told
<1> QED
  BY <1>5, <1>7, <1>8, <1>9 DEF Inv

LEMMA InitInv == Init => Inv
<1> SUFFICES ASSUME Init PROVE Inv
  OBVIOUS
<1>1. /\ emitted = <<>> /\ rows = [id \in Inbound \cup Outbound |-> "none"]
      /\ task = [k \in Tasks |-> Idle] /\ call = [o \in Outbound |-> "new"] /\ restarts = 0
  BY DEF Init, EgressInit
<1>2. Idle \in [at : Places, item : Items \cup {Idle.item}] /\ Idle.at = "idle"
  BY DEF Idle, Places
<1>3. TypeOK
  BY <1>1, <1>2 DEF TypeOK
<1>4. /\ \A event : ~Said(event) /\ Single(event)
      /\ \A k \in Tasks, o \in Outbound, s \in Statuses : ~TaskSays(k, o, s)
      /\ \A o \in Outbound, s \in Statuses : ~CallSays(o, s)
  BY <1>1, <1>2 DEF Said, Single, TaskSays, CallSays
<1>5. Once /\ Reached
  BY <1>4 DEF Once, Reached
<1>6. Told
  BY <1>1 DEF Told
<1> QED
  BY <1>3, <1>5, <1>6 DEF Inv

LEMMA NextInv == Inv /\ [Next]_vars => Inv'
<1> SUFFICES ASSUME Inv, [Next]_vars PROVE Inv'
  OBVIOUS
<1>1. ASSUME NEW k \in Tasks, Ingest(k) PROVE Inv'
  <2>1. CASE CheckKnown(k) \/ SkipItem(k)
    BY <2>1, TaskQuietInv
  <2>2. CASE InsertRow(k)
    BY <2>2, TaskQuietInv, TaskWritesInv
  <2>3. CASE AdvanceStatus(k)
    BY <2>3, TaskQuietInv, TaskWritesInv
  <2>4. CASE EmitItem(k)
    BY <2>4, EmitItemInv
  <2> QED
    BY <1>1, <2>1, <2>2, <2>3, <2>4 DEF Ingest
<1>2. ASSUME NEW k \in Tasks, NEW i \in Items, Arrives(k, i) PROVE Inv'
  BY <1>2, TaskQuietInv
<1>3. ASSUME NEW o \in Outbound, Send(o) PROVE Inv'
  BY <1>3, OtherQuietInv
<1>4. ASSUME NEW o \in Outbound, Record(o) PROVE Inv'
  <2>1. CASE RecordOutbound(o)
    BY <2>1, CallWritesInv, OtherQuietInv
  <2>2. CASE EmitSent(o)
    BY <2>2, EmitSentInv
  <2> QED
    BY <1>4, <2>1, <2>2 DEF Record
<1>5. CASE WorkerStep \/ Connect \/ Logout \/ UNCHANGED vars
  BY <1>5, OtherQuietInv
<1>6. CASE Restart
  BY <1>6, RestartInv
<1> QED
  BY <1>1, <1>2, <1>3, <1>4, <1>5, <1>6 DEF Next

\* The inductive invariant holds in every state of every behaviour: one place at most for each
\* event of a message's life, none that the row has not reached, and one for the state of every
\* row.
THEOREM InvHolds == Spec => []Inv
<1> QED
  BY InitInv, NextInv, PTL DEF Spec

\* Each step in the life of an outbound message is announced once (message_advance_status:
\* "retries never re-emit"), whatever is delivered, how often and in which order, by any number of
\* handlers at a time, also across restarts.
THEOREM AnnouncedOnce == Spec => []LifecycleOnce
<1>1. ASSUME Inv PROVE LifecycleOnce
  <2> SUFFICES ASSUME NEW o \in Outbound, NEW s \in Statuses
               PROVE  Times(Event(o, s)) <= 1
    BY DEF LifecycleOnce
  <2> DEFINE places == {n \in 1 .. Len(emitted) : emitted[n] = Event(o, s)}
  <2>1. \A m, n \in places : m = n
    BY <1>1 DEF Inv, Once, Single
  <2>2. Times(Event(o, s)) = Cardinality(places)
    BY DEF Times
  <2> HIDE DEF places
  <2>3. CASE places = {}
    <3>1. Cardinality(places) = 0
      BY <2>3, FS_EmptySet
    <3> QED
      BY <2>2, <3>1
  <2>4. CASE places # {}
    <3>1. PICK n : places = {n}
      BY <2>1, <2>4
    <3>2. Cardinality(places) = 1
      BY <3>1, FS_Singleton
    <3> QED
      BY <2>2, <3>2
  <2> QED
    BY <2>3, <2>4
<1> QED
  BY <1>1, InvHolds, PTL

\* Whoever follows the events of a session knows what is in its table: the state of every row
\* (cloud_ingest, cloud_record_outbound) has been announced or is about to be, as long as the
\* process has not been restarted.
THEOREM RowsAnnounced == Spec => []RowAnnounced
<1>1. ASSUME Inv, NEW event, Said(event) PROVE Times(event) > 0
  <2> DEFINE places == {n \in 1 .. Len(emitted) : emitted[n] = event}
  <2>1. Len(emitted) \in Nat
    BY <1>1 DEF Inv, TypeOK
  <2>2. IsFiniteSet(1 .. Len(emitted))
    BY <2>1, FS_Interval
  <2>3. IsFiniteSet(places)
    BY <2>2, FS_Subset
  <2>4. places # {}
    BY <1>1 DEF Said
  <2>5. Cardinality(places) \in Nat /\ Cardinality(places) # 0
    BY <2>3, <2>4, FS_EmptySet, FS_CardinalityType
  <2> QED
    BY <2>5 DEF Times
<1>2. ASSUME Inv PROVE RowAnnounced
  BY <1>1, <1>2 DEF Inv, Told, RowEvent, RowAnnounced
<1> QED
  BY <1>2, InvHolds, PTL

(***************************************************************************)
(* The egress worker.                                                       *)
(***************************************************************************)

\* Types of the worker's state, with what ties it to the bus: nobody has heard of an event that
\* the worker has not received yet, the event in its hands is one it has received, and the
\* target it is at is one of those due.
WorkerInv ==
    /\ cursor \in 0 .. Len(emitted) + 1
    /\ seen \in [Healthy -> 0 .. Len(emitted)]
    /\ work \in [event : Nat, due : SUBSET Targets, at : Targets \cup {NoTarget},
                 attempts : Nat, paused : BOOLEAN]
    /\ work.at # NoTarget => work.at \in work.due
    /\ work.due # {} => work.event \in 1 .. cursor - 1
    /\ cursor # 0 => \A t \in Healthy : seen[t] < cursor
    /\ DueIsNews

\* Being through with a target takes it, and nothing else, from the list (the loop over targets
\* in deliver_event).
LEMMA TargetDoneFacts ==
    ASSUME WorkerInv, work.at # NoTarget, TargetDone
    PROVE  /\ work' \in [event : Nat, due : SUBSET Targets, at : Targets \cup {NoTarget},
                         attempts : Nat, paused : BOOLEAN]
           /\ work'.at # NoTarget => work'.at \in work'.due
           /\ work'.due \subseteq work.due \ {work.at}
           /\ work'.due # {} => work'.event = work.event
<1> DEFINE left == work.due \ {work.at}
<1>1. CASE left = {}
  <2>1. work' = NoWork
    BY <1>1 DEF TargetDone
  <2> QED
    BY <2>1 DEF NoWork
<1>2. CASE left # {}
  <2>1. PICK next \in left : work' = [work EXCEPT !.due = left, !.at = next, !.attempts = 0]
    BY <1>2 DEF TargetDone
  <2> QED
    BY <2>1 DEF WorkerInv
<1> QED
  BY <1>1, <1>2

\* What happens on the bus, and starting the worker, does not disturb it: the bus grows, and a
\* worker that starts begins after the last event.
LEMMA BusInv ==
    ASSUME WorkerInv, emitted \in Seq(Events), emitted' \in Seq(Events),
           Len(emitted') >= Len(emitted), UNCHANGED <<work, seen>>, cursor' = cursor \/ EnsureWorker
    PROVE  WorkerInv'
<1>1. Len(emitted) \in Nat /\ Len(emitted') \in Nat
  OBVIOUS
<1>2. \/ cursor' = cursor
      \/ cursor = 0 /\ cursor' = Len(emitted) + 1
  BY DEF EnsureWorker
<1>3. cursor' \in 0 .. Len(emitted') + 1 /\ seen' \in [Healthy -> 0 .. Len(emitted')]
  BY <1>1, <1>2 DEF WorkerInv
<1>4. cursor' # 0 => \A t \in Healthy : seen'[t] < cursor'
  BY <1>1, <1>2 DEF WorkerInv
<1>5. work'.due # {} => work'.event \in 1 .. cursor' - 1
  BY <1>1, <1>2 DEF WorkerInv
<1>6. DueIsNews'
  BY <1>1 DEF WorkerInv, DueIsNews
<1> QED
  BY <1>3, <1>4, <1>5, <1>6 DEF WorkerInv

\* The worker's own steps: only an event that is newer than all that were heard is taken up.
LEMMA WorkerStepInv ==
    ASSUME WorkerInv, emitted \in Seq(Events), Worker
    PROVE  WorkerInv'
<1>0. Len(emitted) \in Nat /\ cursor \in Nat /\ UNCHANGED emitted
  BY DEF WorkerInv, Worker, Lagged, Receive, Delivered, Fails, BackoffOver, BadConfig
<1>1. Oldest \in 1 .. Len(emitted) + 1
  BY <1>0, EgressAssumption DEF Oldest
<1>2. CASE Lagged
  BY <1>0, <1>1, <1>2 DEF Lagged, WorkerInv, DueIsNews, NoWork
<1>3. CASE Receive
  <2>1. cursor \in 1 .. Len(emitted) /\ cursor' = cursor + 1 /\ UNCHANGED seen
    BY <1>0, <1>1, <1>3 DEF Receive
  <2>2. CASE UNCHANGED work
    BY <1>0, <1>3, <2>1, <2>2 DEF Receive, WorkerInv, DueIsNews, NoWork
  <2>3. ASSUME NEW due \in SUBSET Targets, NEW first \in due,
               work' = [event |-> cursor, due |-> due, at |-> first, attempts |-> 0,
                        paused |-> FALSE]
        PROVE  WorkerInv'
    BY <1>0, <2>1, <2>3 DEF WorkerInv, DueIsNews
  <2> QED
    BY <1>3, <2>2, <2>3 DEF Receive
<1>4. CASE Delivered
  <2>1. /\ work.at # NoTarget /\ TargetDone /\ UNCHANGED cursor
        /\ seen' = [t \in Healthy |-> IF t = work.at THEN work.event ELSE seen[t]]
    BY <1>4 DEF Delivered
  <2>2. work.event \in 1 .. cursor - 1
    BY <2>1 DEF WorkerInv
  <2>3. seen' \in [Healthy -> 0 .. Len(emitted)]
    BY <1>0, <2>1, <2>2 DEF WorkerInv
  <2>4. \A t \in Healthy : seen'[t] < cursor
    BY <1>0, <2>1, <2>2 DEF WorkerInv
  <2>5. DueIsNews'
    BY <1>0, <2>1, TargetDoneFacts DEF WorkerInv, DueIsNews
  <2> QED
    BY <1>0, <2>1, <2>2, <2>3, <2>4, <2>5, TargetDoneFacts DEF WorkerInv
<1>5. ASSUME work.at # NoTarget, TargetDone, UNCHANGED <<emitted, cursor, seen>>
      PROVE  WorkerInv'
  BY <1>0, <1>5, TargetDoneFacts DEF WorkerInv, DueIsNews
<1>6. ASSUME UNCHANGED <<emitted, cursor, seen>>,
             NEW n \in Nat, NEW b \in BOOLEAN, work' = [work EXCEPT !.attempts = n, !.paused = b]
      PROVE  WorkerInv'
  BY <1>0, <1>6 DEF WorkerInv, DueIsNews
<1>7. CASE Fails
  <2>1. CASE GivesUp(work.at)
    BY <1>5, <1>7, <2>1 DEF Fails
  <2>2. CASE ~GivesUp(work.at)
    <3>1. work.attempts + 1 \in Nat
      BY DEF WorkerInv
    <3>2. work' = [work EXCEPT !.attempts = work.attempts + 1, !.paused = TRUE]
      BY <1>7, <2>2 DEF Fails, NextAttempt, WorkerInv
    <3> QED
      BY <1>6, <1>7, <3>1, <3>2 DEF Fails
  <2> QED
    BY <2>1, <2>2
<1>8. CASE BackoffOver
  <2>1. work' = [work EXCEPT !.attempts = work.attempts, !.paused = FALSE] /\ work.attempts \in Nat
    BY <1>8 DEF BackoffOver, WorkerInv
  <2> QED
    BY <1>6, <1>8, <2>1 DEF BackoffOver
<1>9. CASE BadConfig
  BY <1>5, <1>9 DEF BadConfig
<1> QED
  BY <1>2, <1>3, <1>4, <1>7, <1>8, <1>9 DEF Worker

\* Every step of the system keeps the worker's invariant.
LEMMA WorkerNext ==
    ASSUME Inv, Inv', WorkerInv, [Next]_vars
    PROVE  WorkerInv'
<1>0. emitted \in Seq(Events) /\ emitted' \in Seq(Events)
  BY DEF Inv, TypeOK
<1>1. ASSUME NEW k \in Tasks, EmitItem(k) PROVE WorkerInv'
  <2>1. Announces(task[k].item) \in Seq(Events)
    BY <1>1, AnnounceFacts DEF EmitItem, Inv, TypeOK
  <2>2. Len(emitted') >= Len(emitted)
    BY <1>0, <1>1, <2>1 DEF EmitItem, Emit
  <2> QED
    BY <1>0, <1>1, <2>2, BusInv DEF EmitItem
<1>2. ASSUME NEW o \in Outbound, EmitSent(o) PROVE WorkerInv'
  <2>1. <<Event(o, "sent")>> \in Seq(Events)
    BY DEF Event, Events, Statuses
  <2>2. Len(emitted') >= Len(emitted)
    BY <1>0, <1>2, <2>1 DEF EmitSent, Emit
  <2> QED
    BY <1>0, <1>2, <2>2, BusInv DEF EmitSent
<1>3. ASSUME UNCHANGED <<emitted, work, seen>>, cursor' = cursor \/ EnsureWorker
      PROVE  WorkerInv'
  BY <1>0, <1>3, BusInv
<1>4. CASE WorkerStep
  BY <1>0, <1>4, WorkerStepInv DEF WorkerStep
<1>5. CASE Restart
  BY <1>0, <1>5, EgressAssumption DEF Restart, WorkerGone, WorkerInv, DueIsNews, NoWork
<1>6. ASSUME NEW k \in Tasks,
             \/ CheckKnown(k) \/ InsertRow(k) \/ AdvanceStatus(k) \/ SkipItem(k)
             \/ \E i \in Items : Arrives(k, i)
      PROVE  WorkerInv'
  BY <1>3, <1>6 DEF CheckKnown, InsertRow, AdvanceStatus, SkipItem, Arrives, egress
<1>7. ASSUME NEW o \in Outbound, Send(o) \/ RecordOutbound(o) PROVE WorkerInv'
  BY <1>3, <1>7 DEF Send, RecordOutbound, egress
<1>8. CASE Connect \/ Logout \/ UNCHANGED vars
  BY <1>3, <1>8 DEF Connect, Logout, vars, egress
<1> QED
  BY <1>1, <1>2, <1>4, <1>5, <1>6, <1>7, <1>8 DEF Next, Ingest, Record

\* A target that answers receives every event once at most and in order (deliver_event,
\* spawn_egress_worker), for any targets, capacity of the bus and number of retries, through
\* lags and restarts.  With AnnouncedOnce: it hears of each step in a message's life once at
\* most.
THEOREM HeardOnce == Spec => []DueIsNews
<1>1. Init => WorkerInv
  BY EgressAssumption DEF Init, EgressInit, WorkerInv, DueIsNews, NoWork
<1>2. Inv /\ Inv' /\ WorkerInv /\ [Next]_vars => WorkerInv'
  BY WorkerNext
<1>3. WorkerInv => DueIsNews
  BY DEF WorkerInv
<1> QED
  BY <1>1, <1>2, <1>3, InvHolds, PTL DEF Spec

=============================================================================
