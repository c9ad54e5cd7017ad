----------------------- MODULE InboundMessagesProofs -----------------------
(***************************************************************************)
(* Proofs about InboundMessages, for every set of messages and every bound  *)
(* on retries, faults and resends: what the server will not deliver again   *)
(* is on record (NoSilentLoss), no copy of a message overwrites a readable  *)
(* row (ContentKept), and the table takes over from the server as Custody   *)
(* says (TakesCustody).                                                     *)
(*                                                                         *)
(* NoSilentLoss is not inductive: the server forgets a stanza when the ack  *)
(* arrives, long after it was sent.  The invariant says that a message is   *)
(* on record from the moment its ack is on the way (OnRecord).  What is on  *)
(* record stays there because no statement of store.rs on messages empties  *)
(* a row: that is a fact about the six statements, proved once              *)
(* (StatementFacts) and used for both properties.                           *)
(***************************************************************************)
EXTENDS InboundMessages, TLAPS

Rows == [type : {"none", "undecryptable", "content"}, text : {"null", "orig", "new"},
         revoked : BOOLEAN]

\* Types of what the properties are about.
TypeOK ==
    /\ kind \in [Msgs -> Kinds]
    /\ row \in [Msgs -> Rows]
    /\ stanza \in [Msgs -> {"unsent", "queued", "consumed"}]
    /\ busy \in Msgs \cup {None}
    /\ acks \subseteq Msgs

Recorded(m) == Stored(m) \/ m \in applied

\* A message is on record before its ack leaves.
OnRecord ==
    \A m \in Msgs :
        (m \in acks \/ stanza[m] = "consumed") /\ kind[m] # "history" => Recorded(m)

Inv == TypeOK /\ OnRecord

(***************************************************************************)
(* The statements of store.rs.                                              *)
(***************************************************************************)

\* The rows that one statement can make of a row.
Statements(r) ==
    {r, Healed(r), WithPlaceholder(r), Backfilled(r)}
        \cup {t \in {MarkEdited(r), MarkRevoked(r)} : r.type # "none"}

\* No statement empties a row, and none makes the original text of an edited or revoked one.
LEMMA StatementFacts ==
    ASSUME NEW r \in Rows, NEW t \in Statements(r)
    PROVE  /\ t \in Rows
           /\ r.type # "none" => t.type # "none"
           /\ r.type = "content" =>
                 t.type = "content" /\ (t.text = "orig" => r.text = "orig")
<1>1. CASE t = r
  BY <1>1
<1>2. CASE t = [r EXCEPT !.type = "content", !.text = "orig"] /\ r.type # "content"
  BY <1>2 DEF Rows
<1>3. CASE t = [r EXCEPT !.type = "undecryptable"] /\ r.type = "none"
  BY <1>3 DEF Rows
<1>4. CASE t = [r EXCEPT !.text = "new"]
  BY <1>4 DEF Rows
<1>5. CASE t = [r EXCEPT !.text = "null", !.revoked = TRUE]
  BY <1>5 DEF Rows
<1> QED
  BY <1>1, <1>2, <1>3, <1>4, <1>5 DEF Statements, Healed, WithPlaceholder, Backfilled,
     MarkEdited, MarkRevoked

\* A row that a message has just been written to is not empty.
LEMMA Written ==
    ASSUME NEW r \in Rows
    PROVE  Healed(r).type # "none" /\ WithPlaceholder(r).type # "none"
BY DEF Healed, WithPlaceholder, Rows

\* One row is written with one statement.
LEMMA RowWrite ==
    ASSUME row \in [Msgs -> Rows], NEW m \in Msgs, NEW t \in Statements(row[m]),
           row' = [row EXCEPT ![m] = t]
    PROVE  row' \in [Msgs -> Rows] /\ \A n \in Msgs : row'[n] \in Statements(row[n])
<1>1. t \in Rows
  BY StatementFacts
<1>2. \A n \in Msgs : row[n] \in Statements(row[n])
  BY DEF Statements
<1> QED
  BY <1>1, <1>2

\* Every step changes rows by statements only.
LEMMA RowSteps ==
    ASSUME TypeOK, [Next]_vars
    PROVE  row' \in [Msgs -> Rows] /\ \A n \in Msgs : row'[n] \in Statements(row[n])
<1>1. row \in [Msgs -> Rows]
  BY DEF TypeOK
<1>2. CASE UNCHANGED row
  BY <1>1, <1>2 DEF Statements
<1>3. ASSUME NEW m \in Msgs, PersistPlaceholder(m), ~UNCHANGED row
      PROVE  row' = [row EXCEPT ![m] = WithPlaceholder(row[m])]
  BY <1>1, <1>3 DEF PersistPlaceholder
<1>4. ASSUME NEW m \in Msgs, PersistContent(m) \/ PhoneAnswers(m), ~UNCHANGED row
      PROVE  row' = [row EXCEPT ![m] = Healed(row[m])]
  BY <1>1, <1>4 DEF PersistContent, PhoneAnswers
<1>5. ASSUME NEW m \in Msgs, ApplyToTarget(m)
      PROVE  \E t \in Statements(row[Target]) : row' = [row EXCEPT ![Target] = t]
  <2> DEFINE t == IF row[Target].type = "none" THEN row[Target]
                  ELSE IF kind[m] = "edit" THEN MarkEdited(row[Target])
                  ELSE MarkRevoked(row[Target])
  <2>1. row' = [row EXCEPT ![Target] = t]
    BY <1>1, <1>5, MsgsAssumption DEF ApplyToTarget
  <2>2. t \in Statements(row[Target])
    BY DEF Statements
  <2> QED
    BY <2>1, <2>2
<1>6. ASSUME NEW m \in Msgs, IngestStores(m)
      PROVE  row' = [row EXCEPT ![Target] = Backfilled(row[Target])]
  BY <1>1, <1>6, MsgsAssumption DEF IngestStores
<1>7. ASSUME ~UNCHANGED row
      PROVE  \E m \in Msgs : \E t \in Statements(row[m]) : row' = [row EXCEPT ![m] = t]
  <2>1. PICK m \in Msgs : \/ PersistPlaceholder(m) \/ PersistContent(m) \/ PhoneAnswers(m)
                          \/ ApplyToTarget(m) \/ IngestStores(m)
    BY <1>7 DEF Next, MsgStep, vars, rows, ServerSends, Decrypt, HandleHistory, TimerFires,
       IngestFails, AckArrives, SenderResends, PhoneRepushes, ConnUp, ConnEnds, Restart
  <2>2. \A r : {Healed(r), WithPlaceholder(r), Backfilled(r)} \subseteq Statements(r)
    BY DEF Statements
  <2> QED
    BY <1>3, <1>4, <1>5, <1>6, <1>7, <2>1, <2>2, MsgsAssumption
<1> QED
  BY <1>1, <1>2, <1>7, RowWrite

\* What is on record stays there.
LEMMA RecordKept ==
    ASSUME TypeOK, [Next]_vars, NEW m \in Msgs, Recorded(m)
    PROVE  Recorded(m)'
<1>1. ghost \subseteq ghost' /\ applied \subseteq applied'
  BY DEF Next, MsgStep, vars, rows, ServerSends, Decrypt, PersistPlaceholder, PersistContent,
     ApplyToTarget, HandleHistory, TimerFires, IngestStores, IngestFails, AckArrives,
     SenderResends, PhoneAnswers, PhoneRepushes, ConnUp, ConnEnds, Restart
<1>2. row[m].type # "none" => row'[m].type # "none"
  BY RowSteps, StatementFacts DEF TypeOK
<1> QED
  BY <1>1, <1>2 DEF Recorded, Stored

\* An ack leaves only for the message in hand, and only once that is on record.
LEMMA AckAfterRecord ==
    ASSUME TypeOK, NEW m \in Msgs,
           PersistPlaceholder(m) \/ PersistContent(m) \/ ApplyToTarget(m) \/ HandleHistory(m)
    PROVE  /\ acks' = acks \cup {m}
           /\ kind' = kind /\ stanza' = stanza /\ busy' = None
           /\ kind[m] # "history" => Recorded(m)'
<1>1. /\ acks' = acks \cup {m}
      /\ kind' = kind /\ stanza' = stanza /\ busy' = None
  BY DEF PersistPlaceholder, PersistContent, ApplyToTarget, HandleHistory, Done, rows
<1>2. row \in [Msgs -> Rows]
  BY DEF TypeOK
<1>3. CASE PersistPlaceholder(m)
  <2>1. CASE kind[m] = "own"
    BY <1>1, <1>3, <2>1 DEF PersistPlaceholder, Recorded, Stored
  <2>2. CASE kind[m] # "own"
    <3>1. row'[m] = WithPlaceholder(row[m])
      BY <1>2, <1>3, <2>2 DEF PersistPlaceholder
    <3> QED
      BY <1>1, <1>2, <3>1, Written DEF Recorded, Stored
  <2> QED
    BY <1>1, <2>1, <2>2
<1>4. CASE PersistContent(m)
  <2>1. row'[m] = Healed(row[m])
    BY <1>2, <1>4 DEF PersistContent
  <2> QED
    BY <1>1, <1>2, <2>1, Written DEF Recorded, Stored
<1>5. CASE ApplyToTarget(m)
  BY <1>1, <1>5 DEF ApplyToTarget, Recorded
<1>6. CASE HandleHistory(m)
  BY <1>1, <1>6 DEF HandleHistory
<1> QED
  BY <1>1, <1>3, <1>4, <1>5, <1>6

\* The other steps send no ack, and the server forgets a stanza only on one.
LEMMA ServerForgets ==
    ASSUME TypeOK, [Next]_vars
    PROVE  /\ kind' = kind
           /\ stanza' \in [Msgs -> {"unsent", "queued", "consumed"}]
           /\ busy' \in Msgs \cup {None}
           /\ acks' \subseteq Msgs
           /\ \A n \in Msgs :
                 /\ n \in acks' \ acks => kind[n] = "history" \/ Recorded(n)'
                 /\ stanza'[n] = "consumed" => stanza[n] = "consumed" \/ n \in acks
<1> USE DEF TypeOK
<1>1. ASSUME NEW m \in Msgs,
             PersistPlaceholder(m) \/ PersistContent(m) \/ ApplyToTarget(m) \/ HandleHistory(m)
      PROVE  /\ kind' = kind /\ stanza' = stanza /\ busy' = None /\ acks' \subseteq Msgs
             /\ \A n \in Msgs : n \in acks' \ acks => kind[n] = "history" \/ Recorded(n)'
  BY <1>1, AckAfterRecord
<1>2. ASSUME NEW m \in Msgs,
             \/ ServerSends(m) \/ Decrypt(m) \/ TimerFires(m) \/ IngestStores(m)
             \/ IngestFails(m) \/ AckArrives(m) \/ SenderResends(m) \/ PhoneAnswers(m)
             \/ PhoneRepushes(m)
      PROVE  /\ kind' = kind /\ stanza' \in [Msgs -> {"unsent", "queued", "consumed"}]
             /\ busy' \in {busy, m} /\ acks' \subseteq acks
             /\ \A n \in Msgs : stanza'[n] = "consumed" => stanza[n] = "consumed" \/ n \in acks
  BY <1>2 DEF ServerSends, Decrypt, TimerFires, IngestStores, IngestFails, AckArrives,
     SenderResends, PhoneAnswers, PhoneRepushes, rows, network, loop
<1>3. CASE ConnUp \/ ConnEnds \/ Restart \/ UNCHANGED vars
  BY <1>3 DEF ConnUp, ConnEnds, Restart, WireGone, vars, rows, network, loop
<1> QED
  BY <1>1, <1>2, <1>3 DEF Next, MsgStep

\* Every step preserves the invariant.
LEMMA NextInv == Inv /\ [Next]_vars => Inv'
<1> SUFFICES ASSUME Inv, [Next]_vars PROVE Inv'
  OBVIOUS
<1>1. TypeOK'
  BY RowSteps, ServerForgets DEF Inv, TypeOK
<1>2. ASSUME NEW m \in Msgs, m \in acks' \/ stanza'[m] = "consumed", kind'[m] # "history"
      PROVE  Recorded(m)'
  <2>1. m \in acks \/ stanza[m] = "consumed" => Recorded(m)'
    BY <1>2, ServerForgets, RecordKept DEF Inv, OnRecord
  <2>2. m \in acks' \ acks => Recorded(m)'
    BY <1>2, ServerForgets DEF Inv
  <2>3. stanza'[m] = "consumed" => m \in acks \/ stanza[m] = "consumed"
    BY ServerForgets DEF Inv
  <2> QED
    BY <1>2, <2>1, <2>2, <2>3
<1> QED
  BY <1>1, <1>2 DEF Inv, OnRecord

\* The invariant holds throughout.
THEOREM InvHolds == Spec => []Inv
<1>1. Init => Inv
  BY MsgsAssumption DEF Init, Inv, TypeOK, OnRecord, Rows, NoRow
<1> QED
  BY <1>1, NextInv, PTL DEF Spec

\* What the server will not deliver again is on record, whatever restarts, lost acks, retries,
\* restored copies and history chunks come between.
THEOREM NothingLost == Spec => []NoSilentLoss
<1>1. Inv => NoSilentLoss
  BY DEF Inv, OnRecord, Recorded, NoSilentLoss
<1> QED
  BY <1>1, InvHolds, PTL

\* A readable row stays readable, and no duplicate, late placeholder, restored copy or
\* backfill puts the original text back where an edit or a revoke has been.
THEOREM ContentStays == Spec => ContentKept
<1>1. Inv /\ [Next]_vars =>
         [\A m \in Msgs :
            row[m].type = "content" =>
                /\ row'[m].type = "content"
                /\ row'[m].text = "orig" => row[m].text = "orig"]_vars
  <2> SUFFICES ASSUME Inv, [Next]_vars, NEW m \in Msgs, row[m].type = "content"
               PROVE  row'[m].type = "content" /\ (row'[m].text = "orig" => row[m].text = "orig")
    OBVIOUS
  <2>1. row[m] \in Rows /\ row'[m] \in Statements(row[m])
    BY RowSteps DEF Inv, TypeOK
  <2> QED
    BY <2>1, StatementFacts
<1> QED
  BY <1>1, InvHolds, PTL DEF Spec, ContentKept

(***************************************************************************)
(* The refinement of Custody.                                               *)
(***************************************************************************)

Queued == {m \in Msgs : stanza[m] = "queued" /\ kind[m] # "history"}

OnFile == {m \in Msgs : Recorded(m)}

\* The steps of the server leave the records alone; it lets go of what is on record only.
LEMMA ServerSteps ==
    ASSUME Inv, NEW m \in Msgs,
           ServerSends(m) \/ AckArrives(m) \/ SenderResends(m) \/ PhoneRepushes(m)
    PROVE  Server!Next \/ UNCHANGED <<Queued, OnFile>>
<1> USE DEF Inv, TypeOK
<1>1. UNCHANGED OnFile /\ kind' = kind
  BY DEF ServerSends, AckArrives, SenderResends, PhoneRepushes, rows, OnFile, Recorded, Stored
<1>2. CASE AckArrives(m)
  <2>1. m \in acks /\ stanza' = [stanza EXCEPT ![m] = "consumed"]
    BY <1>2 DEF AckArrives
  <2>2. CASE kind[m] = "history"
    BY <1>1, <2>1, <2>2 DEF Queued
  <2>3. CASE kind[m] # "history"
    <3>1. {m} \subseteq OnFile
      BY <2>1, <2>3 DEF OnRecord, OnFile
    <3>2. Queued' = Queued \ {m}
      BY <1>1, <2>1 DEF Queued
    <3>3. Server!LetGo({m})
      BY <1>1, <3>1, <3>2 DEF Server!LetGo, Queued, OnFile, Recorded
    <3> QED
      BY <3>3 DEF Server!Next
  <2> QED
    BY <2>2, <2>3
<1>3. CASE ServerSends(m) \/ SenderResends(m) \/ PhoneRepushes(m)
  <2>1. stanza' = stanza \/ stanza' = [stanza EXCEPT ![m] = "queued"]
    BY <1>3 DEF ServerSends, SenderResends, PhoneRepushes
  <2>2. Queued' \in {Queued, Queued \cup {m}}
    BY <1>1, <2>1 DEF Queued
  <2>3. Queued' = Queued \cup {m} => Server!Undertake({m})
    BY <1>1 DEF Server!Undertake, Queued, OnFile, Recorded
  <2> QED
    BY <1>1, <2>2, <2>3 DEF Server!Next
<1> QED
  BY <1>2, <1>3

\* The other steps leave the server's queue alone, and take nothing off the record.
LEMMA OurSteps ==
    ASSUME Inv, [Next]_vars, UNCHANGED stanza
    PROVE  Server!Next
<1>1. Queued' = Queued
  BY ServerForgets DEF Inv, Queued
<1>2. OnFile \subseteq OnFile' /\ OnFile' \in SUBSET Msgs
  BY RecordKept DEF Inv, OnFile
<1>3. PICK ms \in SUBSET Msgs : ms = OnFile'
  BY <1>2
<1>4. Server!Secure(ms)
  BY <1>1, <1>2, <1>3 DEF Server!Secure, Queued, OnFile, Recorded
<1> QED
  BY <1>4 DEF Server!Next

\* The table takes over from the server: a stanza is let go of only once its message is on record,
\* and the record is kept through every statement on messages and every restart.
THEOREM Refinement == Spec => TakesCustody
<1>1. Init => Server!Init
  BY DEF Init, Server!Init, NoRow, Stored
<1>2. Inv /\ [Next]_vars => [Server!Next]_<<Queued, OnFile>>
  <2> SUFFICES ASSUME Inv, [Next]_vars PROVE Server!Next \/ UNCHANGED <<Queued, OnFile>>
    OBVIOUS
  <2>1. \/ \E m \in Msgs : ServerSends(m) \/ AckArrives(m) \/ SenderResends(m) \/ PhoneRepushes(m)
        \/ UNCHANGED stanza
    BY DEF Next, MsgStep, Decrypt, PersistPlaceholder, PersistContent, ApplyToTarget,
       HandleHistory, TimerFires, IngestStores, IngestFails, PhoneAnswers, ConnUp, ConnEnds,
       Restart, Done, vars, network
  <2> QED
    BY <2>1, ServerSteps, OurSteps
<1> QED
  BY <1>1, <1>2, InvHolds, PTL DEF Spec, TakesCustody, Server!Spec, Queued, OnFile, Recorded

=============================================================================
