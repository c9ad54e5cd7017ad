----------------------- MODULE SessionLifecycleProofs -----------------------
(***************************************************************************)
(* Proofs about SessionLifecycle, for every set of app-state collections,   *)
(* every QR budget and every number of drivers and callers: one driver is   *)
(* left running (OneDriver), a busy status has somebody behind it           *)
(* (NoOrphan), a driver that WhatsApp has turned away never dials again     *)
(* (RejectedHalts), and a driver gives up on no verdict but its own         *)
(* (NoFalseHalt).                                                           *)
(*                                                                         *)
(* The argument turns on the task_handle slot and on the stretch in which   *)
(* an aborted driver still runs.  While the process is up the driver that   *)
(* runs is the one in the slot; none is past its first poll while an        *)
(* aborted one is still on its way to its decision (OneAtWork), so the      *)
(* verdict in the session's flags is always the running driver's own        *)
(* (Verdict).                                                               *)
(***************************************************************************)
EXTENDS SessionLifecycle, TLAPS

Busy == {"Connecting", "AwaitingQr", "Syncing"}

\* A driver past its first poll, and not aborted.
AtWork(d) == Running(d) /\ drv[d].pc # "new"

\* abort() leaves a driver alive only between its return and its decision.
AbortedPlace == \A d \in Drivers : drv[d].aborted => drv[d].pc = "exited"

\* What task_handle knows: the driver that runs while the process is up; once a shutdown has
\* taken it, at most a driver that a racing connect has spawned and that is not polled yet.
Slot ==
    /\ phase = "up" => \A d \in Drivers : Running(d) => d = handle
    /\ phase # "up" => handle = 0 \/ drv[handle].pc \in {"new", "done"}
    /\ phase = "down" => \A d \in Drivers : drv[d].pc \in {"none", "done"}

\* One driver is at work, and none is while an aborted one has yet to reach its decision.
OneAtWork ==
    \A d, e \in Drivers : AtWork(d) => /\ AtWork(e) => d = e
                                       /\ ~drv[e].aborted

\* The verdict in the session's flags is that of the running driver's connection.
Verdict ==
    phase = "up" => \A d \in Drivers : Running(d) => (ses.expect <=> drv[d].terminal)

\* A driver with a verdict is between the end of its stream and its decision.
TerminalPlace ==
    \A d \in Drivers : drv[d].terminal =>
        /\ drv[d].pc \in {"loop", "closing", "unpair", "flush", "exited"}
        /\ drv[d].pc = "loop" => drv[d].ended

\* A driver whose connection goes on has QR windows left.
Budget == \A d \in Drivers : AtWork(d) /\ ~drv[d].terminal => ses.qr < QrLimit

\* A driver that has heard a logout waits, in a session that says so.
LogoutHeard ==
    \A d \in Drivers :
        /\ "logout" \in drv[d].woken => drv[d].pc \in {"loop", "backoff"}
        /\ "logout" \in drv[d].woken \/ drv[d].pc = "unpair" =>
               phase # "up" \/ ses.status \notin Busy

\* An aborted driver, which may still write "Connecting", has a successor.
Succeeded ==
    \/ \A e \in Drivers : ~drv[e].aborted
    \/ \E d \in Drivers : Running(d)
    \/ checked > 0
    \/ deleted
    \/ phase # "up"

Inv ==
    /\ TypeOK
    /\ AbortedPlace /\ Slot /\ OneAtWork
    /\ Verdict /\ TerminalPlace /\ Budget
    /\ LogoutHeard /\ Succeeded /\ NoOrphan

\* struct Session and the driver tasks, as sets of records.
Sessions ==
    [status : Statuses, paired : BOOLEAN, expect : BOOLEAN, blocked : BOOLEAN,
     restart : BOOLEAN, success : BOOLEAN, qr : 0..QrLimit, live : BOOLEAN,
     ready : BOOLEAN, synced : SUBSET Collections, deadline : BOOLEAN]

Tasks ==
    [pc : Places, aborted : BOOLEAN, woken : SUBSET Signals, login : BOOLEAN,
     ended : BOOLEAN, terminal : BOOLEAN]

\* The two records a task starts and ends with.
LEMMA TaskFacts ==
    /\ NoTask \in Tasks /\ Finished \in Tasks
    /\ NoTask.pc = "none" /\ ~NoTask.aborted /\ NoTask.woken = {} /\ ~NoTask.login
    /\ ~NoTask.ended /\ ~NoTask.terminal
    /\ Finished.pc = "done" /\ ~Finished.aborted /\ Finished.woken = {} /\ ~Finished.login
    /\ ~Finished.ended /\ ~Finished.terminal
BY DEF NoTask, Finished, Tasks, Places, Signals

LEMMA SlotInDrivers ==
    ASSUME TypeOK, handle # 0
    PROVE  handle \in Drivers
BY BoundsAssumption DEF TypeOK, Drivers

LEMMA InitInv == Init => Inv
<1> SUFFICES ASSUME Init PROVE Inv
  OBVIOUS
<1>1. ses \in Sessions /\ ses.status \notin Busy /\ ~ses.expect
  BY BoundsAssumption DEF Init, Sessions, Statuses, Busy
<1>2. \A d \in Drivers : drv[d] = NoTask
  BY DEF Init
<1>3. drv \in [Drivers -> Tasks]
  BY TaskFacts DEF Init
<1>4. TypeOK
  <2>1. spawned \in 0..MaxDrivers /\ handle \in 0..spawned /\ checked \in 0..MaxCallers
    BY BoundsAssumption DEF Init
  <2>2. fetching \subseteq Collections /\ phase \in {"up", "stopping", "down"}
        /\ deleted \in BOOLEAN
    BY DEF Init
  <2> QED
    BY <1>1, <1>3, <2>1, <2>2 DEF TypeOK, Tasks, Sessions
<1>5. \A d \in Drivers : ~Running(d) /\ drv[d].pc = "none"
  BY <1>2, TaskFacts DEF Running
<1> QED
  BY <1>1, <1>2, <1>4, <1>5, TaskFacts DEF Init, Inv, AbortedPlace, Slot, OneAtWork, AtWork,
     Verdict, TerminalPlace, Budget, LogoutHeard, Succeeded, NoOrphan

(***************************************************************************)
(* Steps of a driver that has not been aborted.  Moves(d, t) says what the  *)
(* step may do: driver d becomes t, with the session fit for it.            *)
(***************************************************************************)

Moves(d, t) ==
    /\ t \in Tasks /\ ~t.aborted /\ t.pc \notin {"none", "new"}
    /\ drv' = [drv EXCEPT ![d] = t]
    /\ ses' \in Sessions
    /\ fetching' \subseteq Collections
    /\ Unchanged
    /\ drv[d].pc = "new" => /\ Settled
                            /\ phase = "up" \/ (t.pc = "done" /\ ses'.qr = ses.qr)
    /\ t.pc = "done" /\ phase = "up" => ses'.status \notin Busy
    /\ t.pc # "done" /\ phase = "up" => (ses'.expect <=> t.terminal)
    /\ t.terminal => t.pc \in {"loop", "closing", "unpair", "flush", "exited"}
                     /\ (t.pc = "loop" => t.ended)
    /\ t.pc # "done" /\ ~t.terminal => ses'.qr < QrLimit
    /\ "logout" \in t.woken => t.pc \in {"loop", "backoff"}
    /\ "logout" \in t.woken \/ t.pc = "unpair" => phase # "up" \/ ses'.status \notin Busy

\* Such a step preserves the invariant.
LEMMA MovesInv ==
    ASSUME Inv, NEW d \in Drivers, NEW t, Running(d), Moves(d, t)
    PROVE  Inv'
<1> USE DEF Unchanged
<1>1. drv' \in [Drivers -> Tasks] /\ drv'[d] = t /\ \A e \in Drivers \ {d} : drv'[e] = drv[e]
  BY DEF Inv, TypeOK, Moves, Tasks
<1>2. TypeOK'
  BY <1>1 DEF Inv, TypeOK, Moves, Tasks, Sessions
<1>3. /\ phase # "down"
      /\ phase = "up" => d = handle
  BY DEF Inv, Slot, Running
<1>4. phase = "up" => \A e \in Drivers \ {d} : ~Running(e)
  BY <1>3 DEF Inv, Slot
<1>5. AtWork(d) \/ phase = "up" => \A e \in Drivers \ {d} : ~AtWork(e)
  BY <1>4 DEF Inv, OneAtWork, AtWork
<1>6. AtWork(d) \/ t.pc # "done" \/ phase = "up" => \A e \in Drivers : ~drv[e].aborted
  BY DEF Inv, OneAtWork, AtWork, Moves, Settled
<1>7. ~AtWork(d) => drv[d].pc = "new"
  BY DEF AtWork
<1>8. /\ Running(d)' <=> t.pc # "done"
      /\ AtWork(d)' <=> t.pc # "done"
      /\ \A e \in Drivers \ {d} : (Running(e)' <=> Running(e)) /\ (AtWork(e)' <=> AtWork(e))
  BY <1>1 DEF Moves, Running, AtWork
<1>9. AbortedPlace'
  BY <1>1 DEF Inv, AbortedPlace, Moves
<1>10. Slot'
  <2>1. phase = "up" => \A e \in Drivers : Running(e)' => e = handle
    BY <1>3, <1>4, <1>8
  <2>2. ASSUME phase # "up", handle # 0
        PROVE  drv'[handle].pc \in {"new", "done"}
    <3>1. handle \in Drivers /\ drv[handle].pc \in {"new", "done"}
      BY <2>2, SlotInDrivers DEF Inv, Slot
    <3>2. CASE handle = d
      BY <1>1, <2>2, <3>1, <3>2 DEF Moves, Running
    <3>3. CASE handle # d
      BY <1>1, <3>1, <3>3
    <3> QED
      BY <3>2, <3>3
  <2> QED
    BY <2>1, <2>2, <1>3 DEF Slot, Moves
<1>11. OneAtWork'
  <2> SUFFICES ASSUME NEW x \in Drivers, NEW y \in Drivers, AtWork(x)'
               PROVE  (AtWork(y)' => x = y) /\ ~drv'[y].aborted
    BY DEF OneAtWork
  <2>1. CASE x = d
    <3>1. AtWork(d) \/ phase = "up"
      BY <1>7, <1>8, <2>1 DEF Moves
    <3> QED
      BY <1>1, <1>5, <1>6, <1>8, <2>1, <3>1 DEF Moves
  <2>2. CASE x # d
    <3>1. AtWork(x) /\ ~AtWork(d) /\ phase # "up"
      BY <1>5, <1>8, <2>2
    <3>2. t.pc = "done"
      BY <1>7, <3>1 DEF Moves
    <3>3. (AtWork(y) => x = y) /\ ~drv[y].aborted
      BY <3>1 DEF Inv, OneAtWork
    <3> QED
      BY <1>1, <1>8, <3>2, <3>3 DEF Moves
  <2> QED
    BY <2>1, <2>2
<1>12. Verdict'
  BY <1>1, <1>4, <1>8 DEF Verdict, Moves
<1>13. TerminalPlace'
  BY <1>1 DEF Inv, TerminalPlace, Moves
<1>14. Budget'
  <2> SUFFICES ASSUME NEW x \in Drivers, AtWork(x)', ~drv'[x].terminal
               PROVE  ses'.qr < QrLimit
    BY DEF Budget
  <2>1. CASE x = d
    BY <1>1, <1>8, <2>1 DEF Moves
  <2>2. CASE x # d
    BY <1>1, <1>5, <1>7, <1>8, <2>2 DEF Moves, Inv, Budget
  <2> QED
    BY <2>1, <2>2
<1>15. LogoutHeard'
  <2> SUFFICES ASSUME NEW x \in Drivers
               PROVE  /\ "logout" \in drv'[x].woken => drv'[x].pc \in {"loop", "backoff"}
                      /\ "logout" \in drv'[x].woken \/ drv'[x].pc = "unpair" =>
                            phase' # "up" \/ ses'.status \notin Busy
    BY DEF LogoutHeard
  <2>1. CASE x = d
    BY <1>1, <2>1 DEF Moves
  <2>2. CASE x # d
    <3>1. drv'[x] = drv[x]
      BY <1>1, <2>2
    <3>2. phase = "up" => ~Running(x) /\ ~drv[x].aborted
      BY <1>4, <1>6, <2>2
    <3>3. phase = "up" => drv[x].pc \in {"none", "done"}
      BY <3>2 DEF Running
    <3> QED
      BY <3>1, <3>3 DEF Inv, LogoutHeard, Moves
  <2> QED
    BY <2>1, <2>2
<1>16. Succeeded'
  <2>1. CASE t.pc # "done"
    BY <1>8, <2>1 DEF Succeeded
  <2>2. CASE t.pc = "done" /\ phase = "up"
    BY <1>1, <1>6, <2>2 DEF Succeeded, Moves
  <2>3. CASE phase # "up"
    BY <2>3 DEF Succeeded, Moves
  <2> QED
    BY <2>1, <2>2, <2>3
<1>17. NoOrphan'
  BY <1>8 DEF NoOrphan, Moves, Busy
<1> QED
  BY <1>2, <1>9, <1>10, <1>11, <1>12, <1>13, <1>14, <1>15, <1>16, <1>17 DEF Inv

\* A driver at an await is not aborted; only one on its way to its decision can be.
LEMMA Awake ==
    ASSUME Inv, NEW d \in Drivers, drv[d].pc \notin {"none", "done"},
           drv[d].pc # "exited" \/ ~drv[d].aborted
    PROVE  /\ Running(d) /\ ~drv[d].aborted
           /\ ses \in Sessions /\ drv[d] \in Tasks
           /\ phase = "up" => (ses.expect <=> drv[d].terminal)
           /\ drv[d].pc # "new" /\ ~drv[d].terminal => ses.qr < QrLimit
<1>1. Running(d) /\ ~drv[d].aborted
  BY DEF Inv, AbortedPlace, Running
<1>2. ses \in Sessions /\ drv[d] \in Tasks
  BY DEF Inv, TypeOK, Sessions, Tasks
<1> QED
  BY <1>1, <1>2 DEF Inv, Verdict, Budget, AtWork

\* The first poll, with a usable proxy or without.
LEMMA StartInv ==
    ASSUME Inv, NEW d \in Drivers, Start(d) \/ StartBadProxy(d)
    PROVE  Inv'
<1>1. /\ drv[d].pc = "new" /\ Settled /\ Unchanged /\ fetching' = fetching
      /\ fetching \subseteq Collections
  BY DEF Start, StartBadProxy, Inv, TypeOK
<1>2. /\ Running(d) /\ ~drv[d].aborted /\ ses \in Sessions /\ drv[d].terminal = FALSE
      /\ phase = "up" => ~ses.expect
  BY <1>1, Awake DEF Inv, TerminalPlace, Tasks
<1>3. CASE drv' = [drv EXCEPT ![d] = Finished] /\ phase = "stopping" /\ UNCHANGED ses
  <2>1. Moves(d, Finished)
    BY <1>1, <1>2, <1>3, TaskFacts DEF Moves
  <2> QED
    BY <1>2, <2>1, MovesInv
<1>4. CASE phase = "up" /\ StartBadProxy(d)
  <2>1. ses' \in Sessions /\ ses'.status \notin Busy
    BY <1>2, <1>4 DEF StartBadProxy, Sessions, Statuses, Busy
  <2>2. Moves(d, Finished)
    BY <1>1, <1>2, <1>4, <2>1, TaskFacts DEF Moves, StartBadProxy
  <2> QED
    BY <1>2, <2>2, MovesInv
<1>5. CASE phase = "up" /\ Attempt(d, [ses EXCEPT !.qr = 0])
  <2> DEFINE t == [NoTask EXCEPT !.pc = "dial", !.terminal = FALSE]
  <2>1. t \in Tasks /\ ~t.aborted /\ t.pc = "dial" /\ ~t.terminal /\ t.woken = {}
    BY TaskFacts DEF Tasks, Places
  <2>2. ses' \in Sessions /\ ses'.expect = ses.expect /\ ses'.qr = 0 /\ 0 < QrLimit
    <3> DEFINE s == [ses EXCEPT !.qr = 0]
    <3>1. s \in Sessions /\ s.expect = ses.expect /\ s.qr = 0 /\ 0 < QrLimit
      BY <1>2, BoundsAssumption DEF Sessions
    <3>2. ses' = [s EXCEPT !.success = FALSE]
      BY <1>5 DEF Attempt
    <3> HIDE DEF s
    <3> QED
      BY <3>1, <3>2 DEF Sessions
  <2>3. drv' = [drv EXCEPT ![d] = t]
    BY <1>2, <1>5 DEF Attempt, Inv, TypeOK
  <2> HIDE DEF t
  <2>4. Moves(d, t)
    BY <1>1, <1>2, <1>5, <2>1, <2>2, <2>3 DEF Moves
  <2> QED
    BY <1>2, <2>4, MovesInv
<1> QED
  BY <1>3, <1>4, <1>5 DEF Start, StartBadProxy

\* The dial and the handshake succeed.
LEMMA DialInv ==
    ASSUME Inv, NEW d \in Drivers, DialOk(d) \/ HandshakeOk(d)
    PROVE  Inv'
<1>1. /\ drv[d].pc \in {"dial", "handshake"} /\ Unchanged /\ fetching' = fetching
      /\ fetching \subseteq Collections
  BY DEF DialOk, HandshakeOk, Inv, TypeOK
<1>2. /\ Running(d) /\ ~drv[d].aborted /\ ses \in Sessions /\ drv[d] \in Tasks
      /\ ~drv[d].terminal /\ "logout" \notin drv[d].woken
      /\ phase = "up" => ~ses.expect
      /\ ses.qr < QrLimit
  BY <1>1, Awake DEF Inv, TerminalPlace, LogoutHeard
<1>3. CASE DialOk(d)
  <2> DEFINE t == [drv[d] EXCEPT !.pc = "handshake", !.login = ses.paired]
  <2>1. /\ t \in Tasks /\ t.pc = "handshake"
        /\ t.aborted = drv[d].aborted /\ t.terminal = drv[d].terminal /\ t.woken = drv[d].woken
    BY <1>2 DEF Tasks, Places, Sessions
  <2>2. drv' = [drv EXCEPT ![d] = t] /\ ses' = ses
    BY <1>3 DEF DialOk, Inv, TypeOK
  <2> HIDE DEF t
  <2>3. Moves(d, t)
    BY <1>1, <1>2, <2>1, <2>2 DEF Moves
  <2> QED
    BY <1>2, <2>3, MovesInv
<1>4. CASE HandshakeOk(d)
  <2> DEFINE t == [drv[d] EXCEPT !.pc = "loop"]
  <2>1. /\ t \in Tasks /\ t.pc = "loop"
        /\ t.aborted = drv[d].aborted /\ t.terminal = drv[d].terminal /\ t.woken = drv[d].woken
    BY <1>2 DEF Tasks, Places
  <2>2. drv' = [drv EXCEPT ![d] = t]
    BY <1>4 DEF HandshakeOk, Inv, TypeOK
  <2>3. ses' \in Sessions /\ ses'.expect = ses.expect /\ ses'.qr = ses.qr
    BY <1>2, <1>4 DEF HandshakeOk, Sessions, Statuses
  <2> HIDE DEF t
  <2>4. Moves(d, t)
    BY <1>1, <1>2, <2>1, <2>2, <2>3 DEF Moves
  <2> QED
    BY <1>2, <2>4, MovesInv
<1> QED
  BY <1>3, <1>4

\* run_connection returns an error, from wherever it was.
LEMMA FailsInv ==
    ASSUME Inv, NEW d \in Drivers, DialFails(d) \/ SocketFails(d) \/ CloseSent(d)
    PROVE  Inv'
<1>1. /\ drv[d].pc \in {"dial", "handshake", "loop", "closing"} /\ Fails(d)
      /\ Unchanged /\ fetching' = fetching /\ fetching \subseteq Collections
  BY DEF DialFails, SocketFails, CloseSent, Fails, Inv, TypeOK
<1>2. /\ Running(d) /\ ~drv[d].aborted /\ ses \in Sessions /\ drv[d] \in Tasks
      /\ phase = "up" => (ses.expect <=> drv[d].terminal)
      /\ ~drv[d].terminal => ses.qr < QrLimit
  BY <1>1, Awake
<1> DEFINE t == [drv[d] EXCEPT !.pc = "exited", !.woken = {}, !.ended = FALSE]
<1>3. /\ t \in Tasks /\ t.pc = "exited" /\ t.woken = {}
      /\ t.aborted = drv[d].aborted /\ t.terminal = drv[d].terminal
  BY <1>2 DEF Tasks, Places
<1>4. drv' = [drv EXCEPT ![d] = t]
  BY <1>1 DEF Fails, Inv, TypeOK
<1>5. ses' \in Sessions /\ ses'.expect = ses.expect /\ ses'.qr = ses.qr
  BY <1>1, <1>2 DEF Fails, Sessions, Statuses
<1> HIDE DEF t
<1>6. Moves(d, t)
  BY <1>1, <1>2, <1>3, <1>4, <1>5 DEF Moves
<1> QED
  BY <1>2, <1>6, MovesInv

\* A node handled in the select loop: what it leaves in the session must fit its verdict.
LEMMA HandlesInv ==
    ASSUME Inv, NEW d \in Drivers, NEW s \in Sessions, NEW ended \in BOOLEAN,
           NEW terminal \in BOOLEAN, Handles(d, s, ended, terminal),
           fetching' \subseteq Collections,
           terminal => ended,
           s.expect <=> (ses.expect \/ terminal),
           terminal \/ s.qr < QrLimit
    PROVE  Inv'
<1>1. drv[d].pc = "loop" /\ ~drv[d].ended /\ ses' = s /\ Unchanged
  BY DEF Handles
<1>2. /\ Running(d) /\ ~drv[d].aborted /\ drv[d] \in Tasks /\ drv[d].terminal = FALSE
      /\ phase = "up" => ~ses.expect
  BY <1>1, Awake DEF Inv, TerminalPlace, Tasks
<1> DEFINE t == [drv[d] EXCEPT !.woken = {}, !.ended = ended, !.terminal = terminal]
<1>3. /\ t \in Tasks /\ t.pc = "loop" /\ t.woken = {} /\ t.terminal = terminal
      /\ t.ended = ended /\ ~t.aborted
  BY <1>1, <1>2 DEF Tasks
<1>4. drv' = [drv EXCEPT ![d] = t]
  <2>1. drv' = [drv EXCEPT ![d].woken = {}, ![d].ended = ended,
                           ![d].terminal = @ \/ terminal]
    BY DEF Handles
  <2>2. (drv[d].terminal \/ terminal) = terminal
    BY <1>2
  <2> QED
    BY <2>1, <2>2 DEF Inv, TypeOK
<1> HIDE DEF t
<1>5. Moves(d, t)
  BY <1>1, <1>2, <1>3, <1>4 DEF Moves
<1> QED
  BY <1>2, <1>5, MovesInv

\* begin_sync, alone or overtaken by mark_ready, touches neither the verdict nor the budget.
LEMMA SyncKeeps ==
    ASSUME NEW s \in Sessions, NEW t \in {begin_sync(s)} \cup Overtaken(s)
    PROVE  t \in Sessions /\ t.expect = s.expect /\ t.qr = s.qr
<1> DEFINE b == begin_sync(s)
<1>1. b \in Sessions /\ b.expect = s.expect /\ b.qr = s.qr
  BY DEF begin_sync, Sessions, Statuses
<1> HIDE DEF b
<1>2. \/ t = b
      \/ t = [b EXCEPT !.ready = TRUE]
      \/ \E armed \in BOOLEAN : t = [b EXCEPT !.status = "Connected", !.deadline = armed]
  BY DEF Overtaken, b
<1> QED
  BY <1>1, <1>2 DEF Sessions, Statuses

\* pair-success and success begin a sync round.
LEMMA SyncInv ==
    ASSUME Inv, NEW d \in Drivers, PairSuccess(d) \/ LoginSuccess(d)
    PROVE  Inv'
<1>1. PICK s \in {[ses EXCEPT !.paired = TRUE], [ses EXCEPT !.success = TRUE]} :
         SyncRound(d, s)
  BY DEF PairSuccess, LoginSuccess
<1>2. PICK t \in {begin_sync(s)} \cup Overtaken(s) : Handles(d, t, FALSE, FALSE)
  BY <1>1 DEF SyncRound
<1>3. fetching' \subseteq Collections
  BY <1>1 DEF SyncRound, Inv, TypeOK
<1>4. ses \in Sessions /\ ses.qr < QrLimit
  BY <1>2, Awake DEF Handles, Inv, TerminalPlace
<1>5. s \in Sessions /\ s.expect = ses.expect /\ s.qr = ses.qr
  BY <1>1, <1>4 DEF Sessions
<1>6. t \in Sessions /\ t.expect = ses.expect /\ t.qr = ses.qr
  BY <1>5, SyncKeeps
<1> QED
  BY <1>2, <1>3, <1>4, <1>6, HandlesInv

\* The replies and the stream errors that keep the session's place.
LEMMA StreamInv ==
    ASSUME Inv, NEW d \in Drivers,
           SyncReply(d) \/ StreamRestart(d) \/ StreamTransient(d) \/ StreamReplaced(d)
               \/ AuthRejected(d)
    PROVE  Inv'
<1>1. /\ drv[d].pc = "loop" /\ ~drv[d].ended
      /\ fetching' \subseteq Collections
  BY DEF SyncReply, StreamRestart, StreamTransient, StreamReplaced, AuthRejected, Handles,
         Inv, TypeOK
<1>2. ses \in Sessions /\ ses.qr < QrLimit
  BY <1>1, Awake DEF Inv, TerminalPlace
<1>3. CASE SyncReply(d)
  <2>1. Handles(d, ses, FALSE, FALSE)
    BY <1>3 DEF SyncReply
  <2> QED
    BY <1>1, <1>2, <2>1, HandlesInv
<1>4. CASE StreamTransient(d)
  <2>1. Handles(d, ses, TRUE, FALSE)
    BY <1>4 DEF StreamTransient
  <2> QED
    BY <1>1, <1>2, <2>1, HandlesInv
<1>5. CASE StreamRestart(d)
  <2> DEFINE s == [ses EXCEPT !.restart = TRUE]
  <2>1. Handles(d, s, TRUE, FALSE)
    BY <1>5 DEF StreamRestart
  <2>2. s \in Sessions /\ s.expect = ses.expect /\ s.qr = ses.qr
    BY <1>2 DEF Sessions
  <2> HIDE DEF s
  <2> QED
    BY <1>1, <1>2, <2>1, <2>2, HandlesInv
<1>6. CASE StreamReplaced(d)
  <2> DEFINE s == [ses EXCEPT !.expect = TRUE]
  <2>1. Handles(d, s, TRUE, TRUE)
    BY <1>6 DEF StreamReplaced
  <2>2. s \in Sessions /\ s.expect
    BY <1>2 DEF Sessions
  <2> HIDE DEF s
  <2> QED
    BY <1>1, <2>1, <2>2, HandlesInv
<1>7. CASE AuthRejected(d)
  <2> DEFINE s == [ses EXCEPT !.blocked = TRUE, !.expect = TRUE]
  <2>1. Handles(d, s, TRUE, TRUE)
    BY <1>7 DEF AuthRejected
  <2>2. s \in Sessions /\ s.expect
    BY <1>2 DEF Sessions
  <2> HIDE DEF s
  <2> QED
    BY <1>1, <2>1, <2>2, HandlesInv
<1> QED
  BY <1>3, <1>4, <1>5, <1>6, <1>7

\* An idle ping spends a QR window of an unpaired session; the last one is a verdict.
LEMMA IdlePingInv ==
    ASSUME Inv, NEW d \in Drivers, IdlePing(d)
    PROVE  Inv'
<1>1. /\ drv[d].pc = "loop" /\ ~drv[d].ended
      /\ fetching' \subseteq Collections
  BY DEF IdlePing, Handles, Inv, TypeOK
<1>2. ses \in Sessions /\ ses.qr < QrLimit /\ ses.qr \in Nat /\ QrLimit \in Nat
  <2>1. ses \in Sessions /\ ses.qr < QrLimit
    BY <1>1, Awake DEF Inv, TerminalPlace
  <2>2. ses.qr \in 0..QrLimit
    BY <2>1 DEF Sessions
  <2> QED
    BY <2>1, <2>2, BoundsAssumption
<1>3. CASE Handles(d, [ses EXCEPT !.restart = TRUE], TRUE, FALSE)
  <2> DEFINE s == [ses EXCEPT !.restart = TRUE]
  <2>1. s \in Sessions /\ s.expect = ses.expect /\ s.qr = ses.qr
    BY <1>2 DEF Sessions
  <2>2. Handles(d, s, TRUE, FALSE)
    BY <1>3
  <2> HIDE DEF s
  <2> QED
    BY <1>1, <1>2, <2>1, <2>2, HandlesInv
<1>4. CASE /\ ~QrSpent(ses.qr + 1)
           /\ Handles(d, [ses EXCEPT !.qr = @ + 1, !.restart = TRUE], TRUE, FALSE)
  <2> DEFINE s == [ses EXCEPT !.qr = @ + 1, !.restart = TRUE]
  <2>1. ses.qr + 1 \in 0..QrLimit /\ ses.qr + 1 < QrLimit
    BY <1>2, <1>4 DEF QrSpent
  <2>2. s \in Sessions /\ s.expect = ses.expect /\ s.qr = ses.qr + 1
    BY <1>2, <2>1 DEF Sessions
  <2>3. Handles(d, s, TRUE, FALSE)
    BY <1>4
  <2> HIDE DEF s
  <2> QED
    BY <1>1, <2>1, <2>2, <2>3, HandlesInv
<1>5. CASE Handles(d, [ses EXCEPT !.qr = @ + 1, !.expect = TRUE], TRUE, TRUE)
  <2> DEFINE s == [ses EXCEPT !.qr = @ + 1, !.expect = TRUE]
  <2>1. ses.qr + 1 \in 0..QrLimit
    BY <1>2
  <2>2. s \in Sessions /\ s.expect
    BY <1>2, <2>1 DEF Sessions
  <2>3. Handles(d, s, TRUE, TRUE)
    BY <1>5
  <2> HIDE DEF s
  <2> QED
    BY <1>1, <2>2, <2>3, HandlesInv
<1> QED
  BY <1>3, <1>4, <1>5 DEF IdlePing

\* The wake-up branches of the loop.
LEMMA TakesInv ==
    ASSUME Inv, NEW d \in Drivers, TakeReconnect(d) \/ TakeLogout(d) \/ TakeShutdown(d)
    PROVE  Inv'
<1>1. PICK place \in {"closing", "unpair", "flush"} :
         /\ drv' = [drv EXCEPT ![d].pc = place, ![d].woken = {}]
         /\ place = "unpair" => "logout" \in drv[d].woken
  BY DEF TakeReconnect, TakeLogout, TakeShutdown
<1>2. /\ drv[d].pc = "loop" /\ ses' = ses /\ Unchanged /\ fetching' = fetching
      /\ fetching \subseteq Collections
  BY DEF TakeReconnect, TakeLogout, TakeShutdown, Inv, TypeOK
<1>3. /\ Running(d) /\ ~drv[d].aborted /\ ses \in Sessions /\ drv[d] \in Tasks
      /\ phase = "up" => (ses.expect <=> drv[d].terminal)
      /\ ~drv[d].terminal => ses.qr < QrLimit
  BY <1>2, Awake
<1>4. "logout" \in drv[d].woken => phase # "up" \/ ses.status \notin Busy
  BY DEF Inv, LogoutHeard
<1> DEFINE t == [drv[d] EXCEPT !.pc = place, !.woken = {}]
<1>5. /\ t \in Tasks /\ t.pc = place /\ t.woken = {}
      /\ t.aborted = drv[d].aborted /\ t.terminal = drv[d].terminal
  BY <1>3 DEF Tasks, Places
<1>6. drv' = [drv EXCEPT ![d] = t]
  BY <1>1 DEF Inv, TypeOK
<1> HIDE DEF t
<1>7. Moves(d, t)
  BY <1>1, <1>2, <1>3, <1>4, <1>5, <1>6 DEF Moves
<1> QED
  BY <1>3, <1>7, MovesInv

\* run_connection returns Ok after a logout or a shutdown.
LEMMA ReturnsInv ==
    ASSUME Inv, NEW d \in Drivers, UnpairSent(d) \/ FlushSent(d)
    PROVE  Inv'
<1>1. /\ drv[d].pc \in {"unpair", "flush"} /\ Unchanged /\ fetching' = fetching
      /\ fetching \subseteq Collections /\ drv' = [drv EXCEPT ![d] = Finished]
  BY DEF UnpairSent, FlushSent, ReturnsOk, Inv, TypeOK
<1>2. Running(d) /\ ses \in Sessions
  BY <1>1, Awake
<1>3. ses' \in Sessions /\ (phase = "up" => ses'.status \notin Busy)
  <2>1. CASE UnpairSent(d)
    <3>1. ses' = [ses EXCEPT !.live = FALSE] /\ drv[d].pc = "unpair"
      BY <2>1 DEF UnpairSent, ReturnsOk
    <3>2. ses' \in Sessions /\ ses'.status = ses.status
      BY <1>2, <3>1 DEF Sessions
    <3> QED
      BY <3>1, <3>2 DEF Inv, LogoutHeard
  <2>2. CASE FlushSent(d)
    <3> DEFINE s == [ses EXCEPT !.status = "Disconnected"]
    <3>1. s \in Sessions /\ s.status = "Disconnected"
      BY <1>2 DEF Sessions, Statuses
    <3>2. ses' = [s EXCEPT !.live = FALSE]
      BY <2>2 DEF FlushSent, ReturnsOk
    <3> HIDE DEF s
    <3> QED
      BY <3>1, <3>2 DEF Sessions, Busy
  <2> QED
    BY <2>1, <2>2
<1>4. Moves(d, Finished)
  BY <1>1, <1>3, TaskFacts DEF Moves
<1> QED
  BY <1>2, <1>4, MovesInv

\* The next attempt of a driver that has no verdict against it.
LEMMA AttemptInv ==
    ASSUME Inv, NEW d \in Drivers, drv[d].pc \in {"exited", "backoff"}, ~drv[d].aborted,
           ~drv[d].terminal, NEW s \in Sessions, s.expect = ses.expect, s.qr = ses.qr,
           Attempt(d, s), fetching' = fetching, Unchanged
    PROVE  Inv'
<1>1. /\ Running(d) /\ ses \in Sessions /\ drv[d] \in Tasks /\ drv[d].terminal = FALSE
      /\ phase = "up" => ~ses.expect
      /\ ses.qr < QrLimit
      /\ fetching \subseteq Collections
  BY Awake DEF Inv, TypeOK, Tasks
<1> DEFINE t == [NoTask EXCEPT !.pc = "dial", !.terminal = FALSE]
<1>2. t \in Tasks /\ ~t.aborted /\ t.pc = "dial" /\ ~t.terminal /\ t.woken = {}
  BY TaskFacts DEF Tasks, Places
<1>3. ses' \in Sessions /\ ses'.expect = ses.expect /\ ses'.qr = ses.qr
  BY DEF Attempt, Sessions
<1>4. drv' = [drv EXCEPT ![d] = t]
  BY <1>1 DEF Attempt, Inv, TypeOK
<1> HIDE DEF t
<1>5. Moves(d, t)
  BY <1>1, <1>2, <1>3, <1>4 DEF Moves
<1> QED
  BY <1>1, <1>5, MovesInv

\* The back-off ends, one way or the other.
LEMMA BackoffInv ==
    ASSUME Inv, NEW d \in Drivers, BackoffElapsed(d) \/ BackoffCancelled(d)
    PROVE  Inv'
<1>1. drv[d].pc = "backoff" /\ Unchanged /\ fetching' = fetching
  BY DEF BackoffElapsed, BackoffCancelled
<1>2. /\ Running(d) /\ ses \in Sessions /\ ~drv[d].aborted /\ ~drv[d].terminal
      /\ fetching \subseteq Collections
  BY <1>1, Awake DEF Inv, TerminalPlace, TypeOK
<1>3. CASE BackoffElapsed(d)
  <2> DEFINE s == [ses EXCEPT !.status = "Connecting"]
  <2>1. s \in Sessions /\ s.expect = ses.expect /\ s.qr = ses.qr
    BY <1>2 DEF Sessions, Statuses
  <2>2. Attempt(d, s)
    BY <1>3 DEF BackoffElapsed
  <2> HIDE DEF s
  <2> QED
    BY <1>1, <1>2, <2>1, <2>2, AttemptInv
<1>4. CASE BackoffCancelled(d)
  <2>1. drv' = [drv EXCEPT ![d] = Finished] /\ ses' = ses
    BY <1>4 DEF BackoffCancelled
  <2>2. phase = "up" => ses.status \notin Busy
    BY <1>4 DEF BackoffCancelled, Inv, LogoutHeard
  <2>3. Moves(d, Finished)
    BY <1>1, <1>2, <2>1, <2>2, TaskFacts DEF Moves
  <2> QED
    BY <1>2, <2>3, MovesInv
<1> QED
  BY <1>3, <1>4

\* The decision of a driver that is still the session's own.
LEMMA DecideInv ==
    ASSUME Inv, NEW d \in Drivers, Decide(d), ~drv[d].aborted
    PROVE  Inv'
<1>1. drv[d].pc = "exited" /\ Unchanged /\ fetching' = fetching
  BY DEF Decide
<1>2. /\ Running(d) /\ ses \in Sessions /\ drv[d] \in Tasks
      /\ phase = "up" => (ses.expect <=> drv[d].terminal)
      /\ ~drv[d].terminal => ses.qr < QrLimit
      /\ fetching \subseteq Collections
  BY <1>1, Awake DEF Inv, TypeOK
<1>3. CASE phase = "stopping" /\ drv' = [drv EXCEPT ![d] = Finished] /\ UNCHANGED ses
  <2>1. Moves(d, Finished)
    BY <1>1, <1>2, <1>3, TaskFacts DEF Moves
  <2> QED
    BY <1>2, <2>1, MovesInv
<1>4. CASE /\ phase = "up"
           /\ ses' = [ses EXCEPT !.expect = FALSE, !.blocked = FALSE,
                                 !.status = IF ses.blocked THEN "Blocked" ELSE "Disconnected"]
           /\ drv' = [drv EXCEPT ![d] = Finished]
  <2>1. ses' \in Sessions /\ ses'.status \notin Busy
    BY <1>2, <1>4 DEF Sessions, Statuses, Busy
  <2>2. Moves(d, Finished)
    BY <1>1, <1>2, <1>4, <2>1, TaskFacts DEF Moves
  <2> QED
    BY <1>2, <2>2, MovesInv
<1>5. CASE /\ phase = "up" /\ ses.status = "LoggedOut"
           /\ drv' = [drv EXCEPT ![d] = Finished] /\ UNCHANGED ses
  <2>1. Moves(d, Finished)
    BY <1>1, <1>2, <1>5, TaskFacts DEF Moves, Busy
  <2> QED
    BY <1>2, <2>1, MovesInv
<1>6. CASE /\ phase = "up" /\ ~ses.expect
           /\ Attempt(d, [ses EXCEPT !.restart = FALSE, !.status = "Connecting"])
  <2> DEFINE s == [ses EXCEPT !.restart = FALSE, !.status = "Connecting"]
  <2>1. s \in Sessions /\ s.expect = ses.expect /\ s.qr = ses.qr
    BY <1>2 DEF Sessions, Statuses
  <2>2. Attempt(d, s) /\ ~drv[d].terminal
    BY <1>2, <1>6
  <2> HIDE DEF s
  <2> QED
    BY <1>1, <2>1, <2>2, AttemptInv
<1>7. CASE /\ phase = "up" /\ ~ses.expect
           /\ drv' = [drv EXCEPT ![d] = IF @.aborted THEN Finished
                                        ELSE [@ EXCEPT !.pc = "backoff"]]
           /\ UNCHANGED ses
  <2> DEFINE t == [drv[d] EXCEPT !.pc = "backoff"]
  <2>1. /\ t \in Tasks /\ t.pc = "backoff" /\ t.aborted = drv[d].aborted
        /\ t.terminal = drv[d].terminal /\ t.woken = drv[d].woken
    BY <1>2 DEF Tasks, Places
  <2>2. drv' = [drv EXCEPT ![d] = t]
    BY <1>7 DEF Inv, TypeOK
  <2>3. "logout" \notin drv[d].woken
    BY <1>1 DEF Inv, LogoutHeard
  <2> HIDE DEF t
  <2>4. Moves(d, t)
    BY <1>1, <1>2, <1>7, <2>1, <2>2, <2>3 DEF Moves
  <2> QED
    BY <1>2, <2>4, MovesInv
<1> QED
  BY <1>3, <1>4, <1>5, <1>6, <1>7 DEF Decide

\* The decision of an aborted driver: its last act, which may still write the status.
LEMMA AbortedDecideInv ==
    ASSUME Inv, NEW d \in Drivers, Decide(d), drv[d].aborted
    PROVE  Inv'
<1> USE DEF Unchanged
<1>1. drv[d].pc = "exited" /\ Unchanged /\ fetching' = fetching
  BY DEF Decide
<1>2. drv' = [drv EXCEPT ![d] = Finished]
  BY DEF Decide, Attempt, Inv, TypeOK
<1>3. ses' \in Sessions /\ (ses'.expect => ses.expect) /\ ses'.qr = ses.qr
  <2>1. ses \in Sessions
    BY DEF Inv, TypeOK, Sessions
  <2>2. CASE UNCHANGED ses
    BY <2>1, <2>2
  <2>3. CASE ses' = [ses EXCEPT !.expect = FALSE, !.blocked = FALSE,
                                !.status = IF ses.blocked THEN "Blocked" ELSE "Disconnected"]
    BY <2>1, <2>3 DEF Sessions, Statuses
  <2>4. CASE Attempt(d, [ses EXCEPT !.restart = FALSE, !.status = "Connecting"])
    <3> DEFINE s == [ses EXCEPT !.restart = FALSE, !.status = "Connecting"]
    <3>1. s \in Sessions /\ s.expect = ses.expect /\ s.qr = ses.qr
      BY <2>1 DEF Sessions, Statuses
    <3>2. ses' = [s EXCEPT !.success = FALSE]
      BY <2>4 DEF Attempt
    <3> HIDE DEF s
    <3> QED
      BY <3>1, <3>2 DEF Sessions
  <2> QED
    BY <2>2, <2>3, <2>4 DEF Decide
<1>4. /\ drv' \in [Drivers -> Tasks] /\ drv'[d] = Finished
      /\ \A e \in Drivers \ {d} : drv'[e] = drv[e]
  BY <1>2, TaskFacts DEF Inv, TypeOK, Tasks
<1>5. TypeOK'
  BY <1>1, <1>3, <1>4 DEF Inv, TypeOK, Tasks, Sessions
<1>6. \A e \in Drivers : ~AtWork(e)
  BY DEF Inv, OneAtWork
<1>7. /\ ~Running(d) /\ ~Running(d)' /\ ~AtWork(d)'
      /\ \A e \in Drivers \ {d} : (Running(e)' <=> Running(e)) /\ ~AtWork(e)'
  BY <1>4, <1>6, TaskFacts DEF Running, AtWork
<1>8. AbortedPlace'
  BY <1>4, TaskFacts DEF Inv, AbortedPlace
<1>9. Slot'
  <2>1. handle # d \/ phase = "up"
    BY <1>1 DEF Inv, Slot, Drivers
  <2>2. phase # "up" /\ handle # 0 => drv'[handle].pc \in {"new", "done"}
    BY <1>4, <2>1, SlotInDrivers DEF Inv, Slot
  <2>3. phase # "down"
    BY <1>1 DEF Inv, Slot
  <2> QED
    BY <1>1, <1>7, <2>2, <2>3 DEF Inv, Slot
<1>10. OneAtWork' /\ Budget'
  BY <1>7 DEF OneAtWork, Budget
<1>11. Verdict'
  <2> SUFFICES ASSUME phase = "up", NEW e \in Drivers, Running(e)'
               PROVE  ses'.expect <=> drv'[e].terminal
    BY <1>1 DEF Verdict
  <2>1. e # d /\ Running(e) /\ drv[e].pc = "new" /\ drv'[e] = drv[e]
    BY <1>4, <1>6, <1>7 DEF AtWork
  <2>2. ~drv[e].terminal /\ ~ses.expect
    BY <2>1 DEF Inv, Verdict, TerminalPlace
  <2> QED
    BY <1>3, <2>1, <2>2
<1>12. TerminalPlace'
  BY <1>4, TaskFacts DEF Inv, TerminalPlace
<1>13. LogoutHeard'
  <2> SUFFICES ASSUME NEW e \in Drivers
               PROVE  "logout" \notin drv'[e].woken /\ drv'[e].pc # "unpair"
    BY DEF LogoutHeard
  <2>1. CASE e = d
    BY <1>4, <2>1, TaskFacts
  <2>2. CASE e # d
    BY <1>4, <1>6, <2>2 DEF AtWork, Running, Inv, LogoutHeard, AbortedPlace
  <2> QED
    BY <2>1, <2>2
<1>14. (\E e \in Drivers : Running(e)') \/ checked' > 0 \/ deleted' \/ phase' # "up"
  BY <1>1, <1>7 DEF Inv, Succeeded
<1> QED
  BY <1>5, <1>8, <1>9, <1>10, <1>11, <1>12, <1>13, <1>14 DEF Inv, Succeeded, NoOrphan

(***************************************************************************)
(* Steps of the handlers and of the tasks no connection owns.               *)
(***************************************************************************)

\* Drivers stay where they are: a call is counted, a flag is set, a waiter is woken.
LEMMA QuietInv ==
    ASSUME Inv,
           drv' \in [Drivers -> Tasks],
           \A d \in Drivers : /\ drv'[d].pc = drv[d].pc
                              /\ drv'[d].aborted = drv[d].aborted
                              /\ drv'[d].terminal = drv[d].terminal
                              /\ drv'[d].ended = drv[d].ended
                              /\ "logout" \in drv'[d].woken \ drv[d].woken =>
                                    drv[d].pc \in {"loop", "backoff"} /\ ses'.status \notin Busy,
           ses' \in Sessions, ses'.expect = ses.expect, ses'.qr = ses.qr,
           ses'.status = ses.status \/ ses'.status \notin Busy,
           checked' \in 0..MaxCallers, checked' >= checked,
           fetching' \subseteq Collections,
           UNCHANGED <<spawned, handle, phase, deleted>>
    PROVE  Inv'
<1>1. TypeOK'
  BY DEF Inv, TypeOK, Tasks, Sessions
<1>2. \A d \in Drivers : (Running(d)' <=> Running(d)) /\ (AtWork(d)' <=> AtWork(d))
  BY DEF Running, AtWork
<1>3. Slot'
  BY <1>2, SlotInDrivers DEF Inv, Slot
<1>4. AbortedPlace' /\ OneAtWork' /\ TerminalPlace'
  BY <1>2 DEF Inv, AbortedPlace, OneAtWork, TerminalPlace
<1>5. Verdict' /\ Budget'
  BY <1>2 DEF Inv, Verdict, Budget
<1>6. LogoutHeard'
  BY DEF Inv, LogoutHeard
<1>7. checked > 0 => checked' > 0
  BY <1>1, BoundsAssumption DEF Inv, TypeOK
<1>8. Succeeded' /\ NoOrphan'
  BY <1>2, <1>7 DEF Inv, Succeeded, NoOrphan, Busy
<1> QED
  BY <1>1, <1>3, <1>4, <1>5, <1>6, <1>8 DEF Inv

\* The check of connect, the app-state tasks and the sync timer.
LEMMA TasksInv ==
    ASSUME Inv, ConnectCheck \/ DeadlineFires \/ \E c \in Collections : FetchDone(c)
    PROVE  Inv'
<1>1. ses \in Sessions /\ checked \in 0..MaxCallers /\ fetching \subseteq Collections
      /\ drv \in [Drivers -> Tasks]
  BY DEF Inv, TypeOK, Sessions, Tasks
<1>2. drv' = drv /\ fetching' \subseteq Collections /\ UNCHANGED <<spawned, handle, phase, deleted>>
  BY <1>1 DEF ConnectCheck, DeadlineFires, FetchDone, Unchanged
<1>3. checked' \in 0..MaxCallers /\ checked' >= checked
  BY <1>1, BoundsAssumption DEF ConnectCheck, DeadlineFires, FetchDone, Unchanged
<1>4. \A s \in Sessions :
         /\ mark_ready(s) \in Sessions /\ mark_ready(s).expect = s.expect
         /\ mark_ready(s).qr = s.qr
         /\ mark_ready(s).status = s.status \/ mark_ready(s).status = "Connected"
  <2> SUFFICES ASSUME NEW s \in Sessions
               PROVE  /\ mark_ready(s) \in Sessions /\ mark_ready(s).expect = s.expect
                      /\ mark_ready(s).qr = s.qr
                      /\ mark_ready(s).status = s.status \/ mark_ready(s).status = "Connected"
    OBVIOUS
  <2>1. CASE s.ready
    BY <2>1 DEF mark_ready
  <2>2. CASE ~s.ready
    <3>1. mark_ready(s) = [s EXCEPT !.ready = TRUE, !.deadline = FALSE, !.status = "Connected"]
      BY <2>2 DEF mark_ready
    <3> QED
      BY <3>1 DEF Sessions, Statuses
  <2> QED
    BY <2>1, <2>2
<1>5. /\ ses' \in Sessions /\ ses'.expect = ses.expect /\ ses'.qr = ses.qr
      /\ ses'.status = ses.status \/ ses'.status \notin Busy
  <2>1. CASE UNCHANGED ses
    BY <1>1, <2>1
  <2>2. CASE DeadlineFires
    <3> DEFINE s == mark_ready(ses)
    <3>1. /\ s \in Sessions /\ s.expect = ses.expect /\ s.qr = ses.qr
          /\ s.status = ses.status \/ s.status = "Connected"
      BY <1>1, <1>4
    <3>2. ses' = [s EXCEPT !.deadline = FALSE]
      BY <2>2 DEF DeadlineFires
    <3> HIDE DEF s
    <3> QED
      BY <3>1, <3>2 DEF Sessions, Busy
  <2>3. ASSUME NEW c \in Collections, ses' = mark_collection_synced(ses, c)
        PROVE  /\ ses' \in Sessions /\ ses'.expect = ses.expect /\ ses'.qr = ses.qr
               /\ ses'.status = ses.status \/ ses'.status \notin Busy
    <3> DEFINE s == [ses EXCEPT !.synced = @ \cup {c}]
    <3>1. s \in Sessions /\ s.expect = ses.expect /\ s.qr = ses.qr /\ s.status = ses.status
      BY <1>1 DEF Sessions
    <3>2. ses' = mark_ready(s) \/ ses' = s
      BY <2>3 DEF mark_collection_synced
    <3> HIDE DEF s
    <3> QED
      BY <1>4, <3>1, <3>2 DEF Busy
  <2> QED
    BY <2>1, <2>2, <2>3 DEF ConnectCheck, FetchDone
<1> QED
  BY <1>1, <1>2, <1>3, <1>5, QuietInv

\* Notify changes nothing but what its waiters have heard.
LEMMA NotifyKeeps ==
    ASSUME drv \in [Drivers -> Tasks], NEW signal \in Signals, NEW heard, NEW places
    PROVE  /\ Notify(signal, heard, places) \in [Drivers -> Tasks]
           /\ \A d \in Drivers :
                LET t == Notify(signal, heard, places)[d]
                IN  /\ t.pc = drv[d].pc /\ t.aborted = drv[d].aborted
                    /\ t.terminal = drv[d].terminal /\ t.ended = drv[d].ended
                    /\ t.woken = drv[d].woken
                          \/ (drv[d].pc \in places /\ t.woken = drv[d].woken \cup {signal})
<1> DEFINE n == Notify(signal, heard, places)
<1>1. n = [d \in Drivers |->
             IF drv[d].pc \in places /\ (drv[d].pc = "loop" => d \in heard)
             THEN [drv[d] EXCEPT !.woken = @ \cup {signal}] ELSE drv[d]]
  BY DEF Notify
<1> HIDE DEF n
<1>2. ASSUME NEW d \in Drivers
      PROVE  /\ n[d] \in Tasks
             /\ n[d].pc = drv[d].pc /\ n[d].aborted = drv[d].aborted
             /\ n[d].terminal = drv[d].terminal /\ n[d].ended = drv[d].ended
             /\ n[d].woken = drv[d].woken
                   \/ (drv[d].pc \in places /\ n[d].woken = drv[d].woken \cup {signal})
  BY <1>1 DEF Tasks
<1>3. n \in [Drivers -> Tasks]
  BY <1>1, <1>2
<1> QED
  BY <1>2, <1>3 DEF n

\* reconnect on a live socket, and logout.
LEMMA NotifiesInv ==
    ASSUME Inv, ReconnectBounce \/ Logout
    PROVE  Inv'
<1>1. /\ ses \in Sessions /\ drv \in [Drivers -> Tasks] /\ checked \in 0..MaxCallers
      /\ fetching \subseteq Collections
  BY DEF Inv, TypeOK, Sessions, Tasks
<1>2. UNCHANGED <<spawned, handle, phase, deleted, checked, fetching>>
  BY DEF ReconnectBounce, Logout
<1>3. checked' >= checked
  BY <1>1, <1>2, BoundsAssumption
<1>4. CASE ReconnectBounce
  <2>1. PICK heard \in SUBSET Loops : drv' = Notify("reconnect", heard, {"loop"})
    BY <1>4 DEF ReconnectBounce
  <2>2. ses' \in Sessions /\ ses'.expect = ses.expect /\ ses'.qr = ses.qr
        /\ ses'.status = ses.status
    BY <1>1, <1>4 DEF ReconnectBounce, Sessions
  <2>3. drv' \in [Drivers -> Tasks]
    BY <1>1, <2>1, NotifyKeeps DEF Signals
  <2>4. \A d \in Drivers :
           /\ drv'[d].pc = drv[d].pc /\ drv'[d].aborted = drv[d].aborted
           /\ drv'[d].terminal = drv[d].terminal /\ drv'[d].ended = drv[d].ended
           /\ drv'[d].woken = drv[d].woken \/ drv'[d].woken = drv[d].woken \cup {"reconnect"}
    BY <1>1, <2>1, NotifyKeeps DEF Signals
  <2>5. \A d \in Drivers : "logout" \notin drv'[d].woken \ drv[d].woken
    BY <2>4
  <2> QED
    BY <1>1, <1>2, <1>3, <2>2, <2>3, <2>4, <2>5, QuietInv
<1>5. CASE Logout
  <2>1. PICK heard \in SUBSET Loops : drv' = Notify("logout", heard, {"loop", "backoff"})
    BY <1>5 DEF Logout
  <2>2. ses' \in Sessions /\ ses'.expect = ses.expect /\ ses'.qr = ses.qr
        /\ ses'.status \notin Busy
    BY <1>1, <1>5 DEF Logout, Sessions, Statuses, Busy
  <2>3. drv' \in [Drivers -> Tasks]
    BY <1>1, <2>1, NotifyKeeps DEF Signals
  <2>4. \A d \in Drivers :
           /\ drv'[d].pc = drv[d].pc /\ drv'[d].aborted = drv[d].aborted
           /\ drv'[d].terminal = drv[d].terminal /\ drv'[d].ended = drv[d].ended
           /\ drv'[d].woken = drv[d].woken \/ drv[d].pc \in {"loop", "backoff"}
    BY <1>1, <2>1, NotifyKeeps DEF Signals
  <2> QED
    BY <1>1, <1>2, <1>3, <2>2, <2>3, <2>4, QuietInv
<1> QED
  BY <1>4, <1>5

\* What abort() on the slot leaves: while the process is up, no driver that runs.
LEMMA AbortLeaves ==
    ASSUME Inv, NEW a, a = Abort(drv, handle)
    PROVE  /\ a \in [Drivers -> Tasks]
           /\ \A d \in Drivers :
                 \/ a[d] = drv[d] /\ (phase = "up" => ~Running(d)) /\ (d # handle \/ handle = 0)
                 \/ a[d] = Finished /\ d = handle
                 \/ /\ phase = "up" /\ d = handle
                    /\ a[d].pc = "exited" /\ drv[d].pc = "exited" /\ a[d].aborted
                    /\ a[d].woken = drv[d].woken /\ a[d].terminal = drv[d].terminal
<1>1. drv \in [Drivers -> Tasks]
  BY DEF Inv, TypeOK, Tasks
<1>2. \A d \in Drivers \ {handle} : phase = "up" => ~Running(d)
  BY DEF Inv, Slot
<1>3. CASE handle = 0
  BY <1>1, <1>2, <1>3 DEF Abort, Inv, Slot, Drivers
<1>4. CASE handle # 0
  <2>1. handle \in Drivers
    BY <1>4, SlotInDrivers DEF Inv
  <2>2. CASE drv[handle].pc = "exited"
    <3> DEFINE t == [drv[handle] EXCEPT !.aborted = TRUE]
    <3>1. /\ t \in Tasks /\ t.pc = "exited" /\ t.aborted
          /\ t.woken = drv[handle].woken /\ t.terminal = drv[handle].terminal
      BY <1>1, <2>1, <2>2 DEF Tasks
    <3>2. a = [drv EXCEPT ![handle] = t]
      BY <1>1, <1>4, <2>1, <2>2 DEF Abort
    <3> HIDE DEF t
    <3>3. phase = "up"
      BY <1>4, <2>2 DEF Inv, Slot
    <3> QED
      BY <1>1, <1>2, <2>1, <2>2, <3>1, <3>2, <3>3
  <2>3. CASE drv[handle].pc # "exited"
    <3>1. a = [drv EXCEPT ![handle] = Finished]
      BY <1>1, <1>4, <2>1, <2>3 DEF Abort
    <3> QED
      BY <1>1, <1>2, <2>1, <3>1, TaskFacts
  <2> QED
    BY <2>2, <2>3
<1> QED
  BY <1>3, <1>4

\* The rescue of reconnect, and delete: the slot is emptied.
LEMMA EmptiesInv ==
    ASSUME Inv, ReconnectRescue \/ Delete
    PROVE  Inv'
<1>1. /\ drv' = Abort(drv, handle) /\ handle' = 0
      /\ UNCHANGED <<spawned, fetching, phase>>
  BY DEF ReconnectRescue, Delete
<1>2. /\ drv' \in [Drivers -> Tasks]
      /\ \A d \in Drivers :
            \/ drv'[d] = drv[d] /\ (phase = "up" => ~Running(d))
            \/ drv'[d] = Finished
            \/ /\ phase = "up"
               /\ drv'[d].pc = "exited" /\ drv[d].pc = "exited" /\ drv'[d].aborted
               /\ drv'[d].woken = drv[d].woken /\ drv'[d].terminal = drv[d].terminal
  BY <1>1, AbortLeaves
<1>3. /\ phase # "down"
      /\ ses' \in Sessions /\ ses'.qr = ses.qr
      /\ ses'.status = ses.status \/ ses'.status \notin Busy
  <2>1. ses \in Sessions
    BY DEF Inv, TypeOK, Sessions
  <2>2. CASE ReconnectRescue
    BY <2>1, <2>2 DEF ReconnectRescue, Rescue, Registered, Sessions, Statuses, Busy
  <2>3. CASE Delete
    BY <2>1, <2>3 DEF Delete, Registered, Sessions
  <2> QED
    BY <2>2, <2>3
<1>4. checked' \in 0..MaxCallers /\ deleted' \in BOOLEAN /\ (checked' > 0 \/ deleted')
  <2>1. CASE ReconnectRescue
    <3>1. ses'.status = "Disconnected"
      BY <2>1 DEF ReconnectRescue, Rescue, Inv, TypeOK
    <3>2. checked' = checked + 1 /\ checked < MaxCallers /\ deleted' = deleted
      BY <2>1, <3>1 DEF ReconnectRescue, ConnectRefuses
    <3> QED
      BY <3>2, BoundsAssumption DEF Inv, TypeOK
  <2>2. CASE Delete
    BY <2>2 DEF Delete, Inv, TypeOK
  <2> QED
    BY <2>1, <2>2
<1>5. TypeOK'
  BY <1>1, <1>2, <1>3, <1>4, BoundsAssumption DEF Inv, TypeOK, Tasks, Sessions
<1>6. \A d \in Drivers : /\ phase = "up" => ~Running(d)'
                         /\ Running(d)' => Running(d) /\ drv'[d] = drv[d]
  BY <1>2, TaskFacts DEF Running
<1>7. AbortedPlace'
  BY <1>2, TaskFacts DEF Inv, AbortedPlace
<1>8. Slot'
  BY <1>1, <1>3, <1>6 DEF Slot
<1>9. OneAtWork'
  <2> SUFFICES ASSUME NEW d \in Drivers, NEW e \in Drivers, AtWork(d)'
               PROVE  (AtWork(e)' => d = e) /\ ~drv'[e].aborted
    BY DEF OneAtWork
  <2>1. phase # "up" /\ AtWork(d) /\ (AtWork(e)' => AtWork(e))
    BY <1>6 DEF AtWork
  <2> QED
    BY <1>2, <2>1, TaskFacts DEF Inv, OneAtWork
<1>10. Verdict'
  BY <1>1, <1>6 DEF Verdict
<1>11. TerminalPlace'
  BY <1>2, TaskFacts DEF Inv, TerminalPlace
<1>12. Budget'
  BY <1>3, <1>6 DEF Inv, Budget, AtWork
<1>13. LogoutHeard'
  BY <1>1, <1>2, <1>3, TaskFacts DEF Inv, LogoutHeard
<1>14. Succeeded' /\ NoOrphan'
  BY <1>4 DEF Succeeded, NoOrphan
<1> QED
  BY <1>5, <1>7, <1>8, <1>9, <1>10, <1>11, <1>12, <1>13, <1>14 DEF Inv

\* The rest of connect: the old driver is aborted, the new one takes the slot.
LEMMA ConnectInv ==
    ASSUME Inv, ConnectStart
    PROVE  Inv'
<1>0. PICK n \in Drivers : n = spawned + 1
  BY BoundsAssumption DEF ConnectStart, Inv, TypeOK, Drivers
<1>a. PICK a : a = Abort(drv, handle)
  OBVIOUS
<1> DEFINE t == [NoTask EXCEPT !.pc = "new"]
<1>1. /\ a \in [Drivers -> Tasks]
      /\ \A d \in Drivers :
            \/ a[d] = drv[d] /\ (phase = "up" => ~Running(d))
            \/ a[d] = Finished
            \/ /\ phase = "up"
               /\ a[d].pc = "exited" /\ drv[d].pc = "exited" /\ a[d].aborted
               /\ a[d].woken = drv[d].woken /\ a[d].terminal = drv[d].terminal
  BY <1>a, AbortLeaves
<1>2. drv' = [a EXCEPT ![n] = t] /\ handle' = n
  BY <1>0, <1>a DEF ConnectStart
<1>3. t \in Tasks /\ t.pc = "new" /\ ~t.aborted /\ t.woken = {} /\ ~t.terminal
  BY TaskFacts DEF Tasks, Places
<1> HIDE DEF t
<1>5. /\ drv' \in [Drivers -> Tasks] /\ drv'[n] = t
      /\ \A d \in Drivers \ {n} : drv'[d] = a[d]
  BY <1>1, <1>2, <1>3
<1>6. ses' \in Sessions /\ ~ses'.expect /\ ses'.qr = ses.qr
  <2>1. ses \in Sessions
    BY DEF Inv, TypeOK, Sessions
  <2> DEFINE s == ClearVerdict(ses)
  <2>2. s \in Sessions /\ ~s.expect /\ s.qr = ses.qr
    BY <2>1 DEF ClearVerdict, Sessions
  <2>3. ses' = [s EXCEPT !.status = "Connecting"]
    BY DEF ConnectStart
  <2> HIDE DEF s
  <2> QED
    BY <2>2, <2>3 DEF Sessions, Statuses
<1>7. TypeOK'
  <2>1. checked' \in 0..MaxCallers /\ spawned' \in 0..MaxDrivers /\ handle' \in 0..spawned'
    BY <1>0, <1>2, BoundsAssumption DEF ConnectStart, Inv, TypeOK, Drivers
  <2>2. fetching' \subseteq Collections /\ phase' \in {"up", "stopping", "down"}
        /\ deleted' \in BOOLEAN
    BY DEF ConnectStart, Inv, TypeOK
  <2> QED
    BY <1>5, <1>6, <2>1, <2>2 DEF TypeOK, Tasks, Sessions
<1>8. phase' = phase /\ phase # "down"
  BY DEF ConnectStart
<1>9. /\ Running(n)' /\ ~AtWork(n)'
      /\ \A d \in Drivers \ {n} : /\ phase = "up" => ~Running(d)'
                                  /\ Running(d)' => Running(d) /\ drv'[d] = drv[d]
  BY <1>1, <1>3, <1>5, TaskFacts DEF Running, AtWork
<1>10. AbortedPlace'
  BY <1>1, <1>3, <1>5, TaskFacts DEF Inv, AbortedPlace
<1>11. Slot'
  BY <1>2, <1>3, <1>5, <1>8, <1>9 DEF Slot
<1>12. OneAtWork'
  <2> SUFFICES ASSUME NEW d \in Drivers, NEW e \in Drivers, AtWork(d)'
               PROVE  (AtWork(e)' => d = e) /\ ~drv'[e].aborted
    BY DEF OneAtWork
  <2>1. d # n /\ phase # "up" /\ AtWork(d) /\ (AtWork(e)' => e # n /\ AtWork(e))
    BY <1>9 DEF AtWork
  <2> QED
    BY <1>1, <1>3, <1>5, <2>1, TaskFacts DEF Inv, OneAtWork
<1>13. Verdict'
  BY <1>3, <1>5, <1>6, <1>8, <1>9 DEF Verdict
<1>14. TerminalPlace'
  BY <1>1, <1>3, <1>5, TaskFacts DEF Inv, TerminalPlace
<1>15. Budget'
  BY <1>6, <1>9 DEF Inv, Budget, AtWork
<1>16. LogoutHeard'
  <2> SUFFICES ASSUME NEW d \in Drivers
               PROVE  /\ "logout" \in drv'[d].woken => drv'[d].pc \in {"loop", "backoff"}
                      /\ "logout" \in drv'[d].woken \/ drv'[d].pc = "unpair" => phase # "up"
    BY <1>8 DEF LogoutHeard
  <2>1. CASE d = n
    BY <1>3, <1>5, <2>1
  <2>2. CASE d # n
    BY <1>1, <1>5, <2>2, TaskFacts DEF Inv, LogoutHeard, AbortedPlace, Running
  <2> QED
    BY <2>1, <2>2
<1>17. Succeeded' /\ NoOrphan'
  BY <1>9 DEF Succeeded, NoOrphan
<1> QED
  BY <1>7, <1>10, <1>11, <1>12, <1>13, <1>14, <1>15, <1>16, <1>17 DEF Inv

\* The shutdown takes the handle; its end takes every task.
LEMMA ShutdownInv ==
    ASSUME Inv, Shutdown \/ ShutdownReturns
    PROVE  Inv'
<1>1. CASE Shutdown
  <2>1. phase = "up" /\ phase' = "stopping" /\ handle' = 0
        /\ UNCHANGED <<ses, drv, spawned, checked, fetching, deleted>>
    BY <1>1 DEF Shutdown
  <2>2. TypeOK'
    BY <2>1, BoundsAssumption DEF Inv, TypeOK
  <2>3. \A d \in Drivers : (Running(d)' <=> Running(d)) /\ (AtWork(d)' <=> AtWork(d))
    BY <2>1 DEF Running, AtWork
  <2> QED
    BY <2>1, <2>2, <2>3 DEF Inv, AbortedPlace, Slot, OneAtWork, Verdict, TerminalPlace, Budget,
       LogoutHeard, Succeeded, NoOrphan
<1>2. CASE ShutdownReturns
  <2>1. phase' = "down" /\ handle' = 0 /\ checked' = 0 /\ fetching' = {}
        /\ UNCHANGED <<spawned, deleted>>
    BY <1>2 DEF ShutdownReturns
  <2>2. ses' \in Sessions
    <3>1. ses \in Sessions
      BY DEF Inv, TypeOK, Sessions
    <3> QED
      BY <1>2, <3>1 DEF ShutdownReturns, Sessions, Statuses
  <2>3. /\ drv' \in [Drivers -> Tasks]
        /\ \A d \in Drivers : drv'[d] = Finished \/ (drv'[d] = drv[d] /\ drv[d].pc = "none")
    BY <1>2, TaskFacts DEF ShutdownReturns, Inv, TypeOK, Tasks
  <2>4. TypeOK'
    BY <2>1, <2>2, <2>3, BoundsAssumption DEF Inv, TypeOK, Tasks, Sessions
  <2>5. \A d \in Drivers : /\ ~Running(d)' /\ ~AtWork(d)' /\ drv'[d].pc \in {"none", "done"}
                           /\ ~drv'[d].aborted /\ ~drv'[d].terminal
                           /\ "logout" \notin drv'[d].woken
    BY <2>3, TaskFacts DEF Running, AtWork, Inv, AbortedPlace, TerminalPlace, LogoutHeard
  <2> QED
    BY <2>1, <2>4, <2>5 DEF Inv, AbortedPlace, Slot, OneAtWork, Verdict, TerminalPlace, Budget,
       LogoutHeard, Succeeded, NoOrphan
<1> QED
  BY <1>1, <1>2

\* Every step preserves the invariant.
LEMMA NextInv == Inv /\ [Next]_vars => Inv'
<1> SUFFICES ASSUME Inv, [Next]_vars PROVE Inv'
  OBVIOUS
<1>1. CASE Handler
  BY <1>1, TasksInv, ConnectInv, NotifiesInv, EmptiesInv, ShutdownInv DEF Handler
<1>2. ASSUME NEW d \in Drivers, DriverStep(d) PROVE Inv'
  BY <1>2, StartInv, DialInv, FailsInv, SyncInv, StreamInv, IdlePingInv, TakesInv, ReturnsInv,
     DecideInv, AbortedDecideInv, BackoffInv DEF DriverStep
<1>3. CASE DeadlineFires \/ \E c \in Collections : FetchDone(c)
  BY <1>3, TasksInv
<1>4. CASE UNCHANGED vars
  BY <1>4 DEF vars, Inv, TypeOK, AbortedPlace, Slot, OneAtWork, AtWork, Running, Verdict,
     TerminalPlace, Budget, LogoutHeard, Succeeded, NoOrphan
<1> QED
  BY <1>1, <1>2, <1>3, <1>4 DEF Next

\* The invariant holds throughout.
THEOREM InvHolds == Spec => []Inv
BY InitInv, NextInv, PTL DEF Spec

\* The fields of the session and of its drivers keep their types; in particular no
\* interleaving of drivers spends more than QrLimit QR windows.
THEOREM TypeCorrect == Spec => []TypeOK
<1>1. Inv => TypeOK
  BY DEF Inv
<1> QED
  BY <1>1, InvHolds, PTL

\* set_task_handle leaves one driver running, however connects, rescues, deletes and the
\* drivers themselves interleave.
THEOREM SingleDriver == Spec => []OneDriver
<1>1. Inv => OneDriver
  <2> SUFFICES ASSUME Inv, NEW d \in Drivers, NEW e \in Drivers, Running(d), Running(e),
                      phase = "up" \/ "new" \notin {drv[d].pc, drv[e].pc}
               PROVE  d = e
    BY DEF OneDriver
  <2>1. CASE phase = "up"
    BY <2>1 DEF Inv, Slot
  <2>2. CASE "new" \notin {drv[d].pc, drv[e].pc}
    BY <2>2 DEF Inv, OneAtWork, AtWork
  <2> QED
    BY <2>1, <2>2
<1> QED
  BY <1>1, InvHolds, PTL

\* A busy status always has a driver or a connect call behind it.
THEOREM SomebodyAtWork == Spec => []NoOrphan
<1>1. Inv => NoOrphan
  BY DEF Inv
<1> QED
  BY <1>1, InvHolds, PTL

\* A step of one driver leaves the others alone.
LEMMA OthersStay ==
    ASSUME NEW e \in Drivers, DriverStep(e), NEW d \in Drivers, d # e, TypeOK
    PROVE  drv'[d] = drv[d]
BY DEF DriverStep, Start, StartBadProxy, Attempt, DialOk, HandshakeOk, DialFails, SocketFails,
   CloseSent, Fails, PairSuccess, LoginSuccess, SyncRound, SyncReply, StreamReplaced,
   StreamRestart, IdlePing, AuthRejected, StreamTransient, Handles, TakeReconnect, TakeLogout,
   UnpairSent, TakeShutdown, FlushSent, ReturnsOk, Decide, BackoffElapsed, BackoffCancelled,
   TypeOK

\* What a handler or a free task may do to a driver: nothing, wake it, spawn it, abort it or
\* end it with the process.
LEMMA HandlersStay ==
    ASSUME Inv, NEW d \in Drivers,
           Handler \/ DeadlineFires \/ \E c \in Collections : FetchDone(c)
    PROVE  /\ drv'[d].pc = drv[d].pc \/ drv'[d].pc \in {"new", "done"}
           /\ drv[d].pc = "exited" /\ drv'[d].pc = "done" => phase' = "down"
<1>1. drv \in [Drivers -> Tasks]
  BY DEF Inv, TypeOK, Tasks
<1>2. CASE drv' = drv
  BY <1>2
<1>3. CASE ReconnectBounce \/ Logout
  BY <1>1, <1>3, NotifyKeeps DEF ReconnectBounce, Logout, Signals
<1>4. CASE ShutdownReturns
  BY <1>1, <1>4, TaskFacts DEF ShutdownReturns
<1>5. ASSUME NEW a, a = Abort(drv, handle)
      PROVE  /\ a \in [Drivers -> Tasks]
             /\ a[d].pc = drv[d].pc \/ a[d].pc = "done"
             /\ drv[d].pc = "exited" => a[d].pc = "exited"
  <2>1. CASE handle = 0
    BY <1>1, <1>5, <2>1 DEF Abort
  <2>2. CASE handle # 0
    <3>1. handle \in Drivers
      BY <2>2, SlotInDrivers DEF Inv
    <3>2. drv[d].pc = "exited" => a[d] = drv[d] \/ a[d].pc = "exited"
      BY <1>1, <1>5, <2>2, <3>1 DEF Abort, Tasks
    <3> QED
      BY <1>5, <3>2, AbortLeaves, TaskFacts
  <2> QED
    BY <2>1, <2>2
<1>6. CASE ReconnectRescue \/ Delete
  BY <1>5, <1>6 DEF ReconnectRescue, Delete
<1>7. CASE ConnectStart
  <2>1. PICK a : a = Abort(drv, handle) /\ drv' = [a EXCEPT ![spawned + 1] =
                                                      [NoTask EXCEPT !.pc = "new"]]
    BY <1>7 DEF ConnectStart
  <2>2. [NoTask EXCEPT !.pc = "new"].pc = "new"
    BY DEF NoTask
  <2>3. drv'[d] = a[d] \/ drv'[d].pc = "new"
    BY <1>5, <2>1, <2>2
  <2> QED
    BY <1>5, <2>1, <2>3
<1> QED
  BY <1>2, <1>3, <1>4, <1>6, <1>7 DEF Handler, ConnectCheck, Shutdown, DeadlineFires, FetchDone

\* A driver that its own step takes to a dial keeps the mark of a verdict.
LEMMA DialKeepsMark ==
    ASSUME TypeOK, NEW d \in Drivers, DriverStep(d), drv[d].pc # "dial", drv'[d].pc = "dial"
    PROVE  drv'[d].terminal = drv[d].terminal
<1>1. drv \in [Drivers -> Tasks]
  BY DEF TypeOK, Tasks
<1>2. Start(d) \/ Decide(d) \/ BackoffElapsed(d)
  BY <1>1, TaskFacts DEF DriverStep, StartBadProxy, DialOk, HandshakeOk, DialFails, SocketFails,
     CloseSent, Fails, PairSuccess, LoginSuccess, SyncRound, SyncReply, StreamReplaced,
     StreamRestart, IdlePing, AuthRejected, StreamTransient, Handles, TakeReconnect, TakeLogout,
     UnpairSent, TakeShutdown, FlushSent, ReturnsOk, BackoffCancelled, Tasks
<1>3. ASSUME NEW s, Attempt(d, s)
      PROVE  drv'[d].terminal = drv[d].terminal
  <2>1. drv'[d] = IF drv[d].aborted THEN Finished
                  ELSE [NoTask EXCEPT !.pc = "dial", !.terminal = drv[d].terminal]
    BY <1>1, <1>3 DEF Attempt
  <2>2. ~drv[d].aborted
    BY <2>1, TaskFacts
  <2> QED
    BY <2>1, <2>2 DEF NoTask
<1>4. CASE Start(d)
  BY <1>1, <1>3, <1>4, TaskFacts DEF Start
<1>5. CASE Decide(d)
  BY <1>1, <1>3, <1>5, TaskFacts DEF Decide, Tasks
<1>6. CASE BackoffElapsed(d)
  BY <1>3, <1>6 DEF BackoffElapsed
<1> QED
  BY <1>2, <1>4, <1>5, <1>6

\* A driver whose connection WhatsApp ended for good never dials again: its verdict is in the
\* session's flags when it comes to its decision, whoever else has been there.
THEOREM NoDialAfterVerdict == Spec => RejectedHalts
<1>1. Inv /\ Inv' /\ [Next]_vars =>
         [\A d \in Drivers : drv[d].terminal /\ drv[d].pc # "dial" => drv'[d].pc # "dial"]_vars
  <2> SUFFICES ASSUME Inv, Inv', Next, NEW d \in Drivers, drv[d].terminal, drv[d].pc # "dial",
                      drv'[d].pc = "dial"
               PROVE  FALSE
    BY DEF vars
  <2>1. ~drv'[d].terminal
    BY DEF Inv, TerminalPlace
  <2>2. CASE Handler \/ DeadlineFires \/ \E c \in Collections : FetchDone(c)
    BY <2>2, HandlersStay
  <2>3. ASSUME NEW e \in Drivers, DriverStep(e), e # d PROVE FALSE
    BY <2>3, OthersStay DEF Inv
  <2>4. CASE DriverStep(d)
    BY <2>1, <2>4, DialKeepsMark DEF Inv
  <2> QED
    BY <2>2, <2>3, <2>4 DEF Next
<1> QED
  BY <1>1, InvHolds, PTL DEF Spec, RejectedHalts

\* A driver gives up on no verdict but that of its own connection, although the flag it reads
\* lives in the session, which outlives drivers.
THEOREM HaltsOnOwnVerdict == Spec => NoFalseHalt
<1>1. Inv /\ [Next]_vars =>
         [\A d \in Drivers :
             /\ drv[d].pc = "exited" /\ ~drv[d].aborted
             /\ drv'[d].pc = "done"
             /\ phase' = "up"
             /\ ses.status # "LoggedOut"
             => drv[d].terminal]_vars
  <2> SUFFICES ASSUME Inv, Next, NEW d \in Drivers, drv[d].pc = "exited", ~drv[d].aborted,
                      drv'[d].pc = "done", phase' = "up", ses.status # "LoggedOut"
               PROVE  drv[d].terminal
    BY DEF vars
  <2>1. drv \in [Drivers -> Tasks]
    BY DEF Inv, TypeOK, Tasks
  <2>2. CASE Handler \/ DeadlineFires \/ \E c \in Collections : FetchDone(c)
    BY <2>2, HandlersStay
  <2>3. ASSUME NEW e \in Drivers, DriverStep(e), e # d PROVE FALSE
    BY <2>3, OthersStay DEF Inv
  <2>4. CASE DriverStep(d)
    <3>1. Decide(d)
      BY <2>4 DEF DriverStep, Start, StartBadProxy, DialOk, HandshakeOk, DialFails, SocketFails,
         CloseSent, PairSuccess, LoginSuccess, SyncRound, SyncReply, StreamReplaced,
         StreamRestart, IdlePing, AuthRejected, StreamTransient, Handles, TakeReconnect,
         TakeLogout, UnpairSent, TakeShutdown, FlushSent, BackoffElapsed, BackoffCancelled
    <3>2. phase = "up"
      BY <3>1 DEF Decide, Unchanged
    <3>3. ASSUME NEW s, Attempt(d, s) PROVE FALSE
      BY <2>1, <3>3 DEF Attempt, NoTask
    <3>4. drv' # [drv EXCEPT ![d] = IF @.aborted THEN Finished ELSE [@ EXCEPT !.pc = "backoff"]]
      BY <2>1 DEF Tasks
    <3>5. ses.expect
      BY <3>1, <3>2, <3>3, <3>4 DEF Decide
    <3> QED
      BY <3>2, <3>5 DEF Inv, Verdict, Running
  <2> QED
    BY <2>2, <2>3, <2>4 DEF Next
<1> QED
  BY <1>1, InvHolds, PTL DEF Spec, NoFalseHalt

=============================================================================
