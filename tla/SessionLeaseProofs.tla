------------------------- MODULE SessionLeaseProofs -------------------------
(***************************************************************************)
(* For any set of processes and any TTL with Period + MaxLag + MaxSkew <=   *)
(* TTL: the types, the exclusion of confirmed connections, that an idle     *)
(* process leaks no lease, and that the lease keeps the promise of          *)
(* SoleHolder.                                                              *)
(***************************************************************************)
EXTENDS SessionLease, TLAPS

\* Why exclusion is inductive: the row of a confirmed connection is its own, no older than its
\* last renewal, and that renewal is no further back than the deadline.  A peer that finds the
\* row stale would need a clock further ahead than MaxSkew.
ConfirmedHoldsRow ==
    \A i \in Instances :
        confirmed[i] => /\ owner = i
                        /\ pc[i] \in {"loop", "closing"}
                        /\ age <= since[i]
                        /\ since[i] <= Deadline

\* A select loop runs only after the predecessor's release has: DialOk waits for it.
LoopAfterRelease ==
    \A i \in Instances : pc[i] \in {"loop", "closing"} => ~tail[i]

\* The inductive invariant behind exclusion.
LeaseInv == ConfirmedHoldsRow /\ LoopAfterRelease

\* The constants are natural numbers and the cap of an age lies above every bound.
LEMMA ConstantFacts ==
    /\ Period \in Nat
    /\ Deadline \in Nat
    /\ AgeCap \in Nat
    /\ Deadline < AgeCap
    /\ TTL \in Nat /\ MaxSkew \in Nat /\ MaxLag \in Nat /\ MaxDial \in Nat
    /\ Deadline + MaxSkew <= TTL
    /\ MaxStops \in Nat
<1>1. Period \in Nat
  BY TimeAssumption, SMT DEF Period
<1> QED
  BY <1>1, TimeAssumption, StopsAssumption, SMT DEF Deadline, AgeCap

\* Moving a driver keeps the types of the variables it touches.
LEMMA GotoType ==
    ASSUME TypeOK, NEW i \in Instances, NEW place \in Places, Goto(i, place)
    PROVE  /\ pc' \in [Instances -> Places]
           /\ confirmed' \in [Instances -> BOOLEAN]
           /\ since' \in [Instances -> 0..AgeCap]
  BY ConstantFacts DEF Goto, TypeOK

\* The end of a driver keeps them too.
LEMMA ReturnType ==
    ASSUME TypeOK, NEW i \in Instances, Return(i)
    PROVE  /\ pc' \in [Instances -> Places]
           /\ confirmed' \in [Instances -> BOOLEAN]
           /\ since' \in [Instances -> 0..AgeCap]
           /\ tail' \in [Instances -> BOOLEAN]
<1>1. Goto(i, "idle") /\ "idle" \in Places
  BY DEF Return, Places
<1> QED
  BY <1>1, GotoType DEF Return, TypeOK

\* A failed connection keeps them, whichever way the driver goes on.
LEMMA FailsType ==
    ASSUME TypeOK, NEW i \in Instances, ConnectionFails(i)
    PROVE  /\ pc' \in [Instances -> Places]
           /\ confirmed' \in [Instances -> BOOLEAN]
           /\ since' \in [Instances -> 0..AgeCap]
           /\ tail' \in [Instances -> BOOLEAN]
<1>1. CASE stopping[i] /\ Return(i)
  BY <1>1, ReturnType
<1>2. ASSUME NEW place \in {"backoff", "dial"}, Goto(i, place), UNCHANGED tail
      PROVE  /\ pc' \in [Instances -> Places]
             /\ confirmed' \in [Instances -> BOOLEAN]
             /\ since' \in [Instances -> 0..AgeCap]
             /\ tail' \in [Instances -> BOOLEAN]
  <2>1. place \in Places
    BY DEF Places
  <2> QED
    BY <1>2, <2>1, GotoType DEF TypeOK
<1> QED
  BY <1>1, <1>2 DEF ConnectionFails

\* Every step keeps the types (each action of SessionLease, and the clock).
LEMMA TypeStep == TypeOK /\ [Next]_vars => TypeOK'
<1> SUFFICES ASSUME TypeOK, [Next]_vars PROVE TypeOK'
  OBVIOUS
<1> USE DEF TypeOK, Places
<1>1. CASE UNCHANGED vars
  BY <1>1 DEF vars
<1>2. CASE Tick
  BY <1>2, ConstantFacts DEF Tick, Older
<1>3. ASSUME NEW i \in Instances, InstanceStep(i) PROVE TypeOK'
  <2>1. CASE Connect(i)
    BY <2>1, ConstantFacts DEF Connect, Acquire, Goto
  <2>2. CASE ReconnectRefused(i)
    BY <2>2, ConstantFacts DEF ReconnectRefused, Goto
  <2>3. CASE WaiterConnect(i)
    BY <2>3, ConstantFacts DEF WaiterConnect, Acquire, Goto
  <2>4. CASE WaiterQuits(i)
    BY <2>4 DEF WaiterQuits
  <2>5. CASE DialOk(i)
    BY <2>5, ConstantFacts DEF DialOk, Goto
  <2>6. CASE DialFails(i)
    BY <2>6, FailsType DEF DialFails
  <2>7. CASE SocketDrops(i)
    BY <2>7, FailsType DEF SocketDrops
  <2>8. CASE Renew(i)
    <3>1. CASE owner = i
      <4>1. /\ age' = 0
            /\ since' = [since EXCEPT ![i] = 0]
            /\ confirmed' = [confirmed EXCEPT ![i] = TRUE]
            /\ UNCHANGED <<owner, skew, pc, tail, stopping, wait, stops>>
        BY <2>8, <3>1 DEF Renew
      <4> QED
        BY <4>1, ConstantFacts
    <3>2. CASE owner # i
      <4>1. Return(i) /\ UNCHANGED <<owner, age, skew, stopping, wait, stops>>
        BY <2>8, <3>2 DEF Renew
      <4> QED
        BY <4>1, ReturnType
    <3> QED
      BY <3>1, <3>2
  <2>9. CASE Halts(i)
    BY <2>9, ConstantFacts DEF Halts, Return, Goto
  <2>10. CASE BeginClose(i)
    BY <2>10 DEF BeginClose
  <2>11. CASE Closed(i)
    <3>1. CASE stopping[i]
      <4>1. Return(i) /\ UNCHANGED <<owner, age, skew, stopping, wait, stops>>
        BY <2>11, <3>1 DEF Closed
      <4> QED
        BY <4>1, ReturnType
    <3>2. CASE ~stopping[i]
      <4>1. Goto(i, "dial") /\ UNCHANGED <<owner, age, skew, tail, stopping, wait, stops>>
        BY <2>11, <3>2 DEF Closed
      <4> QED
        BY <4>1, GotoType
    <3> QED
      BY <3>1, <3>2
  <2>12. CASE Redial(i)
    BY <2>12, ConstantFacts DEF Redial, Goto
  <2>13. CASE BackoffStopped(i)
    BY <2>13, ConstantFacts DEF BackoffStopped, Return, Goto
  <2>14. CASE ReleaseLease(i)
    BY <2>14, ConstantFacts DEF ReleaseLease, Release
  <2>15. CASE Shutdown(i)
    BY <2>15, ConstantFacts DEF Shutdown
  <2>16. CASE ProcessEnds(i)
    BY <2>16, ConstantFacts DEF ProcessEnds, Down, Goto
  <2>17. CASE Dies(i)
    BY <2>17, ConstantFacts DEF Dies, Down, Goto
  <2>18. CASE Boot(i)
    BY <2>18 DEF Boot
  <2> QED
    BY <1>3, <2>1, <2>2, <2>3, <2>4, <2>5, <2>6, <2>7, <2>8, <2>9, <2>10, <2>11, <2>12,
       <2>13, <2>14, <2>15, <2>16, <2>17, <2>18 DEF InstanceStep
<1> QED
  BY <1>1, <1>2, <1>3 DEF Next

\* Types of the lease model, for every instance of the constants.
THEOREM TypeCorrect == Spec => []TypeOK
<1>1. Init => TypeOK
  BY ConstantFacts DEF Init, TypeOK, Places
<1> QED
  BY <1>1, TypeStep, PTL DEF Spec

\* Nobody but its owner can acquire the row of a confirmed connection: the clocks are too close
\* for it to look stale (the WHERE clause of lease_acquire).
LEMMA NoSteal ==
    ASSUME TypeOK, ConfirmedHoldsRow,
           NEW i \in Instances, NEW j \in Instances, confirmed[i], Acquirable(j)
    PROVE  i = j
<1>1. owner = i /\ owner # None
  BY NoneAssumption DEF ConfirmedHoldsRow
<1>2. age <= Deadline
  BY ConstantFacts DEF ConfirmedHoldsRow, TypeOK
<1>3. ~Stale(j)
  <2>1. skew[i] \in 0..MaxSkew /\ skew[j] \in 0..MaxSkew /\ age \in Nat
    BY ConstantFacts DEF TypeOK
  <2>2. age + skew[j] - skew[i] <= TTL
    BY <2>1, <1>2, ConstantFacts
  <2> QED
    BY <2>1, <2>2, <1>1, ConstantFacts DEF Stale
<1> QED
  BY <1>1, <1>3 DEF Acquirable

\* Every step keeps the inductive strengthening of exclusion.
LEMMA HoldsRowStep ==
    TypeOK /\ LeaseInv /\ [Next]_vars => ConfirmedHoldsRow'
<1> SUFFICES ASSUME TypeOK, ConfirmedHoldsRow, LoopAfterRelease, [Next]_vars,
                    NEW k \in Instances, confirmed'[k]
             PROVE  /\ owner' = k
                    /\ pc'[k] \in {"loop", "closing"}
                    /\ age' <= since'[k]
                    /\ since'[k] <= Deadline
  BY DEF ConfirmedHoldsRow, LeaseInv
<1> DEFINE Holds == /\ owner' = k
                    /\ pc'[k] \in {"loop", "closing"}
                    /\ age' <= since'[k]
                    /\ since'[k] <= Deadline
<1>1. CASE UNCHANGED vars
  BY <1>1 DEF vars, ConfirmedHoldsRow
<1>2. CASE Tick
  <2>1. confirmed[k] /\ owner = k /\ pc[k] \in {"loop", "closing"} /\ age <= since[k]
    BY <1>2 DEF Tick, ConfirmedHoldsRow
  <2>2. since[k] < Deadline
    BY <1>2, <2>1 DEF Tick, Timed, Patience
  <2>3. owner # None
    BY <2>1, NoneAssumption
  <2>4. since'[k] = since[k] + 1
    BY <1>2, <2>1, <2>2, ConstantFacts DEF Tick, Timed, Older, TypeOK
  <2>5. age' = Older(age)
    BY <1>2, <2>3 DEF Tick
  <2>6. age' <= since'[k]
    BY <2>1, <2>4, <2>5, ConstantFacts DEF Older, TypeOK
  <2> QED
    BY <1>2, <2>1, <2>2, <2>4, <2>6, ConstantFacts DEF Tick, TypeOK
<1>3. ASSUME NEW i \in Instances, InstanceStep(i) PROVE Holds
  <2>1. CASE Connect(i)
    BY <2>1, NoSteal DEF Connect, Acquire, Goto, ConfirmedHoldsRow, TypeOK
  <2>2. CASE ReconnectRefused(i)
    BY <2>2 DEF ReconnectRefused, Goto, ConfirmedHoldsRow, TypeOK
  <2>3. CASE WaiterConnect(i)
    BY <2>3, NoSteal DEF WaiterConnect, Acquire, Goto, ConfirmedHoldsRow, TypeOK
  <2>4. CASE WaiterQuits(i)
    BY <2>4 DEF WaiterQuits, ConfirmedHoldsRow
  <2>5. CASE DialOk(i)
    BY <2>5 DEF DialOk, Goto, ConfirmedHoldsRow, TypeOK
  <2>6. CASE DialFails(i)
    BY <2>6 DEF DialFails, ConnectionFails, Return, Goto, ConfirmedHoldsRow, TypeOK
  <2>7. CASE SocketDrops(i)
    BY <2>7 DEF SocketDrops, ConnectionFails, Return, Goto, ConfirmedHoldsRow, TypeOK
  <2>8. CASE Renew(i)
    <3>1. CASE owner = i
      <4>1. CASE k = i
        BY <2>8, <3>1, <4>1, ConstantFacts DEF Renew, TypeOK
      <4>2. CASE k # i
        BY <2>8, <3>1, <4>2 DEF Renew, ConfirmedHoldsRow, TypeOK
      <4> QED
        BY <4>1, <4>2
    <3>2. CASE owner # i
      BY <2>8, <3>2 DEF Renew, Return, Goto, ConfirmedHoldsRow, TypeOK
    <3> QED
      BY <3>1, <3>2
  <2>9. CASE Halts(i)
    BY <2>9 DEF Halts, Return, Goto, ConfirmedHoldsRow, TypeOK
  <2>10. CASE BeginClose(i)
    BY <2>10 DEF BeginClose, ConfirmedHoldsRow, TypeOK
  <2>11. CASE Closed(i)
    BY <2>11 DEF Closed, Return, Goto, ConfirmedHoldsRow, TypeOK
  <2>12. CASE Redial(i)
    BY <2>12 DEF Redial, Goto, ConfirmedHoldsRow, TypeOK
  <2>13. CASE BackoffStopped(i)
    BY <2>13 DEF BackoffStopped, Return, Goto, ConfirmedHoldsRow, TypeOK
  <2>14. CASE ReleaseLease(i)
    <3>1. k # i /\ confirmed[k]
      BY <2>14 DEF ReleaseLease, ConfirmedHoldsRow, LoopAfterRelease
    <3> QED
      BY <2>14, <3>1 DEF ReleaseLease, Release, ConfirmedHoldsRow, TypeOK
  <2>15. CASE Shutdown(i)
    BY <2>15 DEF Shutdown, ConfirmedHoldsRow
  <2>16. CASE ProcessEnds(i)
    BY <2>16 DEF ProcessEnds, Down, Goto, ConfirmedHoldsRow, TypeOK
  <2>17. CASE Dies(i)
    BY <2>17 DEF Dies, Down, Goto, ConfirmedHoldsRow, TypeOK
  <2>18. CASE Boot(i)
    BY <2>18 DEF Boot, ConfirmedHoldsRow, TypeOK
  <2> QED
    BY <1>3, <2>1, <2>2, <2>3, <2>4, <2>5, <2>6, <2>7, <2>8, <2>9, <2>10, <2>11, <2>12,
       <2>13, <2>14, <2>15, <2>16, <2>17, <2>18 DEF InstanceStep
<1> QED
  BY <1>1, <1>2, <1>3 DEF Next

\* Every step keeps the order of a release and the next select loop.
LEMMA AfterReleaseStep ==
    TypeOK /\ LoopAfterRelease /\ [Next]_vars => LoopAfterRelease'
<1> SUFFICES ASSUME TypeOK, LoopAfterRelease, [Next]_vars,
                    NEW k \in Instances, pc'[k] \in {"loop", "closing"}
             PROVE  ~tail'[k]
  BY DEF LoopAfterRelease
<1> USE DEF TypeOK, LoopAfterRelease
<1>1. CASE UNCHANGED vars \/ Tick
  BY <1>1 DEF vars, Tick
<1>2. ASSUME NEW i \in Instances, InstanceStep(i) PROVE ~tail'[k]
  <2>1. CASE Connect(i) \/ WaiterConnect(i)
    BY <2>1 DEF Connect, WaiterConnect, Goto
  <2>2. CASE ReconnectRefused(i) \/ Redial(i) \/ DialOk(i)
    BY <2>2 DEF ReconnectRefused, Redial, DialOk, Goto
  <2>3. CASE WaiterQuits(i) \/ BeginClose(i) \/ Shutdown(i) \/ Boot(i)
    BY <2>3 DEF WaiterQuits, BeginClose, Shutdown, Boot
  <2>4. CASE DialFails(i) \/ SocketDrops(i)
    <3>1. ConnectionFails(i)
      BY <2>4 DEF DialFails, SocketDrops
    <3> QED
      BY <3>1 DEF ConnectionFails, Return, Goto
  <2>5. CASE Renew(i)
    BY <2>5 DEF Renew, Return, Goto
  <2>6. CASE Halts(i) \/ BackoffStopped(i)
    BY <2>6 DEF Halts, BackoffStopped, Return, Goto
  <2>7. CASE Closed(i)
    BY <2>7 DEF Closed, Return, Goto
  <2>8. CASE ReleaseLease(i)
    BY <2>8 DEF ReleaseLease
  <2>9. CASE ProcessEnds(i) \/ Dies(i)
    BY <2>9 DEF ProcessEnds, Dies, Down, Goto
  <2> QED
    BY <1>2, <2>1, <2>2, <2>3, <2>4, <2>5, <2>6, <2>7, <2>8, <2>9 DEF InstanceStep
<1> QED
  BY <1>1, <1>2 DEF Next

\* The inductive invariant holds throughout.
THEOREM LeaseHolds == Spec => [](TypeOK /\ LeaseInv)
<1>1. Init => LeaseInv
  BY DEF Init, LeaseInv, ConfirmedHoldsRow, LoopAfterRelease
<1>2. TypeOK /\ LeaseInv /\ [Next]_vars => LeaseInv'
  BY HoldsRowStep, AfterReleaseStep DEF LeaseInv
<1> QED
  BY <1>1, <1>2, TypeCorrect, PTL DEF Spec

\* Two connections that have both renewed are one, in every reachable state: leasing excludes
\* as long as ticks and clocks stay within the TTL (the renewal branch of run_connection).
THEOREM Exclusion == Spec => []ConfirmedExclusive
<1>1. LeaseInv => ConfirmedExclusive
  BY DEF LeaseInv, ConfirmedHoldsRow, ConfirmedExclusive
<1> QED
  BY <1>1, LeaseHolds, PTL

\* Every step keeps NoLeakedLease, which is inductive as it stands.
LEMMA NoLeakStep == TypeOK /\ NoLeakedLease /\ [Next]_vars => NoLeakedLease'
<1> SUFFICES ASSUME TypeOK, NoLeakedLease, [Next]_vars,
                    NEW k \in Instances, owner' = k, pc'[k] = "idle"
             PROVE  tail'[k] \/ wait'[k] \/ stopping'[k]
  BY DEF NoLeakedLease
<1> USE DEF TypeOK, NoLeakedLease
<1>1. CASE UNCHANGED vars \/ Tick
  BY <1>1 DEF vars, Tick
<1>2. ASSUME NEW i \in Instances, InstanceStep(i)
      PROVE  tail'[k] \/ wait'[k] \/ stopping'[k]
  <2>1. CASE Connect(i)
    BY <2>1 DEF Connect, Acquire, Goto
  <2>2. CASE WaiterConnect(i)
    BY <2>2 DEF WaiterConnect, Acquire, Goto
  <2>3. CASE ReconnectRefused(i)
    BY <2>3 DEF ReconnectRefused, Acquirable, Goto
  <2>4. CASE Redial(i) \/ DialOk(i)
    BY <2>4 DEF Redial, DialOk, Goto
  <2>5. CASE WaiterQuits(i)
    BY <2>5 DEF WaiterQuits
  <2>6. CASE BeginClose(i) \/ Shutdown(i) \/ Boot(i)
    BY <2>6 DEF BeginClose, Shutdown, Boot
  <2>7. CASE DialFails(i) \/ SocketDrops(i)
    <3>1. ConnectionFails(i) /\ UNCHANGED <<owner, wait, stopping>>
      BY <2>7 DEF DialFails, SocketDrops
    <3> QED
      BY <3>1 DEF ConnectionFails, Return, Goto
  <2>8. CASE Renew(i)
    BY <2>8 DEF Renew, Return, Goto
  <2>9. CASE Halts(i) \/ BackoffStopped(i)
    BY <2>9 DEF Halts, BackoffStopped, Return, Goto
  <2>10. CASE Closed(i)
    BY <2>10 DEF Closed, Return, Goto
  <2>11. CASE ReleaseLease(i)
    BY <2>11, NoneAssumption DEF ReleaseLease, Release
  <2>12. CASE ProcessEnds(i) \/ Dies(i)
    BY <2>12 DEF ProcessEnds, Dies, Down, Goto
  <2> QED
    BY <1>2, <2>1, <2>2, <2>3, <2>4, <2>5, <2>6, <2>7, <2>8, <2>9, <2>10, <2>11, <2>12
    DEF InstanceStep
<1> QED
  BY <1>1, <1>2 DEF Next

\* An idle process never keeps a row that only its TTL would free (the release at the end of
\* the driver task, the abort paths of connect and reconnect).
THEOREM NoLeak == Spec => []NoLeakedLease
<1>1. Init => NoLeakedLease
  BY NoneAssumption DEF Init, NoLeakedLease
<1> QED
  BY <1>1, NoLeakStep, TypeCorrect, PTL DEF Spec

(***************************************************************************)
(* The refinement of SoleHolder.                                            *)
(***************************************************************************)

\* The connections that have renewed the lease.
Holders == {i \in Instances : confirmed[i]}

\* Whoever relies on the row is its owner, and there is nobody else.
LEMMA HoldersOwn ==
    ASSUME LeaseInv, NEW i \in Holders
    PROVE  owner = i /\ Holders = {i}
BY DEF LeaseInv, ConfirmedHoldsRow, Holders

\* A step of a process begins or ends no connection of another process.
LEMMA OthersKeep ==
    ASSUME TypeOK, NEW i \in Instances, InstanceStep(i), NEW j \in Instances, j # i
    PROVE  confirmed'[j] = confirmed[j]
<1> USE DEF TypeOK, Goto
<1>1. CASE Connect(i) \/ ReconnectRefused(i) \/ WaiterConnect(i) \/ DialOk(i) \/ Redial(i)
  BY <1>1 DEF Connect, ReconnectRefused, WaiterConnect, DialOk, Redial
<1>2. CASE WaiterQuits(i) \/ BeginClose(i) \/ ReleaseLease(i) \/ Shutdown(i) \/ Boot(i)
  BY <1>2 DEF WaiterQuits, BeginClose, ReleaseLease, Shutdown, Boot
<1>3. CASE DialFails(i) \/ SocketDrops(i)
  <2>1. ConnectionFails(i)
    BY <1>3 DEF DialFails, SocketDrops
  <2> QED
    BY <2>1 DEF ConnectionFails, Return
<1>4. CASE Renew(i) \/ Halts(i) \/ Closed(i) \/ BackoffStopped(i)
  BY <1>4 DEF Renew, Halts, Closed, BackoffStopped, Return
<1>5. CASE ProcessEnds(i) \/ Dies(i)
  BY <1>5 DEF ProcessEnds, Dies, Down
<1> QED
  BY <1>1, <1>2, <1>3, <1>4, <1>5 DEF InstanceStep

\* The row changes hands, or goes away, only while nobody relies on it: a steal finds a stale
\* row (NoSteal), and a process whose release is pending has no connection.
LEMMA RowMoves ==
    ASSUME TypeOK, LeaseInv, NEW i \in Instances, InstanceStep(i), owner' # owner
    PROVE  Holders = {} /\ Holders' = {} /\ owner' \in Instances \cup {None}
<1>1. \/ Connect(i) \/ WaiterConnect(i)
      \/ ReleaseLease(i)
  BY DEF InstanceStep, ReconnectRefused, WaiterQuits, DialOk, DialFails, SocketDrops, Renew,
     Halts, BeginClose, Closed, Redial, BackoffStopped, Shutdown, ProcessEnds, Dies, Boot
<1>2. CASE Connect(i) \/ WaiterConnect(i)
  <2>1. Acquirable(i) /\ owner' = i /\ ~confirmed'[i]
    BY <1>2 DEF Connect, WaiterConnect, Acquire, Goto, TypeOK
  <2>2. ASSUME NEW k \in Instances, confirmed[k] PROVE FALSE
    BY <2>1, <2>2, NoSteal DEF LeaseInv, ConfirmedHoldsRow
  <2>3. \A j \in Instances : ~confirmed'[j]
    BY <2>1, <2>2, OthersKeep
  <2> QED
    BY <2>1, <2>2, <2>3 DEF Holders
<1>3. CASE ReleaseLease(i)
  <2>1. tail[i] /\ owner = i /\ owner' = None /\ confirmed' = confirmed
    BY <1>3 DEF ReleaseLease, Release
  <2>2. ASSUME NEW k \in Instances, confirmed[k] PROVE FALSE
    BY <2>1, <2>2 DEF LeaseInv, ConfirmedHoldsRow, LoopAfterRelease
  <2> QED
    BY <2>1, <2>2 DEF Holders
<1> QED
  BY <1>1, <1>2, <1>3

\* Every step is a step of SoleHolder or none.
LEMMA RefineStep ==
    ASSUME TypeOK, LeaseInv, LeaseInv', [Next]_vars
    PROVE  [Lease!Next]_<<owner, Holders>>
<1>1. CASE UNCHANGED vars \/ Tick
  BY <1>1 DEF vars, Tick, Holders
<1>2. ASSUME NEW i \in Instances, InstanceStep(i), owner' # owner
      PROVE  Lease!Next
  <2>1. Holders = {} /\ Holders' = {} /\ owner' \in Instances \cup {None}
    BY <1>2, RowMoves
  <2>2. Lease!Pass(owner')
    BY <2>1 DEF Lease!Pass, Holders
  <2> QED
    BY <2>1, <2>2 DEF Lease!Next
<1>3. ASSUME NEW i \in Instances, InstanceStep(i), owner' = owner
      PROVE  Lease!Next \/ UNCHANGED Holders
  <2>1. \A j \in Instances : j # i => confirmed'[j] = confirmed[j]
    BY <1>3, OthersKeep
  <2>2. CASE confirmed'[i] = confirmed[i]
    BY <2>1, <2>2 DEF Holders
  <2>3. CASE confirmed[i] /\ ~confirmed'[i]
    <3>1. Holders = {i}
      BY <2>3, HoldersOwn DEF Holders
    <3>2. Holders' = {}
      BY <2>1, <2>3, <3>1 DEF Holders
    <3>3. Lease!Leave(i)
      BY <1>3, <3>1, <3>2 DEF Lease!Leave, Holders
    <3> QED
      BY <3>3 DEF Lease!Next
  <2>4. CASE ~confirmed[i] /\ confirmed'[i]
    <3>1. owner' = i /\ Holders' = {i}
      BY <2>4 DEF LeaseInv, ConfirmedHoldsRow, Holders
    <3>2. owner = i /\ Holders = {}
      BY <1>3, <2>4, <3>1 DEF LeaseInv, ConfirmedHoldsRow, Holders
    <3>3. Lease!Settle(i)
      BY <1>3, <3>1, <3>2 DEF Lease!Settle, Holders
    <3> QED
      BY <3>3 DEF Lease!Next
  <2>5. confirmed[i] \in BOOLEAN /\ confirmed'[i] \in BOOLEAN
    BY <1>3, TypeStep DEF Next, TypeOK
  <2> QED
    BY <2>2, <2>3, <2>4, <2>5
<1> QED
  BY <1>1, <1>2, <1>3 DEF Next

\* The lease does what SoleHolder promises, for any processes, clocks and TTL within the
\* assumption: a connection that has renewed is alone on a row of its own, and a hand-over
\* passes through nobody (acquire, renew and release of store.rs as session.rs uses them).
THEOREM Refinement == Spec => HandsOver
<1>1. Init => Lease!Init
  BY DEF Init, Lease!Init
<1>2. TypeOK /\ LeaseInv /\ LeaseInv' /\ [Next]_vars => [Lease!Next]_<<owner, Holders>>
  BY RefineStep
<1> QED
  BY <1>1, <1>2, LeaseHolds, PTL DEF Spec, HandsOver, Lease!Spec, Holders

=============================================================================
