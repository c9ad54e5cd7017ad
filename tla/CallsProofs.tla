---------------------------- MODULE CallsProofs ----------------------------
(***************************************************************************)
(* Proofs about Calls, for every half-range of the sequence numbers, every  *)
(* number of rollovers and every set of agents: the receiver of the audio    *)
(* stays in step with its sender (InStep), and an entry of active_calls is   *)
(* that of a running bridge (EntryLive).                                     *)
(*                                                                         *)
(* InStep needs what the two trackers count.  Both encode the number of a   *)
(* packet: the sender's that of the packet sent last, the receiver's that of *)
(* the latest packet it decrypted (AudioInv).  The estimate is then an       *)
(* arithmetic fact about two numbers that lie less than Half apart.          *)
(***************************************************************************)
EXTENDS Calls, TLAPS

Packets == [roc : 0 .. Rocs - 1, seq : 0 .. Seqs - 1, n : 1 .. MaxPackets]

\* Multiplying preserves an order: rollovers compare as the packet numbers they stand for.
LEMMA Monotone ==
    ASSUME NEW a \in Int, NEW b \in Int, NEW c \in Nat, a <= b
    PROVE  a * c <= b * c
<1>1. (b - a) * c >= 0
  <2> DEFINE d == b - a
  <2>1. d \in Nat
    OBVIOUS
  <2> HIDE DEF d
  <2>2. d * c >= 0
    BY <2>1
  <2> QED
    BY <2>2 DEF d
<1>2. (b - a) * c = b * c - a * c
  OBVIOUS
<1>3. a * c \in Int /\ b * c \in Int
  OBVIOUS
<1> QED
  BY <1>1, <1>2, <1>3

\* No tracker gets to the last rollover: it would have to count more packets than are sent.
LEMMA NoWrap ==
    ASSUME NEW roc \in 0 .. Rocs - 1, NEW last \in 0 .. Seqs - 1,
           roc * Seqs + last <= MaxPackets
    PROVE  roc < Rocs - 1
<1> USE RolloverAssumption, CallsAssumption
<1>1. Seqs \in Nat
  BY DEF Seqs
<1>2. SUFFICES ASSUME Rocs - 1 <= roc PROVE FALSE
  OBVIOUS
<1>3. (Rocs - 1) * Seqs <= roc * Seqs
  BY <1>1, <1>2, Monotone
<1>4. Seqs * (Rocs - 1) = (Rocs - 1) * Seqs
  BY <1>1
<1>5. roc * Seqs \in Int /\ (Rocs - 1) * Seqs \in Int
  BY <1>1
<1> QED
  BY <1>1, <1>3, <1>4, <1>5

\* Two packets less than Half apart lie in the same round or in neighbouring ones.
LEMMA Neighbours ==
    ASSUME NEW r \in Nat, NEW t \in Nat, NEW s \in 0 .. Seqs - 1, NEW l \in 0 .. Seqs - 1,
           (r * Seqs + s) - (t * Seqs + l) < Half
    PROVE  r <= t + 1
<1> USE RolloverAssumption
<1>1. Seqs \in Nat /\ Seqs = 2 * Half
  BY DEF Seqs
<1>2. SUFFICES ASSUME t + 2 <= r PROVE FALSE
  OBVIOUS
<1>3. (t + 2) * Seqs <= r * Seqs
  BY <1>1, <1>2, Monotone
<1>4. (t + 2) * Seqs = t * Seqs + 2 * Seqs
  BY <1>1
<1>5. r * Seqs \in Int /\ t * Seqs \in Int
  BY <1>1
<1> QED
  BY <1>1, <1>3, <1>4, <1>5

\* What a tracker that has seen a packet encodes.
Counts(t, n) == n = t.roc * Seqs + t.last

\* estimate_roc: right for every packet less than Half from the latest one.
LEMMA EstimateRight ==
    ASSUME NEW t \in Trackers, t.initialized, NEW p \in Packets, NEW h \in 0 .. MaxPackets,
           Counts(t, h), p.n = p.roc * Seqs + p.seq,
           p.n - h < Half, h - p.n < Half
    PROVE  Estimate(t, p.seq) = p.roc
<1> USE RolloverAssumption, CallsAssumption
<1> DEFINE r == p.roc  s == p.seq  c == t.roc  l == t.last
<1>1. /\ Seqs \in Nat /\ Seqs = 2 * Half
      /\ r \in 0 .. Rocs - 1 /\ s \in 0 .. Seqs - 1
      /\ c \in 0 .. Rocs - 1 /\ l \in 0 .. Seqs - 1
      /\ p.n = r * Seqs + s /\ h = c * Seqs + l /\ p.n \in Int /\ h \in Int
  BY DEF Seqs, Trackers, Packets, Counts
<1>2. r * Seqs \in Int /\ c * Seqs \in Int
  BY <1>1
<1>3. r <= c + 1
  BY <1>1, Neighbours
<1>4. c <= r + 1
  BY <1>1, Neighbours
<1>5. Estimate(t, s) =
        IF l < Half THEN IF s - l > Half THEN Down(c) ELSE c
        ELSE IF l - s > Half THEN Up(c) ELSE c
  BY DEF Estimate
<1> HIDE DEF r, s, c, l
<1>6. CASE r = c
  <2>1. s - l < Half /\ l - s < Half
    BY <1>1, <1>2, <1>6
  <2> QED
    BY <1>1, <1>5, <1>6, <2>1 DEF r, s
<1>7. CASE r = c + 1
  <2>1. r * Seqs = c * Seqs + Seqs
    BY <1>1, <1>7
  <2>2. l - s > Half /\ ~(l < Half)
    BY <1>1, <1>2, <2>1
  <2>3. Up(c) = r
    BY <1>1, <1>7 DEF Up
  <2> QED
    BY <1>5, <2>2, <2>3 DEF r, s
<1>8. CASE c = r + 1
  <2>1. c * Seqs = r * Seqs + Seqs
    BY <1>1, <1>8
  <2>2. s - l > Half /\ l < Half
    BY <1>1, <1>2, <2>1
  <2>3. Down(c) = r
    BY <1>1, <1>8 DEF Down
  <2> QED
    BY <1>5, <2>2, <2>3 DEF r, s
<1> QED
  BY <1>1, <1>3, <1>4, <1>6, <1>7, <1>8

\* commit_roc: the tracker then counts the latest packet there was.
LEMMA CommitCounts ==
    ASSUME NEW t \in Trackers, NEW p \in Packets, NEW h \in 0 .. MaxPackets,
           t.initialized => Counts(t, h),
           ~t.initialized => t.roc = 0 /\ h = 0,
           p.n = p.roc * Seqs + p.seq,
           Estimate(t, p.seq) = p.roc
    PROVE  LET u == Commit(t, p.roc, p.seq)
           IN  /\ u \in Trackers /\ u.initialized
               /\ Counts(u, IF p.n > h THEN p.n ELSE h)
<1> USE RolloverAssumption, CallsAssumption
<1> DEFINE u == Commit(t, p.roc, p.seq)
           r == p.roc  s == p.seq  c == t.roc  l == t.last
<1>1. /\ Seqs \in Nat /\ Seqs = 2 * Half
      /\ r \in 0 .. Rocs - 1 /\ s \in 0 .. Seqs - 1
      /\ c \in 0 .. Rocs - 1 /\ l \in 0 .. Seqs - 1
      /\ p.n = r * Seqs + s /\ p.n \in Int /\ h \in Int /\ p.n <= MaxPackets
      /\ t = [roc |-> c, last |-> l, initialized |-> t.initialized]
  BY DEF Seqs, Trackers, Packets
<1>2. r * Seqs \in Int /\ c * Seqs \in Int
  BY <1>1
<1>3. CASE ~t.initialized
  <2>1. r = 0 /\ c = 0 /\ h = 0
    BY <1>3 DEF Estimate
  <2>2. u = [roc |-> 0, last |-> s, initialized |-> TRUE]
    BY <1>1, <1>3, <2>1 DEF Commit
  <2>3. p.n = s
    BY <1>1, <2>1
  <2>4. u \in Trackers
    <3>1. 0 \in 0 .. Rocs - 1 /\ s \in 0 .. Seqs - 1
      BY <1>1, <2>1
    <3> HIDE DEF u, s
    <3> QED
      BY <2>2, <3>1 DEF Trackers
  <2>5. 0 * Seqs + s = s
    BY <1>1
  <2>6. Counts(u, p.n)
    BY <2>2, <2>3, <2>5 DEF Counts
  <2>7. p.n > h
    BY <2>1 DEF Packets
  <2> QED
    BY <2>2, <2>4, <2>6, <2>7
<1>4. CASE t.initialized
  <2>1. h = c * Seqs + l
    BY <1>4 DEF Counts
  <2>2. r < Rocs - 1 /\ c < Rocs - 1
    BY <1>1, <2>1, NoWrap
  <2>3. CASE r = c
    <3>1. u = [roc |-> c, last |-> IF s > l THEN s ELSE l, initialized |-> TRUE]
      BY <1>1, <1>4, <2>3 DEF Commit
    <3>2. p.n > h <=> s > l
      BY <1>1, <1>2, <2>1, <2>3
    <3> QED
      BY <1>1, <2>1, <2>3, <3>1, <3>2 DEF Trackers, Counts
  <2>4. CASE r = Up(c)
    <3>1. r = c + 1
      BY <1>1, <2>2, <2>4 DEF Up
    <3>2. u = [roc |-> r, last |-> s, initialized |-> TRUE]
      BY <1>1, <1>4, <2>4, <3>1 DEF Commit
    <3>3. r * Seqs = c * Seqs + Seqs
      BY <1>1, <3>1
    <3>4. p.n > h
      BY <1>1, <1>2, <2>1, <3>3
    <3> QED
      BY <1>1, <3>2, <3>4 DEF Trackers, Counts
  <2>5. CASE r # c /\ r # Up(c)
    <3>1. r = Down(c)
      BY <1>4, <2>5 DEF Estimate
    <3>2. c = r + 1
      BY <1>1, <2>2, <3>1 DEF Down
    <3>3. u = t
      BY <1>4, <2>5 DEF Commit
    <3>4. c * Seqs = r * Seqs + Seqs
      BY <1>1, <3>2
    <3>5. ~(p.n > h)
      BY <1>1, <1>2, <2>1, <3>4
    <3> QED
      BY <1>4, <2>1, <3>3, <3>5 DEF Counts
  <2> QED
    BY <2>3, <2>4, <2>5
<1> QED
  BY <1>3, <1>4

\* advance: the sender's tracker counts the packets, through every wrap of the sequence numbers.
LEMMA AdvanceCounts ==
    ASSUME NEW t \in Trackers, t.initialized, NEW k \in 0 .. MaxPackets, k < MaxPackets,
           Counts(t, k)
    PROVE  LET u == Advance(t, NextSeq(t.last))
           IN  u \in Trackers /\ u.initialized /\ Counts(u, k + 1) /\ u.last = NextSeq(t.last)
<1> DEFINE u == Advance(t, NextSeq(t.last))  c == t.roc  l == t.last
<1>1. /\ Seqs \in Nat /\ Seqs = 2 * Half /\ Seqs > 3 /\ Half \in Nat /\ Rocs \in Nat
      /\ c \in 0 .. Rocs - 1 /\ l \in 0 .. Seqs - 1
      /\ k = c * Seqs + l /\ k \in Int /\ k <= MaxPackets
  BY RolloverAssumption, CallsAssumption DEF Seqs, Trackers, Counts
<1>2. c < Rocs - 1
  BY <1>1, NoWrap
<1>3. c * Seqs \in Int
  BY <1>1
<1>4. CASE l = Seqs - 1
  <2>1. NextSeq(l) = 0 /\ 0 - l < -Half
    BY <1>1, <1>4 DEF NextSeq
  <2>2. u.roc = c + 1
    BY <1>1, <1>2, <2>1 DEF Advance, Up
  <2>3. u.last = 0 /\ u.initialized /\ u.roc \in 0 .. Rocs - 1
    BY <1>1, <1>2, <2>1, <2>2 DEF Advance
  <2>4. u.roc * Seqs = c * Seqs + Seqs
    BY <1>1, <2>2
  <2>5. u \in Trackers
    BY <1>1, <2>3 DEF Trackers, Advance
  <2>6. k + 1 = u.roc * Seqs + u.last
    BY <1>1, <1>3, <1>4, <2>3, <2>4
  <2> QED
    BY <2>1, <2>3, <2>5, <2>6 DEF Counts
<1>5. CASE l # Seqs - 1
  <2>1. NextSeq(l) = l + 1 /\ ~((l + 1) - l < -Half)
    BY <1>1, <1>5 DEF NextSeq
  <2>2. u.roc = c /\ u.last = l + 1 /\ u.initialized
    BY <2>1 DEF Advance
  <2>3. u \in Trackers
    <3>1. u = [roc |-> c, last |-> l + 1, initialized |-> TRUE]
      BY <2>1, <2>2 DEF Advance
    <3>2. l + 1 \in 0 .. Seqs - 1
      BY <1>1, <1>5
    <3> QED
      BY <1>1, <3>1, <3>2 DEF Trackers
  <2>4. k + 1 = u.roc * Seqs + u.last
    BY <1>1, <1>3, <2>2
  <2> QED
    BY <2>1, <2>2, <2>3, <2>4 DEF Counts
<1> QED
  BY <1>4, <1>5

\* The inductive invariant of the audio.
AudioInv ==
    /\ sender \in Trackers /\ receiver \in Trackers
    /\ sent \in 0 .. MaxPackets /\ highest \in 0 .. MaxPackets
    /\ wire \subseteq Packets
    /\ sent = 0 => sender = NewTracker /\ seq = 1
    /\ sent > 0 => sender.initialized /\ Counts(sender, sent) /\ seq = NextSeq(sender.last)
    /\ \A p \in wire : p.n = p.roc * Seqs + p.seq
    /\ receiver.initialized => Counts(receiver, highest)
    /\ ~receiver.initialized => receiver.roc = 0 /\ highest = 0

LEMMA AudioInit == Init => AudioInv
<1> SUFFICES ASSUME Init PROVE AudioInv
  OBVIOUS
<1>1. NewTracker \in Trackers /\ ~NewTracker.initialized /\ NewTracker.roc = 0
  BY RolloverAssumption DEF NewTracker, Trackers, Seqs
<1>2. 0 \in 0 .. MaxPackets
  BY CallsAssumption
<1> QED
  BY <1>1, <1>2 DEF Init, AudioInv

LEMMA AudioSends == AudioInv /\ PeerSends => AudioInv'
<1> SUFFICES ASSUME AudioInv, PeerSends PROVE AudioInv'
  OBVIOUS
<1> DEFINE p == [roc |-> sender'.roc, seq |-> seq, n |-> sent']
<1>1. /\ sent' = sent + 1 /\ sent < MaxPackets /\ sent \in 0 .. MaxPackets
      /\ sender' = Advance(sender, seq) /\ seq' = NextSeq(seq) /\ wire' = wire \cup {p}
      /\ receiver' = receiver /\ highest' = highest
  BY DEF PeerSends, AudioInv
<1>2. sender' \in Trackers /\ sender'.initialized /\ Counts(sender', sent') /\ sender'.last = seq
  <2>1. CASE sent = 0
    <3>1. seq = 1 /\ sent' = 1 /\ 1 \in 0 .. Seqs - 1
      BY <1>1, <2>1, RolloverAssumption DEF AudioInv, Seqs
    <3>2. sender' = [roc |-> 0, last |-> 1, initialized |-> TRUE]
      <4>1. sender = [roc |-> 0, last |-> 0, initialized |-> FALSE]
        BY <2>1 DEF AudioInv, NewTracker
      <4>2. sender' = Advance(sender, 1)
        BY <1>1, <3>1
      <4> QED
        BY <4>1, <4>2 DEF Advance
    <3>3. 0 * Seqs + 1 = 1
      BY RolloverAssumption DEF Seqs
    <3>4. 0 \in 0 .. Rocs - 1
      BY RolloverAssumption
    <3>5. sender' \in Trackers /\ sender'.initialized /\ sender'.last = 1
      BY <3>1, <3>2, <3>4 DEF Trackers
    <3>6. Counts(sender', sent')
      BY <3>1, <3>2, <3>3 DEF Counts
    <3> QED
      BY <3>1, <3>5, <3>6
  <2>2. CASE sent # 0
    <3>1. sent > 0
      BY <1>1, <2>2
    <3>2. sender \in Trackers /\ sender.initialized /\ Counts(sender, sent)
          /\ seq = NextSeq(sender.last)
      BY <3>1 DEF AudioInv
    <3> QED
      BY <1>1, <3>2, AdvanceCounts
  <2> QED
    BY <2>1, <2>2
<1>3. p \in Packets /\ p.n = p.roc * Seqs + p.seq
  BY <1>1, <1>2, CallsAssumption DEF Packets, Trackers, Counts
<1>4. sent' \in 0 .. MaxPackets /\ sent' > 0
  BY <1>1, CallsAssumption
<1> HIDE DEF p
<1> QED
  BY <1>1, <1>2, <1>3, <1>4 DEF AudioInv

LEMMA AudioReceives ==
    ASSUME AudioInv, NEW p \in wire, Receive(p)
    PROVE  AudioInv'
<1>1. /\ p \in Packets /\ p.n = p.roc * Seqs + p.seq
      /\ receiver \in Trackers /\ highest \in 0 .. MaxPackets
      /\ receiver.initialized => Counts(receiver, highest)
      /\ ~receiver.initialized => receiver.roc = 0 /\ highest = 0
  BY DEF AudioInv
<1>2. UNCHANGED <<sender, seq, sent, wire>>
  BY DEF Receive
<1>3. CASE Estimate(receiver, p.seq) = p.roc
  <2>1. receiver' = Commit(receiver, p.roc, p.seq)
        /\ highest' = IF p.n > highest THEN p.n ELSE highest
    BY <1>3 DEF Receive
  <2>2. receiver' \in Trackers /\ receiver'.initialized /\ Counts(receiver', highest')
    BY <1>1, <1>3, <2>1, CommitCounts
  <2>3. highest' \in 0 .. MaxPackets
    BY <1>1, <2>1 DEF Packets
  <2> QED
    BY <1>2, <2>2, <2>3 DEF AudioInv
<1>4. CASE Estimate(receiver, p.seq) # p.roc
  BY <1>2, <1>4 DEF Receive, AudioInv
<1> QED
  BY <1>3, <1>4

\* Every step.
LEMMA AudioStep == AudioInv /\ [Next]_vars => AudioInv'
<1> SUFFICES ASSUME AudioInv, [Next]_vars PROVE AudioInv'
  OBVIOUS
<1>1. CASE UNCHANGED audio
  BY <1>1 DEF AudioInv, audio
<1>2. CASE PeerSends
  BY <1>2, AudioSends
<1>3. ASSUME NEW p \in wire, Receive(p) PROVE AudioInv'
  BY <1>3, AudioReceives
<1>4. CASE OfferArrives \/ AcceptArrives \/ EndArrives \/ Evicted \/ Reject
  BY <1>1, <1>4 DEF OfferArrives, AcceptArrives, EndArrives, Evicted, Reject
<1>5. CASE PeerCalls \/ PeerAnswers \/ PeerLeaves
  BY <1>1, <1>5 DEF PeerCalls, PeerAnswers, PeerLeaves
<1>6. ASSUME NEW a \in Agents,
             OpenAnswer(a) \/ LoadRecord(a) \/ SaveRecord(a) \/ NoRelayInOffer(a) \/ ShipAccept(a)
      PROVE  AudioInv'
  BY <1>1, <1>6 DEF OpenAnswer, LoadRecord, SaveRecord, NoRelayInOffer, ShipAccept
<1>7. ASSUME NEW a \in Agents,
             OpenDial(a) \/ OfferAcked(a) \/ NotRouted(a) \/ Picked(a) \/ NotPicked(a)
      PROVE  AudioInv'
  BY <1>1, <1>7 DEF OpenDial, OfferAcked, NotRouted, Picked, NotPicked
<1>8. ASSUME NEW a \in Agents,
             RelayUp(a) \/ RelayFails(a) \/ StartMedia(a) \/ Greet(a) \/ HangUp(a) \/ Join(a)
      PROVE  AudioInv'
  BY <1>1, <1>8 DEF RelayUp, RelayFails, StartMedia, Greet, HangUp, Join
<1>9. ASSUME NEW a \in Agents,
             CloseSocket(a) \/ MediaWaits(a) \/ MediaWorks(a) \/ MediaEnds(a)
      PROVE  AudioInv'
  BY <1>1, <1>9 DEF CloseSocket, MediaWaits, MediaWorks, MediaEnds
<1>10. CASE UNCHANGED vars
  BY <1>1, <1>10 DEF vars
<1> QED
  BY <1>2, <1>3, <1>4, <1>5, <1>6, <1>7, <1>8, <1>9, <1>10 DEF Next, Stanza, Task

LEMMA AudioInStep == AudioInv => InStep
<1> SUFFICES ASSUME AudioInv, NEW p \in wire, Near(p)
             PROVE  Estimate(receiver, p.seq) = p.roc
  BY DEF InStep
<1>1. /\ p \in Packets /\ p.n = p.roc * Seqs + p.seq
      /\ receiver \in Trackers /\ highest \in 0 .. MaxPackets
  BY DEF AudioInv
<1>2. CASE receiver.initialized
  BY <1>1, <1>2, EstimateRight DEF AudioInv, Near
<1>3. CASE ~receiver.initialized
  <2> DEFINE r == p.roc  s == p.seq
  <2>1. r * Seqs + s < Seqs /\ r \in 0 .. Rocs - 1 /\ s \in 0 .. Seqs - 1 /\ Seqs \in Nat
    BY <1>1, <1>3, RolloverAssumption DEF Near, Packets, Seqs
  <2> HIDE DEF r, s
  <2>2. SUFFICES ASSUME 1 <= r PROVE FALSE
    <3>1. r = 0
      BY <2>1, <2>2
    <3> QED
      BY <1>3, <3>1 DEF AudioInv, Estimate, r
  <2>3. 1 * Seqs <= r * Seqs
    BY <2>1, <2>2, Monotone
  <2>4. r * Seqs \in Int
    BY <2>1
  <2> QED
    BY <2>1, <2>3, <2>4
<1> QED
  BY <1>2, <1>3

\* The receiver estimates the counter of every near packet rightly, for sequence numbers of any
\* width: reordering, repetition, loss and the wrap of the 16-bit number (call.rs, RocTracker
\* and RecvRocTracker) do not put it out of step.
THEOREM StaysInStep == Spec => []InStep
<1>1. Init => AudioInv
  BY AudioInit
<1>2. AudioInv /\ [Next]_vars => AudioInv'
  BY AudioStep
<1>3. AudioInv => InStep
  BY AudioInStep
<1> QED
  BY <1>1, <1>2, <1>3, PTL DEF Spec

(***************************************************************************)
(* The signalling.                                                          *)
(***************************************************************************)

\* The inductive invariant: types, the media loop follows its bridge, and the entry does too.
ControlInv ==
    /\ dialled \in BOOLEAN /\ ringing \in BOOLEAN /\ unspent \in BOOLEAN /\ told \in BOOLEAN
    /\ active \in Agents \cup {NoAgent}
    /\ waiter \in {"none", "waiting", "accepted", "dropped", "cancelled"}
    /\ at \in [Agents -> {"idle", "load", "save", "accept", "ack", "relay", "pickup", "start",
                          "greet", "bridge", "join", "done"}]
    /\ open \in SUBSET Agents /\ shipped \in SUBSET Agents /\ broken \in SUBSET Agents
    /\ alarm \in [Agents -> {"none", "waiting", "fired"}]
    /\ media \in [Agents -> {"off", "select", "woken", "busy", "done"}]
    /\ peer \in {"idle", "ringing", "talking", "gone"}
    /\ inbox \in Seq({"offer", "accept", "end"})
    /\ \A a \in Agents :
        /\ at[a] \in {"greet", "bridge", "join"} => media[a] # "off"
        /\ at[a] \notin {"greet", "bridge", "join", "done"} => media[a] = "off"
        /\ at[a] = "done" => media[a] \in {"off", "done"}
    /\ EntryLive

LEMMA ControlInit == Init => ControlInv
<1> SUFFICES ASSUME Init PROVE ControlInv
  OBVIOUS
<1>1. inbox \in Seq({"offer", "accept", "end"})
  BY DEF Init
<1>2. /\ at = [a \in Agents |-> "idle"]
      /\ alarm = [a \in Agents |-> "none"]
      /\ media = [a \in Agents |-> "off"]
  BY DEF Init
<1>3. \A a \in Agents : at[a] = "idle" /\ media[a] = "off"
  BY <1>2
<1> QED
  BY <1>1, <1>2, <1>3 DEF Init, ControlInv, EntryLive

LEMMA ControlStep == ControlInv /\ [Next]_vars => ControlInv'
<1> SUFFICES ASSUME ControlInv, [Next]_vars PROVE ControlInv'
  OBVIOUS
<1> USE CallsAssumption DEF ControlInv, EntryLive, maps, tasks, far, Goto
<1>1. CASE OfferArrives
  BY <1>1 DEF OfferArrives
<1>2. CASE AcceptArrives
  BY <1>2 DEF AcceptArrives
<1>3. CASE EndArrives
  <2>1. inbox' \in Seq({"offer", "accept", "end"})
    BY <1>3 DEF EndArrives
  <2>2. at' = at /\ active' = NoAgent
    BY <1>3 DEF EndArrives, End
  <2>3. /\ alarm' \in [Agents -> {"none", "waiting", "fired"}]
        /\ media' \in [Agents -> {"off", "select", "woken", "busy", "done"}]
        /\ \A a \in Agents :
            /\ media[a] = "off" <=> media'[a] = "off"
            /\ media[a] = "done" <=> media'[a] = "done"
    BY <1>3 DEF EndArrives, End
  <2> QED
    BY <1>3, <2>1, <2>2, <2>3 DEF EndArrives
<1>4. CASE Evicted
  BY <1>4 DEF Evicted
<1>5. CASE Reject
  BY <1>5 DEF Reject
<1>6. CASE PeerCalls
  BY <1>6 DEF PeerCalls
<1>7. CASE PeerAnswers
  BY <1>7 DEF PeerAnswers
<1>8. CASE PeerLeaves
  BY <1>8 DEF PeerLeaves
<1>9. CASE PeerSends
  BY <1>9 DEF PeerSends
<1>10. ASSUME NEW p \in wire, Receive(p) PROVE ControlInv'
  BY <1>10 DEF Receive
<1>11. ASSUME NEW a \in Agents, OpenAnswer(a) PROVE ControlInv'
  BY <1>11 DEF OpenAnswer
<1>12. ASSUME NEW a \in Agents, OpenDial(a) PROVE ControlInv'
  BY <1>12 DEF OpenDial
<1>13. ASSUME NEW a \in Agents, CloseSocket(a) PROVE ControlInv'
  BY <1>13 DEF CloseSocket
<1>14. ASSUME NEW a \in Agents, LoadRecord(a) PROVE ControlInv'
  BY <1>14 DEF LoadRecord
<1>15. ASSUME NEW a \in Agents, SaveRecord(a) PROVE ControlInv'
  BY <1>15 DEF SaveRecord
<1>16. ASSUME NEW a \in Agents, NoRelayInOffer(a) PROVE ControlInv'
  BY <1>16 DEF NoRelayInOffer
<1>17. ASSUME NEW a \in Agents, ShipAccept(a) PROVE ControlInv'
  BY <1>17 DEF ShipAccept
<1>18. ASSUME NEW a \in Agents, OfferAcked(a) PROVE ControlInv'
  BY <1>18 DEF OfferAcked
<1>19. ASSUME NEW a \in Agents, NotRouted(a) PROVE ControlInv'
  BY <1>19 DEF NotRouted
<1>20. ASSUME NEW a \in Agents, Picked(a) PROVE ControlInv'
  BY <1>20 DEF Picked
<1>21. ASSUME NEW a \in Agents, NotPicked(a) PROVE ControlInv'
  BY <1>21 DEF NotPicked, GiveUp
<1>22. ASSUME NEW a \in Agents, RelayUp(a) PROVE ControlInv'
  BY <1>22 DEF RelayUp
<1>23. ASSUME NEW a \in Agents, RelayFails(a) PROVE ControlInv'
  BY <1>23 DEF RelayFails
<1>24. ASSUME NEW a \in Agents, StartMedia(a) PROVE ControlInv'
  BY <1>24 DEF StartMedia
<1>25. ASSUME NEW a \in Agents, Greet(a) PROVE ControlInv'
  BY <1>25 DEF Greet
<1>26. ASSUME NEW a \in Agents, HangUp(a) PROVE ControlInv'
  BY <1>26 DEF HangUp, End
<1>27. ASSUME NEW a \in Agents, Join(a) PROVE ControlInv'
  BY <1>27 DEF Join
<1>28. ASSUME NEW a \in Agents, MediaWaits(a) PROVE ControlInv'
  BY <1>28 DEF MediaWaits
<1>29. ASSUME NEW a \in Agents, MediaWorks(a) PROVE ControlInv'
  BY <1>29 DEF MediaWorks
<1>30. ASSUME NEW a \in Agents, MediaEnds(a) PROVE ControlInv'
  BY <1>30 DEF MediaEnds
<1>31. CASE UNCHANGED vars
  BY <1>31 DEF vars
<1> QED
  BY <1>1, <1>2, <1>3, <1>4, <1>5, <1>6, <1>7, <1>8, <1>9, <1>10, <1>11, <1>12, <1>13, <1>14,
     <1>15, <1>16, <1>17, <1>18, <1>19, <1>20, <1>21, <1>22, <1>23, <1>24, <1>25, <1>26, <1>27,
     <1>28, <1>29, <1>30, <1>31 DEF Next, Stanza, Task

\* An entry of active_calls is that of a running bridge, for any set of agents.
THEOREM EntriesLive == Spec => []EntryLive
<1>1. Init => ControlInv
  BY ControlInit
<1>2. ControlInv /\ [Next]_vars => ControlInv'
  BY ControlStep
<1>3. ControlInv => EntryLive
  BY DEF ControlInv
<1> QED
  BY <1>1, <1>2, <1>3, PTL DEF Spec

\* Types, and a media loop for exactly the bridges that have started (bridge_media_over_ws).
THEOREM Types == Spec => []TypeOK
<1>1. Init => ControlInv /\ AudioInv
  BY ControlInit, AudioInit
<1>2. ControlInv /\ AudioInv /\ [Next]_vars => (ControlInv /\ AudioInv)'
  BY ControlStep, AudioStep
<1>3. ControlInv /\ AudioInv => TypeOK
  <2> SUFFICES ASSUME ControlInv, AudioInv PROVE TypeOK
    OBVIOUS
  <2>1. seq \in 0 .. Seqs - 1
    <3>1. CASE sent = 0
      BY <3>1, RolloverAssumption DEF AudioInv, Seqs
    <3>2. CASE sent > 0
      <4>1. sender.last \in 0 .. Seqs - 1 /\ seq = NextSeq(sender.last)
        BY <3>2 DEF AudioInv, Trackers
      <4> QED
        BY <4>1, RolloverAssumption DEF NextSeq, Seqs
    <3> QED
      BY <3>1, <3>2, CallsAssumption DEF AudioInv
  <2>2. wire \in SUBSET [roc : 0 .. Rocs - 1, seq : 0 .. Seqs - 1, n : 1 .. MaxPackets]
    BY DEF AudioInv, Packets
  <2> QED
    BY <2>1, <2>2 DEF ControlInv, AudioInv, TypeOK
<1> QED
  BY <1>1, <1>2, <1>3, PTL DEF Spec

=============================================================================
