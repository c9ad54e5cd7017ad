------------------------ MODULE SignalSessionsProofs ------------------------
(***************************************************************************)
(* The receiving end of a Signal session implements AtMostOnce, for any     *)
(* messages, bounds, sizes of the key cache and numbers of faults; and the  *)
(* one-time keys it is opened with are not lost (PreKeys, at the end).      *)
(*                                                                         *)
(* The types alone do not carry it.  Within a session the ratchet forgets   *)
(* what it has used (SessionInv); across sessions a base key belongs to one *)
(* one-time key (OneKey), which is gone once the session is known to the    *)
(* peer (Spent) and whose name is never given out again (Named).            *)
(***************************************************************************)
EXTENDS SignalSessions, FiniteSetTheorems, SequenceTheorems, WellFoundedInduction, TLAPS

(***************************************************************************)
(* The ratchet.                                                             *)
(***************************************************************************)

\* Every chain has a used and an unused part, and the empty one is a chain.
LEMMA NewChainType == NewChain \in Chains /\ Used(NewChain) = {}
<1>1. IsFiniteSet({}) /\ Cardinality({}) = 0
  BY FS_EmptySet
<1>2. 0..(0 - 1) = {}
  OBVIOUS
<1> QED
  BY <1>1, <1>2, MaxSkippedAssumption DEF NewChain, Chains, Used

\* SessionCipher::decrypt accepts no counter that has opened a message before.
LEMMA AcceptsUnused ==
    ASSUME NEW ch \in Chains, NEW c \in Nat, Accepts(ch, c)
    PROVE  c \notin Used(ch)
  BY DEF Chains, Accepts, Used

\* A successful decryption keeps the chain in shape, the bound on late keys included.
LEMMA AfterType ==
    ASSUME NEW ch \in Chains, NEW c \in Nat, Accepts(ch, c)
    PROVE  After(ch, c) \in Chains
<1> USE DEF Chains
<1>0. IsFiniteSet(ch.skipped) /\ Cardinality(ch.skipped) \in Nat /\ ch.index \in Nat
  BY FS_CardinalityType
<1>1. CASE c < ch.index
  <2> DEFINE left == ch.skipped \ {c}
  <2>1. IsFiniteSet(left) /\ Cardinality(left) <= Cardinality(ch.skipped)
    BY <1>0, FS_Subset
  <2>2. Cardinality(left) \in Nat
    BY <2>1, FS_CardinalityType
  <2>3. After(ch, c) = [index |-> ch.index, skipped |-> left]
    BY <1>1 DEF After
  <2>4. Cardinality(left) <= MaxSkipped
    BY <2>1, <2>2, <1>0, MaxSkippedAssumption
  <2> QED
    BY <2>1, <2>3, <2>4
<1>2. CASE ~(c < ch.index)
  <2> DEFINE gap == ch.index..(c - 1)
             all == ch.skipped \cup gap
  <2>1. IsFiniteSet(gap) /\ Cardinality(gap) = c - ch.index
    <3>1. ch.index \in Int /\ c - 1 \in Int
      BY <1>0
    <3>2. /\ IsFiniteSet(gap)
          /\ Cardinality(gap) = IF ch.index > c - 1 THEN 0 ELSE (c - 1) - ch.index + 1
      BY <3>1, FS_Interval
    <3> QED
      BY <1>0, <1>2, <3>2
  <2>2. ch.skipped \cap gap = {}
    BY <1>0
  <2>3. all \subseteq 0..c /\ all \in SUBSET Nat
    BY <1>0, <1>2
  <2>4. After(ch, c) = [index |-> c + 1, skipped |-> all]
    BY <1>2 DEF After
  <2> HIDE DEF gap
  <2>5. IsFiniteSet(all) /\ Cardinality(all) = Cardinality(ch.skipped) + (c - ch.index)
    <3>1. Cardinality(ch.skipped \cap gap) = 0
      BY <2>2, FS_EmptySet
    <3>2. /\ IsFiniteSet(all)
          /\ Cardinality(all)
                = Cardinality(ch.skipped) + Cardinality(gap) - Cardinality(ch.skipped \cap gap)
      BY <1>0, <2>1, FS_Union
    <3> QED
      BY <1>0, <2>1, <3>1, <3>2
  <2>6. Cardinality(all) <= MaxSkipped
    BY <1>2, <2>5 DEF Accepts
  <2> HIDE DEF all
  <2> DEFINE r == [index |-> c + 1, skipped |-> all]
  <2>7. r \in [index : Nat, skipped : SUBSET Nat] /\ r.skipped = all /\ r.index - 1 = c
    BY <2>3
  <2>8. r \in Chains
    BY <2>3, <2>5, <2>6, <2>7
  <2> QED
    BY <2>4, <2>8
<1> QED
  BY <1>1, <1>2

\* ... and uses up its counter, and no other.
LEMMA AfterUsed ==
    ASSUME NEW ch \in Chains, NEW c \in Nat, Accepts(ch, c)
    PROVE  Used(After(ch, c)) = Used(ch) \cup {c}
<1> USE DEF Chains
<1>1. CASE c < ch.index
  BY <1>1 DEF Used, After, Accepts
<1>2. CASE ~(c < ch.index)
  BY <1>2 DEF Used, After, Accepts
<1> QED
  BY <1>1, <1>2

(***************************************************************************)
(* Types.                                                                   *)
(***************************************************************************)

USE DEF ours, peers, history

\* The records and ciphertexts the code puts together are of their types.
LEMMA RecordTypes ==
    /\ NoRecord \in Records
    /\ \A b \in 0..MaxBases, k \in OneTimeKeys : Bootstrapped(b, k) \in Records
    /\ \A b \in 0..MaxBases : [NoRecord EXCEPT !.base = b] \in Records
    /\ \A b \in 0..MaxBases : ServerKey(b) \in OneTimeKeys \ {NoKey}
    /\ \A m \in Msgs : minted \in Nat => RetryKey(m) \in OneTimeKeys \ {NoKey}
<1> USE SessionsAssumption
<1>1. NoKey \in OneTimeKeys /\ 0 \in 0..MaxBases /\ 0 \in 0..MaxCounter
  BY DEF OneTimeKeys
<1>2. NoRecord \in Records
  BY <1>1 DEF NoRecord, Records
<1>3. \A b \in 0..MaxBases, k \in OneTimeKeys : Bootstrapped(b, k) \in Records
  BY <1>1 DEF Bootstrapped, Records
<1>4. \A b \in 0..MaxBases : [NoRecord EXCEPT !.base = b] \in Records
  BY <1>1 DEF NoRecord, Records
<1>5. \A b \in 0..MaxBases : ServerKey(b) \in OneTimeKeys \ {NoKey}
  BY DEF ServerKey, OneTimeKeys, NoKey
<1>6. \A m \in Msgs : minted \in Nat => RetryKey(m) \in OneTimeKeys \ {NoKey}
  BY DEF RetryKey, OneTimeKeys, NoKey
<1> QED
  BY <1>2, <1>3, <1>4, <1>5, <1>6

\* The initial states have the types.
LEMMA InitType == Init => TypeOK
<1> SUFFICES ASSUME Init PROVE TypeOK
  OBVIOUS
<1>1. rec \in Records /\ snap \in [Msgs -> Records]
  BY RecordTypes DEF Init
<1>2. chain \in Chains
  BY NewChainType DEF Init
<1> QED
  BY <1>1, <1>2, SessionsAssumption DEF Init, TypeOK

\* What is about to be encrypted has a session.
Loaded == \A m \in Msgs : stage[m] = "loaded" => snap[m].base # 0

\* What a task of our end does keeps the types.
LEMMA TaskType ==
    ASSUME TypeOK, Loaded, NEW m \in Msgs, Task(m)
    PROVE  TypeOK'
<1> USE SessionsAssumption DEF TypeOK, Goto
<1>1. CASE PumpTakes(m)
  BY <1>1 DEF PumpTakes
<1>2. CASE Load(m)
  BY <1>2 DEF Load
<1>3. CASE FetchOk(m)
  <2>1. bases' \in 0..MaxBases
    BY <1>3 DEF FetchOk, Fresh
  <2>2. ServerKey(bases') \in OneTimeKeys \ {NoKey}
    BY <2>1, RecordTypes
  <2>3. Bootstrapped(bases', ServerKey(bases')) \in Records
    BY <2>1, <2>2, RecordTypes
  <2> QED
    BY <1>3, <2>1, <2>2, <2>3 DEF FetchOk
<1>4. CASE FetchFails(m)
  BY <1>4 DEF FetchFails, Fault
<1>5. CASE Encrypt(m)
  <2>1. snap[m] \in Records /\ snap[m].base # 0 /\ snap[m].counter < MaxCounter
    BY <1>5 DEF Encrypt, Loaded
  <2>2. /\ Keyed(m) \in Records
        /\ Keyed(m).base = snap[m].base
        /\ Keyed(m).counter = snap[m].counter
    BY <2>1 DEF Keyed, Records
  <2>3. [Keyed(m) EXCEPT !.counter = @ + 1, !.pending = FALSE] \in Records
    <3>1. Keyed(m).counter + 1 \in 0..MaxCounter
      BY <2>1, <2>2 DEF Records
    <3>2. ASSUME NEW q \in Records, NEW n \in 0..MaxCounter
          PROVE  [q EXCEPT !.counter = n, !.pending = FALSE] \in Records
      BY DEF Records
    <3> QED
      BY <2>2, <3>1, <3>2
  <2>4. Cipher(m, Keyed(m)) \in Ciphers
    BY <2>1, <2>2 DEF Records, Ciphers, Cipher
  <2> QED
    BY <1>5, <2>3, <2>4, RecordTypes DEF Encrypt
<1>6. CASE Recreate(m)
  <2>1. bases' \in 0..MaxBases /\ faults' \in 0..MaxFaults
    BY <1>6 DEF Recreate, Fresh, Fault
  <2>2. ServerKey(bases') \in OneTimeKeys \ {NoKey}
    BY <2>1, RecordTypes
  <2>3. Bootstrapped(bases', ServerKey(bases')) \in Records
    BY <2>1, <2>2, RecordTypes
  <2> QED
    BY <1>6, <2>1, <2>2, <2>3 DEF Recreate
<1> QED
  BY <1>1, <1>2, <1>3, <1>4, <1>5, <1>6 DEF Task

\* So does a retry receipt.
LEMMA RetryType ==
    ASSUME TypeOK, NEW r \in receipts, RetryArrives(r)
    PROVE  TypeOK'
<1> USE SessionsAssumption DEF TypeOK, Goto
<1>1. /\ r \in [msg : Msgs, count : 1..(Give - 1), key : OneTimeKeys]
      /\ asked' \in [Msgs -> Nat]
  BY DEF RetryArrives
<1>2. /\ bases' \in 0..MaxBases
      /\ rec' \in Records
      /\ stage' \in [Msgs -> {"todo", "load", "fetch", "loaded", "recreate", "done"}]
  <2>1. CASE Answer(r) /\ r.key # NoKey
    BY <2>1, <1>1, RecordTypes DEF Answer, Fresh
  <2>2. CASE Answer(r) /\ r.key = NoKey
    BY <2>2, <1>1 DEF Answer, Reuse
  <2> QED
    BY <2>1, <2>2 DEF RetryArrives
<1> QED
  BY <1>1, <1>2 DEF RetryArrives

\* So does what the peer makes of a ciphertext.
LEMMA PeerType ==
    ASSUME TypeOK, NEW c \in wire, ReadOnSession(c) \/ ReadOnNewSession(c) \/ Unreadable(c)
    PROVE  TypeOK'
<1> USE SessionsAssumption DEF TypeOK
<1>1. /\ c \in Ciphers
      /\ c.msg \in Msgs /\ c.base \in 1..MaxBases /\ c.by \in Msgs \cup {None}
      /\ c.counter \in 0..MaxCounter /\ c.counter \in Nat
  BY DEF Ciphers
<1>2. <<<<c.base, c.by, c.counter>>, c.msg>> \in Keys \X Msgs
  BY <1>1 DEF Keys
<1>3. CASE ReadOnSession(c)
  <2>1. chain' \in Chains
    BY <1>1, <1>3, AfterType DEF ReadOnSession, OpensExisting
  <2> QED
    BY <1>1, <1>2, <1>3, <2>1 DEF ReadOnSession, Read
<1>4. CASE ReadOnNewSession(c)
  <2>1. chain' \in Chains
    BY <1>1, <1>4, AfterType, NewChainType DEF ReadOnNewSession, OpensAfresh
  <2> QED
    BY <1>1, <1>2, <1>4, <2>1 DEF ReadOnNewSession, Read, Consume
<1>5. CASE Unreadable(c)
  <2>1. RetryKey(c.msg) \in OneTimeKeys \ {NoKey} /\ NoKey \in OneTimeKeys
    BY <1>1, RecordTypes DEF OneTimeKeys
  <2>2. retries' \in [Msgs -> Nat] /\ retries'[c.msg] \in Nat \ {0}
    BY <1>1, <1>5 DEF Unreadable
  <2>3. /\ receipts' \subseteq [msg : Msgs, count : 1..(Give - 1), key : OneTimeKeys]
        /\ oneTime' \subseteq OneTimeKeys \ {NoKey}
        /\ minted' \in Nat
        /\ gaveUp' \subseteq Msgs
        /\ faults' \in 0..MaxFaults
    BY <1>1, <1>5, <2>1, <2>2 DEF Unreadable, AsksAgain, Fault
  <2> QED
    BY <1>1, <1>5, <2>2, <2>3 DEF Unreadable
<1> QED
  BY <1>3, <1>4, <1>5

\* Every step keeps the types.
LEMMA TypeStep == TypeOK /\ Loaded /\ [Next]_vars => TypeOK'
<1> SUFFICES ASSUME TypeOK, Loaded, [Next]_vars PROVE TypeOK'
  OBVIOUS
<1>1. CASE PeerOpens
  <2>1. bases' \in 0..MaxBases /\ bases' \in 1..MaxBases
    BY <1>1, SessionsAssumption DEF PeerOpens, Fresh, TypeOK
  <2> QED
    BY <1>1, <2>1, NewChainType DEF PeerOpens, TypeOK
<1>2. CASE PeerForgets
  BY <1>2, SessionsAssumption DEF PeerForgets, Fault, TypeOK
<1>3. ASSUME NEW b \in hello, HelloArrives(b) PROVE TypeOK'
  <2>1. b \in 0..MaxBases
    BY SessionsAssumption DEF TypeOK
  <2> QED
    BY <1>3, <2>1, RecordTypes DEF HelloArrives, TypeOK
<1>4. CASE UNCHANGED vars
  BY <1>4 DEF vars, TypeOK
<1> QED
  BY <1>1, <1>2, <1>3, <1>4, TaskType, RetryType, PeerType DEF Next

\* Every step keeps what is loaded a session.
LEMMA LoadedStep == TypeOK /\ Loaded /\ [Next]_vars => Loaded'
<1> SUFFICES ASSUME TypeOK, Loaded, [Next]_vars PROVE Loaded'
  OBVIOUS
<1> USE DEF Goto
<1>1. ASSUME NEW m \in Msgs, Task(m) PROVE Loaded'
  <2>1. CASE FetchOk(m)
    BY <2>1 DEF FetchOk, Loaded, TypeOK, Bootstrapped, Fresh
  <2>2. CASE Load(m)
    BY <2>2 DEF Load, Loaded, TypeOK
  <2>3. CASE PumpTakes(m) \/ FetchFails(m) \/ Encrypt(m) \/ Recreate(m)
    BY <2>3 DEF PumpTakes, FetchFails, Encrypt, Recreate, Loaded, TypeOK
  <2> QED
    BY <1>1, <2>1, <2>2, <2>3 DEF Task
<1>2. ASSUME NEW r \in receipts, RetryArrives(r) PROVE Loaded'
  BY <1>2 DEF RetryArrives, Answer, Reuse, Loaded, TypeOK
<1>3. ASSUME NEW c \in wire, ReadOnSession(c) \/ ReadOnNewSession(c) \/ Unreadable(c)
      PROVE  Loaded'
  BY <1>3 DEF ReadOnSession, ReadOnNewSession, Read, Unreadable, Loaded
<1>4. ASSUME NEW b \in hello, HelloArrives(b) PROVE Loaded'
  BY <1>4 DEF HelloArrives, Loaded
<1>5. CASE PeerOpens \/ PeerForgets \/ UNCHANGED vars
  BY <1>5 DEF PeerOpens, PeerForgets, vars, Loaded
<1> QED
  BY <1>1, <1>2, <1>3, <1>4, <1>5 DEF Next

\* The types hold in every state (message and retry bookkeeping of both ends): in particular
\* SessionCipher::decrypt never caches more than MAX_SKIPPED_MESSAGE_KEYS late keys.
THEOREM Types == Spec => []TypeOK
<1>1. Init => TypeOK /\ Loaded
  <2>1. Init => Loaded
    BY DEF Init, Loaded
  <2> QED
    BY <2>1, InitType
<1>2. (TypeOK /\ Loaded) /\ [Next]_vars => (TypeOK /\ Loaded)'
  BY TypeStep, LoadedStep
<1> QED
  BY <1>1, <1>2, PTL DEF Spec

(***************************************************************************)
(* The receiving end implements AtMostOnce.                                 *)
(***************************************************************************)

\* The pairs of a base key and the one-time key it was made with, wherever our end has them.
Bonds ==
    {<<c.base, c.key>> : c \in sent} \cup {<<rec.base, rec.key>>}
        \cup {<<snap[m].base, snap[m].key>> : m \in Msgs}

OneKey == \A p, q \in Bonds : p[1] = q[1] => p[2] = q[2]

\* Sessions of the peer come without one.
Keyless == \A p \in Bonds : p[1] \in hello \cup {0} => p[2] = NoKey

\* A new base key is new to all.
Known ==
    /\ \A p \in Bonds : p[1] <= bases
    /\ \A b \in hello : b <= bases
    /\ session <= bases
    /\ \A o \in opened : o[1][1] <= bases

\* So is a new one-time key.
HasName(k) ==
    k # NoKey => /\ k[1] = None => k[2] <= bases
                 /\ k[1] # None => k[2] <= minted

Named ==
    /\ \A p \in Bonds : HasName(p[2])
    /\ \A r \in receipts : HasName(r.key)

\* The one-time key of a session the peer has, or had, is gone.
Spent ==
    \A p \in Bonds :
        p[2] \in oneTime => /\ p[1] # session
                            /\ \A o \in opened : o[1][1] # p[1]

\* The chain knows what has been opened in the current session.
SessionInv == \A o \in opened : o[1][1] = session => o[1][3] \in Used(chain)

\* The inductive invariant.
ReceiverInv ==
    /\ TypeOK /\ Loaded
    /\ wire \subseteq sent
    /\ OneKey /\ Keyless /\ Known /\ Named /\ Spent /\ SessionInv

\* The initial states satisfy it.
LEMMA InitReceiver == Init => ReceiverInv
<1> SUFFICES ASSUME Init PROVE ReceiverInv
  OBVIOUS
<1>1. \A p \in Bonds : p = <<0, NoKey>>
  BY DEF Init, Bonds, NoRecord
<1>2. TypeOK /\ Loaded
  BY InitType DEF Init, Loaded
<1>3. OneKey /\ Keyless /\ SessionInv
  BY <1>1 DEF Init, OneKey, Keyless, SessionInv
<1>4. Known /\ Named
  BY <1>1 DEF Init, Known, Named, HasName
<1>5. Spent
  BY <1>1 DEF Init, Spent
<1> QED
  BY <1>2, <1>3, <1>4, <1>5 DEF Init, ReceiverInv

\* What a step may add to the bonds: nothing of note, a new session of ours, or one of the
\* peer's.
Grows ==
    \/ Bonds' \subseteq Bonds \cup {<<0, NoKey>>}
    \/ \E k \in OneTimeKeys :
          /\ bases' = bases + 1 /\ hello' = hello
          /\ Bonds' \subseteq Bonds \cup {<<bases + 1, k>>}
          /\ k = ServerKey(bases + 1) \/ \E r \in receipts : k = r.key
    \/ \E b \in hello : Bonds' \subseteq Bonds \cup {<<b, NoKey>>}

\* Every step does one of these.
LEMMA GrowsStep ==
    ASSUME TypeOK, [Next]_vars
    PROVE  Grows
<1> USE DEF Goto
<1>1. ASSUME NEW m \in Msgs, Task(m) PROVE Grows
  <2>1. CASE PumpTakes(m) \/ FetchFails(m)
    BY <2>1 DEF PumpTakes, FetchFails, Grows, Bonds
  <2>2. CASE Load(m)
    BY <2>2 DEF Load, Grows, Bonds, TypeOK
  <2>3. CASE FetchOk(m)
    <3>1. bases \in Nat /\ bases' = bases + 1 /\ bases + 1 \in 0..MaxBases
      BY <2>3, SessionsAssumption DEF FetchOk, Fresh, TypeOK
    <3>2. ServerKey(bases + 1) \in OneTimeKeys
      BY <3>1, RecordTypes
    <3>3. Bonds' \subseteq Bonds \cup {<<bases + 1, ServerKey(bases + 1)>>}
      BY <2>3, <3>1 DEF FetchOk, Bonds, TypeOK, Bootstrapped
    <3> QED
      BY <2>3, <3>1, <3>2, <3>3 DEF FetchOk, Grows
  <2>4. CASE Encrypt(m)
    <3>1. snap[m] \in Records
      BY DEF TypeOK
    <3>2. Keyed(m).base = snap[m].base /\ Keyed(m).key = snap[m].key
      BY <3>1 DEF Keyed, Records
    <3>3. /\ rec'.base = snap[m].base /\ rec'.key = snap[m].key
      BY <2>4, <3>1, <3>2 DEF Encrypt, Keyed, Records
    <3>4. ASSUME NEW p \in Bonds' PROVE p \in Bonds \cup {<<0, NoKey>>}
      <4>1. CASE p = <<rec'.base, rec'.key>>
        BY <3>3, <4>1 DEF Bonds
      <4>2. ASSUME NEW n \in Msgs, p = <<snap'[n].base, snap'[n].key>>
            PROVE  p \in Bonds \cup {<<0, NoKey>>}
        BY <2>4, <4>2 DEF Encrypt, Bonds, NoRecord, TypeOK
      <4>3. ASSUME NEW c \in sent', p = <<c.base, c.key>>
            PROVE  p \in Bonds
        BY <2>4, <3>2, <4>3 DEF Encrypt, Cipher, Bonds
      <4> QED
        BY <4>1, <4>2, <4>3 DEF Bonds
    <3> QED
      BY <3>4 DEF Grows
  <2>5. CASE Recreate(m)
    <3>1. CASE rec' = rec
      BY <2>5, <3>1 DEF Recreate, Grows, Bonds
    <3>2. CASE rec' # rec
      <4>1. bases \in Nat /\ bases' = bases + 1 /\ bases + 1 \in 0..MaxBases
        BY <2>5, <3>2, SessionsAssumption DEF Recreate, Fresh, TypeOK
      <4>2. ServerKey(bases + 1) \in OneTimeKeys
        BY <4>1, RecordTypes
      <4>3. Bonds' \subseteq Bonds \cup {<<bases + 1, ServerKey(bases + 1)>>}
        BY <2>5, <3>2, <4>1 DEF Recreate, Bonds, Bootstrapped
      <4> QED
        BY <2>5, <4>1, <4>2, <4>3 DEF Recreate, Grows
    <3> QED
      BY <3>1, <3>2
  <2> QED
    BY <1>1, <2>1, <2>2, <2>3, <2>4, <2>5 DEF Task
<1>2. ASSUME NEW r \in receipts, RetryArrives(r) PROVE Grows
  <2>1. r.key \in OneTimeKeys
    BY DEF TypeOK
  <2>2. CASE rec' = rec
    BY <1>2, <2>2 DEF RetryArrives, Grows, Bonds
  <2>3. CASE rec' # rec
    <3>1. bases' = bases + 1 /\ rec' = Bootstrapped(bases + 1, r.key)
      BY <1>2, <2>3 DEF RetryArrives, Answer, Fresh
    <3>2. Bonds' \subseteq Bonds \cup {<<bases + 1, r.key>>}
      BY <1>2, <3>1 DEF RetryArrives, Bonds, Bootstrapped
    <3> QED
      BY <1>2, <2>1, <3>1, <3>2 DEF RetryArrives, Grows
  <2> QED
    BY <2>2, <2>3
<1>3. ASSUME NEW c \in wire, ReadOnSession(c) \/ ReadOnNewSession(c) \/ Unreadable(c)
      PROVE  Grows
  BY <1>3 DEF ReadOnSession, ReadOnNewSession, Read, Unreadable, Grows, Bonds
<1>4. ASSUME NEW b \in hello, HelloArrives(b) PROVE Grows
  <2>1. Bonds' \subseteq Bonds \cup {<<b, NoKey>>}
    BY <1>4 DEF HelloArrives, Bonds, NoRecord
  <2> QED
    BY <2>1 DEF Grows
<1>5. CASE PeerOpens \/ PeerForgets \/ UNCHANGED vars
  BY <1>5 DEF PeerOpens, PeerForgets, vars, Grows, Bonds
<1> QED
  BY <1>1, <1>2, <1>3, <1>4, <1>5 DEF Next

\* The counters of base keys and of retry keys only grow, and what the peer has is known.
LEMMA CountersStep ==
    ASSUME ReceiverInv, [Next]_vars
    PROVE  /\ bases \in Nat /\ bases' \in {bases, bases + 1}
           /\ minted \in Nat /\ minted' \in {minted, minted + 1}
           /\ \/ hello' \subseteq hello
              \/ hello' = hello \cup {bases + 1} /\ bases' = bases + 1 /\ Bonds' = Bonds
           /\ session' <= bases'
           /\ \A o \in opened' : o[1][1] <= bases'
<1> USE DEF Fresh, Goto, ReceiverInv
<1>0. bases \in Nat /\ minted \in Nat /\ session \in Nat /\ session <= bases
  BY DEF TypeOK, Known
<1>1. bases' \in {bases, bases + 1}
  BY <1>0
  DEF Next, Task, PumpTakes, Load, FetchOk, FetchFails, Encrypt, Recreate, RetryArrives, Answer,
      ReadOnSession, ReadOnNewSession, Read, Unreadable, PeerOpens, PeerForgets, HelloArrives,
      vars
<1>2. minted' \in {minted, minted + 1}
  BY <1>0
  DEF Next, Task, PumpTakes, Load, FetchOk, FetchFails, Encrypt, Recreate, RetryArrives,
      ReadOnSession, ReadOnNewSession, Read, Unreadable, PeerOpens, PeerForgets, HelloArrives,
      vars
<1>3. \/ hello' \subseteq hello
      \/ hello' = hello \cup {bases + 1} /\ bases' = bases + 1 /\ Bonds' = Bonds
  BY <1>0
  DEF Next, Task, PumpTakes, Load, FetchOk, FetchFails, Encrypt, Recreate, RetryArrives,
      ReadOnSession, ReadOnNewSession, Read, Unreadable, PeerOpens, PeerForgets, HelloArrives,
      vars, Bonds
<1>4. ASSUME NEW c \in wire, ReadOnSession(c) \/ ReadOnNewSession(c)
      PROVE  /\ session' <= bases' /\ \A o \in opened' : o[1][1] <= bases'
  <2>1. c \in sent /\ <<c.base, c.key>> \in Bonds /\ bases' = bases
    BY <1>4 DEF ReadOnSession, ReadOnNewSession, Read, Bonds
  <2>2. c.base <= bases
    BY <2>1 DEF Known
  <2>3. session' \in {session, c.base}
    BY <1>4 DEF ReadOnSession, ReadOnNewSession
  <2>4. ASSUME NEW o \in opened' PROVE o \in opened \/ o[1][1] = c.base
    BY <1>4, <2>4 DEF ReadOnSession, ReadOnNewSession, Read
  <2>5. \A o \in opened : o[1][1] <= bases
    BY DEF Known
  <2> QED
    BY <1>0, <2>1, <2>2, <2>3, <2>4, <2>5
<1>5. ASSUME ~(\E c \in wire : ReadOnSession(c) \/ ReadOnNewSession(c))
      PROVE  session' <= bases' /\ \A o \in opened' : o[1][1] <= bases'
  <2>1. opened' = opened
    BY <1>5
    DEF Next, Task, PumpTakes, Load, FetchOk, FetchFails, Encrypt, Recreate, RetryArrives,
        Unreadable, PeerOpens, PeerForgets, HelloArrives, vars
  <2>2. session' \in {session, bases'}
    BY <1>5
    DEF Next, Task, PumpTakes, Load, FetchOk, FetchFails, Encrypt, Recreate, RetryArrives,
        Unreadable, PeerOpens, PeerForgets, HelloArrives, vars
  <2>3. \A o \in opened : o[1][1] \in Nat /\ o[1][1] <= bases
    BY DEF TypeOK, Keys, Known
  <2> HIDE DEF ReceiverInv
  <2>4. \A o \in opened : o[1][1] <= bases'
    BY <1>0, <1>1, <2>3
  <2>5. session' <= bases'
    BY <1>0, <1>1, <2>2
  <2> QED
    BY <2>1, <2>4, <2>5
<1> QED
  BY <1>0, <1>1, <1>2, <1>3, <1>4, <1>5

\* Base keys stay bound to one one-time key.
LEMMA BondsStep ==
    ASSUME ReceiverInv, [Next]_vars
    PROVE  OneKey' /\ Keyless' /\ Known'
<1> USE DEF ReceiverInv
<1>1. Grows
  BY GrowsStep
<1>2. /\ bases \in Nat /\ bases' \in {bases, bases + 1}
      /\ \/ hello' \subseteq hello
         \/ hello' = hello \cup {bases + 1} /\ bases' = bases + 1 /\ Bonds' = Bonds
      /\ session' <= bases'
      /\ \A o \in opened' : o[1][1] <= bases'
  BY CountersStep
<1>3. /\ \A p \in Bonds : p[1] \in Nat /\ p[1] <= bases
      /\ \A b \in hello : b \in Nat /\ b <= bases
  BY DEF TypeOK, Records, Ciphers, Bonds, Known
<1>4. \A p, q \in Bonds : p[1] = q[1] => p[2] = q[2]
  BY DEF OneKey
<1>5. \A p \in Bonds : p[1] \in hello \cup {0} => p[2] = NoKey
  BY DEF Keyless
<1> HIDE DEF ReceiverInv
<1>6. CASE Bonds' \subseteq Bonds \cup {<<0, NoKey>>}
  BY <1>2, <1>3, <1>4, <1>5, <1>6 DEF OneKey, Keyless, Known
<1>7. ASSUME NEW k \in OneTimeKeys, bases' = bases + 1, hello' = hello,
             Bonds' \subseteq Bonds \cup {<<bases + 1, k>>}
      PROVE  OneKey' /\ Keyless' /\ Known'
  BY <1>2, <1>3, <1>4, <1>5, <1>7 DEF OneKey, Keyless, Known
<1>8. ASSUME NEW b \in hello, Bonds' \subseteq Bonds \cup {<<b, NoKey>>}
      PROVE  OneKey' /\ Keyless' /\ Known'
  BY <1>2, <1>3, <1>4, <1>5, <1>8 DEF OneKey, Keyless, Known
<1> QED
  BY <1>1, <1>6, <1>7, <1>8 DEF Grows

\* New one-time keys keep getting new names.
LEMMA NamedStep ==
    ASSUME ReceiverInv, [Next]_vars
    PROVE  Named'
<1> USE DEF ReceiverInv
<1>1. Grows
  BY GrowsStep
<1>2. /\ bases \in Nat /\ bases' \in {bases, bases + 1}
      /\ minted \in Nat /\ minted' \in {minted, minted + 1}
  BY CountersStep
<1>3. ASSUME NEW k \in OneTimeKeys, HasName(k) PROVE HasName(k)'
  BY <1>2, <1>3 DEF HasName, OneTimeKeys
<1>4. HasName(NoKey)'
  BY DEF HasName
<1>5. \A r \in receipts' : HasName(r.key)'
  <2>1. ASSUME NEW r \in receipts PROVE HasName(r.key)'
    BY <1>3 DEF TypeOK, Named
  <2>2. CASE receipts' \subseteq receipts
    BY <2>1, <2>2
  <2>3. ASSUME NEW c \in wire, Unreadable(c) PROVE \A r \in receipts' : HasName(r.key)'
    <3>1. ASSUME NEW r \in receipts', r \notin receipts
          PROVE  r.key = NoKey \/ (r.key = <<c.msg, minted + 1>> /\ minted' = minted + 1)
      BY <2>3, <3>1 DEF Unreadable, RetryKey
    <3>2. c.msg # None
      BY SessionsAssumption DEF TypeOK, Ciphers
    <3>3. ASSUME NEW k, k = <<c.msg, minted + 1>>, minted' = minted + 1 PROVE HasName(k)'
      BY <1>2, <3>2, <3>3 DEF HasName
    <3>4. ASSUME NEW k, k = NoKey PROVE HasName(k)'
      BY <3>4 DEF HasName
    <3> QED
      BY <2>1, <3>1, <3>3, <3>4
  <2>4. (\E c \in wire : Unreadable(c)) \/ receipts' \subseteq receipts
    BY
    DEF Next, Task, PumpTakes, Load, FetchOk, FetchFails, Encrypt, Recreate, RetryArrives,
        ReadOnSession, ReadOnNewSession, Read, PeerOpens, PeerForgets, HelloArrives, vars
  <2> QED
    BY <2>2, <2>3, <2>4
<1>6. \A p \in Bonds' : HasName(p[2])'
  <2>1. ASSUME NEW p \in Bonds PROVE HasName(p[2])'
    <3>1. p[2] \in OneTimeKeys /\ HasName(p[2])
      BY DEF TypeOK, Records, Ciphers, Bonds, Named
    <3> QED
      BY <1>3, <3>1
  <2>2. ASSUME NEW k \in OneTimeKeys, bases' = bases + 1,
               k = ServerKey(bases + 1) \/ \E r \in receipts : k = r.key
        PROVE  HasName(k)'
    <3>1. CASE k = ServerKey(bases + 1)
      BY <1>2, <2>2, <3>1 DEF HasName, ServerKey
    <3>2. ASSUME NEW r \in receipts, k = r.key PROVE HasName(k)'
      BY <1>3, <3>2 DEF Named
    <3> QED
      BY <2>2, <3>1, <3>2
  <2> QED
    BY <1>1, <1>4, <2>1, <2>2 DEF Grows
<1> QED
  BY <1>5, <1>6 DEF Named

\* A one-time key that has served stays away.
LEMMA SpentStep ==
    ASSUME ReceiverInv, [Next]_vars
    PROVE  Spent'
<1>1. Grows
  BY GrowsStep DEF ReceiverInv
<1>2. bases \in Nat /\ bases' \in {bases, bases + 1} /\ minted \in Nat
  BY CountersStep
<1>3. /\ session \in Nat /\ session <= bases
      /\ \A o \in opened : o[1][1] \in Nat /\ o[1][1] <= bases
      /\ \A p \in Bonds : p[1] \in Nat /\ p[1] <= bases
  BY DEF ReceiverInv, Known, TypeOK, Keys, Bonds, Records, Ciphers
<1>4. NoKey \notin oneTime /\ NoKey \notin oneTime'
  BY TypeStep DEF ReceiverInv, TypeOK
<1>5. ASSUME NEW p \in Bonds, p[2] \in oneTime
      PROVE  p[1] # session /\ \A o \in opened : o[1][1] # p[1]
  BY <1>5 DEF ReceiverInv, Spent
<1>6. /\ \A p \in Bonds : p[2] # ServerKey(bases + 1)
      /\ \A p \in Bonds, m \in Msgs : p[2] # RetryKey(m)
  <2>1. ASSUME NEW p \in Bonds PROVE HasName(p[2])
    BY DEF ReceiverInv, Named
  <2>2. ASSUME NEW k, k = ServerKey(bases + 1) PROVE ~HasName(k)
    <3>1. k # NoKey /\ k[1] = None /\ k[2] = bases + 1
      BY <2>2 DEF ServerKey, NoKey
    <3> QED
      BY <1>2, <3>1 DEF HasName
  <2>3. ASSUME NEW k, NEW m \in Msgs, k = RetryKey(m) PROVE ~HasName(k)
    <3>1. k # NoKey /\ k[1] # None /\ k[2] = minted + 1
      BY <2>3, SessionsAssumption DEF RetryKey, NoKey
    <3> QED
      BY <1>2, <3>1 DEF HasName
  <2> QED
    BY <2>1, <2>2, <2>3
\* Our end, and the peer's failures: the only keys that come in are new.
<1>7. ASSUME session' = session, opened' = opened,
             \A k \in oneTime' : k \in oneTime \/ k = ServerKey(bases + 1)
                                \/ \E m \in Msgs : k = RetryKey(m)
      PROVE  Spent'
  <2>1. ASSUME NEW p \in Bonds, p[2] \in oneTime'
        PROVE  p[1] # session /\ \A o \in opened : o[1][1] # p[1]
    BY <1>5, <1>6, <1>7, <2>1
  <2>2. ASSUME NEW p \in Bonds', p[2] \in oneTime'
        PROVE  p \in Bonds \/ p[1] = bases + 1
    BY <1>1, <1>4, <2>2 DEF Grows
  <2>3. ASSUME NEW p, p[1] = bases + 1
        PROVE  p[1] # session /\ \A o \in opened : o[1][1] # p[1]
    BY <1>2, <1>3, <2>3
  <2> QED
    BY <1>7, <2>1, <2>2, <2>3 DEF Spent
<1>8. ASSUME NEW c \in wire, ReadOnSession(c) PROVE Spent'
  <2>1. Bonds' = Bonds /\ session' = session /\ oneTime' = oneTime /\ c.base = session
    BY <1>8 DEF ReadOnSession, OpensExisting, Read, Bonds
  <2>2. ASSUME NEW o \in opened' PROVE o \in opened \/ o[1][1] = session
    BY <1>8, <2>1, <2>2 DEF ReadOnSession, Read
  <2> QED
    BY <1>5, <2>1, <2>2 DEF Spent
<1>9. ASSUME NEW c \in wire, ReadOnNewSession(c) PROVE Spent'
  <2>1. Bonds' = Bonds /\ session' = c.base /\ oneTime' = oneTime \ {c.key}
    BY <1>9 DEF ReadOnNewSession, Consume, Read, Bonds
  <2>2. ASSUME NEW o \in opened' PROVE o \in opened \/ o[1][1] = c.base
    BY <1>9, <2>2 DEF ReadOnNewSession, Read
  <2>3. <<c.base, c.key>> \in Bonds
    BY DEF ReceiverInv, Bonds
  <2>4. ASSUME NEW p \in Bonds, p[2] \in oneTime' PROVE p[1] # c.base
    BY <2>1, <2>3, <2>4 DEF ReceiverInv, OneKey
  <2> QED
    BY <1>5, <2>1, <2>2, <2>4 DEF Spent
<1>10. CASE PeerOpens
  <2>1. Bonds' = Bonds /\ session' = bases + 1 /\ oneTime' = oneTime /\ opened' = opened
    BY <1>10 DEF PeerOpens, Fresh, Bonds
  <2> QED
    BY <1>2, <1>3, <1>5, <2>1 DEF Spent
<1>11. ASSUME NEW c \in wire, Unreadable(c) PROVE Spent'
  <2>1. c.msg \in Msgs
    BY DEF ReceiverInv, TypeOK, Ciphers
  <2> QED
    BY <1>7, <1>11, <2>1 DEF Unreadable
<1>12. ASSUME NEW m \in Msgs, Task(m) PROVE Spent'
  BY <1>7, <1>12
  DEF Task, PumpTakes, Load, FetchOk, FetchFails, Encrypt, Recreate, Fresh
<1>13. ASSUME NEW r \in receipts, RetryArrives(r) PROVE Spent'
  BY <1>7, <1>13 DEF RetryArrives
<1>14. CASE PeerForgets \/ (\E b \in hello : HelloArrives(b)) \/ UNCHANGED vars
  BY <1>7, <1>14 DEF PeerForgets, HelloArrives, vars
<1> QED
  BY <1>8, <1>9, <1>10, <1>11, <1>12, <1>13, <1>14 DEF Next

\* A key that opens a message has opened none before, and the chain remembers it.
LEMMA OpenStep ==
    ASSUME ReceiverInv, NEW c \in wire, ReadOnSession(c) \/ ReadOnNewSession(c)
    PROVE  /\ Receiver!Open(<<c.base, c.by, c.counter>>, c.msg)
           /\ SessionInv'
<1>1. /\ c \in Ciphers /\ c.counter \in Nat /\ chain \in Chains
      /\ <<c.base, c.key>> \in Bonds
  BY SessionsAssumption DEF ReceiverInv, TypeOK, Ciphers, Bonds
<1>2. opened' = opened \cup {<<<<c.base, c.by, c.counter>>, c.msg>>}
  BY DEF ReadOnSession, ReadOnNewSession, Read
<1>3. CASE ReadOnSession(c)
  <2>1. c.base = session /\ session' = session /\ Accepts(chain, c.counter)
    BY <1>3 DEF ReadOnSession, OpensExisting
  <2>2. c.counter \notin Used(chain) /\ Used(chain)' = Used(chain) \cup {c.counter}
    BY <1>1, <1>3, <2>1, AcceptsUnused, AfterUsed DEF ReadOnSession
  <2>3. ASSUME NEW o \in opened, o[1][1] = session PROVE o[1][3] \in Used(chain)
    BY <2>3 DEF ReceiverInv, SessionInv
  <2>4. ASSUME NEW n \in Msgs PROVE <<<<c.base, c.by, c.counter>>, n>> \notin opened
    BY <2>1, <2>2, <2>3
  <2>5. ASSUME NEW o \in opened', o[1][1] = session' PROVE o[1][3] \in Used(chain)'
    BY <1>2, <2>1, <2>2, <2>3, <2>5
  <2> QED
    BY <1>2, <2>4, <2>5 DEF Receiver!Open, SessionInv
<1>4. CASE ReadOnNewSession(c)
  <2>1. c.key \in oneTime /\ session' = c.base /\ Accepts(NewChain, c.counter)
    BY <1>4 DEF ReadOnNewSession, OpensAfresh
  <2>2. Used(chain)' = Used(NewChain) \cup {c.counter}
    BY <1>1, <1>4, <2>1, NewChainType, AfterUsed DEF ReadOnNewSession
  <2>3. ASSUME NEW o \in opened PROVE o[1][1] # c.base
    BY <1>1, <2>1 DEF ReceiverInv, Spent
  <2>4. ASSUME NEW n \in Msgs PROVE <<<<c.base, c.by, c.counter>>, n>> \notin opened
    BY <2>3
  <2>5. ASSUME NEW o \in opened', o[1][1] = session' PROVE o[1][3] \in Used(chain)'
    BY <1>2, <2>1, <2>2, <2>3, <2>5
  <2> QED
    BY <1>2, <2>4, <2>5 DEF Receiver!Open, SessionInv
<1> QED
  BY <1>3, <1>4

\* Every step keeps the invariant, and is a step or a stutter of AtMostOnce.
LEMMA ReceiverStep ==
    ASSUME ReceiverInv, [Next]_vars
    PROVE  ReceiverInv' /\ [Receiver!Next]_opened
<1>1. CASE \E c \in wire : ReadOnSession(c) \/ ReadOnNewSession(c)
  <2>1. PICK c \in wire : ReadOnSession(c) \/ ReadOnNewSession(c)
    BY <1>1
  <2>2. Receiver!Open(<<c.base, c.by, c.counter>>, c.msg) /\ SessionInv'
    BY <2>1, OpenStep
  <2>3. <<c.base, c.by, c.counter>> \in Keys /\ c.msg \in Msgs
    BY DEF ReceiverInv, TypeOK, Ciphers, Keys
  <2>4. Receiver!Next
    BY <2>2, <2>3 DEF Receiver!Next
  <2>5. (wire \subseteq sent)'
    BY <2>1 DEF ReadOnSession, ReadOnNewSession, Read, ReceiverInv
  <2> QED
    BY <2>2, <2>4, <2>5, TypeStep, LoadedStep, BondsStep, NamedStep, SpentStep DEF ReceiverInv
<1>2. CASE ~(\E c \in wire : ReadOnSession(c) \/ ReadOnNewSession(c))
  <2>1. opened' = opened
    BY <1>2
    DEF Next, Task, PumpTakes, Load, FetchOk, FetchFails, Encrypt, Recreate, RetryArrives,
        Unreadable, PeerOpens, PeerForgets, HelloArrives, vars
  <2>2. (session' = session /\ chain' = chain) \/ session' = bases + 1
    BY <1>2
    DEF Next, Task, PumpTakes, Load, FetchOk, FetchFails, Encrypt, Recreate, RetryArrives,
        Unreadable, PeerOpens, PeerForgets, HelloArrives, vars, Fresh
  <2>3. SessionInv'
    <3>1. CASE session' = session /\ chain' = chain
      BY <2>1, <3>1 DEF ReceiverInv, SessionInv, Used
    <3>2. CASE session' = bases + 1
      <4>1. \A o \in opened : o[1][1] # bases + 1
        BY CountersStep DEF ReceiverInv, Known, TypeOK, Keys
      <4> QED
        BY <2>1, <3>2, <4>1 DEF SessionInv
    <3> QED
      BY <2>2, <3>1, <3>2
  <2>4. (wire \subseteq sent)'
    BY <1>2
    DEF Next, Task, PumpTakes, Load, FetchOk, FetchFails, Encrypt, Recreate, RetryArrives,
        Unreadable, PeerOpens, PeerForgets, HelloArrives, vars, ReceiverInv
  <2> QED
    BY <2>1, <2>3, <2>4, TypeStep, LoadedStep, BondsStep, NamedStep, SpentStep DEF ReceiverInv
<1> QED
  BY <1>1, <1>2

\* The receiving end of a Signal session (decrypt_signal_envelope on SessionCipher::decrypt)
\* implements AtMostOnce: no message key opens two ciphertexts, over all sessions.
THEOREM Refinement == Spec => OpensOnce
<1>1. Init => ReceiverInv /\ Receiver!Init
  BY InitReceiver DEF Init, Receiver!Init
<1>2. ReceiverInv /\ [Next]_vars => ReceiverInv' /\ [Receiver!Next]_opened
  BY ReceiverStep
<1> QED
  BY <1>1, <1>2, PTL DEF Spec, OpensOnce, Receiver!Spec

(***************************************************************************)
(* Sessions of ours are announced.                                          *)
(***************************************************************************)

\* A record of ours without a pending pre-key is of a session whose pkmsg has been sent.
Told(q) ==
    q.key # NoKey /\ ~q.pending => \E d \in sent : d.type = "pkmsg" /\ d.base = q.base

AnnouncedInv == Announced /\ Told(rec) /\ \A m \in Msgs : Told(snap[m])

\* Every step keeps it: the record, its copies in the tasks' hands and the ciphertexts agree.
LEMMA AnnouncedStep ==
    ASSUME TypeOK, AnnouncedInv, [Next]_vars
    PROVE  AnnouncedInv'
<1> USE DEF Goto
<1>1. ASSUME sent' = sent, Told(rec)', \A m \in Msgs : Told(snap[m])' PROVE AnnouncedInv'
  BY <1>1 DEF AnnouncedInv, Announced
<1>2. ASSUME NEW b, NEW k, rec' = Bootstrapped(b, k) PROVE Told(rec)'
  BY <1>2 DEF Told, Bootstrapped
<1>3. ASSUME sent' = sent, rec' = rec PROVE Told(rec)'
  BY <1>3 DEF Told, AnnouncedInv
<1>4. ASSUME sent' = sent, snap' = snap PROVE \A m \in Msgs : Told(snap[m])'
  BY <1>4 DEF Told, AnnouncedInv
<1>5. ASSUME NEW m \in Msgs, Task(m) PROVE AnnouncedInv'
  <2>1. CASE PumpTakes(m) \/ FetchFails(m)
    BY <1>1, <1>3, <1>4, <2>1 DEF PumpTakes, FetchFails
  <2>2. CASE Load(m)
    <3>1. sent' = sent /\ rec' = rec
      BY <2>2 DEF Load
    <3>2. ASSUME NEW n \in Msgs PROVE Told(snap[n])'
      <4>1. snap'[n] = snap[n] \/ snap'[n] = rec
        BY <2>2 DEF Load, TypeOK
      <4> QED
        BY <3>1, <4>1 DEF Told, AnnouncedInv
    <3> QED
      BY <1>1, <1>3, <3>1, <3>2
  <2>3. CASE FetchOk(m)
    <3>1. sent' = sent /\ rec' = rec
      BY <2>3 DEF FetchOk
    <3>2. ASSUME NEW n \in Msgs PROVE Told(snap[n])'
      <4>1. snap'[n] = snap[n] \/ snap'[n].pending
        BY <2>3 DEF FetchOk, TypeOK, Bootstrapped
      <4> QED
        BY <3>1, <4>1 DEF Told, AnnouncedInv
    <3> QED
      BY <1>1, <1>3, <3>1, <3>2
  <2>4. CASE Encrypt(m)
    <3> DEFINE c == Cipher(m, Keyed(m))
    <3>1. snap[m] \in Records /\ Told(snap[m])
      BY DEF TypeOK, AnnouncedInv
    <3>2. /\ Keyed(m).base = snap[m].base /\ Keyed(m).key = snap[m].key
          /\ Keyed(m).pending = snap[m].pending
      BY <3>1 DEF Keyed, Records
    <3>3. /\ c.base = snap[m].base /\ c.key = snap[m].key
          /\ c.type = IF snap[m].pending THEN "pkmsg" ELSE "msg"
          /\ sent' = sent \cup {c}
      BY <2>4, <3>2 DEF Encrypt, Cipher
    <3>4. rec'.base = snap[m].base /\ rec'.key = snap[m].key
      BY <2>4, <3>1, <3>2 DEF Encrypt, Keyed, Records
    <3> HIDE DEF c
    <3>5. snap[m].key # NoKey => \E d \in sent' : d.type = "pkmsg" /\ d.base = snap[m].base
      BY <3>1, <3>3 DEF Told
    <3>6. Told(rec)'
      BY <3>4, <3>5 DEF Told
    <3>7. ASSUME NEW n \in Msgs PROVE Told(snap[n])'
      <4>1. snap'[n] = snap[n] \/ snap'[n].key = NoKey
        BY <2>4 DEF Encrypt, TypeOK, NoRecord
      <4> QED
        BY <3>3, <4>1 DEF Told, AnnouncedInv
    <3>8. Announced'
      BY <3>3, <3>5 DEF Announced, AnnouncedInv
    <3> QED
      BY <3>6, <3>7, <3>8 DEF AnnouncedInv
  <2>5. CASE Recreate(m)
    BY <1>1, <1>2, <1>3, <1>4, <2>5 DEF Recreate
  <2> QED
    BY <1>5, <2>1, <2>2, <2>3, <2>4, <2>5 DEF Task
<1>6. ASSUME NEW r \in receipts, RetryArrives(r) PROVE AnnouncedInv'
  BY <1>1, <1>2, <1>3, <1>4, <1>6 DEF RetryArrives, Answer
<1>7. ASSUME NEW b \in hello, HelloArrives(b) PROVE AnnouncedInv'
  <2>1. Told(rec)'
    BY <1>7 DEF HelloArrives, Told, NoRecord
  <2> QED
    BY <1>1, <1>4, <1>7, <2>1 DEF HelloArrives
<1>8. ASSUME \/ \E c \in wire : ReadOnSession(c) \/ ReadOnNewSession(c) \/ Unreadable(c)
             \/ PeerOpens \/ PeerForgets \/ UNCHANGED vars
      PROVE  AnnouncedInv'
  BY <1>1, <1>3, <1>4, <1>8
  DEF ReadOnSession, ReadOnNewSession, Read, Unreadable, PeerOpens, PeerForgets, vars
<1> QED
  BY <1>5, <1>6, <1>7, <1>8 DEF Next

\* No msg is encrypted under a session of ours before a pkmsg was (encrypt_per_device with
\* install_session_from_bundle), whichever task encrypts first.
THEOREM SessionsAnnounced == Spec => []Announced
<1>1. Init => TypeOK /\ Loaded /\ AnnouncedInv
  BY InitReceiver DEF ReceiverInv, Init, AnnouncedInv, Announced, Told, NoRecord
<1>2. TypeOK /\ Loaded /\ AnnouncedInv /\ [Next]_vars => (TypeOK /\ Loaded /\ AnnouncedInv)'
  BY TypeStep, LoadedStep, AnnouncedStep
<1>3. AnnouncedInv => Announced
  BY DEF AnnouncedInv
<1> QED
  BY <1>1, <1>2, <1>3, PTL DEF Spec

(***************************************************************************)
(* The one-time keys.  SignalSessions takes them for granted; PreKeys is    *)
(* where they come from.  What is proved of it here is that a key which     *)
(* somebody else can use is not lost: its private half is in the table, or  *)
(* it has opened a message (PublishedKept).                                 *)
(*                                                                         *)
(* Rows leave the table in one place, ConsumePrekey, which deletes by id.   *)
(* So the invariant follows the message in hand: it is that of the peer the *)
(* loop has noted (InHand), whose key nobody can have replaced meanwhile,   *)
(* since a peer is asked again only for a message that is not with us       *)
(* (Turns), and that key has opened it and still has its row (Consuming).   *)
(* A key of a peer stays in account after its message is acknowledged: a    *)
(* receipt without keys may bring it back (Out).                            *)
(***************************************************************************)

CONSTANTS
    Peers,        \* devices that open a session with us
    NoPeer,
    Low, Wanted,  \* MIN_PREKEY_COUNT, WANTED_PREKEY_COUNT
    MaxReceipts,  \* retry receipts for one message
    MaxLosses     \* bound on lost connections and crashes

VARIABLES
    prekeys, pairs, pc, local, sender, up, notice, uploads, server, held, inbox,
    requests,   \* retry receipts on their way to the peers
    failures,   \* Session::message_retries
    used,       \* history: peers and the keys that opened a message of theirs
    losses

Supply == INSTANCE PreKeys WITH
    None <- NoPeer, Give <- MaxReceipts, MaxFaults <- MaxLosses,
    receipts <- requests, retries <- failures, opened <- used, faults <- losses

PublicKeys == [id : Nat, pair : Nat]

PrekeyRows == [pair : Nat, uploaded : BOOLEAN]

RecvPlaces == {"idle", "login", "flag", "check", "replenish", "insert", "ship", "mark", "consume",
               "retry", "mint"}

\* Types.  No id is higher than the number of key pairs made so far.
SupplyTypes ==
    /\ pairs \in Nat
    /\ prekeys \in [DOMAIN prekeys -> PrekeyRows]
    /\ DOMAIN prekeys \subseteq 1 .. pairs
    /\ pc \in [Supply!Tasks -> RecvPlaces]
    /\ local \in [Supply!Tasks -> 0 .. pairs]
    /\ uploads \in Seq(SUBSET PublicKeys)
    /\ server \subseteq PublicKeys
    /\ held \in [Peers -> PublicKeys]
    /\ inbox \subseteq Peers
    /\ requests \subseteq Peers \X PublicKeys

\* The message of a peer is with us or the peer has been asked for it again, once.
Turns ==
    /\ \A r \in requests : r[1] \notin inbox /\ held[r[1]] # Supply!NoKey
    /\ \A q, r \in requests : q[1] = r[1] => q = r

\* The message the receive loop has in hand has not been acknowledged.
InHand ==
    pc["recv"] \in {"consume", "retry", "mint"} => sender \in inbox /\ held[sender] # Supply!NoKey

\* The private half of a key is in the table under its id.
HasRow(k) == k.id \in DOMAIN prekeys /\ prekeys[k.id].pair = k.pair

\* It has opened a message.
HasOpened(k) == \E u \in used : u[2] = k

\* The key that is about to be deleted has opened the message in hand.
Consuming == pc["recv"] = "consume" => HasRow(held[sender]) /\ HasOpened(held[sender])

\* Somebody else can use the key.
Out(k) ==
    \/ k \in server
    \/ \E n \in DOMAIN uploads : k \in uploads[n]
    \/ \E r \in requests : r[2] = k
    \/ \E p \in Peers : held[p] = k

OutKept == \A k : Out(k) /\ k # Supply!NoKey => HasRow(k) \/ HasOpened(k)

SupplyInv == SupplyTypes /\ Turns /\ InHand /\ Consuming /\ OutKept

\* The highest id of a set is one of it.
LEMMA MaxOf ==
    ASSUME NEW b \in Nat, NEW S \in SUBSET (0 .. b), S # {}
    PROVE  Supply!Max(S) \in S
<1> DEFINE U == {n \in Nat : \A x \in S : x <= n}
<1>1. U \in SUBSET Nat /\ b \in U
  OBVIOUS
<1>2. PICK m \in U : \A n \in U : m <= n
  <2> DEFINE R == OpToRel(<, Nat)
  <2>1. \E x \in U : \A y \in U : ~(<<y, x>> \in R)
    <3>1. IsWellFoundedOn(R, Nat)
      BY NatLessThanWellFounded
    <3>2. U \subseteq Nat /\ U # {}
      BY <1>1
    <3> HIDE DEF R, U
    <3> QED
      BY <3>1, <3>2, WFMin
  <2>2. \A x, y \in Nat : ~(<<y, x>> \in R) => x <= y
    BY DEF OpToRel
  <2> QED
    BY <1>1, <2>1, <2>2
<1>3. m \in S
  <2> SUFFICES ASSUME m \notin S PROVE FALSE
    OBVIOUS
  <2>1. PICK y \in S : TRUE
    OBVIOUS
  <2>2. \A x \in S : x \in Nat /\ x <= m /\ x # m
    BY <1>2
  <2>3. m - 1 \in Nat /\ \A x \in S : x <= m - 1
    BY <1>2, <2>1, <2>2
  <2>4. m - 1 \in U
    BY <2>3
  <2> QED
    BY <1>2, <2>4
<1>4. \A x \in S : m >= x
  BY <1>2
<1> QED
  BY <1>3, <1>4 DEF Supply!Max

\* PreKeys counts with the same Cardinality.
LEMMA SameCardinality ==
    ASSUME NEW S
    PROVE  Supply!Cardinality(S) = Cardinality(S)
BY DEF Supply!Cardinality, Cardinality

\* prekeys_insert_batch: the rows that were there stay as they are; if the batch goes in, its first
\* id has the next key pair.
LEMMA InsertFacts ==
    ASSUME Supply!PreKeysAssumption, SupplyTypes, NEW t \in Supply!Tasks, NEW n \in Nat \ {0},
           Supply!Insert(Supply!Batch(local[t] + 1, n))
    PROVE  /\ pairs' \in Nat /\ pairs <= pairs'
           /\ prekeys' \in [DOMAIN prekeys' -> PrekeyRows]
           /\ DOMAIN prekeys' \subseteq 1 .. pairs'
           /\ \A id \in DOMAIN prekeys : id \in DOMAIN prekeys' /\ prekeys'[id] = prekeys[id]
           /\ pairs' # pairs => /\ local[t] + 1 \in DOMAIN prekeys'
                                /\ prekeys'[local[t] + 1].pair = pairs + 1
                                /\ pairs' = pairs + n
<1>0. PICK first : first = local[t] + 1
  OBVIOUS
<1>1. /\ pairs \in Nat /\ first \in 1 .. pairs + 1
      /\ prekeys \in [DOMAIN prekeys -> PrekeyRows] /\ DOMAIN prekeys \subseteq 1 .. pairs
  BY <1>0 DEF SupplyTypes
<1>2. PICK rows : rows = Supply!Batch(first, n)
  OBVIOUS
<1>3. /\ DOMAIN rows = first .. first + n - 1
      /\ \A id \in DOMAIN rows : rows[id] \in PrekeyRows
      /\ first \in DOMAIN rows /\ rows[first].pair = pairs + 1
  BY <1>1, <1>2 DEF Supply!Batch, PrekeyRows
<1>4. Supply!Cardinality(DOMAIN rows) = n
  <2>1. first \in Int /\ first + n - 1 \in Int /\ ~(first > first + n - 1)
    BY <1>1
  <2>2. Cardinality(first .. first + n - 1) = (first + n - 1) - first + 1
    BY <2>1, FS_Interval
  <2>3. (first + n - 1) - first + 1 = n
    BY <1>1
  <2> QED
    BY <1>3, <2>2, <2>3, SameCardinality
<1>5. CASE DOMAIN rows \cap DOMAIN prekeys = {}
  <2>1. /\ prekeys' = [id \in DOMAIN prekeys \cup DOMAIN rows |->
                          IF id \in DOMAIN prekeys THEN prekeys[id] ELSE rows[id]]
        /\ pairs' = pairs + n
    BY <1>0, <1>2, <1>4, <1>5 DEF Supply!Insert, Supply!Ids
  <2>2. DOMAIN rows \subseteq 1 .. pairs + n
    BY <1>1, <1>3
  <2>3. /\ DOMAIN prekeys' = DOMAIN prekeys \cup DOMAIN rows
        /\ \A id \in DOMAIN prekeys : prekeys'[id] = prekeys[id]
        /\ \A id \in DOMAIN rows : prekeys'[id] = rows[id]
    BY <1>5, <2>1
  <2>4. prekeys' \in [DOMAIN prekeys' -> PrekeyRows]
    BY <1>1, <1>3, <2>1
  <2>5. DOMAIN prekeys' \subseteq 1 .. pairs'
    BY <1>1, <2>1, <2>2, <2>3
  <2>6. pairs' \in Nat /\ pairs <= pairs'
    BY <1>1, <2>1
  <2> QED
    BY <1>0, <1>3, <2>1, <2>3, <2>4, <2>5, <2>6
<1>6. CASE DOMAIN rows \cap DOMAIN prekeys # {}
  <2>1. prekeys' = prekeys /\ pairs' = pairs
    BY <1>0, <1>2, <1>6 DEF Supply!Insert, Supply!Ids, Supply!table
  <2> QED
    BY <1>1, <2>1
<1> QED
  BY <1>5, <1>6

\* A step that takes no row away, leaves the peers alone and publishes nothing but rows.
LEMMA QuietSupply ==
    ASSUME SupplyInv, SupplyTypes',
           \A id \in DOMAIN prekeys :
              id \in DOMAIN prekeys' /\ prekeys'[id].pair = prekeys[id].pair,
           requests' = requests, held' = held, inbox' = inbox, used' = used,
           server' = server,
           \A n \in DOMAIN uploads' : \A k \in uploads'[n] :
              HasRow(k)' \/ \E m \in DOMAIN uploads : k \in uploads[m],
           pc'["recv"] \in {"consume", "retry", "mint"} =>
              /\ pc["recv"] \in {"consume", "retry", "mint"}
              /\ pc'["recv"] = "consume" => pc["recv"] = "consume"
              /\ sender' = sender
    PROVE  SupplyInv'
<1>1. \A k : (HasRow(k) => HasRow(k)') /\ (HasOpened(k) => HasOpened(k)')
  BY DEF HasRow, HasOpened
<1>2. Turns'
  BY DEF SupplyInv, Turns
<1>3. InHand'
  BY DEF SupplyInv, InHand
<1>4. Consuming'
  BY <1>1 DEF SupplyInv, Consuming
<1>5. \A k : Out(k)' => Out(k) \/ HasRow(k)'
  BY DEF Out
<1>6. OutKept'
  BY <1>1, <1>5 DEF SupplyInv, OutKept
<1> QED
  BY <1>2, <1>3, <1>4, <1>6 DEF SupplyInv

\* A step that leaves the table and the tasks alone, and publishes nothing.
LEMMA PeerSupply ==
    ASSUME SupplyInv, SupplyTypes', Turns',
           prekeys' = prekeys, pc' = pc, sender' = sender, used' = used,
           \A k : Out(k)' => Out(k) \/ k = Supply!NoKey,
           \A p \in inbox : p \in inbox' /\ held'[p] = held[p]
    PROVE  SupplyInv'
<1>1. \A k : (HasRow(k)' <=> HasRow(k)) /\ (HasOpened(k)' <=> HasOpened(k))
  BY DEF HasRow, HasOpened
<1>2. InHand'
  BY DEF SupplyInv, InHand
<1>3. Consuming'
  BY <1>1 DEF SupplyInv, Consuming, InHand
<1>4. OutKept'
  BY <1>1 DEF SupplyInv, OutKept
<1> QED
  BY <1>2, <1>3, <1>4 DEF SupplyInv

\* The type invariant: where a task is, and the id it has read.
LEMMA PlaceTypes ==
    ASSUME SupplyTypes, NEW t \in Supply!Tasks, NEW place \in RecvPlaces, Supply!Goto(t, place)
    PROVE  /\ pc' \in [Supply!Tasks -> RecvPlaces] /\ pc'[t] = place
           /\ \A u \in Supply!Tasks : u # t => pc'[u] = pc[u]
BY DEF SupplyTypes, Supply!Goto

LEMMA HighestType ==
    ASSUME SupplyTypes
    PROVE  Supply!HighestId \in 0 .. pairs
<1>1. /\ pairs \in Nat
      /\ ({0} \cup DOMAIN prekeys) \in SUBSET (0 .. pairs) /\ ({0} \cup DOMAIN prekeys) # {}
  BY DEF SupplyTypes
<1>2. Supply!Max({0} \cup DOMAIN prekeys) \in {0} \cup DOMAIN prekeys
  BY <1>1, MaxOf
<1> QED
  BY <1>1, <1>2 DEF Supply!HighestId, Supply!Ids

LEMMA PendingType ==
    ASSUME SupplyTypes
    PROVE  /\ Supply!Pending \subseteq DOMAIN prekeys
           /\ Supply!Pending # {} => Supply!Max(Supply!Pending) \in 0 .. pairs
<1>1. Supply!Pending \subseteq DOMAIN prekeys
  BY DEF Supply!Pending, Supply!Ids
<1>2. pairs \in Nat /\ Supply!Pending \in SUBSET (0 .. pairs)
  BY <1>1 DEF SupplyTypes
<1>3. ASSUME Supply!Pending # {} PROVE Supply!Max(Supply!Pending) \in Supply!Pending
  BY <1>2, <1>3, MaxOf
<1> QED
  BY <1>1, <1>2, <1>3

\* upload_pending_prekeys: what leaves is in the table.
LEMMA ShipInv ==
    ASSUME SupplyInv, NEW t \in Supply!Tasks, NEW at,
           NEW mark \in RecvPlaces \ {"consume", "retry", "mint"},
           NEW done \in RecvPlaces \ {"consume", "retry", "mint"},
           Supply!Ship(t, at, mark, done)
    PROVE  SupplyInv'
<1>1. /\ prekeys' = prekeys /\ pairs' = pairs /\ sender' = sender /\ requests' = requests
      /\ server' = server /\ held' = held /\ inbox' = inbox /\ used' = used
  BY DEF Supply!Ship, Supply!table, Supply!peer
<1>2. SupplyTypes
  BY DEF SupplyInv
<1>3. PICK place \in {mark, done} : Supply!Goto(t, place)
  BY DEF Supply!Ship
<1>4. /\ pc' \in [Supply!Tasks -> RecvPlaces] /\ pc'[t] = place
      /\ \A u \in Supply!Tasks : u # t => pc'[u] = pc[u]
  BY <1>2, <1>3, PlaceTypes
<1>5. local' \in [Supply!Tasks -> 0 .. pairs]
  <2>1. CASE local' = local
    BY <1>2, <2>1 DEF SupplyTypes
  <2>2. CASE Supply!Pending # {} /\ local' = [local EXCEPT ![t] = Supply!Max(Supply!Pending)]
    BY <1>2, <2>2, PendingType DEF SupplyTypes
  <2> QED
    BY <2>1, <2>2 DEF Supply!Ship
<1>6. PICK batch : batch = {Supply!Key(id, prekeys[id].pair) : id \in Supply!Pending}
  OBVIOUS
<1>7. batch \subseteq PublicKeys /\ \A k \in batch : HasRow(k)
  <2> SUFFICES ASSUME NEW id \in Supply!Pending
               PROVE  /\ Supply!Key(id, prekeys[id].pair) \in PublicKeys
                      /\ HasRow(Supply!Key(id, prekeys[id].pair))
    BY <1>6
  <2>1. id \in DOMAIN prekeys /\ id \in Nat /\ prekeys[id] \in PrekeyRows
    BY <1>2, PendingType DEF SupplyTypes
  <2> QED
    BY <2>1 DEF Supply!Key, PublicKeys, PrekeyRows, HasRow
<1>8. /\ uploads \in Seq(SUBSET PublicKeys)
      /\ uploads' = uploads \/ uploads' = Append(uploads, batch)
  BY <1>2, <1>6 DEF Supply!Ship, SupplyTypes
<1>9. /\ uploads' \in Seq(SUBSET PublicKeys)
      /\ \A n \in DOMAIN uploads' : \A k \in uploads'[n] :
            HasRow(k) \/ \E m \in DOMAIN uploads : k \in uploads[m]
  BY <1>7, <1>8
<1>10. \A k : HasRow(k)' <=> HasRow(k)
  BY <1>1 DEF HasRow
<1>11. SupplyTypes'
  BY <1>1, <1>2, <1>4, <1>5, <1>9 DEF SupplyTypes
<1>12. pc'["recv"] \in {"consume", "retry", "mint"} => pc'["recv"] = pc["recv"]
  BY <1>4 DEF Supply!Tasks
<1> QED
  BY <1>1, <1>9, <1>10, <1>11, <1>12, QuietSupply

\* prekeys_mark_uploaded: the flag goes up, the keys stay.
LEMMA MarkInv ==
    ASSUME SupplyInv, NEW t \in Supply!Tasks, NEW at,
           NEW done \in RecvPlaces \ {"consume", "retry", "mint"},
           Supply!Mark(t, at, done)
    PROVE  SupplyInv'
<1>1. /\ pairs' = pairs /\ sender' = sender /\ requests' = requests /\ local' = local
      /\ server' = server /\ held' = held /\ inbox' = inbox /\ used' = used /\ uploads' = uploads
      /\ Supply!Goto(t, done) /\ prekeys' = Supply!Marked(local[t])
  BY DEF Supply!Mark, Supply!net, Supply!peer
<1>2. SupplyTypes /\ prekeys \in [DOMAIN prekeys -> PrekeyRows]
  BY DEF SupplyInv, SupplyTypes
<1>3. /\ pc' \in [Supply!Tasks -> RecvPlaces] /\ pc'[t] = done
      /\ \A u \in Supply!Tasks : u # t => pc'[u] = pc[u]
  BY <1>1, <1>2, PlaceTypes
<1>4. /\ DOMAIN prekeys' = DOMAIN prekeys
      /\ prekeys' \in [DOMAIN prekeys -> PrekeyRows]
      /\ \A id \in DOMAIN prekeys : prekeys'[id].pair = prekeys[id].pair
  <2>1. ASSUME NEW id \in DOMAIN prekeys, NEW flag \in BOOLEAN
        PROVE  /\ [prekeys[id] EXCEPT !.uploaded = flag] \in PrekeyRows
               /\ [prekeys[id] EXCEPT !.uploaded = flag].pair = prekeys[id].pair
    BY <1>2 DEF PrekeyRows
  <2>2. prekeys' = [id \in DOMAIN prekeys |->
                      [prekeys[id] EXCEPT !.uploaded = prekeys[id].uploaded \/ id <= local[t]]]
    BY <1>1 DEF Supply!Marked, Supply!Ids
  <2>3. \A id \in DOMAIN prekeys : (prekeys[id].uploaded \/ id <= local[t]) \in BOOLEAN
    OBVIOUS
  <2> QED
    BY <2>1, <2>2, <2>3
<1>5. SupplyTypes'
  BY <1>1, <1>2, <1>3, <1>4 DEF SupplyTypes
<1>6. pc'["recv"] \in {"consume", "retry", "mint"} => pc'["recv"] = pc["recv"]
  BY <1>3 DEF Supply!Tasks
<1> QED
  BY <1>1, <1>4, <1>5, <1>6, QuietSupply

\* prekey_max_id.
LEMMA ReadInv ==
    ASSUME SupplyInv, NEW t \in Supply!Tasks, NEW at, NEW next \in RecvPlaces,
           Supply!ReadHighest(t, at, next),
           next \in {"consume", "retry", "mint"} => at = "retry" /\ next = "mint"
    PROVE  SupplyInv'
<1>1. /\ pairs' = pairs /\ prekeys' = prekeys /\ sender' = sender /\ requests' = requests
      /\ server' = server /\ held' = held /\ inbox' = inbox /\ used' = used /\ uploads' = uploads
      /\ Supply!Goto(t, next) /\ local' = [local EXCEPT ![t] = Supply!HighestId] /\ pc[t] = at
  BY DEF Supply!ReadHighest, Supply!table, Supply!net, Supply!peer
<1>2. SupplyTypes
  BY DEF SupplyInv
<1>3. /\ pc' \in [Supply!Tasks -> RecvPlaces] /\ pc'[t] = next
      /\ \A u \in Supply!Tasks : u # t => pc'[u] = pc[u]
  BY <1>1, <1>2, PlaceTypes
<1>4. local' \in [Supply!Tasks -> 0 .. pairs]
  BY <1>1, <1>2, HighestType DEF SupplyTypes
<1>5. SupplyTypes'
  BY <1>1, <1>2, <1>3, <1>4 DEF SupplyTypes
<1>6. pc'["recv"] \in {"consume", "retry", "mint"} =>
         /\ pc["recv"] \in {"consume", "retry", "mint"}
         /\ pc'["recv"] = "consume" => pc["recv"] = "consume"
  BY <1>1, <1>3 DEF Supply!Tasks
<1> QED
  BY <1>1, <1>5, <1>6, QuietSupply

\* replenish_prekeys: a batch, if none of its ids is taken.
LEMMA GenerateInv ==
    ASSUME Supply!PreKeysAssumption, SupplyInv, NEW t \in Supply!Tasks, Supply!Generate(t)
    PROVE  SupplyInv'
<1>1. /\ sender' = sender /\ requests' = requests /\ local' = local
      /\ server' = server /\ held' = held /\ inbox' = inbox /\ used' = used /\ uploads' = uploads
      /\ Supply!Goto(t, "ship") /\ Supply!Insert(Supply!Batch(local[t] + 1, Wanted))
  BY DEF Supply!Generate, Supply!net, Supply!peer
<1>2. SupplyTypes /\ Wanted \in Nat \ {0}
  BY DEF SupplyInv, Supply!PreKeysAssumption
<1>3. /\ pairs' \in Nat /\ pairs <= pairs'
      /\ prekeys' \in [DOMAIN prekeys' -> PrekeyRows]
      /\ DOMAIN prekeys' \subseteq 1 .. pairs'
      /\ \A id \in DOMAIN prekeys : id \in DOMAIN prekeys' /\ prekeys'[id] = prekeys[id]
  BY <1>1, <1>2, InsertFacts
<1>4. /\ pc' \in [Supply!Tasks -> RecvPlaces] /\ pc'[t] = "ship"
      /\ \A u \in Supply!Tasks : u # t => pc'[u] = pc[u]
  BY <1>1, <1>2, PlaceTypes DEF RecvPlaces
<1>5. local' \in [Supply!Tasks -> 0 .. pairs']
  BY <1>1, <1>2, <1>3 DEF SupplyTypes
<1>6. SupplyTypes'
  BY <1>1, <1>2, <1>3, <1>4, <1>5 DEF SupplyTypes
<1>7. pc'["recv"] \in {"consume", "retry", "mint"} => pc'["recv"] = pc["recv"]
  BY <1>4 DEF Supply!Tasks
<1> QED
  BY <1>1, <1>3, <1>6, <1>7, QuietSupply

\* The sweep, the login and the notification only begin something.
LEMMA BeginInv ==
    ASSUME SupplyInv,
           Supply!TopUp \/ Supply!Login \/ Supply!CheckSupply \/ Supply!EncryptNotification
               \/ UNCHANGED Supply!vars
    PROVE  SupplyInv'
<1>1. /\ prekeys' = prekeys /\ pairs' = pairs /\ local' = local /\ sender' = sender
      /\ uploads' = uploads /\ requests' = requests /\ server' = server
      /\ held' = held /\ inbox' = inbox /\ used' = used
  BY DEF Supply!TopUp, Supply!Login, Supply!CheckSupply, Supply!EncryptNotification, Supply!vars,
     Supply!table, Supply!tasks, Supply!net, Supply!peer
<1>2. SupplyTypes
  BY DEF SupplyInv
<1>3. /\ pc' \in [Supply!Tasks -> RecvPlaces]
      /\ pc'["recv"] \in {"consume", "retry", "mint"} => pc'["recv"] = pc["recv"]
  BY <1>2 DEF SupplyTypes, Supply!TopUp, Supply!Login, Supply!CheckSupply,
     Supply!EncryptNotification, Supply!vars, Supply!tasks, Supply!Goto, Supply!Tasks, RecvPlaces
<1>4. SupplyTypes'
  BY <1>1, <1>2, <1>3 DEF SupplyTypes
<1> QED
  BY <1>1, <1>3, <1>4, QuietSupply

\* A pkmsg: a key that has a row and opens it is noted before the row goes.
LEMMA PkmsgInv ==
    ASSUME SupplyInv, NEW p \in Peers, Supply!Pkmsg(p)
    PROVE  SupplyInv'
<1>1. /\ prekeys' = prekeys /\ pairs' = pairs /\ local' = local /\ uploads' = uploads
      /\ requests' = requests /\ server' = server /\ held' = held
      /\ pc["recv"] = "idle" /\ p \in inbox /\ sender' = p
      /\ used' = IF Supply!Opens(held[p]) THEN used \cup {<<p, held[p]>>} ELSE used
  BY DEF Supply!Pkmsg, Supply!table, Supply!net
<1>2. SupplyTypes
  BY DEF SupplyInv
<1>3. \/ /\ Supply!Goto("recv", "consume") /\ inbox' = inbox
         /\ held[p] # Supply!NoKey /\ Supply!Opens(held[p])
      \/ Supply!Goto("recv", "retry") /\ inbox' = inbox /\ ~Supply!Opens(held[p])
      \/ pc' = pc /\ inbox' = inbox \ {p}
  BY DEF Supply!Pkmsg, Supply!Consumes, Supply!Acknowledged
<1>4. /\ pc' \in [Supply!Tasks -> RecvPlaces] /\ inbox' \subseteq inbox
      /\ pc'["recv"] # "idle" => inbox' = inbox
      /\ pc'["recv"] = "consume" => held[p] # Supply!NoKey /\ Supply!Opens(held[p])
      /\ pc'["recv"] = "retry" => ~Supply!Opens(held[p])
      /\ pc'["recv"] \in {"idle", "consume", "retry"}
  BY <1>1, <1>2, <1>3 DEF SupplyTypes, Supply!Goto, Supply!Tasks, RecvPlaces
<1>5. SupplyTypes'
  BY <1>1, <1>2, <1>4 DEF SupplyTypes
<1>6. \A k : (HasRow(k)' <=> HasRow(k)) /\ (HasOpened(k) => HasOpened(k)')
  BY <1>1 DEF HasRow, HasOpened
<1>7. Turns'
  BY <1>1, <1>4 DEF SupplyInv, Turns
<1>8. InHand'
  BY <1>1, <1>4 DEF InHand, Supply!Opens
<1>9. Consuming'
  <2> SUFFICES ASSUME pc'["recv"] = "consume"
               PROVE  HasRow(held[p])' /\ HasOpened(held[p])'
    BY <1>1 DEF Consuming
  <2>1. held[p] # Supply!NoKey /\ Supply!Opens(held[p])
    BY <1>4
  <2>2. HasRow(held[p])
    BY <2>1 DEF Supply!Opens, Supply!Ids, HasRow
  <2>3. <<p, held[p]>> \in used' /\ <<p, held[p]>>[2] = held[p]
    BY <1>1, <2>1
  <2> QED
    BY <1>1, <2>2, <2>3 DEF HasRow, HasOpened
<1>10. \A k : Out(k)' => Out(k)
  BY <1>1, <1>4 DEF Out
<1>11. OutKept'
  BY <1>6, <1>10 DEF SupplyInv, OutKept
<1> QED
  BY <1>5, <1>7, <1>8, <1>9, <1>11 DEF SupplyInv

\* consume_prekey: the row that goes is that of a key which has opened a message, and of no other.
LEMMA ConsumeInv ==
    ASSUME SupplyInv, Supply!ConsumePrekey
    PROVE  SupplyInv'
<1>0. PICK key : key = held[sender]
  OBVIOUS
<1>1. /\ pairs' = pairs /\ local' = local /\ sender' = sender /\ uploads' = uploads
      /\ requests' = requests /\ server' = server /\ held' = held /\ used' = used
      /\ pc["recv"] = "consume" /\ Supply!Goto("recv", "idle")
      /\ prekeys' = [id \in DOMAIN prekeys \ {key.id} |-> prekeys[id]]
      /\ inbox' = inbox \ {sender}
  BY <1>0 DEF Supply!ConsumePrekey, Supply!Acknowledged, Supply!net, Supply!Ids
<1>2. SupplyTypes /\ sender \in inbox /\ HasRow(key) /\ HasOpened(key)
  BY <1>0, <1>1 DEF SupplyInv, InHand, Consuming
<1>3. key \in PublicKeys
  BY <1>0, <1>2 DEF SupplyTypes
<1>4. /\ DOMAIN prekeys' = DOMAIN prekeys \ {key.id}
      /\ \A id \in DOMAIN prekeys' : prekeys'[id] = prekeys[id]
      /\ prekeys' \in [DOMAIN prekeys' -> PrekeyRows]
  BY <1>1, <1>2 DEF SupplyTypes
<1>5. pc' \in [Supply!Tasks -> RecvPlaces] /\ pc'["recv"] = "idle"
  BY <1>1, <1>2, PlaceTypes DEF RecvPlaces, Supply!Tasks
<1>6. SupplyTypes'
  BY <1>1, <1>2, <1>4, <1>5 DEF SupplyTypes
<1>7. Turns' /\ InHand' /\ Consuming'
  BY <1>1, <1>5 DEF SupplyInv, Turns, InHand, Consuming
<1>8. \A k : Out(k)' => Out(k) /\ k \in PublicKeys
  BY <1>1, <1>6 DEF Out, SupplyTypes
<1>9. \A k \in PublicKeys : HasRow(k) => HasRow(k)' \/ k = key
  BY <1>2, <1>3, <1>4 DEF HasRow, PublicKeys
<1>10. \A k : HasOpened(k)' <=> HasOpened(k)
  BY <1>1 DEF HasOpened
<1>11. OutKept'
  BY <1>2, <1>8, <1>9, <1>10 DEF SupplyInv, OutKept
<1> QED
  BY <1>6, <1>7, <1>11 DEF SupplyInv

\* build_retry_keys_node: the key in a receipt has been stored.
LEMMA MintInv ==
    ASSUME Supply!PreKeysAssumption, SupplyInv, Supply!MintRetryKey
    PROVE  SupplyInv'
<1>0. PICK key : key = IF pairs' # pairs THEN Supply!Key(local["recv"] + 1, pairs')
                                         ELSE Supply!NoKey
  OBVIOUS
<1>1. /\ local' = local /\ sender' = sender /\ uploads' = uploads
      /\ server' = server /\ held' = held /\ used' = used
      /\ pc["recv"] = "mint" /\ Supply!Goto("recv", "idle")
      /\ Supply!Insert(Supply!Batch(local["recv"] + 1, 1))
      /\ requests' = requests \/ requests' = requests \cup {<<sender, key>>}
      /\ inbox' = inbox \ {sender}
  BY <1>0 DEF Supply!MintRetryKey, Supply!Acknowledged
<1>2. /\ SupplyTypes /\ sender \in inbox /\ sender \in Peers /\ "recv" \in Supply!Tasks
      /\ held[sender] # Supply!NoKey
  BY <1>1 DEF SupplyInv, InHand, SupplyTypes, Supply!Tasks
<1>3. /\ pairs' \in Nat /\ pairs <= pairs'
      /\ prekeys' \in [DOMAIN prekeys' -> PrekeyRows]
      /\ DOMAIN prekeys' \subseteq 1 .. pairs'
      /\ \A id \in DOMAIN prekeys : id \in DOMAIN prekeys' /\ prekeys'[id] = prekeys[id]
      /\ pairs' # pairs => /\ local["recv"] + 1 \in DOMAIN prekeys'
                           /\ prekeys'[local["recv"] + 1].pair = pairs + 1
                           /\ pairs' = pairs + 1
  <2>1. 1 \in Nat \ {0}
    OBVIOUS
  <2> QED
    BY <1>1, <1>2, <2>1, InsertFacts
<1>4. key \in PublicKeys /\ (key = Supply!NoKey \/ HasRow(key)')
  <2>1. CASE pairs' # pairs
    <3>1. local["recv"] + 1 \in Nat
      BY <1>2 DEF SupplyTypes
    <3> QED
      BY <1>0, <1>3, <2>1, <3>1 DEF Supply!Key, PublicKeys, HasRow
  <2>2. CASE pairs' = pairs
    BY <1>0, <2>2 DEF Supply!NoKey, Supply!Key, PublicKeys
  <2> QED
    BY <2>1, <2>2
<1>5. pc' \in [Supply!Tasks -> RecvPlaces] /\ pc'["recv"] = "idle"
  BY <1>1, <1>2, PlaceTypes DEF RecvPlaces
<1>6. SupplyTypes'
  <2>1. local' \in [Supply!Tasks -> 0 .. pairs']
    BY <1>1, <1>2, <1>3 DEF SupplyTypes
  <2>2. requests' \subseteq Peers \X PublicKeys
    BY <1>1, <1>2, <1>4 DEF SupplyTypes
  <2> QED
    BY <1>1, <1>2, <1>3, <1>5, <2>1, <2>2 DEF SupplyTypes
<1>7. Turns'
  <2>1. \A r \in requests : r[1] # sender
    BY <1>2 DEF SupplyInv, Turns
  <2>2. \A r \in requests' : r \in requests \/ (r = <<sender, key>> /\ r[1] = sender)
    BY <1>1
  <2> QED
    BY <1>1, <1>2, <2>1, <2>2 DEF SupplyInv, Turns
<1>8. InHand' /\ Consuming'
  BY <1>5 DEF InHand, Consuming
<1>9. \A k : (HasRow(k) => HasRow(k)') /\ (HasOpened(k)' <=> HasOpened(k))
  BY <1>1, <1>3 DEF HasRow, HasOpened
<1>10. \A k : Out(k)' => Out(k) \/ k = key
  BY <1>1 DEF Out
<1>11. OutKept'
  BY <1>4, <1>9, <1>10 DEF SupplyInv, OutKept
<1> QED
  BY <1>6, <1>7, <1>8, <1>11 DEF SupplyInv

\* The server stores an upload.
LEMMA StoresInv ==
    ASSUME SupplyInv, Supply!ServerStores
    PROVE  SupplyInv'
<1>1. /\ prekeys' = prekeys /\ pairs' = pairs /\ pc' = pc /\ local' = local /\ sender' = sender
      /\ requests' = requests /\ held' = held /\ inbox' = inbox /\ used' = used
      /\ uploads # <<>> /\ uploads' = Tail(uploads)
      /\ server' \subseteq server \cup Head(uploads)
  BY DEF Supply!ServerStores, Supply!table, Supply!tasks, Supply!peer
<1>2. SupplyTypes /\ uploads \in Seq(SUBSET PublicKeys)
  BY DEF SupplyInv, SupplyTypes
<1>3. /\ uploads' \in Seq(SUBSET PublicKeys)
      /\ 1 \in DOMAIN uploads /\ Head(uploads) = uploads[1] /\ Head(uploads) \subseteq PublicKeys
      /\ \A n \in DOMAIN uploads' : n + 1 \in DOMAIN uploads /\ uploads'[n] = uploads[n + 1]
  BY <1>1, <1>2
<1>4. SupplyTypes'
  BY <1>1, <1>2, <1>3 DEF SupplyTypes
<1>5. Turns'
  BY <1>1 DEF SupplyInv, Turns
<1>6. \A k : Out(k)' => Out(k)
  BY <1>1, <1>3 DEF Out
<1> QED
  BY <1>1, <1>4, <1>5, <1>6, PeerSupply

\* A peer takes a bundle of the server, or the one in a retry receipt; none of them has a message
\* with us.
LEMMA PeerInv ==
    ASSUME SupplyInv, NEW p \in Peers, Supply!PeerWrites(p) \/ Supply!PeerResends(p)
    PROVE  SupplyInv'
<1>1. /\ prekeys' = prekeys /\ pairs' = pairs /\ pc' = pc /\ local' = local /\ sender' = sender
      /\ uploads' = uploads /\ used' = used /\ inbox' = inbox \cup {p}
  BY DEF Supply!PeerWrites, Supply!PeerResends, Supply!GivesOut, Supply!table, Supply!tasks
<1>2. SupplyTypes
  BY DEF SupplyInv
<1>3. /\ p \notin inbox /\ requests' \subseteq requests
      /\ \A r \in requests' : r[1] # p
  <2>1. CASE Supply!PeerWrites(p)
    BY <2>1 DEF Supply!PeerWrites, SupplyInv, Turns
  <2>2. CASE Supply!PeerResends(p)
    BY <2>2 DEF Supply!PeerResends, SupplyInv, Turns
  <2> QED
    BY <2>1, <2>2
<1>4. PICK k0 \in PublicKeys : /\ held' = [held EXCEPT ![p] = k0]
                               /\ k0 = Supply!NoKey \/ Out(k0)
  <2>1. ASSUME NEW r \in requests
        PROVE  r[2] \in PublicKeys /\ Out(r[2])
    BY <1>2 DEF SupplyTypes, Out
  <2>2. CASE Supply!GivesOut(p)
    <3>1. PICK k1 \in IF server = {} THEN {Supply!NoKey} ELSE server :
             held' = [held EXCEPT ![p] = k1]
      BY <2>2 DEF Supply!GivesOut
    <3>2. k1 \in PublicKeys /\ (k1 = Supply!NoKey \/ Out(k1))
      BY <1>2, <3>1 DEF SupplyTypes, Out, Supply!NoKey, Supply!Key, PublicKeys
    <3> QED
      BY <3>1, <3>2
  <2>3. CASE \E r \in requests : held' = [held EXCEPT ![p] = r[2]]
    BY <2>1, <2>3
  <2>4. CASE held' = held
    <3>1. held[p] \in PublicKeys /\ held' = [held EXCEPT ![p] = held[p]] /\ Out(held[p])
      BY <1>2, <2>4 DEF SupplyTypes, Out
    <3> QED
      BY <3>1
  <2> QED
    BY <2>2, <2>3, <2>4 DEF Supply!PeerWrites, Supply!PeerResends
<1>5. server' \subseteq server
  BY DEF Supply!PeerWrites, Supply!PeerResends, Supply!GivesOut
<1>6. /\ held' \in [Peers -> PublicKeys] /\ held'[p] = k0
      /\ \A q \in Peers : q # p => held'[q] = held[q]
  BY <1>2, <1>4 DEF SupplyTypes
<1>7. SupplyTypes'
  BY <1>1, <1>2, <1>3, <1>5, <1>6 DEF SupplyTypes
<1>8. Turns'
  <2>1. \A r \in requests' : r[1] \in Peers
    BY <1>2, <1>3 DEF SupplyTypes
  <2> QED
    BY <1>1, <1>3, <1>6, <2>1 DEF SupplyInv, Turns
<1>9. \A k : Out(k)' => Out(k) \/ k = Supply!NoKey
  <2>1. \A k : Out(k)' => Out(k) \/ k = k0
    BY <1>1, <1>3, <1>5, <1>6 DEF Out
  <2> QED
    BY <1>4, <2>1
<1>10. \A q \in inbox : q \in inbox' /\ held'[q] = held[q]
  BY <1>1, <1>2, <1>3, <1>6 DEF SupplyTypes
<1> QED
  BY <1>1, <1>7, <1>8, <1>9, <1>10, PeerSupply

\* A lost connection takes what is on its way; a crash takes the tasks, too, and leaves the table
\* as the last statement has left it.
LEMMA FaultInv ==
    ASSUME SupplyInv, Supply!Disconnect \/ Supply!Crash
    PROVE  SupplyInv'
<1>1. /\ prekeys' = prekeys /\ pairs' = pairs /\ server' = server /\ held' = held
      /\ inbox' = inbox /\ used' = used /\ uploads' = <<>> /\ requests' = {}
  BY DEF Supply!Disconnect, Supply!Crash, Supply!table, Supply!peer
<1>2. SupplyTypes /\ pairs \in Nat
  BY DEF SupplyInv, SupplyTypes
<1>3. /\ pc' \in [Supply!Tasks -> RecvPlaces] /\ local' \in [Supply!Tasks -> 0 .. pairs]
      /\ (pc' = pc /\ sender' = sender) \/ pc'["recv"] = "idle"
  <2>1. CASE Supply!Disconnect
    BY <1>2, <2>1 DEF Supply!Disconnect, Supply!tasks, SupplyTypes
  <2>2. CASE Supply!Crash
    BY <1>2, <2>2 DEF Supply!Crash, Supply!Tasks, RecvPlaces
  <2> QED
    BY <2>1, <2>2
<1>4. SupplyTypes'
  BY <1>1, <1>2, <1>3 DEF SupplyTypes
<1>5. \A k : (HasRow(k)' <=> HasRow(k)) /\ (HasOpened(k)' <=> HasOpened(k))
  BY <1>1 DEF HasRow, HasOpened
<1>6. Turns' /\ InHand' /\ Consuming'
  BY <1>1, <1>3, <1>5 DEF SupplyInv, Turns, InHand, Consuming
<1>7. \A k : Out(k)' => Out(k)
  BY <1>1 DEF Out
<1>8. OutKept'
  BY <1>5, <1>7 DEF SupplyInv, OutKept
<1> QED
  BY <1>4, <1>6, <1>8 DEF SupplyInv

LEMMA InitSupply == Supply!PreKeysAssumption /\ Supply!Init => SupplyInv
<1> SUFFICES ASSUME Supply!PreKeysAssumption, Supply!Init PROVE SupplyInv
  OBVIOUS
<1>1. /\ pairs = Wanted /\ Wanted \in Nat
      /\ prekeys = [id \in 1 .. Wanted |-> [pair |-> id, uploaded |-> FALSE]]
      /\ pc = [t \in Supply!Tasks |-> "idle"] /\ local = [t \in Supply!Tasks |-> 0]
      /\ uploads = <<>> /\ server = {} /\ held = [p \in Peers |-> Supply!NoKey]
      /\ inbox = {} /\ requests = {} /\ used = {}
  BY DEF Supply!Init, Supply!PreKeysAssumption
<1>2. SupplyTypes
  <2>1. prekeys \in [DOMAIN prekeys -> PrekeyRows] /\ DOMAIN prekeys \subseteq 1 .. pairs
    BY <1>1 DEF PrekeyRows
  <2>2. Supply!NoKey \in PublicKeys
    BY DEF Supply!NoKey, Supply!Key, PublicKeys
  <2> QED
    BY <1>1, <2>1, <2>2 DEF SupplyTypes, RecvPlaces
<1>3. pc["recv"] = "idle"
  BY <1>1 DEF Supply!Tasks
<1>4. OutKept
  BY <1>1 DEF OutKept, Out
<1> QED
  BY <1>1, <1>2, <1>3, <1>4 DEF SupplyInv, Turns, InHand, Consuming

LEMMA NextSupply ==
    ASSUME Supply!PreKeysAssumption, SupplyInv, [Supply!Next]_(Supply!vars)
    PROVE  SupplyInv'
<1>1. ASSUME NEW t \in Supply!Tasks, Supply!Replenish(t) PROVE SupplyInv'
  <2>1. CASE Supply!ReadHighest(t, "replenish", "insert")
    BY <2>1, ReadInv DEF RecvPlaces
  <2>2. CASE Supply!Generate(t)
    BY <2>2, GenerateInv
  <2>3. CASE Supply!Ship(t, "ship", "mark", "idle")
    BY <2>3, ShipInv DEF RecvPlaces
  <2>4. CASE Supply!Mark(t, "mark", "idle")
    BY <2>4, MarkInv DEF RecvPlaces
  <2> QED
    BY <1>1, <2>1, <2>2, <2>3, <2>4 DEF Supply!Replenish
<1>2. "recv" \in Supply!Tasks /\ "topup" \in Supply!Tasks
  BY DEF Supply!Tasks
<1>3. CASE Supply!LoginUpload
  <2>1. CASE Supply!Ship("recv", "login", "flag", "check")
    BY <1>2, <2>1, ShipInv DEF RecvPlaces
  <2>2. CASE Supply!Mark("recv", "flag", "check")
    BY <1>2, <2>2, MarkInv DEF RecvPlaces
  <2>3. CASE Supply!CheckSupply
    BY <2>3, BeginInv
  <2> QED
    BY <1>3, <2>1, <2>2, <2>3 DEF Supply!LoginUpload
<1>4. CASE Supply!SendRetryReceipt
  <2>1. CASE Supply!ReadHighest("recv", "retry", "mint")
    BY <1>2, <2>1, ReadInv DEF RecvPlaces
  <2>2. CASE Supply!MintRetryKey
    BY <2>2, MintInv
  <2> QED
    BY <1>4, <2>1, <2>2 DEF Supply!SendRetryReceipt
<1>5. CASE Supply!RecvStep
  <2>1. CASE \E p \in Peers : Supply!Pkmsg(p)
    BY <2>1, PkmsgInv
  <2>2. CASE Supply!ConsumePrekey
    BY <2>2, ConsumeInv
  <2>3. CASE Supply!EncryptNotification
    BY <2>3, BeginInv
  <2> QED
    BY <1>1, <1>2, <1>3, <1>4, <1>5, <2>1, <2>2, <2>3 DEF Supply!RecvStep
<1>6. CASE Supply!TopUpStep
  BY <1>1, <1>2, <1>6, BeginInv DEF Supply!TopUpStep
<1>7. CASE Supply!Login \/ UNCHANGED Supply!vars
  BY <1>7, BeginInv
<1>8. CASE Supply!ServerStores
  BY <1>8, StoresInv
<1>9. CASE \E p \in Peers : Supply!PeerWrites(p) \/ Supply!PeerResends(p)
  BY <1>9, PeerInv
<1>10. CASE Supply!Disconnect \/ Supply!Crash
  BY <1>10, FaultInv
<1> QED
  BY <1>5, <1>6, <1>7, <1>8, <1>9, <1>10 DEF Supply!Next

\* A key that somebody else can use has its private half in our table or has opened a message: two
\* refills at once, ids that are given again (prekey_max_id), keys minted for retry receipts and
\* crashes between any two statements lose none, for any number of peers, floor, size of a batch
\* and number of faults.
THEOREM KeysKept ==
    ASSUME Supply!PreKeysAssumption
    PROVE  Supply!Spec => []Supply!PublishedKept
<1>1. Supply!Init => SupplyInv
  BY InitSupply
<1>2. SupplyInv /\ [Supply!Next]_(Supply!vars) => SupplyInv'
  BY NextSupply
<1>3. SupplyInv => Supply!PublishedKept
  <2> SUFFICES ASSUME SupplyInv, NEW k \in Supply!Published
               PROVE  Supply!Opens(k) \/ \E u \in used : u[2] = k
    BY DEF Supply!PublishedKept
  <2>1. inbox \subseteq Peers
    BY DEF SupplyInv, SupplyTypes
  <2>2. k # Supply!NoKey /\ Out(k)
    BY <2>1 DEF Supply!Published, Supply!Range, Out
  <2>3. HasRow(k) \/ HasOpened(k)
    BY <2>2 DEF SupplyInv, OutKept
  <2> QED
    BY <2>3 DEF HasRow, HasOpened, Supply!Opens, Supply!Ids
<1> QED
  BY <1>1, <1>2, <1>3, PTL DEF Supply!Spec

=============================================================================
