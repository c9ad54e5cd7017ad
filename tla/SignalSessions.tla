--------------------------- MODULE SignalSessions ---------------------------
(***************************************************************************)
(* The Signal session with one device of a peer, both ends running this     *)
(* code: encrypt_per_device and the retry handler on ours, decryption and   *)
(* retry receipts on the other.                                             *)
(*                                                                         *)
(* The send pump works off one message after another; every retry receipt   *)
(* gets a task of its own.  All of them read the device's record, may wait  *)
(* for a pre-key fetch (of this device or of another one of the same send), *)
(* encrypt, and write the record back: nothing keeps two of them apart.     *)
(*                                                                         *)
(* A session is identified by its base key, a fresh number, and our sending *)
(* chain in it by the message whose encryption began it, if the session was *)
(* the peer's: the first reply draws a ratchet key of its own.  The peer    *)
(* follows the chain with a Ratchet.  A one-time key is named after the     *)
(* session it was fetched for or numbered for the message it repeats; the    *)
(* server always has one to give (PreKeys).  What the peer writes to us is  *)
(* reduced to its opening of a new session.                                 *)
(***************************************************************************)
EXTENDS Ratchet

CONSTANTS
    Msgs,       \* messages to the device
    None,       \* no message
    Give,       \* failed deliveries after which the peer gives up (5)
    MaxAsked,   \* MAX_INCOMING_RETRIES (10)
    MaxBases,   \* bound on sessions
    MaxCounter, \* bound on the messages of a chain (u32::MAX)
    MaxFaults   \* bound on failing fetches, keyless receipts and restarts of the peer

ASSUME SessionsAssumption ==
    /\ None \notin Msgs
    /\ {Give, MaxAsked} \subseteq Nat \ {0}
    /\ {MaxBases, MaxCounter, MaxFaults} \subseteq Nat

VARIABLES
    rec,        \* our record: signal_sessions
    stage,      \* where the task of a message is
    pump,       \* the message in the hands of the pump
    snap,       \* the record a task has loaded or bootstrapped
    asked,      \* Session::incoming_retry_counter
    wire,       \* ciphertexts on their way to the peer
    receipts,   \* retry receipts on their way to us
    hello,      \* sessions the peer has opened towards us, on their way
    session,    \* the peer's record: the base key of its session, 0 for none
    by,         \* ... the message that began our chain in it, None as long as it is not known
    chain,      \* ... and the state of its receiving end
    oneTime,    \* the peer's one-time keys that have been given out and not been used
    retries,    \* the peer's Session::message_retries
    minted,     \* one-time keys the peer has made for retry receipts
    read,       \* messages the peer has read
    gaveUp,     \* messages one of the two ends has given up, or skipped for this device
    bases,      \* base keys so far
    faults,
    sent,       \* history: all ciphertexts
    opened      \* history: the keys and what they have opened at the peer

ours == <<rec, stage, pump, snap, asked>>
peers == <<session, by, chain, oneTime, retries, minted>>
history == <<sent, opened>>
vars == <<ours, peers, wire, receipts, hello, read, gaveUp, bases, faults, history>>

\* No one-time key, one from the server, one made for a retry receipt.
NoKey == <<>>

ServerKey(base) == <<None, base>>

RetryKey(m) == <<m, minted + 1>>

NoRecord == [base |-> 0, by |-> None, counter |-> 0, pending |-> FALSE, key |-> NoKey]

\* initiate_alice on a bundle: the first message will be a pkmsg that names the one-time key.
Bootstrapped(base, key) ==
    [base |-> base, by |-> None, counter |-> 0, pending |-> TRUE, key |-> key]

Init ==
    /\ rec = NoRecord
    /\ stage = [m \in Msgs |-> "todo"]
    /\ pump = None
    /\ snap = [m \in Msgs |-> NoRecord]
    /\ asked = [m \in Msgs |-> 0]
    /\ wire = {} /\ receipts = {} /\ hello = {}
    /\ session = 0
    /\ by = None
    /\ chain = NewChain
    /\ oneTime = {}
    /\ retries = [m \in Msgs |-> 0]
    /\ minted = 0
    /\ read = {} /\ gaveUp = {}
    /\ bases = 0
    /\ faults = 0
    /\ sent = {} /\ opened = {}

Goto(m, place) == stage' = [stage EXCEPT ![m] = place]

\* A base key.
Fresh == bases < MaxBases /\ bases' = bases + 1

Fault == faults < MaxFaults /\ faults' = faults + 1

(***************************************************************************)
(* encrypt_per_device, cut at its awaits and its statements on the store.   *)
(***************************************************************************)

\* The pump takes the next message.
PumpTakes(m) ==
    /\ pump = None
    /\ stage[m] = "todo"
    /\ pump' = m
    /\ Goto(m, "load")
    /\ UNCHANGED <<rec, snap, asked, peers, wire, receipts, hello, read, gaveUp, bases, faults,
                   history>>

Load(m) ==
    /\ stage[m] = "load"
    /\ IF rec.base # 0
       THEN Goto(m, "loaded") /\ snap' = [snap EXCEPT ![m] = rec]
       ELSE Goto(m, "fetch") /\ UNCHANGED snap
    /\ UNCHANGED <<rec, pump, asked, peers, wire, receipts, hello, read, gaveUp, bases, faults,
                   history>>

\* The bundle of the device arrives.  The new session is the task's own until it is saved.
FetchOk(m) ==
    /\ stage[m] = "fetch"
    /\ Fresh
    /\ oneTime' = oneTime \cup {ServerKey(bases')}
    /\ snap' = [snap EXCEPT ![m] = Bootstrapped(bases', ServerKey(bases'))]
    /\ Goto(m, "loaded")
    /\ UNCHANGED <<rec, pump, asked, session, by, chain, retries, minted, wire, receipts, hello,
                   read, gaveUp, faults, history>>

\* The fetch fails, or yields nothing for the device: the pump will come back to the message,
\* unless it could be encrypted for other devices of the peer; then this one is skipped.  A
\* resend is dropped.
FetchFails(m) ==
    /\ stage[m] = "fetch"
    /\ Fault
    /\ \/ /\ pump = m
          /\ Goto(m, "todo")
          /\ pump' = None
          /\ UNCHANGED gaveUp
       \/ /\ Goto(m, "done")
          /\ gaveUp' = gaveUp \cup {m}
          /\ pump' = IF pump = m THEN None ELSE pump
    /\ UNCHANGED <<rec, snap, asked, peers, wire, receipts, hello, read, bases, history>>

\* bob_first_send_step: a session of the peer in which we have not sent yet.
Keyed(m) ==
    IF snap[m].key = NoKey /\ snap[m].counter = 0 THEN [snap[m] EXCEPT !.by = m] ELSE snap[m]

\* Mutated: the pending pre-key is not looked at.
CipherNeverPre(m, r) ==
    [msg |-> m, base |-> r.base, by |-> r.by, counter |-> r.counter, key |-> r.key,
     type |-> "msg"]

Cipher(m, r) ==
    [msg |-> m, base |-> r.base, by |-> r.by, counter |-> r.counter, key |-> r.key,
     type |-> IF r.pending THEN "pkmsg" ELSE "msg"]

\* Encrypt with what was loaded, save the advanced record, send.
Encrypt(m) ==
    /\ stage[m] = "loaded"
    /\ snap[m].counter < MaxCounter
    /\ LET c == Cipher(m, Keyed(m)) IN wire' = wire \cup {c} /\ sent' = sent \cup {c}
    /\ rec' = [Keyed(m) EXCEPT !.counter = @ + 1, !.pending = FALSE]
    /\ snap' = [snap EXCEPT ![m] = NoRecord]
    /\ Goto(m, "done")
    /\ pump' = IF pump = m THEN None ELSE pump
    /\ UNCHANGED <<asked, peers, receipts, hello, read, gaveUp, bases, faults, opened>>

(***************************************************************************)
(* handle_inbound_retry_receipt.                                            *)
(***************************************************************************)

\* Mutated: a keyless receipt that the handler does not answer.
ReuseNever(m) == Goto(m, "done")

\* The established session is used as it is.
Reuse(m) == Goto(m, "load")

\* With a bundle the session is replaced at once; without one it is kept, or, from the second
\* receipt on and at most once an hour, replaced by one from the server.
Answer(r) ==
    \/ /\ r.key # NoKey
       /\ Fresh
       /\ rec' = Bootstrapped(bases', r.key)
       /\ Goto(r.msg, "load")
    \/ /\ r.key = NoKey
       /\ rec.base # 0
       /\ Reuse(r.msg)
       /\ UNCHANGED <<rec, bases>>
    \/ /\ r.key = NoKey
       /\ rec.base = 0 \/ r.count >= 2
       /\ Goto(r.msg, "recreate")
       /\ UNCHANGED <<rec, bases>>

RetryArrives(r) ==
    /\ r \in receipts
    /\ stage[r.msg] = "done"
    /\ receipts' = receipts \ {r}
    /\ asked' = [asked EXCEPT ![r.msg] = @ + 1]
    /\ IF asked'[r.msg] >= MaxAsked
       THEN gaveUp' = gaveUp \cup {r.msg} /\ UNCHANGED <<rec, stage, bases>>
       ELSE Answer(r) /\ UNCHANGED gaveUp
    /\ UNCHANGED <<pump, snap, peers, wire, hello, read, faults, history>>

\* fetch_one_bundle; without an answer the existing session is used after all.
Recreate(m) ==
    /\ stage[m] = "recreate"
    /\ Goto(m, "load")
    /\ \/ /\ Fresh
          /\ rec' = Bootstrapped(bases', ServerKey(bases'))
          /\ oneTime' = oneTime \cup {ServerKey(bases')}
          /\ UNCHANGED faults
       \/ Fault /\ UNCHANGED <<rec, bases, oneTime>>
    /\ UNCHANGED <<pump, snap, asked, session, by, chain, retries, minted, wire, receipts, hello,
                   read, gaveUp, history>>

(***************************************************************************)
(* The peer: decrypt_signal_envelope and the answer to a failure.           *)
(***************************************************************************)

OpensExisting(c) ==
    session = c.base /\ by \in {None, c.by} /\ Accepts(chain, c.counter)

\* process_bob needs the private half of the one-time key, which is deleted once used.
OpensAfresh(c) ==
    /\ c.type = "pkmsg"
    /\ ~OpensExisting(c)
    /\ c.key \in oneTime
    /\ Accepts(NewChain, c.counter)

\* Mutated: a one-time key that outlives its use.
ConsumeNothing(c) == oneTime' = oneTime

Consume(c) == oneTime' = oneTime \ {c.key}

Read(c) ==
    /\ wire' = wire \ {c}
    /\ read' = read \cup {c.msg}
    /\ retries' = [retries EXCEPT ![c.msg] = 0]
    /\ by' = c.by
    /\ opened' = opened \cup {<<<<c.base, c.by, c.counter>>, c.msg>>}
    /\ UNCHANGED <<ours, minted, receipts, hello, gaveUp, bases, faults, sent>>

ReadOnSession(c) ==
    /\ c \in wire
    /\ OpensExisting(c)
    /\ chain' = After(chain, c.counter)
    /\ Read(c)
    /\ UNCHANGED <<session, oneTime>>

ReadOnNewSession(c) ==
    /\ c \in wire
    /\ OpensAfresh(c)
    /\ session' = c.base
    /\ chain' = After(NewChain, c.counter)
    /\ Consume(c)
    /\ Read(c)

AsksAgain(count) == count < Give

\* A retry receipt carries a one-time key made for it, unless none can be made.
Unreadable(c) ==
    /\ c \in wire
    /\ ~OpensExisting(c)
    /\ ~OpensAfresh(c)
    /\ wire' = wire \ {c}
    /\ retries' = [retries EXCEPT ![c.msg] = @ + 1]
    /\ LET count == retries'[c.msg]
           Receipt(key) == [msg |-> c.msg, count |-> count, key |-> key]
       IN \/ /\ AsksAgain(count)
             /\ oneTime' = oneTime \cup {RetryKey(c.msg)}
             /\ minted' = minted + 1
             /\ receipts' = receipts \cup {Receipt(RetryKey(c.msg))}
             /\ UNCHANGED <<gaveUp, faults>>
          \/ /\ AsksAgain(count)
             /\ Fault
             /\ receipts' = receipts \cup {Receipt(NoKey)}
             /\ UNCHANGED <<gaveUp, oneTime, minted>>
          \/ /\ ~AsksAgain(count)
             /\ gaveUp' = gaveUp \cup {c.msg}
             /\ UNCHANGED <<receipts, faults, oneTime, minted>>
    /\ UNCHANGED <<ours, bases, hello, session, by, chain, read, history>>

\* The retry counters live in memory: a restart or a reconnect of the peer clears them.
PeerForgets ==
    /\ Fault
    /\ retries' = [m \in Msgs |-> 0]
    /\ UNCHANGED <<ours, session, by, chain, oneTime, minted, wire, receipts, hello, read, gaveUp,
                   bases, history>>

\* The peer opens a session of its own, and our recv loop replaces the record by it.
PeerOpens ==
    /\ Fresh
    /\ session' = bases'
    /\ by' = None
    /\ chain' = NewChain
    /\ hello' = hello \cup {bases'}
    /\ UNCHANGED <<ours, oneTime, retries, minted, wire, receipts, read, gaveUp, faults, history>>

HelloArrives(b) ==
    /\ b \in hello
    /\ hello' = hello \ {b}
    /\ rec' = [NoRecord EXCEPT !.base = b]
    /\ UNCHANGED <<stage, pump, snap, asked, peers, wire, receipts, read, gaveUp, bases, faults,
                   history>>

Task(m) == PumpTakes(m) \/ Load(m) \/ FetchOk(m) \/ FetchFails(m) \/ Encrypt(m) \/ Recreate(m)

Next ==
    \/ \E m \in Msgs : Task(m)
    \/ \E r \in receipts : RetryArrives(r)
    \/ \E c \in wire : ReadOnSession(c) \/ ReadOnNewSession(c) \/ Unreadable(c)
    \/ PeerOpens \/ PeerForgets
    \/ \E b \in hello : HelloArrives(b)

\* Tasks run, and what is sent arrives: the server keeps it until then.
Fairness ==
    /\ \A m \in Msgs : WF_vars(Task(m))
    /\ WF_vars(\E r \in receipts : RetryArrives(r))
    /\ WF_vars(\E c \in wire : ReadOnSession(c) \/ ReadOnNewSession(c) \/ Unreadable(c))
    /\ WF_vars(\E b \in hello : HelloArrives(b))

Spec == Init /\ [][Next]_vars /\ Fairness

(***************************************************************************)
(* Properties.                                                              *)
(***************************************************************************)

Keys == (1..MaxBases) \X (Msgs \cup {None}) \X (0..MaxCounter)

OneTimeKeys == ((Msgs \cup {None}) \X Nat) \cup {NoKey}

Records == [base : 0..MaxBases, by : Msgs \cup {None}, counter : 0..MaxCounter,
            pending : BOOLEAN, key : OneTimeKeys]

Ciphers == [msg : Msgs, base : 1..MaxBases, by : Msgs \cup {None}, counter : 0..MaxCounter,
            key : OneTimeKeys, type : {"pkmsg", "msg"}]

\* Types of the variables; the peer never holds more late keys than MAX_SKIPPED_MESSAGE_KEYS,
\* and no receipt counts a delivery after which it gives up.
TypeOK ==
    /\ rec \in Records
    /\ stage \in [Msgs -> {"todo", "load", "fetch", "loaded", "recreate", "done"}]
    /\ pump \in Msgs \cup {None}
    /\ snap \in [Msgs -> Records]
    /\ asked \in [Msgs -> Nat]
    /\ wire \subseteq Ciphers /\ sent \subseteq Ciphers
    /\ receipts \subseteq [msg : Msgs, count : 1..(Give - 1), key : OneTimeKeys]
    /\ hello \subseteq 1..MaxBases
    /\ session \in 0..MaxBases /\ by \in Msgs \cup {None}
    /\ chain \in Chains
    /\ oneTime \subseteq OneTimeKeys \ {NoKey}
    /\ retries \in [Msgs -> Nat]
    /\ minted \in Nat
    /\ read \subseteq Msgs /\ gaveUp \subseteq Msgs
    /\ bases \in 0..MaxBases
    /\ faults \in 0..MaxFaults
    /\ opened \subseteq Keys \X Msgs

\* A session that we have opened is announced before it is used: no msg is encrypted under it
\* unless a pkmsg was (install_session_from_bundle: "the next encrypt emits a `pkmsg` that
\* re-bootstraps the peer's session"), although the next encrypt may be that of another task.
Announced ==
    \A c \in sent :
        c.type = "msg" /\ c.key # NoKey =>
            \E d \in sent : d.type = "pkmsg" /\ d.base = c.base

\* The receiving end implements AtMostOnce: late, repeated and colliding ciphertexts of this
\* and of earlier sessions included, no key opens two of them (decrypt: "decrypted using that
\* entry, which is then evicted (single-use)"; "Single-use OPK eviction").
Receiver == INSTANCE AtMostOnce

OpensOnce == Receiver!Spec

\* No message is left behind: it is read in the end, unless an end has given up by its own
\* rules or the bound on sessions is reached ("churning the ratchet so the phone / WhatsApp
\* Web never caught up" is what the handler is there to prevent).
Converges ==
    \A m \in Msgs :
        stage[m] = "load" ~> (m \in read \/ m \in gaveUp \/ bases = MaxBases)

\* What SessionCipher::encrypt says of our end: "Advances the chain so successive encrypts use
\* fresh keys".
KeyUsedOnce ==
    \A c, d \in sent :
        c.base = d.base /\ c.by = d.by /\ c.counter = d.counter => c = d

=============================================================================
