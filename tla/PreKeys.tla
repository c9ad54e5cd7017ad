------------------------------ MODULE PreKeys ------------------------------
(***************************************************************************)
(* The one-time pre-keys of a session: the prekeys table, the supply the    *)
(* server hands out to peers who open a session with us, and the three      *)
(* places that refill it (login, the server's encrypt notification, the     *)
(* periodic top-up), together with the pre-key messages that use the keys   *)
(* up and the retry receipts that bring a key of their own.                 *)
(*                                                                         *)
(* The receive loop handles one stanza after the other; the top-up task     *)
(* runs beside it, on another thread.  Neither holds a lock: each statement *)
(* on the table is a step.  Aborting the top-up task does not interrupt a   *)
(* replenishment under way, which has no await; it is taken to end before   *)
(* the next connection has logged in.                                       *)
(*                                                                         *)
(* A key pair is identified by a number of its own, so that a key id that   *)
(* is given again stands for a different key.  A peer is a device that      *)
(* opens one session with us; it sends a single message in it.              *)
(***************************************************************************)
EXTENDS Naturals, Sequences, FiniteSets, FiniteSetsExt, Functions

CONSTANTS
    Peers,     \* devices that open a session with us
    None,      \* no peer
    Low,       \* MIN_PREKEY_COUNT (5)
    Wanted,    \* WANTED_PREKEY_COUNT (50): a batch, and the most an upload carries
    Give,      \* retry receipts for one message (4: the fifth failed delivery is given up)
    MaxFaults  \* bound on lost connections and crashes

ASSUME PreKeysAssumption ==
    /\ None \notin Peers
    /\ {Low, Wanted, Give} \subseteq Nat \ {0}
    /\ Low <= Wanted
    /\ MaxFaults \in Nat

VARIABLES
    prekeys,   \* the table: key id -> key pair and the uploaded flag
    pairs,     \* key pairs generated so far
    pc,        \* where the receive loop and the top-up task are
    local,     \* the key id each of them has read: the highest one, or the last one shipped
    sender,    \* the peer whose message the receive loop has in hand
    up,        \* connected
    notice,    \* an encrypt notification with a low count is on its way to us
    uploads,   \* upload iqs on their way to the server
    server,    \* the keys the server can give out
    held,      \* the one-time key, if any, of the session each peer has opened
    inbox,     \* peers whose message the server holds for us until we acknowledge it
    receipts,  \* retry receipts on their way to the peers
    retries,   \* Session::message_retries
    opened,    \* history: peers and the keys that opened a message of theirs
    faults

table == <<prekeys, pairs>>
tasks == <<pc, local, sender>>
net == <<up, notice, uploads, receipts>>
peer == <<held, inbox>>
vars == <<table, tasks, net, server, peer, retries, opened, faults>>

Tasks == {"recv", "topup"}

Key(id, pair) == [id |-> id, pair |-> pair]

\* A bundle without a one-time key, and a receipt without a bundle.
NoKey == Key(0, 0)

Ids == DOMAIN prekeys

\* A batch is generated for consecutive ids.
Batch(first, n) ==
    [id \in first .. first + n - 1 |-> [pair |-> pairs + 1 + id - first, uploaded |-> FALSE]]

\* prekey_max_id: the highest id still in the table.
HighestId == Max({0} \cup Ids)

\* prekey_count_uploaded.
Available == Cardinality({id \in Ids : prekeys[id].uploaded})

\* prekeys_pending_upload: the lowest ids that have not been uploaded, a batch at most.
Pending ==
    LET waiting == {id \in Ids : ~prekeys[id].uploaded}
    IN  {id \in waiting : Cardinality({i \in waiting : i <= id}) <= Wanted}

\* prekeys_mark_uploaded.
Marked(last) == [id \in Ids |-> [prekeys[id] EXCEPT !.uploaded = @ \/ id <= last]]

\* An insert that replaces the rows it finds.
InsertReplacing(rows) ==
    /\ prekeys' = [id \in Ids \cup DOMAIN rows |->
                      IF id \in DOMAIN rows THEN rows[id] ELSE prekeys[id]]
    /\ pairs' = pairs + Cardinality(DOMAIN rows)

\* prekeys_insert_batch: one transaction, which the primary key (session_id, key_id) refuses as
\* a whole when one id is taken.
Insert(rows) ==
    IF DOMAIN rows \cap Ids = {}
    THEN /\ prekeys' = [id \in Ids \cup DOMAIN rows |->
                           IF id \in Ids THEN prekeys[id] ELSE rows[id]]
         /\ pairs' = pairs + Cardinality(DOMAIN rows)
    ELSE UNCHANGED table

Goto(t, place) == pc' = [pc EXCEPT ![t] = place]

Init ==
    /\ prekeys = [id \in 1 .. Wanted |-> [pair |-> id, uploaded |-> FALSE]]
    /\ pairs = Wanted
    /\ pc = [t \in Tasks |-> "idle"]
    /\ local = [t \in Tasks |-> 0]
    /\ sender = None
    /\ up = FALSE /\ notice = FALSE
    /\ uploads = <<>>
    /\ server = {}
    /\ held = [p \in Peers |-> NoKey]
    /\ inbox = {} /\ receipts = {}
    /\ retries = [p \in Peers |-> 0]
    /\ opened = {}
    /\ faults = 0

(***************************************************************************)
(* upload_pending_prekeys and replenish_prekeys.                            *)
(***************************************************************************)

\* The iq leaves if there is a connection; whether it arrives is not waited for.
Ship(t, at, mark, done) ==
    /\ pc[t] = at
    /\ IF Pending = {}
       THEN Goto(t, done) /\ UNCHANGED <<local, uploads>>
       ELSE /\ Goto(t, mark)
            /\ local' = [local EXCEPT ![t] = Max(Pending)]
            /\ uploads' = IF up
                          THEN Append(uploads, {Key(id, prekeys[id].pair) : id \in Pending})
                          ELSE uploads
    /\ UNCHANGED <<table, sender, up, notice, receipts, server, peer, retries, opened, faults>>

Mark(t, at, done) ==
    /\ pc[t] = at
    /\ prekeys' = Marked(local[t])
    /\ Goto(t, done)
    /\ UNCHANGED <<pairs, local, sender, net, server, peer, retries, opened, faults>>

ReadHighest(t, at, next) ==
    /\ pc[t] = at
    /\ local' = [local EXCEPT ![t] = HighestId]
    /\ Goto(t, next)
    /\ UNCHANGED <<table, sender, net, server, peer, retries, opened, faults>>

Generate(t) ==
    /\ pc[t] = "insert"
    /\ Insert(Batch(local[t] + 1, Wanted))
    /\ Goto(t, "ship")
    /\ UNCHANGED <<local, sender, net, server, peer, retries, opened, faults>>

Replenish(t) ==
    \/ ReadHighest(t, "replenish", "insert")
    \/ Generate(t)
    \/ Ship(t, "ship", "mark", "idle")
    \/ Mark(t, "mark", "idle")

\* The sweep of the top-up task: it looks at our own count.
TopUp ==
    /\ up
    /\ pc["topup"] = "idle"
    /\ Available < Low
    /\ Goto("topup", "replenish")
    /\ UNCHANGED <<table, local, sender, net, server, peer, retries, opened, faults>>

(***************************************************************************)
(* The receive loop.                                                        *)
(***************************************************************************)

\* <success>: upload what is pending, then replenish if the count is low.  The server reports a
\* low supply at login.
Login ==
    /\ ~up
    /\ \A t \in Tasks : pc[t] = "idle"
    /\ up' = TRUE
    /\ notice' = (Cardinality(server) < Low)
    /\ Goto("recv", "login")
    /\ UNCHANGED <<table, local, sender, uploads, receipts, server, peer, retries, opened, faults>>

CheckSupply ==
    /\ pc["recv"] = "check"
    /\ Goto("recv", IF Available < Low THEN "replenish" ELSE "idle")
    /\ UNCHANGED <<table, local, sender, net, server, peer, retries, opened, faults>>

LoginUpload ==
    \/ Ship("recv", "login", "flag", "check")
    \/ Mark("recv", "flag", "check")
    \/ CheckSupply

\* A notification that is logged and not acted on.
NotificationIgnored ==
    /\ up /\ notice
    /\ pc["recv"] = "idle"
    /\ notice' = FALSE
    /\ UNCHANGED <<table, tasks, up, uploads, receipts, server, peer, retries, opened, faults>>

\* <notification type="encrypt"> with a count below the floor.
EncryptNotification ==
    /\ up /\ notice
    /\ pc["recv"] = "idle"
    /\ notice' = FALSE
    /\ Goto("recv", "replenish")
    /\ UNCHANGED <<table, local, sender, up, uploads, receipts, server, peer, retries, opened,
                   faults>>

\* process_bob arrives at the sender's secret if it has the same one-time key, or if neither has
\* one: a key id without a row counts as none.
Opens(key) == key = NoKey \/ (key.id \in Ids /\ prekeys[key.id].pair = key.pair)

\* The key goes only with a message it has opened.
Consumes(p) == held[p] # NoKey /\ Opens(held[p])

Acknowledged(p) == inbox' = inbox \ {p}

\* A pkmsg.  If it opens, the record is saved (here) and the key deleted (ConsumePrekey);
\* otherwise a retry receipt is due, as long as there have not been too many.
Pkmsg(p) ==
    /\ up
    /\ pc["recv"] = "idle"
    /\ p \in inbox
    /\ opened' = IF Opens(held[p]) THEN opened \cup {<<p, held[p]>>} ELSE opened
    /\ retries' = [retries EXCEPT ![p] = IF Opens(held[p]) THEN 0 ELSE @ + 1]
    /\ sender' = p
    /\ IF Consumes(p)
       THEN Goto("recv", "consume") /\ UNCHANGED inbox
       ELSE IF ~Opens(held[p]) /\ retries[p] < Give
       THEN Goto("recv", "retry") /\ UNCHANGED inbox
       ELSE UNCHANGED pc /\ Acknowledged(p)
    /\ UNCHANGED <<table, local, net, server, held, faults>>

ConsumePrekey ==
    /\ pc["recv"] = "consume"
    /\ prekeys' = [id \in Ids \ {held[sender].id} |-> prekeys[id]]
    /\ Acknowledged(sender)
    /\ Goto("recv", "idle")
    /\ UNCHANGED <<pairs, local, sender, net, server, held, retries, opened, faults>>

\* build_retry_keys_node: a fresh key for this peer, which a later upload will also give to the
\* server.  If it cannot be stored the receipt goes out without keys.
MintRetryKey ==
    /\ pc["recv"] = "mint"
    /\ Insert(Batch(local["recv"] + 1, 1))
    /\ LET key == IF pairs' # pairs THEN Key(local["recv"] + 1, pairs') ELSE NoKey
       IN  receipts' = IF up THEN receipts \cup {<<sender, key>>} ELSE receipts
    /\ Acknowledged(sender)
    /\ Goto("recv", "idle")
    /\ UNCHANGED <<local, sender, up, notice, uploads, server, held, retries, opened, faults>>

SendRetryReceipt ==
    \/ ReadHighest("recv", "retry", "mint")
    \/ MintRetryKey

(***************************************************************************)
(* The server and the peers.                                                *)
(***************************************************************************)

\* An upload replaces the keys of the ids it names.
ServerStores ==
    /\ uploads # <<>>
    /\ server' = {k \in server : \A new \in Head(uploads) : new.id # k.id} \cup Head(uploads)
    /\ uploads' = Tail(uploads)
    /\ UNCHANGED <<table, tasks, up, notice, receipts, peer, retries, opened, faults>>

\* A bundle carries a one-time key as long as there is one, and each is given out once.  The
\* server tells us when this leaves few.
GivesOut(p) ==
    \E k \in IF server = {} THEN {NoKey} ELSE server :
        /\ held' = [held EXCEPT ![p] = k]
        /\ server' = server \ {k}
        /\ notice' = (notice \/ (up /\ Cardinality(server') < Low))
        /\ inbox' = inbox \cup {p}

\* A peer writes to us for the first time.
PeerWrites(p) ==
    /\ held[p] = NoKey /\ p \notin inbox /\ retries[p] = 0
    /\ \A o \in opened : o[1] # p
    /\ GivesOut(p)
    /\ UNCHANGED <<table, tasks, up, uploads, receipts, retries, opened, faults>>

\* A retry receipt: the peer builds a session from the bundle in it; without one it asks the
\* server for a bundle or repeats the message in the session it has.
PeerResends(p) ==
    \E r \in receipts :
        /\ r[1] = p
        /\ receipts' = receipts \ {r}
        /\ \/ /\ r[2] # NoKey
              /\ held' = [held EXCEPT ![p] = r[2]]
              /\ inbox' = inbox \cup {p}
              /\ UNCHANGED <<server, notice>>
           \/ /\ r[2] = NoKey
              /\ GivesOut(p)
           \/ /\ r[2] = NoKey
              /\ inbox' = inbox \cup {p}
              /\ UNCHANGED <<held, server, notice>>
        /\ UNCHANGED <<table, tasks, up, uploads, retries, opened, faults>>

(***************************************************************************)
(* Faults.                                                                  *)
(***************************************************************************)

Fault == faults < MaxFaults /\ faults' = faults + 1

\* The connection goes, with everything on its way.  The handler under way runs to its end.
Disconnect ==
    /\ up
    /\ Fault
    /\ up' = FALSE /\ notice' = FALSE
    /\ uploads' = <<>> /\ receipts' = {}
    /\ UNCHANGED <<table, tasks, server, peer, retries, opened>>

\* The process is killed between any two statements.
Crash ==
    /\ Fault
    /\ up' = FALSE /\ notice' = FALSE
    /\ uploads' = <<>> /\ receipts' = {}
    /\ pc' = [t \in Tasks |-> "idle"]
    /\ sender' = None
    /\ local' = [t \in Tasks |-> 0]
    /\ retries' = [p \in Peers |-> 0]
    /\ UNCHANGED <<table, server, peer, opened>>

RecvStep ==
    \/ LoginUpload
    \/ Replenish("recv")
    \/ EncryptNotification
    \/ \E p \in Peers : Pkmsg(p)
    \/ ConsumePrekey
    \/ SendRetryReceipt

TopUpStep == TopUp \/ Replenish("topup")

Next ==
    \/ Login
    \/ RecvStep
    \/ TopUpStep
    \/ ServerStores
    \/ \E p \in Peers : PeerWrites(p) \/ PeerResends(p)
    \/ Disconnect
    \/ Crash

\* Tasks go on, the driver reconnects, the server works off what it has received.  A peer need
\* not write, and need not answer a receipt.
Fairness ==
    /\ WF_vars(Login)
    /\ WF_vars(RecvStep)
    /\ WF_vars(TopUpStep)
    /\ WF_vars(ServerStores)

Spec == Init /\ [][Next]_vars /\ Fairness

-----------------------------------------------------------------------------

\* The keys somebody else can still use.
Published ==
    (server \cup (UNION Range(uploads)) \cup {r[2] : r \in receipts} \cup {held[p] : p \in inbox})
        \ {NoKey}

\* A published key that has not opened a message yet can still open one: its private half is in
\* the table under the id it was published with.  Two refills at once, ids that are given again
\* after the highest key is used up, a retry key that reaches two peers and a crash between any
\* two statements do not lose it.
PublishedKept ==
    \A k \in Published : Opens(k) \/ \E o \in opened : o[2] = k

\* When the connections have settled the server has keys to give, although the uploaded flag is
\* set for keys whose upload was lost and the sweep looks only at our own count.
Refilled == <>[](Cardinality(server) >= Low)

=============================================================================
