---------------------------- MODULE AppStateSync ----------------------------
(***************************************************************************)
(* One app-state collection (contacts, pins, mutes, archive): the server's  *)
(* log of mutations, the local mirror and the persisted version cursor.     *)
(*                                                                         *)
(* After <success>, and again when a key share arrives, the client asks for *)
(* the collection from its cursor on; at cursor 0 it asks for a snapshot.   *)
(* Each reply is worked off by a task of its own (handle_app_state_sync_iq) *)
(* that waits for the media host and the snapshot's download in between, so *)
(* that tasks of two replies, or of two connections, interleave.            *)
(*                                                                         *)
(* A log entry is one mutation under one key.  LTHash and the MACs are left *)
(* out: the code only logs a mismatch.  has_more_patches is never looked    *)
(* at, and no notification of a new patch is: a fetch is the only way to    *)
(* hear of one.                                                             *)
(***************************************************************************)
EXTENDS Naturals, Sequences

CONSTANTS
    Log,         \* the key of every entry of the server's log, in order of version
    MaxReplies,  \* bound: replies of the server in all
    MaxFaults    \* bound: connections lost, crashes, failed downloads

Keys == {Log[v] : v \in DOMAIN Log}

\* The versions a snapshot may be taken at: the server keeps the later entries as patches.
Snapshots == DOMAIN Log

VARIABLES
    version,    \* app_state_versions.version, 0 for no row
    applied,    \* log entries that have reached the mirror tables
    held,       \* app_state_mac_keys
    asked,      \* requested_app_state_keys of the process
    up,         \* a connection is past <success>
    fetches,    \* cursors of the fetch IQs on the wire
    requests,   \* keys the phone has been asked for
    tasks,      \* handlers of replies: what each has still to do
    synced,     \* mark_collection_synced has been called on this connection
    replies,    \* replies so far
    faults

vars == <<version, applied, held, asked, up, fetches, requests, tasks, synced,
          replies, faults>>

mirror == <<version, applied>>
wire == <<fetches, requests>>

(* A handler: the version of the snapshot it has still to load (0 for none), the patches
   left, the patch it has counted and not yet applied (0 for none), and the keys it
   missed. *)
Task == [id : 1..MaxReplies, snapshot : {0} \cup Snapshots, patches : SUBSET DOMAIN Log,
         open : {0} \cup DOMAIN Log, missing : SUBSET Keys]

\* Types of the variables.  The cursor can run ahead of the log: two tasks bump it for the
\* same patches.
TypeOK ==
    /\ version \in 0..(Len(Log) * (1 + MaxReplies))
    /\ applied \subseteq DOMAIN Log
    /\ held \subseteq Keys
    /\ asked \subseteq Keys
    /\ up \in BOOLEAN
    /\ fetches \subseteq Nat
    /\ requests \subseteq Keys
    /\ tasks \subseteq Task
    /\ synced \in BOOLEAN
    /\ replies \in 0..MaxReplies
    /\ faults \in 0..MaxFaults

Init ==
    /\ version = 0
    /\ applied = {}
    /\ held = {}
    /\ asked = {}
    /\ up = FALSE
    /\ fetches = {}
    /\ requests = {}
    /\ tasks = {}
    /\ synced = FALSE
    /\ replies = 0
    /\ faults = 0

-----------------------------------------------------------------------------

\* <success>: begin_sync clears the set of synced collections, then the fetch is shipped.
Success ==
    /\ ~up
    /\ up' = TRUE
    /\ synced' = FALSE
    /\ fetches' = {version}
    /\ UNCHANGED <<mirror, held, asked, requests, tasks, replies, faults>>

\* External.  The server answers a fetch: everything after the cursor, as a snapshot and
\* the patches after it when the cursor is 0.
Reply(v) ==
    /\ up
    /\ v \in fetches
    /\ replies < MaxReplies
    /\ replies' = replies + 1
    /\ fetches' = fetches \ {v}
    /\ \E s \in IF v = 0 THEN Snapshots ELSE {0} :
          tasks' = tasks \cup
              {[id |-> replies + 1, snapshot |-> s, open |-> 0, missing |-> {},
                patches |-> {p \in DOMAIN Log : p > v /\ p > s}]}
    /\ UNCHANGED <<mirror, held, asked, up, requests, synced, faults>>

Continue(t, u) == tasks' = (tasks \ {t}) \cup {u}

\* decode_app_state_snapshot: what can be read is applied; the cursor moves only when all
\* of it could be.
LoadSnapshot(t) ==
    LET whole == 1..t.snapshot
        missing == {Log[v] : v \in whole} \ held
    IN  /\ t.snapshot # 0
        /\ applied' = applied \cup {v \in whole : Log[v] \in held}
        /\ version' = IF missing = {} THEN t.snapshot ELSE version
        /\ Continue(t, [t EXCEPT !.snapshot = 0, !.missing = @ \cup missing])
        /\ UNCHANGED <<held, asked, up, wire, synced, replies, faults>>

\* The snapshot's download or its decryption fails: the child is skipped.
SkipSnapshot(t) ==
    /\ t.snapshot # 0
    /\ faults < MaxFaults
    /\ faults' = faults + 1
    /\ Continue(t, [t EXCEPT !.snapshot = 0])
    /\ UNCHANGED <<mirror, held, asked, up, wire, synced, replies>>

\* decode_authenticated_app_state_patch: a mutation whose key is missing is passed over,
\* and the version is bumped all the same.
DecodePatch(t) ==
    /\ t.snapshot = 0
    /\ t.open = 0
    /\ \E p \in t.patches :
          /\ \A q \in t.patches : p <= q
          /\ Continue(t, IF Log[p] \in held
                         THEN [t EXCEPT !.patches = @ \ {p}, !.open = p]
                         ELSE [t EXCEPT !.patches = @ \ {p}, !.missing = @ \cup {Log[p]}])
    /\ version' = version + 1
    /\ UNCHANGED <<applied, held, asked, up, wire, synced, replies, faults>>

\* apply_app_state_mutation for what the patch was decoded to.
ApplyPatch(t) ==
    /\ t.open # 0
    /\ applied' = applied \cup {t.open}
    /\ Continue(t, [t EXCEPT !.open = 0])
    /\ UNCHANGED <<version, held, asked, up, wire, synced, replies, faults>>

\* The collection is walked: it counts as synced unless a key was missing, and the keys
\* never asked for before are asked for.  The request is lost without a connection.
Finish(t) ==
    /\ t.snapshot = 0 /\ t.patches = {} /\ t.open = 0
    /\ synced' = (synced \/ t.missing = {})
    /\ asked' = asked \cup t.missing
    /\ requests' = IF up THEN requests \cup (t.missing \ asked) ELSE requests
    /\ tasks' = tasks \ {t}
    /\ UNCHANGED <<mirror, held, up, fetches, replies, faults>>

\* app_state_sync_key_share: the keys are stored and the collection is fetched again.  The
\* phone shares keys when asked, and by itself after pairing.
KeyShare(k) ==
    /\ up
    /\ k \in requests \/ held = {}
    /\ held' = held \cup {k}
    /\ requests' = requests \ {k}
    /\ fetches' = fetches \cup {version}
    /\ UNCHANGED <<mirror, asked, up, tasks, synced, replies, faults>>

\* The connection ends; its tasks go on, what was on the wire is lost.
Disconnect ==
    /\ up
    /\ faults < MaxFaults
    /\ faults' = faults + 1
    /\ up' = FALSE
    /\ fetches' = {}
    /\ requests' = {}
    /\ UNCHANGED <<mirror, held, asked, tasks, synced, replies>>

\* resync_appstate_session: the cursor goes back to 0 and the connection is bounced.
Resync ==
    /\ up
    /\ faults < MaxFaults
    /\ faults' = faults + 1
    /\ version' = 0
    /\ up' = FALSE
    /\ fetches' = {}
    /\ requests' = {}
    /\ UNCHANGED <<applied, held, asked, tasks, synced, replies>>

Crash ==
    /\ faults < MaxFaults
    /\ faults' = faults + 1
    /\ up' = FALSE
    /\ fetches' = {}
    /\ requests' = {}
    /\ tasks' = {}
    /\ asked' = {}
    /\ synced' = FALSE
    /\ UNCHANGED <<mirror, held, replies>>

Next ==
    \/ Success
    \/ \E v \in fetches : Reply(v)
    \/ \E t \in tasks :
          LoadSnapshot(t) \/ SkipSnapshot(t) \/ DecodePatch(t) \/ ApplyPatch(t) \/ Finish(t)
    \/ \E k \in Keys : KeyShare(k)
    \/ Disconnect
    \/ Resync
    \/ Crash

Spec == Init /\ [][Next]_vars

-----------------------------------------------------------------------------

(* The cursor never passes an entry of the log that is in no mirror table and in no
   task's hands: what is behind the cursor is never fetched again.  The comment on
   decode_authenticated_app_state_patch has a patch with a missing key rejected with the
   tables untouched, and the one on the snapshot keeps the cursor at 0 for a re-fetch. *)
CursorHonest ==
    \A v \in DOMAIN Log :
        v <= version =>
            \/ v \in applied
            \/ \E t \in tasks : v = t.open
=============================================================================
