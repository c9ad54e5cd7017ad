-------------------------- MODULE MCSignalSessions --------------------------
(***************************************************************************)
(* Two messages to one device, three sessions and one late key: a task of   *)
(* the pump and one of a retry receipt overlap, the session is replaced     *)
(* while an older ciphertext is under way, and the cache of late keys fills.*)
(***************************************************************************)
EXTENDS SignalSessions

=============================================================================
