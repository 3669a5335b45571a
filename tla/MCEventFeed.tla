----------------------------- MODULE MCEventFeed -----------------------------
(***************************************************************************)
(* Two lines, so that a queue of one event overflows more than once while a *)
(* client is being written to, and two reads of the file at a time.         *)
(***************************************************************************)
EXTENDS EventFeed
=============================================================================
