----------------------------- MODULE MCBroadcast -----------------------------
(* Model-checking instance of BroadcastHistory: three threads, two messages. *)
EXTENDS BroadcastHistory

=============================================================================
