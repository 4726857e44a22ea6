----------------------------- MODULE TotalOrder -----------------------------
(***************************************************************************)
(* What the message bus of the server promises, with no dispatcher, no     *)
(* channel ids and no per-thread queues: there is one log of everything    *)
(* ever sent.  A subscriber joins at some point of it and from there on    *)
(* reads every message, once, in log order, until it leaves.  Two          *)
(* subscribers therefore never see two messages in different orders, and   *)
(* nobody has a gap.                                                       *)
(***************************************************************************)
EXTENDS Integers, Sequences

CONSTANTS Conns, Messages

VARIABLES
  log,       \* every message sent, in the order in which it was sent
  next,      \* next[c]: index of the next message c reads; 0 before it joins
  received   \* received[c]: what c has read so far

vars == <<log, next, received>>

Init ==
  /\ log = <<>>
  /\ next = [c \in Conns |-> 0]
  /\ received = [c \in Conns |-> <<>>]

Publish(m) ==
  /\ log' = Append(log, m)
  /\ UNCHANGED <<next, received>>

\* Messages sent just before the join may still reach the newcomer.
Join(c) ==
  /\ next[c] = 0
  /\ \E i \in 1 .. Len(log) + 1 : next' = [next EXCEPT ![c] = i]
  /\ UNCHANGED <<log, received>>

Read(c) ==
  /\ next[c] \in 1 .. Len(log)
  /\ received' = [received EXCEPT ![c] = Append(@, log[next[c]])]
  /\ next' = [next EXCEPT ![c] = @ + 1]
  /\ UNCHANGED log

\* A subscriber that left is at -1 and reads nothing more.
Leave(c) ==
  /\ next[c] > 0
  /\ next' = [next EXCEPT ![c] = -1]
  /\ UNCHANGED <<log, received>>

Next ==
  \/ \E m \in Messages : Publish(m)
  \/ \E c \in Conns : Join(c) \/ Read(c) \/ Leave(c)

Spec == Init /\ [][Next]_vars

=============================================================================
