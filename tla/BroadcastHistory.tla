-------------------------- MODULE BroadcastHistory --------------------------
(***************************************************************************)
(* Broadcast with two history variables, published (everything sent to the *)
(* dispatcher) and received (what each thread took out of its channel),    *)
(* and the refinement mapping under which it implements TotalOrder.        *)
(***************************************************************************)
EXTENDS Broadcast

CONSTANT MaxPublished   \* bound on the messages sent in a behaviour

ASSUME MaxPublishedAssumption == MaxPublished \in Nat

VARIABLES published, received

histVars == <<published, received>>
vars == <<thread_chan, senders, channel, receiver, published, received>>

HInit ==
  /\ Init
  /\ published = <<>>
  /\ received = [c \in Conns |-> <<>>]

HSend(m) ==
  /\ Len(published) < MaxPublished
  /\ Send(m)
  /\ published' = Append(published, m)
  /\ UNCHANGED received

HTryRecv(c) ==
  /\ TryRecv(c)
  /\ received' = [received EXCEPT ![c] = Append(@, Head(channel[c]))]
  /\ UNCHANGED published

HNext ==
  \/ \E m \in Messages : HSend(m)
  \/ \E c \in Conns : HTryRecv(c)
  \/ Dispatch /\ UNCHANGED histVars
  \/ \E c \in Conns : Subscribe(c) /\ UNCHANGED histVars
  \/ \E c \in Conns : DropReceiver(c) /\ UNCHANGED histVars

HSpec == HInit /\ [][HNext]_vars

-----------------------------------------------------------------------------

\* The next message thread c will take is the first of published that neither
\* its channel nor the dispatcher's queue still holds.
NextOf(c) ==
  IF receiver[c] = "live"
    THEN Len(published) - Len(thread_chan) - Len(channel[c]) + 1
    ELSE IF receiver[c] = "none" THEN 0 ELSE -1

TO == INSTANCE TotalOrder
        WITH log <- published, next <- [c \in Conns |-> NextOf(c)]

\* Every running thread reads a gap-free run of the one global order in which
\* messages entered the dispatcher's queue, each message once: the promise of
\* Broadcast::broadcast "to all receivers", with threads joining and dying at
\* any moment.
ImplementsTotalOrder == TO!Spec

=============================================================================
