----------------------------- MODULE Broadcast -----------------------------
(***************************************************************************)
(* The message bus of the server: the one mpsc channel from every          *)
(* connection thread to the dispatcher (thread_chan), the Broadcast struct *)
(* behind its RwLock (senders), and one mpsc channel per connection thread *)
(* (channel) whose Receiver the thread owns from its subscription until it *)
(* returns (receiver).                                                     *)
(*                                                                         *)
(* std::sync::mpsc channels are unbounded FIFO queues; a send fails only   *)
(* when the Receiver is gone.  Each operation that touches senders holds   *)
(* the write lock of the Broadcast for its whole length, so it is one step.*)
(* The Vec of senders is a set: its order decides only the order in which  *)
(* one locked broadcast visits the channels.                               *)
(***************************************************************************)
EXTENDS Ids, Sequences

CONSTANTS
  Conns,      \* connections, one thread and at most one subscription each
  Messages    \* what travels: (u64, BinaryMessage) pairs

VARIABLES
  thread_chan,  \* queue from the connection threads to the dispatcher
  senders,      \* Broadcast.senders: the (Sender, channel id) pairs
  channel,      \* channel[c]: queue from the dispatcher to thread c
  receiver      \* receiver[c]: whether thread c owns its Receiver

busVars == <<thread_chan, senders, channel, receiver>>

TypeOK ==
  /\ thread_chan \in Seq(Messages)
  /\ senders \subseteq [conn : Conns, id : Nat]
  /\ channel \in [Conns -> Seq(Messages)]
  /\ receiver \in [Conns -> {"none", "live", "dropped"}]

Init ==
  /\ thread_chan = <<>>
  /\ senders = {}
  /\ channel = [c \in Conns |-> <<>>]
  /\ receiver = [c \in Conns |-> "none"]

-----------------------------------------------------------------------------


ChannelIds == {s.id : s \in senders}

\* The id of a new channel, and a mistake: the length of the Vec, which is an id
\* in use after somebody before the last has left.
FreshChannelIdByLength == Cardinality(senders) + 1
FreshChannelId == NextId(ChannelIds)

Subscribe(c) ==
  /\ receiver[c] = "none"
  /\ senders' = senders \cup {[conn |-> c, id |-> FreshChannelId]}
  /\ receiver' = [receiver EXCEPT ![c] = "live"]
  /\ UNCHANGED <<thread_chan, channel>>

\* thread_send.send(message): never blocks, and never fails while the
\* dispatcher, which loops forever, owns the receiving end.
Send(m) ==
  /\ thread_chan' = Append(thread_chan, m)
  /\ UNCHANGED <<senders, channel, receiver>>

Alive(s) == receiver[s.conn] = "live"

\* unsubscribe(channels_to_remove): retain drops every pair with such an id.
Unsubscribed(ids) == {s \in senders : s.id \notin ids}

\* Two mistakes (only the first channel gets the message; it jumps the queue),
\* then the delivery to every channel whose Receiver is alive.
DeliverToFirst(m) ==
  LET to == {s \in senders : Alive(s) /\ \A t \in senders : s.id <= t.id} IN
  [c \in Conns |-> IF \E s \in to : s.conn = c THEN Append(channel[c], m)
                                               ELSE channel[c]]

DeliverAtFront(m) ==
  [c \in Conns |-> IF \E s \in senders : s.conn = c /\ Alive(s)
                   THEN <<m>> \o channel[c] ELSE channel[c]]

Deliver(m) ==
  [c \in Conns |-> IF \E s \in senders : s.conn = c /\ Alive(s)
                   THEN Append(channel[c], m) ELSE channel[c]]

\* The dispatcher takes one message and broadcasts it: every channel whose
\* Receiver is alive gets it, the channels whose send failed are unsubscribed.
Dispatch ==
  /\ thread_chan # <<>>
  /\ thread_chan' = Tail(thread_chan)
  /\ channel' = Deliver(Head(thread_chan))
  /\ senders' = Unsubscribed({s.id : s \in {t \in senders : ~Alive(t)}})
  /\ UNCHANGED receiver

\* The queue after its oldest message was taken.
Taken(queue) == Tail(queue)

\* thread_recv.try_recv(), the case Ok: the thread takes its oldest message.
TryRecv(c) ==
  /\ receiver[c] = "live"
  /\ channel[c] # <<>>
  /\ channel' = [channel EXCEPT ![c] = Taken(@)]
  /\ UNCHANGED <<thread_chan, senders, receiver>>

\* try_recv() would answer Disconnected: the queue is empty and its Sender gone.
Disconnected(c) ==
  /\ receiver[c] = "live"
  /\ channel[c] = <<>>
  /\ \A s \in senders : s.conn # c

\* The thread returns or unwinds: its Receiver and what it holds are dropped.
\* The Sender stays in senders until a broadcast fails on it.
DropReceiver(c) ==
  /\ receiver[c] = "live"
  /\ receiver' = [receiver EXCEPT ![c] = "dropped"]
  /\ channel' = [channel EXCEPT ![c] = <<>>]
  /\ UNCHANGED <<thread_chan, senders>>

Next ==
  \/ \E m \in Messages : Send(m)
  \/ Dispatch
  \/ \E c \in Conns : Subscribe(c) \/ TryRecv(c) \/ DropReceiver(c)

Spec == Init /\ [][Next]_busVars

-----------------------------------------------------------------------------

\* No two subscriptions share a channel id.  unsubscribe removes by id, so a
\* shared id would let the death of one thread cut another one off.
UniqueChannelIds == \A s, t \in senders : s.id = t.id => s = t

\* A thread that owns its Receiver is subscribed: the dispatcher never loses a
\* running connection, and try_recv never answers Disconnected to it, however
\* other threads come and go (server_process.rs:56-61 is never taken).
LiveSubscribed ==
  \A c \in Conns : receiver[c] = "live" => \E s \in senders : s.conn = c

=============================================================================
