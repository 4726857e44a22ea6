--------------------------- MODULE BroadcastProofs ---------------------------
(***************************************************************************)
(* The message bus keeps every running thread subscribed, for any number   *)
(* of threads and messages.                                                *)
(*                                                                         *)
(* LiveSubscribed is not inductive by itself: a broadcast unsubscribes by  *)
(* channel id, and would cut off a running thread that shared its id with  *)
(* a dead one.  UniqueChannelIds excludes that; it holds because a new id  *)
(* is larger than the others, which needs them to be bounded.              *)
(***************************************************************************)
EXTENDS Broadcast, IdsProofs

\* The inductive invariant.
BusInv ==
  /\ TypeOK
  /\ UniqueChannelIds
  /\ LiveSubscribed
  /\ Bounded(ChannelIds)

\* Channel ids are naturals, as NextIdIsNew asks (ChannelIds).
LEMMA ChannelIdsAreNat == TypeOK => ChannelIds \in SUBSET Nat
BY DEF TypeOK, ChannelIds

\* No channel, no thread (Init).
LEMMA BusInit == Init => BusInv
<1> SUFFICES ASSUME Init PROVE BusInv
  OBVIOUS
<1>1. TypeOK
  BY DEF Init, TypeOK
<1>2. Bounded(ChannelIds)
  <2>1. ChannelIds = {}
    BY DEF Init, ChannelIds
  <2> QED
    BY <2>1 DEF Bounded
<1> QED
  BY <1>1, <1>2 DEF Init, BusInv, UniqueChannelIds, LiveSubscribed

\* A step that leaves senders and receiver alone has only the queues to type.
LEMMA QueuesOnly ==
  ASSUME BusInv, TypeOK', UNCHANGED <<senders, receiver>>
  PROVE  BusInv'
BY DEF BusInv, UniqueChannelIds, LiveSubscribed, ChannelIds

\* thread_send.send touches the dispatcher's queue alone.
LEMMA SendKeeps ==
  ASSUME BusInv, NEW m \in Messages, Send(m)
  PROVE  BusInv'
<1>1. TypeOK'
  BY DEF BusInv, TypeOK, Send
<1> QED
  BY <1>1, QueuesOnly DEF Send

\* thread_recv.try_recv touches the thread's own queue alone.
LEMMA TryRecvKeeps ==
  ASSUME BusInv, NEW c \in Conns, TryRecv(c)
  PROVE  BusInv'
<1>1. channel[c] \in Seq(Messages) /\ channel[c] # <<>>
  BY DEF BusInv, TypeOK, TryRecv
<1>2. Tail(channel[c]) \in Seq(Messages)
  BY <1>1
<1>3. TypeOK'
  BY <1>2 DEF BusInv, TypeOK, TryRecv, Taken
<1> QED
  BY <1>3, QueuesOnly DEF TryRecv

\* subscribe adds a channel whose id is above the others.
LEMMA SubscribeKeeps ==
  ASSUME BusInv, NEW c \in Conns, Subscribe(c)
  PROVE  BusInv'
<1> DEFINE new == [conn |-> c, id |-> FreshChannelId]
<1>1. ChannelIds \in SUBSET Nat /\ Bounded(ChannelIds)
  BY ChannelIdsAreNat DEF BusInv
<1>2. FreshChannelId \in Nat /\ FreshChannelId \notin ChannelIds
  BY <1>1, NextIdIsNew DEF FreshChannelId
<1>3. senders' = senders \cup {new}
  BY DEF Subscribe
<1>4. TypeOK'
  BY <1>2 DEF BusInv, TypeOK, Subscribe
<1>5. UniqueChannelIds'
  BY <1>2, <1>3 DEF BusInv, UniqueChannelIds, ChannelIds
<1>6. LiveSubscribed'
  <2> SUFFICES ASSUME NEW d \in Conns, receiver'[d] = "live"
               PROVE  \E s \in senders' : s.conn = d
    BY DEF LiveSubscribed
  <2>1. CASE d = c
    <3>1. new \in senders' /\ new.conn = c
      BY <1>3
    <3> QED
      BY <2>1, <3>1
  <2>2. CASE d # c
    BY <2>2, <1>3 DEF BusInv, TypeOK, LiveSubscribed, Subscribe
  <2> QED
    BY <2>1, <2>2
<1>7. ChannelIds' = ChannelIds \cup {FreshChannelId}
  <2>1. new.id = FreshChannelId
    OBVIOUS
  <2> HIDE DEF new
  <2> QED
    BY <1>3, <2>1 DEF ChannelIds
<1>8. Bounded(ChannelIds)'
  BY <1>1, <1>2, <1>7, BoundedAdd DEF Bounded
<1> QED
  BY <1>4, <1>5, <1>6, <1>8 DEF BusInv

\* The dispatcher removes the dead senders and no others: the id of a live one
\* is not the id of a dead one.
LEMMA DispatchKeeps ==
  ASSUME BusInv, Dispatch
  PROVE  BusInv'
<1> DEFINE dead == {t \in senders : ~Alive(t)}
<1>1. senders' = {s \in senders : s.id \notin {t.id : t \in dead}}
  BY DEF Dispatch, Unsubscribed
<1>2. TypeOK'
  <2>1. thread_chan' \in Seq(Messages)
    BY DEF BusInv, TypeOK, Dispatch
  <2>2. Head(thread_chan) \in Messages
    BY DEF BusInv, TypeOK, Dispatch
  <2>3. channel' \in [Conns -> Seq(Messages)]
    BY <2>2 DEF BusInv, TypeOK, Dispatch, Deliver
  <2> QED
    BY <1>1, <2>1, <2>3 DEF BusInv, TypeOK, Dispatch
<1>3. UniqueChannelIds'
  BY <1>1 DEF BusInv, UniqueChannelIds
<1>4. LiveSubscribed'
  <2> SUFFICES ASSUME NEW c \in Conns, receiver[c] = "live"
               PROVE  \E s \in senders' : s.conn = c
    BY DEF LiveSubscribed, Dispatch
  <2>1. PICK s \in senders : s.conn = c
    BY DEF BusInv, LiveSubscribed
  <2>2. \A t \in dead : t.id # s.id
    <3> SUFFICES ASSUME NEW t \in dead, t.id = s.id PROVE FALSE
      OBVIOUS
    <3>1. t = s
      BY <2>1 DEF BusInv, UniqueChannelIds
    <3> QED
      BY <2>1, <3>1 DEF Alive
  <2> QED
    BY <1>1, <2>1, <2>2
<1>5. Bounded(ChannelIds)'
  <2>1. ChannelIds' \in SUBSET ChannelIds
    BY <1>1 DEF ChannelIds
  <2> QED
    BY <2>1, BoundedSubset DEF BusInv, Bounded
<1> QED
  BY <1>2, <1>3, <1>4, <1>5 DEF BusInv

\* A thread that ends is no longer live, and its sender stays.
LEMMA DropReceiverKeeps ==
  ASSUME BusInv, NEW c \in Conns, DropReceiver(c)
  PROVE  BusInv'
<1>1. TypeOK'
  BY DEF BusInv, TypeOK, DropReceiver
<1>2. LiveSubscribed'
  BY DEF BusInv, TypeOK, LiveSubscribed, DropReceiver
<1> QED
  BY <1>1, <1>2 DEF BusInv, UniqueChannelIds, ChannelIds, DropReceiver

\* Every step of the bus keeps the invariant.
LEMMA BusStep == BusInv /\ [Next]_busVars => BusInv'
<1> SUFFICES ASSUME BusInv, [Next]_busVars PROVE BusInv'
  OBVIOUS
<1>1. ASSUME NEW m \in Messages, Send(m) PROVE BusInv'
  BY <1>1, SendKeeps
<1>2. CASE Dispatch
  BY <1>2, DispatchKeeps
<1>3. ASSUME NEW c \in Conns, Subscribe(c) PROVE BusInv'
  BY <1>3, SubscribeKeeps
<1>4. ASSUME NEW c \in Conns, TryRecv(c) PROVE BusInv'
  BY <1>4, TryRecvKeeps
<1>5. ASSUME NEW c \in Conns, DropReceiver(c) PROVE BusInv'
  BY <1>5, DropReceiverKeeps
<1>6. CASE UNCHANGED busVars
  BY <1>6 DEF busVars, BusInv, TypeOK, UniqueChannelIds, LiveSubscribed,
              ChannelIds
<1> QED
  BY <1>1, <1>2, <1>3, <1>4, <1>5, <1>6 DEF Next

\* The invariant holds throughout (Broadcast, the mpsc channels).
THEOREM BusInvariant == Spec => []BusInv
BY BusInit, BusStep, PTL DEF Spec

\* The types of the bus (TypeOK).
THEOREM BusTypes == Spec => []TypeOK
BY BusInvariant, PTL DEF BusInv

\* No two subscriptions share a channel id: subscribe gives out an id above all
\* those in use (UniqueChannelIds).
THEOREM ChannelIdsUnique == Spec => []UniqueChannelIds
BY BusInvariant, PTL DEF BusInv

\* A running thread stays subscribed, whoever joins and dies, so its try_recv
\* never answers Disconnected (LiveSubscribed).
THEOREM RunningThreadsSubscribed == Spec => []LiveSubscribed
BY BusInvariant, PTL DEF BusInv

=============================================================================
