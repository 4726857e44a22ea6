----------------------- MODULE BroadcastHistoryProofs -----------------------
(***************************************************************************)
(* The message bus implements TotalOrder, for any number of threads,       *)
(* messages and steps.                                                     *)
(*                                                                         *)
(* The mapping says where a thread stands in the log from the lengths of   *)
(* the queues alone.  That it then reads the right message needs to know   *)
(* what the queues hold: put one after the other, a running thread's queue *)
(* and the dispatcher's are the end of the log.  A dispatch keeps that     *)
(* only if it reaches every running thread, which is BusInv.               *)
(***************************************************************************)
EXTENDS BroadcastHistory, BroadcastProofs

\* How many messages the dispatcher has taken so far.
Dispatched == Len(published) - Len(thread_chan)

HistoryTypes ==
  /\ published \in Seq(Messages)
  /\ received \in [Conns -> Seq(Messages)]

\* The dispatcher's queue is the end of the log.
QueuedLast ==
  /\ Dispatched \in Nat
  /\ \A i \in 1 .. Len(thread_chan) : thread_chan[i] = published[Dispatched + i]

\* The queue of a thread is the run of the log that ends where the dispatcher
\* stands.
QueuedRun(c) ==
  /\ Dispatched - Len(channel[c]) \in Nat
  /\ \A i \in 1 .. Len(channel[c]) :
       channel[c][i] = published[Dispatched - Len(channel[c]) + i]

\* The inductive invariant: a thread that does not run has an empty queue.
HistoryInv ==
  /\ BusInv
  /\ HistoryTypes
  /\ QueuedLast
  /\ \A c \in Conns : receiver[c] = "live" => QueuedRun(c)
  /\ \A c \in Conns : receiver[c] # "live" => channel[c] = <<>>

OrderStep == [TO!Next]_(TO!vars)

\* Nothing was sent yet (HInit).
LEMMA HistoryInit == HInit => HistoryInv /\ TO!Init
<1> SUFFICES ASSUME HInit PROVE HistoryInv /\ TO!Init
  OBVIOUS
<1>1. BusInv
  BY BusInit DEF HInit
<1>2. HistoryTypes /\ QueuedLast
  BY DEF HInit, Init, HistoryTypes, QueuedLast, Dispatched
<1>3. \A c \in Conns : receiver[c] = "none" /\ channel[c] = <<>>
  BY DEF HInit, Init
<1>4. TO!Init
  BY <1>3 DEF HInit, TO!Init, NextOf
<1> QED
  BY <1>1, <1>2, <1>3, <1>4 DEF HistoryInv

\* The cursors, as one function, to compare them before and after a step.
Cursors == [c \in Conns |-> NextOf(c)]

\* Equal at each thread, equal as functions (NextOf).
LEMMA CursorsTyped ==
  /\ Cursors = [c \in Conns |-> Cursors[c]]
  /\ Cursors' = [c \in Conns |-> Cursors'[c]]
BY DEF Cursors

\* A message sent is published at the end of the log and of the queue.
LEMMA SendPublishes ==
  ASSUME HistoryInv, NEW m \in Messages, HSend(m)
  PROVE  HistoryInv' /\ OrderStep
<1>1. BusInv'
  BY SendKeeps DEF HistoryInv, HSend
<1>2. published \in Seq(Messages) /\ thread_chan \in Seq(Messages)
  BY DEF HistoryInv, HistoryTypes, BusInv, TypeOK
<1>3. published' = Append(published, m) /\ thread_chan' = Append(thread_chan, m)
  BY DEF HSend, Send
<1>4. Dispatched' = Dispatched
  BY <1>2, <1>3 DEF Dispatched
<1>5. \A i \in 1 .. Len(published) : published'[i] = published[i]
  BY <1>2, <1>3
<1>6. HistoryTypes'
  BY DEF HistoryInv, HistoryTypes, HSend
<1>7. QueuedLast'
  <2>1. QueuedLast
    BY DEF HistoryInv
  <2>2. Dispatched = Len(published) - Len(thread_chan)
    BY DEF Dispatched
  <2>3. ASSUME NEW i \in 1 .. Len(thread_chan')
        PROVE  thread_chan'[i] = published'[Dispatched + i]
    <3>1. CASE i = Len(thread_chan) + 1
      <4>1. Dispatched + i = Len(published) + 1
        BY <1>2, <2>2, <3>1
      <4> QED
        BY <1>2, <1>3, <3>1, <4>1
    <3>2. CASE i \in 1 .. Len(thread_chan)
      <4>1. Dispatched + i \in 1 .. Len(published)
        BY <1>2, <2>1, <2>2, <3>2 DEF QueuedLast
      <4>2. thread_chan'[i] = thread_chan[i]
        BY <1>2, <1>3, <3>2
      <4> QED
        BY <1>5, <2>1, <3>2, <4>1, <4>2 DEF QueuedLast
    <3>3. Len(thread_chan') = Len(thread_chan) + 1 /\ Len(thread_chan) \in Nat
      BY <1>2, <1>3
    <3> QED
      BY <2>3, <3>1, <3>2, <3>3
  <2> QED
    BY <1>4, <2>1, <2>3 DEF QueuedLast
<1>8. UNCHANGED <<channel, receiver, received>>
  BY DEF HSend, Send
<1>9. ASSUME NEW c \in Conns, receiver[c] = "live" PROVE QueuedRun(c)'
  <2>1. QueuedRun(c) /\ channel[c] \in Seq(Messages)
    BY <1>9 DEF HistoryInv, BusInv, TypeOK
  <2>2. Dispatched \in Nat /\ Dispatched <= Len(published)
    BY <1>2 DEF HistoryInv, QueuedLast, Dispatched
  <2>3. \A i \in 1 .. Len(channel[c]) :
          Dispatched - Len(channel[c]) + i \in 1 .. Len(published)
    BY <2>1, <2>2 DEF QueuedRun
  <2> QED
    BY <1>4, <1>5, <1>8, <2>1, <2>3 DEF QueuedRun
<1>10. Cursors' = Cursors
  <2>1. Len(published') - Len(thread_chan') = Len(published) - Len(thread_chan)
    BY <1>2, <1>3
  <2> QED
    BY <1>8, <2>1 DEF Cursors, NextOf
<1>11. TO!Publish(m)
  BY <1>3, <1>8, <1>10 DEF TO!Publish, Cursors
<1> QED
  BY <1>1, <1>6, <1>7, <1>8, <1>9, <1>11
     DEF HistoryInv, OrderStep, TO!Next

\* A thread that takes a message takes the next one of the log.
LEMMA TryRecvReads ==
  ASSUME HistoryInv, NEW c \in Conns, HTryRecv(c)
  PROVE  HistoryInv' /\ OrderStep
<1>1. BusInv'
  BY TryRecvKeeps DEF HistoryInv, HTryRecv
<1>2. /\ published \in Seq(Messages) /\ thread_chan \in Seq(Messages)
      /\ channel \in [Conns -> Seq(Messages)]
      /\ received \in [Conns -> Seq(Messages)]
  BY DEF HistoryInv, HistoryTypes, BusInv, TypeOK
<1>3. /\ receiver[c] = "live" /\ channel[c] # <<>>
      /\ channel' = [channel EXCEPT ![c] = Tail(@)]
      /\ UNCHANGED <<published, thread_chan, receiver>>
  BY DEF HTryRecv, TryRecv, Taken
<1>4. Dispatched' = Dispatched /\ QueuedLast'
  BY <1>3 DEF HistoryInv, QueuedLast, Dispatched
<1>5. /\ Len(Tail(channel[c])) = Len(channel[c]) - 1 /\ Len(channel[c]) \in Nat \ {0}
      /\ \A i \in 1 .. Len(channel[c]) - 1 : Tail(channel[c])[i] = channel[c][i + 1]
      /\ Head(channel[c]) = channel[c][1] /\ Head(channel[c]) \in Messages
  BY <1>2, <1>3
<1>6. QueuedRun(c) /\ Dispatched \in Nat /\ Dispatched <= Len(published)
  BY <1>2, <1>3 DEF HistoryInv, QueuedLast, Dispatched
<1>7. QueuedRun(c)'
  <2>1. channel'[c] = Tail(channel[c])
    BY <1>2, <1>3
  <2>2. Dispatched - (Len(channel[c]) - 1) \in Nat
    BY <1>5, <1>6 DEF QueuedRun
  <2>3. ASSUME NEW i \in 1 .. Len(channel[c]) - 1
        PROVE  channel'[c][i] = published[Dispatched - (Len(channel[c]) - 1) + i]
    <3>1. i + 1 \in 1 .. Len(channel[c])
      BY <1>5
    <3>2. Dispatched - Len(channel[c]) + (i + 1)
            = Dispatched - (Len(channel[c]) - 1) + i
      BY <1>5, <1>6
    <3> QED
      BY <1>5, <1>6, <2>1, <3>1, <3>2 DEF QueuedRun
  <2> QED
    BY <1>3, <1>4, <1>5, <2>1, <2>2, <2>3 DEF QueuedRun
<1>8. \A d \in Conns : receiver[d] = "live" => QueuedRun(d)'
  <2> SUFFICES ASSUME NEW d \in Conns, receiver[d] = "live", d # c
               PROVE  QueuedRun(d)'
    BY <1>7
  <2>1. channel'[d] = channel[d] /\ QueuedRun(d)
    BY <1>2, <1>3 DEF HistoryInv
  <2> QED
    BY <1>3, <1>4, <2>1 DEF QueuedRun
<1>9. HistoryTypes' /\ received' = [received EXCEPT ![c] = Append(@, channel[c][1])]
  BY <1>2, <1>3, <1>5 DEF HistoryTypes, HTryRecv
<1>10. /\ Cursors[c] \in 1 .. Len(published)
       /\ published[Cursors[c]] = channel[c][1]
  <2>1. Cursors[c] = Dispatched - Len(channel[c]) + 1
    BY <1>3 DEF Cursors, NextOf, Dispatched
  <2> QED
    BY <1>2, <1>5, <1>6, <2>1 DEF QueuedRun
<1>11. Cursors' = [Cursors EXCEPT ![c] = @ + 1]
  <2>1. Cursors[c] + 1 = Cursors'[c]
    <3>1. Len(channel'[c]) = Len(channel[c]) - 1
      BY <1>2, <1>3, <1>5
    <3> QED
      BY <1>2, <1>3, <1>5, <1>6, <3>1 DEF Cursors, NextOf, Dispatched
  <2>2. \A d \in Conns \ {c} : Cursors'[d] = Cursors[d]
    BY <1>2, <1>3 DEF Cursors, NextOf
  <2> QED
    BY <2>1, <2>2 DEF Cursors
<1>12. TO!Read(c)
  BY <1>3, <1>9, <1>10, <1>11 DEF TO!Read, Cursors
<1>13. \A d \in Conns : receiver[d] # "live" => channel'[d] = <<>>
  BY <1>2, <1>3 DEF HistoryInv
<1> QED
  BY <1>1, <1>3, <1>4, <1>8, <1>9, <1>12, <1>13
     DEF HistoryInv, OrderStep, TO!Next

\* The dispatcher moves the oldest queued message to the end of every running
\* thread's queue: nobody's place in the log changes.
LEMMA DispatchStutters ==
  ASSUME HistoryInv, Dispatch, UNCHANGED histVars
  PROVE  HistoryInv' /\ OrderStep
<1>1. BusInv'
  BY DispatchKeeps DEF HistoryInv
<1>2. /\ published \in Seq(Messages) /\ thread_chan \in Seq(Messages)
      /\ channel \in [Conns -> Seq(Messages)]
  BY DEF HistoryInv, HistoryTypes, BusInv, TypeOK
<1>3. /\ thread_chan # <<>> /\ thread_chan' = Tail(thread_chan)
      /\ UNCHANGED <<published, received, receiver>>
  BY DEF Dispatch, histVars
<1>4. /\ Len(thread_chan') = Len(thread_chan) - 1 /\ Len(thread_chan) \in Nat \ {0}
      /\ \A i \in 1 .. Len(thread_chan) - 1 : thread_chan'[i] = thread_chan[i + 1]
      /\ Head(thread_chan) = thread_chan[1]
  BY <1>2, <1>3
<1>5. /\ Dispatched' = Dispatched + 1 /\ Dispatched \in Nat
      /\ Dispatched = Len(published) - Len(thread_chan) /\ Len(published) \in Nat
  BY <1>2, <1>3, <1>4 DEF HistoryInv, QueuedLast, Dispatched
<1>6. Head(thread_chan) = published[Dispatched + 1]
  BY <1>4 DEF HistoryInv, QueuedLast
<1>7. QueuedLast'
  <2> SUFFICES ASSUME NEW i \in 1 .. Len(thread_chan) - 1
               PROVE  thread_chan'[i] = published[Dispatched + 1 + i]
    BY <1>3, <1>4, <1>5 DEF QueuedLast
  <2>1. i + 1 \in 1 .. Len(thread_chan) /\ Dispatched + (i + 1) = Dispatched + 1 + i
    BY <1>4, <1>5
  <2> QED
    BY <1>4, <2>1 DEF HistoryInv, QueuedLast
<1>8. ASSUME NEW d \in Conns, receiver[d] = "live"
      PROVE  /\ channel'[d] = Append(channel[d], Head(thread_chan))
             /\ QueuedRun(d)' /\ NextOf(d)' = NextOf(d)
  <2>1. PICK s \in senders : s.conn = d
    BY <1>8 DEF HistoryInv, BusInv, LiveSubscribed
  <2>2. channel'[d] = Append(channel[d], Head(thread_chan))
    BY <1>8, <2>1 DEF Dispatch, Deliver, Alive
  <2>3. /\ Len(channel'[d]) = Len(channel[d]) + 1 /\ Len(channel[d]) \in Nat
        /\ \A i \in 1 .. Len(channel[d]) : channel'[d][i] = channel[d][i]
        /\ channel'[d][Len(channel[d]) + 1] = Head(thread_chan)
    BY <1>2, <2>2
  <2>4. QueuedRun(d)
    BY <1>8 DEF HistoryInv
  <2>5. NextOf(d)' = NextOf(d)
    BY <1>3, <1>4, <1>5, <1>8, <2>3 DEF NextOf
  <2>6. (Dispatched + 1) - (Len(channel[d]) + 1) = Dispatched - Len(channel[d])
    BY <1>5, <2>3
  <2>7. QueuedRun(d)'
    <3> SUFFICES ASSUME NEW i \in 1 .. Len(channel[d]) + 1
                 PROVE  channel'[d][i] = published[Dispatched - Len(channel[d]) + i]
      BY <1>3, <1>5, <2>3, <2>4, <2>6 DEF QueuedRun
    <3>1. CASE i = Len(channel[d]) + 1
      <4>1. Dispatched \in Nat /\ Len(channel[d]) \in Nat
        BY <1>5, <2>3
      <4>2. Dispatched - Len(channel[d]) + i = Dispatched + 1
        <5> HIDE DEF Dispatched
        <5> DEFINE n == Len(channel[d])
        <5>1. n \in Nat /\ i = n + 1
          BY <3>1, <4>1
        <5> HIDE DEF n
        <5>2. Dispatched - n + i = Dispatched + 1
          BY <4>1, <5>1
        <5> QED
          BY <5>2 DEF n
      <4> QED
        BY <1>6, <2>3, <3>1, <4>2
    <3>2. CASE i \in 1 .. Len(channel[d])
      BY <2>3, <2>4, <3>2 DEF QueuedRun
    <3> QED
      BY <2>3, <3>1, <3>2
  <2> QED
    BY <2>2, <2>5, <2>7
<1>9. ASSUME NEW d \in Conns, receiver[d] # "live"
      PROVE  channel'[d] = <<>> /\ NextOf(d)' = NextOf(d)
  <2>1. channel'[d] = channel[d]
    BY <1>9 DEF Dispatch, Deliver, Alive
  <2> QED
    BY <1>3, <1>9, <2>1 DEF HistoryInv, NextOf
<1>10. UNCHANGED TO!vars
  BY <1>3, <1>8, <1>9 DEF TO!vars
<1> QED
  BY <1>1, <1>3, <1>7, <1>8, <1>9, <1>10
     DEF HistoryInv, HistoryTypes, OrderStep

\* A new thread starts with an empty queue, where the dispatcher stands.
LEMMA SubscribeJoins ==
  ASSUME HistoryInv, NEW c \in Conns, Subscribe(c), UNCHANGED histVars
  PROVE  HistoryInv' /\ OrderStep
<1>1. BusInv'
  BY SubscribeKeeps DEF HistoryInv
<1>2. /\ published \in Seq(Messages) /\ thread_chan \in Seq(Messages)
      /\ receiver \in [Conns -> {"none", "live", "dropped"}]
  BY DEF HistoryInv, HistoryTypes, BusInv, TypeOK
<1>3. /\ receiver[c] = "none" /\ receiver' = [receiver EXCEPT ![c] = "live"]
      /\ channel[c] = <<>> /\ UNCHANGED <<published, received, thread_chan, channel>>
  BY DEF HistoryInv, Subscribe, histVars
<1>4. Dispatched' = Dispatched /\ Dispatched \in 0 .. Len(published) /\ QueuedLast'
  BY <1>2, <1>3 DEF HistoryInv, QueuedLast, Dispatched
<1>5. QueuedRun(c)'
  <2>1. channel'[c] = <<>> /\ Len(<<>>) = 0 /\ Dispatched - 0 \in Nat
    BY <1>2, <1>3, <1>4
  <2> QED
    BY <1>4, <2>1 DEF QueuedRun
<1>6. \A d \in Conns \ {c} : /\ receiver'[d] = receiver[d]
                            /\ QueuedRun(d) => QueuedRun(d)'
  BY <1>2, <1>3, <1>4 DEF QueuedRun
<1>7. NextOf(c) = 0 /\ NextOf(c)' = Dispatched + 1
  <2>1. /\ receiver'[c] = "live" /\ channel'[c] = <<>> /\ Len(<<>>) = 0
        /\ Dispatched - 0 + 1 = Dispatched + 1
    BY <1>2, <1>3, <1>4
  <2> QED
    BY <1>3, <1>4, <2>1 DEF NextOf, Dispatched
<1>8. Cursors' = [Cursors EXCEPT ![c] = Dispatched + 1]
  <2>1. Cursors'[c] = Dispatched + 1
    BY <1>7 DEF Cursors
  <2>2. \A d \in Conns \ {c} : Cursors'[d] = Cursors[d]
    BY <1>2, <1>3 DEF Cursors, NextOf
  <2> QED
    BY <2>1, <2>2, CursorsTyped
<1>9. Dispatched + 1 \in 1 .. Len(published) + 1
  BY <1>2, <1>4
<1>10. TO!Join(c)
  BY <1>3, <1>7, <1>8, <1>9 DEF TO!Join, Cursors
<1> QED
  BY <1>1, <1>2, <1>3, <1>4, <1>5, <1>6, <1>10
     DEF HistoryInv, HistoryTypes, OrderStep, TO!Next

\* A thread that ends reads nothing more.
LEMMA DropLeaves ==
  ASSUME HistoryInv, NEW c \in Conns, DropReceiver(c), UNCHANGED histVars
  PROVE  HistoryInv' /\ OrderStep
<1>1. BusInv'
  BY DropReceiverKeeps DEF HistoryInv
<1>2. /\ published \in Seq(Messages) /\ thread_chan \in Seq(Messages)
      /\ receiver \in [Conns -> {"none", "live", "dropped"}]
      /\ channel \in [Conns -> Seq(Messages)]
  BY DEF HistoryInv, HistoryTypes, BusInv, TypeOK
<1>3. /\ receiver[c] = "live" /\ receiver' = [receiver EXCEPT ![c] = "dropped"]
      /\ channel' = [channel EXCEPT ![c] = <<>>]
      /\ UNCHANGED <<published, received, thread_chan>>
  BY DEF DropReceiver, histVars
<1>4. Dispatched' = Dispatched /\ QueuedLast'
  BY <1>3 DEF HistoryInv, QueuedLast, Dispatched
<1>5. \A d \in Conns \ {c} : /\ receiver'[d] = receiver[d]
                            /\ channel'[d] = channel[d]
                            /\ QueuedRun(d) => QueuedRun(d)'
  <2> SUFFICES ASSUME NEW d \in Conns \ {c}
               PROVE  /\ receiver'[d] = receiver[d]
                      /\ channel'[d] = channel[d]
                      /\ QueuedRun(d) => QueuedRun(d)'
    OBVIOUS
  <2>1. receiver'[d] = receiver[d] /\ channel'[d] = channel[d]
    BY <1>2, <1>3
  <2> QED
    BY <1>3, <1>4, <2>1 DEF QueuedRun
<1>6. receiver'[c] = "dropped" /\ channel'[c] = <<>> /\ NextOf(c)' = -1
  BY <1>2, <1>3 DEF NextOf
<1>7. NextOf(c) > 0
  <2>1. QueuedRun(c)
    BY <1>3 DEF HistoryInv
  <2> QED
    BY <1>2, <1>3, <2>1 DEF QueuedRun, NextOf, Dispatched
<1>8. Cursors' = [Cursors EXCEPT ![c] = -1]
  <2>1. Cursors'[c] = -1
    BY <1>6 DEF Cursors
  <2>2. \A d \in Conns \ {c} : Cursors'[d] = Cursors[d]
    BY <1>2, <1>3 DEF Cursors, NextOf
  <2> QED
    BY <2>1, <2>2, CursorsTyped
<1>9. TO!Leave(c)
  BY <1>3, <1>7, <1>8 DEF TO!Leave, Cursors
<1> QED
  BY <1>1, <1>3, <1>4, <1>5, <1>6, <1>9
     DEF HistoryInv, HistoryTypes, OrderStep, TO!Next

\* Every step keeps the invariant and is one step of the log, or none.
LEMMA HistoryStep == HistoryInv /\ [HNext]_vars => HistoryInv' /\ OrderStep
<1> SUFFICES ASSUME HistoryInv, [HNext]_vars PROVE HistoryInv' /\ OrderStep
  OBVIOUS
<1>1. CASE UNCHANGED vars
  <2>1. BusInv'
    BY <1>1, BusStep DEF HistoryInv, vars, busVars
  <2> QED
    BY <1>1, <2>1 DEF vars, HistoryInv, HistoryTypes, QueuedLast, QueuedRun,
                      Dispatched, OrderStep, TO!vars, NextOf
<1>2. CASE HNext
  BY <1>2, SendPublishes, TryRecvReads, DispatchStutters, SubscribeJoins,
     DropLeaves DEF HNext
<1> QED
  BY <1>1, <1>2

\* What the queues hold, in every reachable state.
THEOREM HistoryInvariant == HSpec => []HistoryInv
BY HistoryInit, HistoryStep, PTL DEF HSpec

\* Every running thread reads a gap-free run of the one order in which messages
\* entered the dispatcher's queue, each once (ImplementsTotalOrder), for any
\* number of threads, whoever joins and dies (Broadcast::broadcast).
THEOREM BusIsTotalOrder == HSpec => ImplementsTotalOrder
<1>1. HistoryInv /\ [HNext]_vars => [TO!Next]_(TO!vars)
  BY HistoryStep DEF OrderStep
<1> QED
  BY <1>1, HistoryInit, HistoryInvariant, PTL
     DEF HSpec, ImplementsTotalOrder, TO!Spec

=============================================================================
