--------------------------- MODULE ServerDelivery ---------------------------
(***************************************************************************)
(* The server with a count of the invitations that each session took, to   *)
(* say of an invitation that it arrives, not that one like it does.        *)
(***************************************************************************)
EXTENDS ServerCorrectness

VARIABLE invited   \* history: invited[c]: the invitations that thread c took

deliveryVars == <<vars, invited>>

Invitation(c) == <<local_id[c], "REQUESTEDGAME">>

TakesInvitation(c) == Takes(c) /\ Head(channel[c]) = Invitation(c)

DeliveryInit == Init /\ invited = [c \in Conns |-> 0]

DeliveryNext ==
  /\ Next
  /\ invited' = [c \in Conns |-> invited[c] + IF TakesInvitation(c) THEN 1 ELSE 0]

DeliverySpec == DeliveryInit /\ [][DeliveryNext]_deliveryVars /\ Fairness

-----------------------------------------------------------------------------

Times(message, queue) == Cardinality({i \in DOMAIN queue : queue[i] = message})

\* The invitations on their way to session c: of games whose host has yet to send
\* it, in the dispatcher's queue, and in the channel of c.
Pending(c) ==
  Cardinality({d \in Conns : pc[d] = "notify" /\ opponent_id[d] = local_id[c]})
    + Times(Invitation(c), thread_chan) + Times(Invitation(c), channel[c])

\* Every game that was started is announced: each invitation for the id of a
\* session, the one its host has yet to send included, is taken by that session,
\* whatever is sent meanwhile, unless the session ends first or some thread is
\* blocked for ever inside the lock (StartGame sends after it has released it).
InvitationsArrive ==
  \A c \in Conns, n \in 1 .. MaxRequests :
    Session(c) /\ invited[c] + Pending(c) >= n
      ~> invited[c] >= n \/ pc[c] \in Ended \/ Stuck

=============================================================================
