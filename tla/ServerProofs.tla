---------------------------- MODULE ServerProofs ----------------------------
(***************************************************************************)
(* Who holds which user id, for any number of connections and requests.    *)
(*                                                                         *)
(* SessionsDistinct and RegisteredHasThread are both about the three       *)
(* variables connected_users, local_id and pc, and about how often a       *)
(* response was lost.  Together they are inductive once it is known that a *)
(* thread before its login has the id 0, which nobody registers, and that  *)
(* the registered ids are bounded, so that add_user makes a new one.       *)
(***************************************************************************)
EXTENDS ServerCorrectness, IdsProofs

SessionPoints == {"greet", "recv", "read", "notify", "reply", "leaving",
                  "blocked"}

\* The exits that leave the user registered.
LeftBehind == {"dropped", "panicked", "disconnected"}

IdTypes ==
  /\ connected_users \in SUBSET Nat
  /\ pc \in [Conns -> Points]
  /\ local_id \in [Conns -> Nat]
  /\ write_failed \subseteq Conns

\* 0 is the id of the threads that have none.
ZeroIsNobody ==
  /\ 0 \notin connected_users
  /\ \A c \in Conns : pc[c] \in {"idle", "login"} => local_id[c] = 0

\* The inductive invariant.
IdInv ==
  /\ IdTypes
  /\ Bounded(connected_users)
  /\ ZeroIsNobody
  /\ SessionsDistinct
  /\ RegisteredHasThread

idVars == <<connected_users, pc, local_id, write_failed>>

-----------------------------------------------------------------------------

\* The points of the threads that have a user id (client_connection).
LEMMA SessionIs ==
  ASSUME NEW c \in Conns, pc \in [Conns -> Points]
  PROVE  Session(c) <=> pc[c] \in SessionPoints
BY DEF Session, Points, Ended, SessionPoints

\* Nobody is connected at the start.
LEMMA IdInit == Init => IdInv
<1> SUFFICES ASSUME Init PROVE IdInv
  OBVIOUS
<1>1. IdTypes
  BY DEF Init, IdTypes, Points
<1>2. Bounded(connected_users)
  BY DEF Init, Bounded
<1>3. \A c \in Conns : ~Session(c)
  BY DEF Init, Session
<1> QED
  BY <1>1, <1>2, <1>3
     DEF Init, IdInv, ZeroIsNobody, SessionsDistinct, RegisteredHasThread

\* A step that touches none of these variables keeps the invariant.
LEMMA IdStutter ==
  ASSUME IdInv, UNCHANGED idVars
  PROVE  IdInv'
BY DEF IdInv, idVars, IdTypes, Bounded, ZeroIsNobody, SessionsDistinct,
       RegisteredHasThread, Session

\* A session that moves to another point, or leaves by an exit that does not
\* unregister it, changes nobody's id.
LEMMA SessionMoves ==
  ASSUME IdInv, NEW c \in Conns, NEW point \in SessionPoints \cup LeftBehind,
         pc[c] \in SessionPoints, Goto(c, point),
         UNCHANGED <<connected_users, local_id, write_failed>>
  PROVE  IdInv'
<1>1. pc \in [Conns -> Points] /\ pc' \in [Conns -> Points]
  BY DEF IdInv, IdTypes, Goto, Points, Ended, SessionPoints, LeftBehind
<1>2. pc'[c] = point /\ \A d \in Conns : d # c => pc'[d] = pc[d]
  BY DEF IdInv, IdTypes, Goto
<1>3. \A d \in Conns : Session(d)' => Session(d)
  BY <1>1, <1>2 DEF Session, Points, Ended, SessionPoints, LeftBehind
<1>4. IdTypes' /\ Bounded(connected_users)'
  BY <1>1 DEF IdInv, IdTypes, Bounded
<1>5. ZeroIsNobody'
  BY <1>2 DEF IdInv, ZeroIsNobody, SessionPoints, LeftBehind
<1>6. SessionsDistinct'
  BY <1>3 DEF IdInv, SessionsDistinct
<1>7. RegisteredHasThread'
  <2> SUFFICES ASSUME NEW id \in connected_users
               PROVE  \E d \in Conns : /\ local_id[d] = id
                                       /\ Session(d)' \/ pc'[d] \in LeftBehind
    BY DEF RegisteredHasThread, LeftBehind
  <2>1. PICK d \in Conns : /\ local_id[d] = id
                           /\ Session(d) \/ pc[d] \in LeftBehind
    BY DEF IdInv, RegisteredHasThread, LeftBehind
  <2>2. Session(d)' \/ pc'[d] \in LeftBehind
    BY <1>1, <1>2, <2>1 DEF Session, Points, Ended, SessionPoints, LeftBehind
  <2> QED
    BY <2>1, <2>2
<1> QED
  BY <1>4, <1>5, <1>6, <1>7 DEF IdInv

\* A thread that has no id yet moves, or ends, and leaves nobody.
LEMMA NewcomerMoves ==
  ASSUME IdInv, NEW c \in Conns, NEW point \in {"login"} \cup Ended,
         pc[c] \in {"idle", "login"}, Goto(c, point),
         UNCHANGED <<connected_users, local_id, write_failed>>
  PROVE  IdInv'
<1>1. pc \in [Conns -> Points] /\ pc' \in [Conns -> Points]
  BY DEF IdInv, IdTypes, Goto, Points
<1>2. pc'[c] = point /\ \A d \in Conns : d # c => pc'[d] = pc[d]
  BY DEF IdInv, IdTypes, Goto
<1>3. \A d \in Conns : Session(d)' <=> Session(d)
  BY <1>1, <1>2 DEF Session, Points, Ended
<1>4. IdTypes' /\ Bounded(connected_users)'
  BY <1>1 DEF IdInv, IdTypes, Bounded
<1>5. ZeroIsNobody'
  BY <1>2 DEF IdInv, ZeroIsNobody, Ended
<1>6. SessionsDistinct'
  BY <1>3 DEF IdInv, SessionsDistinct
<1>7. RegisteredHasThread'
  <2> SUFFICES ASSUME NEW id \in connected_users
               PROVE  \E d \in Conns : /\ local_id[d] = id
                                       /\ Session(d)' \/ pc'[d] \in LeftBehind
    BY DEF RegisteredHasThread, LeftBehind
  <2>1. PICK d \in Conns : /\ local_id[d] = id
                           /\ Session(d) \/ pc[d] \in LeftBehind
    BY DEF IdInv, RegisteredHasThread, LeftBehind
  <2>2. d # c
    BY <2>1 DEF Session, LeftBehind
  <2> QED
    BY <1>2, <1>3, <2>1, <2>2
<1> QED
  BY <1>4, <1>5, <1>6, <1>7 DEF IdInv

\* A response that cannot be written drops the user of its thread, which goes
\* on: from then on SessionsDistinct promises nothing.
LEMMA ResponseLost ==
  ASSUME IdInv, NEW c \in Conns, NEW point \in SessionPoints,
         pc[c] \in SessionPoints, Goto(c, point), UNCHANGED local_id,
         connected_users' = DropUser(local_id[c]),
         write_failed' = write_failed \cup {c}
  PROVE  IdInv'
<1>1. pc \in [Conns -> Points] /\ pc' \in [Conns -> Points]
  BY DEF IdInv, IdTypes, Goto, Points, Ended, SessionPoints
<1>2. pc'[c] = point /\ \A d \in Conns : d # c => pc'[d] = pc[d]
  BY DEF IdInv, IdTypes, Goto
<1>3. \A d \in Conns : Session(d)' <=> Session(d)
  BY <1>1, <1>2 DEF Session, Points, Ended, SessionPoints
<1>4. connected_users' \in SUBSET connected_users
  BY DEF DropUser
<1>5. IdTypes' /\ Bounded(connected_users)'
  BY <1>1, <1>4 DEF IdInv, IdTypes, Bounded
<1>6. ZeroIsNobody'
  BY <1>2, <1>4 DEF IdInv, ZeroIsNobody, SessionPoints
<1>7. SessionsDistinct'
  BY DEF SessionsDistinct
<1>8. RegisteredHasThread'
  <2> SUFFICES ASSUME NEW id \in connected_users'
               PROVE  \E d \in Conns : /\ local_id[d] = id
                                       /\ Session(d)' \/ pc'[d] \in LeftBehind
    BY DEF RegisteredHasThread, LeftBehind
  <2>1. PICK d \in Conns : /\ local_id[d] = id
                           /\ Session(d) \/ pc[d] \in LeftBehind
    BY <1>4 DEF IdInv, RegisteredHasThread, LeftBehind
  <2> QED
    BY <1>2, <1>3, <2>1 DEF SessionPoints, LeftBehind
<1> QED
  BY <1>5, <1>6, <1>7, <1>8 DEF IdInv

\* add_user registers an id above all others; its thread becomes a session.
LEMMA LoginKeeps ==
  ASSUME IdInv, NEW c \in Conns, Login(c)
  PROVE  IdInv'
<1> DEFINE id == AddedUser(connected_users)
<1>1. id \in Nat \ {0} /\ id \notin connected_users
  BY NextIdIsNew DEF AddedUser, IdInv, IdTypes
<1>2. /\ pc[c] = "login"
      /\ connected_users' = connected_users \cup {id}
      /\ local_id' = [local_id EXCEPT ![c] = id]
      /\ pc' = [pc EXCEPT ![c] = "greet"]
      /\ write_failed' = write_failed
  BY DEF Login, Goto
<1> HIDE DEF id
<1>3. pc \in [Conns -> Points] /\ pc' \in [Conns -> Points]
  BY <1>2 DEF IdInv, IdTypes, Points
<1>4. /\ local_id'[c] = id /\ pc'[c] = "greet"
      /\ \A d \in Conns : d # c => pc'[d] = pc[d] /\ local_id'[d] = local_id[d]
  BY <1>2 DEF IdInv, IdTypes
<1>5. ~Session(c) /\ Session(c)'
  BY <1>2, <1>4 DEF Session, Points, Ended
<1>6. \A d \in Conns : d # c => (Session(d)' <=> Session(d))
  BY <1>4 DEF Session
<1>7. IdTypes'
  BY <1>1, <1>2, <1>3 DEF IdInv, IdTypes
<1>8. Bounded(connected_users)'
  <2>1. Bounded(connected_users \cup {id})
    BY <1>1, BoundedAdd DEF IdInv, IdTypes
  <2> QED
    BY <1>2, <2>1 DEF Bounded
<1>9. ZeroIsNobody'
  BY <1>1, <1>2, <1>4 DEF IdInv, ZeroIsNobody
<1>10. SessionsDistinct'
  <2> SUFFICES ASSUME write_failed = {},
                      NEW d \in Conns, Session(d)'
               PROVE  /\ local_id'[d] \in connected_users'
                      /\ \A e \in Conns :
                           Session(e)' /\ local_id'[e] = local_id'[d] => d = e
    BY <1>2 DEF SessionsDistinct
  <2>1. \A e \in Conns : Session(e) => local_id[e] \in connected_users
    BY DEF IdInv, SessionsDistinct
  <2>2. \A e \in Conns : e # c /\ Session(e)' => local_id'[e] # id
    BY <1>1, <1>4, <1>6, <2>1
  <2>3. CASE d = c
    BY <2>2, <2>3, <1>2, <1>4
  <2>4. CASE d # c
    BY <2>1, <2>2, <2>4, <1>2, <1>4, <1>6 DEF IdInv, SessionsDistinct
  <2> QED
    BY <2>3, <2>4
<1>11. RegisteredHasThread'
  <2> SUFFICES ASSUME NEW i \in connected_users'
               PROVE  \E d \in Conns : /\ local_id'[d] = i
                                       /\ Session(d)' \/ pc'[d] \in LeftBehind
    BY DEF RegisteredHasThread, LeftBehind
  <2>1. CASE i = id
    BY <2>1, <1>4, <1>5
  <2>2. CASE i \in connected_users
    <3>1. PICK d \in Conns : /\ local_id[d] = i
                             /\ Session(d) \/ pc[d] \in LeftBehind
      BY <2>2 DEF IdInv, RegisteredHasThread, LeftBehind
    <3>2. d # c
      BY <3>1, <1>2, <1>5 DEF LeftBehind
    <3> QED
      BY <3>1, <3>2, <1>4, <1>6
  <2> QED
    BY <2>1, <2>2, <1>2
<1> QED
  BY <1>7, <1>8, <1>9, <1>10, <1>11 DEF IdInv

\* The end of the stream drops the user of the thread that ends; it is nobody
\* else's unless a response was lost.
LEMMA EofKeeps ==
  ASSUME IdInv, NEW c \in Conns, Eof(c)
  PROVE  IdInv'
<1>1. /\ pc[c] = "read"
      /\ connected_users' = connected_users \ {local_id[c]}
      /\ local_id' = local_id
      /\ pc' = [pc EXCEPT ![c] = "closed"]
      /\ write_failed' = write_failed
  BY DEF Eof, UsersAfterEof, EndOfStream, End, DropUser, Goto
<1>2. pc \in [Conns -> Points] /\ pc' \in [Conns -> Points]
  BY <1>1 DEF IdInv, IdTypes, Points, Ended
<1>3. pc'[c] = "closed" /\ \A d \in Conns : d # c => pc'[d] = pc[d]
  BY <1>1 DEF IdInv, IdTypes
<1>4. Session(c) /\ ~Session(c)'
  BY <1>1, <1>3 DEF Session, Points, Ended
<1>5. \A d \in Conns : d # c => (Session(d)' <=> Session(d))
  BY <1>3 DEF Session
<1>6. IdTypes' /\ Bounded(connected_users)'
  BY <1>1, <1>2 DEF IdInv, IdTypes, Bounded
<1>7. ZeroIsNobody'
  BY <1>1, <1>3 DEF IdInv, ZeroIsNobody
<1>8. SessionsDistinct'
  <2> SUFFICES ASSUME write_failed = {}, NEW d \in Conns, Session(d)'
               PROVE  /\ local_id[d] \in connected_users'
                      /\ \A e \in Conns :
                           Session(e)' /\ local_id[e] = local_id[d] => d = e
    BY <1>1 DEF SessionsDistinct
  <2>1. d # c /\ Session(d)
    BY <1>4, <1>5
  <2>2. local_id[d] \in connected_users /\ local_id[d] # local_id[c]
    BY <1>4, <2>1 DEF IdInv, SessionsDistinct
  <2> QED
    BY <1>1, <1>4, <1>5, <2>1, <2>2 DEF IdInv, SessionsDistinct
<1>9. RegisteredHasThread'
  <2> SUFFICES ASSUME NEW i \in connected_users'
               PROVE  \E d \in Conns : /\ local_id[d] = i
                                       /\ Session(d)' \/ pc'[d] \in LeftBehind
    BY <1>1 DEF RegisteredHasThread, LeftBehind
  <2>1. PICK d \in Conns : /\ local_id[d] = i
                           /\ Session(d) \/ pc[d] \in LeftBehind
    BY <1>1 DEF IdInv, RegisteredHasThread, LeftBehind
  <2>2. d # c
    BY <1>1, <2>1
  <2> QED
    BY <1>3, <1>5, <2>1, <2>2
<1> QED
  BY <1>6, <1>7, <1>8, <1>9 DEF IdInv

-----------------------------------------------------------------------------

\* The loop of client_connection: every step of a thread by itself.
LEMMA TurnKeeps ==
  ASSUME IdInv, NEW c \in Conns, Turn(c)
  PROVE  IdInv'
<1>1. ASSUME NEW point \in SessionPoints, pc[c] \in SessionPoints,
             Goto(c, point), SendResponse(c), UNCHANGED local_id
      PROVE  IdInv'
  <2>1. CASE UNCHANGED <<connected_users, write_failed>>
    BY <1>1, <2>1, SessionMoves
  <2>2. CASE /\ connected_users' = DropUser(local_id[c])
             /\ write_failed' = write_failed \cup {c}
    BY <1>1, <2>2, ResponseLost
  <2> QED
    BY <1>1, <2>1, <2>2 DEF SendResponse
<1>2. CASE Greet(c)
  BY <1>1, <1>2 DEF Greet, SessionPoints
<1>3. CASE LoginEof(c)
  <2>1. local_id[c] = 0 /\ 0 \notin connected_users
    BY <1>3 DEF IdInv, ZeroIsNobody, LoginEof
  <2>2. UNCHANGED connected_users
    BY <1>3, <2>1 DEF LoginEof, DropUser
  <2> QED
    BY <1>3, <2>2, NewcomerMoves DEF LoginEof, End, Ended
<1>4. CASE RecvNothing(c)
  <2>1. CASE Bus!Disconnected(c)
    BY <1>4, <2>1, SessionMoves DEF RecvNothing, End, dataVars, SessionPoints,
                                      LeftBehind
  <2>2. CASE ~Bus!Disconnected(c)
    BY <1>4, <2>2, SessionMoves DEF RecvNothing, dataVars, SessionPoints
  <2> QED
    BY <2>1, <2>2
<1>5. CASE Recv(c)
  <2>1. CASE UNCHANGED <<connected_users, write_failed>>
    BY <1>5, <2>1, SessionMoves DEF Recv, SessionPoints
  <2>2. CASE SendResponse(c)
    BY <1>1, <1>5, <2>2 DEF Recv, SessionPoints
  <2> QED
    BY <1>5, <2>1, <2>2 DEF Recv
<1>6. CASE Idle(c)
  BY <1>6, SessionMoves DEF Idle, dataVars, SessionPoints
<1>7. CASE Eof(c)
  BY <1>7, EofKeeps
<1>8. CASE NotifyGuest(c)
  BY <1>8, SessionMoves DEF NotifyGuest, dataVars, SessionPoints
<1>9. CASE Reply(c)
  BY <1>1, <1>9 DEF Reply, SessionPoints
<1>10. CASE Leave(c)
  BY <1>10, SessionMoves DEF Leave, End, dataVars, SessionPoints, LeftBehind
<1>11. CASE LockPoisoned(c)
  <2>1. /\ Goto(c, "panicked")
        /\ UNCHANGED <<connected_users, local_id, write_failed>>
        /\ pc[c] \in {"login"} \cup SessionPoints
    BY <1>11 DEF LockPoisoned, AtLock, End, dataVars, SessionPoints
  <2>2. CASE pc[c] = "login"
    BY <2>1, <2>2, NewcomerMoves DEF Ended
  <2>3. CASE pc[c] \in SessionPoints
    BY <2>1, <2>3, SessionMoves DEF LeftBehind
  <2> QED
    BY <2>1, <2>2, <2>3
<1> QED
  BY <1>2, <1>3, <1>4, <1>5, <1>6, <1>7, <1>8, <1>9, <1>10, <1>11 DEF Turn

\* The commands of ServerCommandList::execute take a session from its read to
\* some other point, and touch no id.
LEMMA CommandMoves ==
  ASSUME IdInv, NEW c \in Conns, NEW point \in SessionPoints \cup LeftBehind,
         pc[c] = "read", Goto(c, point),
         UNCHANGED <<connected_users, local_id, write_failed>>
  PROVE  IdInv'
BY SessionMoves DEF SessionPoints

\* The login and the commands.
LEMMA ServeKeeps ==
  ASSUME IdInv, NEW c \in Conns, Serve(c)
  PROVE  IdInv'
<1>1. CASE Connect(c)
  BY <1>1, NewcomerMoves DEF Connect, dataVars
<1>2. CASE Login(c)
  BY <1>2, LoginKeeps
<1>3. CASE Reject(c)
  BY <1>3, NewcomerMoves DEF Reject, End, dataVars, Ended
<1>4. CASE LoginPoisoned(c)
  BY <1>4, NewcomerMoves DEF LoginPoisoned, End, dataVars, Ended
<1>5. CASE Chat(c)
  BY <1>5, CommandMoves DEF Chat, Request, dataVars, SessionPoints
<1>6. CASE RequestOpponents(c)
  BY <1>6, CommandMoves DEF RequestOpponents, Request, dataVars, SessionPoints
<1>7. CASE Spectate(c)
  <2>1. UNCHANGED <<connected_users, local_id, write_failed>>
    BY <1>7 DEF Spectate, dataVars
  <2>2. CASE pc[c] = "login"
    <3>1. Goto(c, "login") \/ Goto(c, "panicked")
      BY <1>7, <2>2 DEF Spectate, End
    <3> QED
      BY <2>1, <2>2, <3>1, NewcomerMoves DEF Ended
  <2>3. CASE pc[c] = "read"
    <3>1. Goto(c, "recv") \/ Goto(c, "panicked")
      BY <1>7, <2>3 DEF Spectate, End
    <3> QED
      BY <2>1, <2>3, <3>1, CommandMoves DEF SessionPoints, LeftBehind
  <2> QED
    BY <1>7, <2>2, <2>3 DEF Spectate
<1>8. CASE Malformed(c)
  <2>1. /\ UNCHANGED <<connected_users, local_id, write_failed>>
        /\ Goto(c, "panicked")
        /\ pc[c] \in {"login", "read"}
    BY <1>8 DEF Malformed, dataVars, End
  <2>2. CASE pc[c] = "login"
    BY <2>1, <2>2, NewcomerMoves DEF Ended
  <2>3. CASE pc[c] = "read"
    BY <2>1, <2>3, CommandMoves DEF LeftBehind
  <2> QED
    BY <2>1, <2>2, <2>3
<1>9. CASE DirectMessage(c)
  BY <1>9, CommandMoves DEF DirectMessage, DirectMessageRead, dataVars, SessionPoints
<1>10. CASE StartGame(c)
  <2>1. Goto(c, "notify") \/ Goto(c, "reply")
    BY <1>10 DEF StartGame
  <2> QED
    BY <1>10, <2>1, CommandMoves DEF StartGame, Request, SessionPoints
<1>11. CASE Hint(c)
  BY <1>11, CommandMoves DEF Hint, Request, SessionPoints
<1>12. CASE Guess(c)
  <2>1. Goto(c, "reply") \/ Goto(c, "panicked")
    BY <1>12 DEF Guess, End
  <2> QED
    BY <1>12, <2>1, CommandMoves DEF Guess, Request, SessionPoints, LeftBehind
<1>13. CASE CancelGame(c)
  BY <1>13, CommandMoves DEF CancelGame, Request, SessionPoints
<1>14. CASE Drop(c)
  <2>1. Goto(c, "leaving") \/ Goto(c, "blocked")
    BY <1>14 DEF Drop
  <2> QED
    BY <1>14, <2>1, CommandMoves DEF Drop, Request, SessionPoints
<1>15. CASE RequestPoisoned(c)
  BY <1>15, CommandMoves DEF RequestPoisoned, Request, End, dataVars, LeftBehind
<1>16. CASE BadHint(c)
  BY <1>16, CommandMoves DEF BadHint, Request, End, dataVars, LeftBehind
<1> QED
  BY <1>1, <1>2, <1>3, <1>4, <1>5, <1>6, <1>7, <1>8, <1>9, <1>10, <1>11, <1>12,
     <1>13, <1>14, <1>15, <1>16 DEF Serve

\* Every step of the server keeps the invariant.
LEMMA IdStep == IdInv /\ [Next]_vars => IdInv'
<1> SUFFICES ASSUME IdInv, [Next]_vars PROVE IdInv'
  OBVIOUS
<1>1. ASSUME NEW c \in Conns, Turn(c) PROVE IdInv'
  BY <1>1, TurnKeeps
<1>2. ASSUME NEW c \in Conns, Serve(c) PROVE IdInv'
  BY <1>2, ServeKeeps
<1>3. ASSUME NEW c \in Conns, Hangup(c) PROVE IdInv'
  BY <1>3, IdStutter DEF Hangup, dataVars, idVars
<1>4. CASE Dispatch
  BY <1>4, IdStutter DEF Dispatch, dataVars, idVars
<1>5. CASE UNCHANGED vars
  BY <1>5, IdStutter DEF vars, dataVars, idVars
<1> QED
  BY <1>1, <1>2, <1>3, <1>4, <1>5 DEF Next

\* The invariant holds throughout (connected_users and the threads' local_id).
THEOREM IdInvariant == Spec => []IdInv
BY IdInit, IdStep, PTL DEF Spec

\* While no response was lost, sessions have ids of their own and are registered,
\* however many come, go, and take over the ids of others (SessionsDistinct).
THEOREM SessionIdsDistinct == Spec => []SessionsDistinct
BY IdInvariant, PTL DEF IdInv

\* A registered user is that of a running thread or of one that DROP, a panic or
\* a lost channel ended (RegisteredHasThread).
THEOREM RegisteredUsersExplained == Spec => []RegisteredHasThread
BY IdInvariant, PTL DEF IdInv

=============================================================================
