------------------------------- MODULE Server -------------------------------
(***************************************************************************)
(* The server: one thread per connection, all of them sharing the          *)
(* ServerData behind one RwLock and the message bus of Broadcast.  A       *)
(* thread logs its client in, then loops: take at most one message from    *)
(* its channel, read at most one request, execute it, write the reply.     *)
(*                                                                         *)
(* A critical section of the RwLock is one step, as nobody else can be in  *)
(* it; lock_holder names the thread that never leaves one.  Steps of the   *)
(* client are the inputs: when it connects, what it sends, when it hangs   *)
(* up.  Requests counts what the threads read, and bounds behaviours;      *)
(* direct messages are not counted while the client is there, so that the  *)
(* traffic need not end.                                                   *)
(*                                                                         *)
(* The contents of the replies are left out (GuessGame models the answers  *)
(* to guesses); where a reply is written, and that writing it may fail and *)
(* unregister the user, is not.                                            *)
(***************************************************************************)
EXTENDS ServerData, Sequences

CONSTANTS
  Conns,         \* connections the listener accepts
  NoConn,
  RequestKinds,  \* RequestKinds[c]: the requests that the client of c makes
  MaxRequests,   \* bound on the requests read in a behaviour
  MaxQueued,     \* the messages on their way to a thread when a client sends more
  Leavers,       \* the connections whose client may hang up
  UserIds,       \* ids that clients name in their requests
  Builds         \* the values overflow_checks may have: TRUE in a debug build

Kinds == {"CHAT", "REQUEST", "SPECTATE", "MALFORMED", "DM", "STARTGAME",
          "HINT", "GUESS", "CANCEL", "DROP", "BADHINT"}

ASSUME ServerAssumption ==
  /\ NoConn \notin Conns
  /\ RequestKinds \in [Conns -> SUBSET Kinds]
  /\ MaxRequests \in Nat
  /\ MaxQueued \in Nat
  /\ Leavers \subseteq Conns
  /\ UserIds \subseteq Nat
  /\ Builds \subseteq BOOLEAN

VARIABLES
  connected_users,  \* ServerData.connected_users
  ongoing_games,    \* ServerData.ongoing_games
  lock_holder,      \* the thread blocked for ever inside the RwLock, or NoConn
  poisoned,         \* whether a thread panicked inside the RwLock
  overflow_checks,  \* whether u8 arithmetic panics on underflow
  pc,               \* pc[c]: where thread c is
  local_id,         \* local_id[c]: its user id, 0 before the login
  opponent_id,      \* opponent_id[c]: the local of StartGame, 0 outside it
  peer,             \* peer[c]: whether the client has hung up
  requests,         \* how many requests were counted
  write_failed      \* history: the connections on which a response was lost

VARIABLES thread_chan, senders, channel, receiver   \* of the message bus

Notices == {"DM", "HINT", "REQUESTEDGAME", "MATCH CANCELED",
            "VICTORY", "DEFEAT", "INCORRECT"}

\* A message travels with the id of the user it is for.
Bus == INSTANCE Broadcast WITH Messages <- Nat \X Notices

dataVars == <<connected_users, ongoing_games>>
lockVars == <<lock_holder, poisoned, overflow_checks>>
clientVars == <<peer, requests>>
busVars == <<thread_chan, senders, channel, receiver>>
vars == <<dataVars, lockVars, clientVars, busVars,
          pc, local_id, opponent_id, write_failed>>

Ended == {"rejected", "closed", "dropped", "panicked", "disconnected"}

Points == {"idle", "login", "greet", "recv", "read", "notify", "reply",
           "leaving", "blocked"} \cup Ended

TypeOK ==
  /\ connected_users \subseteq Nat
  /\ ongoing_games \subseteq Games
  /\ lock_holder \in Conns \cup {NoConn}
  /\ poisoned \in BOOLEAN
  /\ overflow_checks \in BOOLEAN
  /\ pc \in [Conns -> Points]
  /\ local_id \in [Conns -> Nat]
  /\ opponent_id \in [Conns -> Nat]
  /\ peer \in [Conns -> {"open", "closed"}]
  /\ requests \in 0 .. MaxRequests
  /\ write_failed \subseteq Conns
  /\ Bus!TypeOK

Init ==
  /\ connected_users = {}
  /\ ongoing_games = {}
  /\ lock_holder = NoConn
  /\ poisoned = FALSE
  /\ overflow_checks \in Builds
  /\ pc = [c \in Conns |-> "idle"]
  /\ local_id = [c \in Conns |-> 0]
  /\ opponent_id = [c \in Conns |-> 0]
  /\ peer = [c \in Conns |-> "open"]
  /\ requests = 0
  /\ write_failed = {}
  /\ Bus!Init

-----------------------------------------------------------------------------

\* The thread has a user id: from add_user to its last step.
Session(c) == pc[c] \in Points \ ({"idle", "login"} \cup Ended)

Started(c) == pc[c] \notin {"idle"} \cup Ended

\* write() and read() on the RwLock return a guard.  A mistake is to go on with
\* the data of a poisoned lock.
LockFreeThoughPoisoned == lock_holder = NoConn
LockFree == lock_holder = NoConn /\ ~poisoned

Goto(c, point) == pc' = [pc EXCEPT ![c] = point]

\* The thread returns or unwinds and drops its stream and its Receiver.
End(c, how) == Goto(c, how) /\ Bus!DropReceiver(c)

\* connected_users after drop_user(id), which refuses an id that is not there.
DropUser(id) == connected_users \ {id}

\* send_response: the write succeeds, though the client may be gone, or it
\* fails and the user is dropped.  The thread goes on either way.
SendResponse(c) ==
  \/ UNCHANGED <<connected_users, write_failed>>
  \/ /\ peer[c] = "closed"
     /\ LockFree
     /\ connected_users' = DropUser(local_id[c])
     /\ write_failed' = write_failed \cup {c}

-----------------------------------------------------------------------------
(* Connection and login.                                                   *)

Connect(c) ==
  /\ pc[c] = "idle"
  /\ Bus!Subscribe(c)
  /\ Goto(c, "login")
  /\ UNCHANGED <<dataVars, lockVars, clientVars, local_id, opponent_id,
                 write_failed>>

\* validate_user, password correct: add_user under the lock.
Login(c) ==
  LET id == AddedUser(connected_users) IN
  /\ pc[c] = "login"
  /\ LockFree
  /\ connected_users' = connected_users \cup {id}
  /\ local_id' = [local_id EXCEPT ![c] = id]
  /\ Goto(c, "greet")
  /\ UNCHANGED <<ongoing_games, lockVars, clientVars, busVars, opponent_id,
                 write_failed>>

\* The response "ID n", outside the lock.  A failure to write it drops the user,
\* and validate_user answers Ok(local_id) all the same.
Greet(c) ==
  /\ pc[c] = "greet"
  /\ LockFree
  /\ SendResponse(c)
  /\ Goto(c, "recv")
  /\ UNCHANGED <<ongoing_games, lockVars, clientVars, busVars, local_id,
                 opponent_id>>

\* validate_user, wrong password or no password: the thread ends.
Reject(c) ==
  /\ pc[c] = "login"
  /\ End(c, "rejected")
  /\ UNCHANGED <<dataVars, lockVars, clientVars, local_id, opponent_id,
                 write_failed>>

\* The client hangs up before its password: drop_user(0) finds nobody.
LoginEof(c) ==
  /\ pc[c] = "login"
  /\ peer[c] = "closed"
  /\ LockFree
  /\ connected_users' = DropUser(local_id[c])
  /\ End(c, "closed")
  /\ UNCHANGED <<ongoing_games, lockVars, clientVars, local_id, opponent_id,
                 write_failed>>

-----------------------------------------------------------------------------
(* One turn of the loop of client_connection.                              *)

\* try_recv answers Empty, or Disconnected, on which the thread returns.
RecvNothing(c) ==
  /\ pc[c] = "recv"
  /\ channel[c] = <<>>
  /\ IF Bus!Disconnected(c)
     THEN End(c, "disconnected")
     ELSE Goto(c, "read") /\ UNCHANGED busVars
  /\ UNCHANGED <<dataVars, lockVars, clientVars, local_id, opponent_id,
                 write_failed>>

\* A message is written to the client if it carries the thread's id.
Recv(c) ==
  /\ pc[c] = "recv"
  /\ Bus!TryRecv(c)
  /\ IF Head(channel[c])[1] = local_id[c]
     THEN SendResponse(c)
     ELSE UNCHANGED <<connected_users, write_failed>>
  /\ Goto(c, "read")
  /\ UNCHANGED <<ongoing_games, lockVars, clientVars, local_id, opponent_id>>

\* A mistake: a stream whose read waits for the client.
ReadBlocks(c) == FALSE
ReadTimesOut(c) == peer[c] = "open"

\* The read times out (WouldBlock): nothing to do until the next turn.
Idle(c) ==
  /\ pc[c] = "read"
  /\ ReadTimesOut(c)
  /\ Goto(c, "recv")
  /\ UNCHANGED <<dataVars, lockVars, clientVars, busVars, local_id,
                 opponent_id, write_failed>>

\* A mistake: the end of the stream ends the thread and keeps its user.
UsersAfterEofKept(c) == connected_users
UsersAfterEof(c) == DropUser(local_id[c])

\* A mistake: the end of the stream is taken for an empty read.
EndOfStreamIgnored(c) == Goto(c, "recv") /\ UNCHANGED busVars
EndOfStream(c) == End(c, "closed")

\* The read returns 0 bytes or fails: the user is dropped, the thread ends.
Eof(c) ==
  /\ pc[c] = "read"
  /\ peer[c] = "closed"
  /\ LockFree
  /\ connected_users' = UsersAfterEof(c)
  /\ EndOfStream(c)
  /\ UNCHANGED <<ongoing_games, lockVars, clientVars, local_id, opponent_id,
                 write_failed>>

\* The reply of a command, or the text of its ErrorMessage.
Reply(c) ==
  /\ pc[c] = "reply"
  /\ SendResponse(c)
  /\ Goto(c, "recv")
  /\ UNCHANGED <<ongoing_games, lockVars, clientVars, busVars, local_id,
                 opponent_id>>

=============================================================================
