------------------------- MODULE ServerRefinements -------------------------
(***************************************************************************)
(* The two abstractions of the server, for any number of clients and       *)
(* requests and both builds.                                               *)
(*                                                                         *)
(* It implements the lobby: each kind of step that DataProofs tells apart  *)
(* is one step of Lobby or none; what makes the mapping work is that the   *)
(* games have distinct ids, so that LobbyGame, which forgets two fields,   *)
(* does not take two games for one.                                        *)
(*                                                                         *)
(* It uses its message bus as Broadcast models it: whatever the threads    *)
(* do, the bus takes one of its own steps or none.  What is proved of the  *)
(* bus then holds in the server, and with it what the threads can rely on: *)
(* none of them is ever told that its channel is disconnected.  To type    *)
(* what is sent, the games must be typed (GameInv), and so must the        *)
(* variables that no other proof needed: TypeOK holds as a whole.          *)
(***************************************************************************)
EXTENDS DataProofs

(* The lobby.                                                              *)


LobbyStep == [L!Next]_(L!vars)

\* Games told apart by their ids are told apart in the lobby.
LEMMA LobbyGamesDiffer ==
  ASSUME GameInv, NEW g \in ongoing_games, NEW h \in ongoing_games,
         LobbyGame(g) = LobbyGame(h)
  PROVE  g = h
<1>1. g.game_id = h.game_id
  BY DEF LobbyGame
<1> QED
  BY <1>1 DEF GameInv, GameTypes, UniqueIds

\* The lobby opens empty (the new ServerData).
LEMMA LobbyInit == Init => L!Init
BY ServerAssumption DEF Init, L!Init, LobbyGames, Shut

\* A step that leaves the data alone may lose the lock, and that is all.
LEMMA LobbyKept ==
  ASSUME DataKept
  PROVE  LobbyStep
<1>1. UNCHANGED <<connected_users, LobbyGames>>
  BY DEF DataKept, dataVars, LobbyGames
<1>2. CASE Shut'
  BY <1>1, <1>2 DEF LobbyStep, L!Next, L!Close
<1>3. CASE ~Shut'
  <2>1. UNCHANGED Shut
    BY <1>3 DEF DataKept, LockKept, LockFree, Shut
  <2> QED
    BY <1>1, <2>1 DEF LobbyStep, L!vars
<1> QED
  BY <1>2, <1>3

\* A login and the two ways to drop a user (add_user, drop_user).
LEMMA LobbyUsers ==
  ASSUME NEW c \in Conns, UsersStep(c)
  PROVE  LobbyStep
<1>1. ~Shut /\ UNCHANGED <<LobbyGames, Shut>>
  BY DEF UsersStep, LockFree, LockKept, Shut, LobbyGames
<1>2. CASE Joins
  BY <1>1, <1>2 DEF Joins, LobbyStep, L!Next, L!Join
<1>3. CASE Leaves(c)
  <2>1. connected_users' = connected_users \ {local_id[c]}
    BY <1>3 DEF Leaves, DropUser
  <2>2. CASE local_id[c] \in connected_users
    BY <1>1, <2>1, <2>2 DEF LobbyStep, L!Next, L!Leave
  <2>3. CASE local_id[c] \notin connected_users
    BY <1>1, <2>1, <2>3 DEF LobbyStep, L!vars
  <2> QED
    BY <2>2, <2>3
<1> QED
  BY <1>2, <1>3 DEF UsersStep

\* A game that begins (start_game).
LEMMA LobbyBegin ==
  ASSUME GameInv, NEW c \in Conns, GamesStep(c), LockKept, Begins(c)
  PROVE  LobbyStep
<1>1. ~Shut /\ UNCHANGED <<connected_users, Shut>>
  BY DEF GamesStep, LockFree, LockKept, Shut
<1>2. PICK guest \in connected_users \ {local_id[c]} :
        ongoing_games' = ongoing_games
                           \cup {NewGame(ongoing_games, local_id[c], guest)}
  BY DEF Begins
<1> DEFINE game == LobbyGame(NewGame(ongoing_games, local_id[c], guest))
<1>3. /\ game.game_id = NextId(GameIds(ongoing_games))
      /\ game.host_id = local_id[c] /\ game.opponent_id = guest
      /\ game.game_state = "Ongoing"
  BY DEF LobbyGame, NewGame, GameIds
<1>4. LobbyGames' = LobbyGames \cup {game}
  BY <1>2 DEF LobbyGames
<1> HIDE DEF game
<1>5. NextId(GameIds(ongoing_games)) \notin GameIds(ongoing_games)
  <2>1. GameIds(ongoing_games) \in SUBSET Nat /\ Bounded(GameIds(ongoing_games))
    BY DEF GameInv, GameTypes, GameIds, Games
  <2> QED
    BY <2>1, NextIdIsNew
<1>6. \A other \in LobbyGames : other.game_id # game.game_id
  <2>1. \A g \in ongoing_games : LobbyGame(g).game_id \in GameIds(ongoing_games)
    BY DEF LobbyGame, GameIds
  <2> QED
    BY <1>3, <1>5, <2>1 DEF LobbyGames
<1>7. game \in LobbyGames' \ LobbyGames
  BY <1>4, <1>6
<1> QED
  BY <1>1, <1>2, <1>3, <1>4, <1>6, <1>7 DEF LobbyStep, L!Next, L!Begin

\* A game that moves (update_game_guess, and the hint that is recorded in one).
LEMMA LobbyPlay ==
  ASSUME GameInv, NEW c \in Conns, GamesStep(c), LockKept, Changes
  PROVE  LobbyStep
<1>1. ~Shut /\ UNCHANGED <<connected_users, Shut>>
  BY DEF GamesStep, LockFree, LockKept, Shut
<1>2. PICK game \in ongoing_games, by \in Games :
        /\ by.game_id = game.game_id /\ Advances(game, by)
        /\ ongoing_games' = (ongoing_games \ {game}) \cup {by}
  BY DEF Changes, Replace
<1>3. LobbyGames' = (LobbyGames \ {LobbyGame(game)}) \cup {LobbyGame(by)}
  <2>1. \A g \in ongoing_games : LobbyGame(g) = LobbyGame(game) <=> g = game
    BY LobbyGamesDiffer
  <2> QED
    BY <1>2, <2>1 DEF LobbyGames
<1>4. /\ LobbyGame(by).game_id = LobbyGame(game).game_id
      /\ LobbyGame(by).host_id = LobbyGame(game).host_id
      /\ LobbyGame(by).opponent_id = LobbyGame(game).opponent_id
  BY <1>2 DEF LobbyGame, Advances
<1>5. L!Later(LobbyGame(game).game_state, LobbyGame(by).game_state)
  <2>1. game.game_state \in GameStates /\ by.game_state \in GameStates
    BY DEF GameInv, GameTypes, Games
  <2> QED
    BY <1>2, <2>1 DEF L!Later, LobbyGame, Advances, GameStates
<1>6. LobbyGame(game) \in LobbyGames /\ LobbyGame(by) \in LobbyGames'
  BY <1>2 DEF LobbyGames
<1> QED
  BY <1>1, <1>3, <1>4, <1>5, <1>6 DEF LobbyStep, L!Next, L!Play

\* A game that ends, perhaps with the lock (terminate_game, drop_user's caller).
LEMMA LobbyEnd ==
  ASSUME GameInv, NEW c \in Conns, GamesStep(c), Ends
  PROVE  LobbyStep
<1>1. ~Shut /\ UNCHANGED connected_users
  BY DEF GamesStep, LockFree, Shut
<1>2. PICK game \in ongoing_games : ongoing_games' = ongoing_games \ {game}
  BY DEF Ends
<1>3. LobbyGames' = LobbyGames \ {LobbyGame(game)}
  <2>1. \A g \in ongoing_games : LobbyGame(g) = LobbyGame(game) <=> g = game
    BY LobbyGamesDiffer
  <2> QED
    BY <1>2, <2>1 DEF LobbyGames
<1>4. LobbyGame(game) \in LobbyGames
  BY DEF LobbyGames
<1>5. Shut' \in BOOLEAN
  BY DEF Shut
<1> QED
  BY <1>1, <1>3, <1>4, <1>5 DEF LobbyStep, L!Next, L!End

\* Every step of the server is one of the lobby or none.
LEMMA LobbyNext == GameInv /\ [Next]_vars => LobbyStep
<1> SUFFICES ASSUME GameInv, [Next]_vars PROVE LobbyStep
  OBVIOUS
<1>1. ASSUME NEW c \in Conns, GamesStep(c) PROVE LobbyStep
  <2>1. CASE Ends
    BY <1>1, <2>1, LobbyEnd
  <2>2. CASE LockKept /\ Begins(c)
    BY <1>1, <2>2, LobbyBegin
  <2>3. CASE LockKept /\ (Hints \/ Guesses)
    BY <1>1, <2>3, HintOrGuess, LobbyPlay
  <2> QED
    BY <1>1, <2>1, <2>2, <2>3 DEF GamesStep
<1> QED
  BY <1>1, StepKinds, LobbyKept, LobbyUsers DEF GameInv

\* Whatever its threads do and in whatever order, the server is a lobby
\* (ImplementsLobby): the RwLock makes every command one change of the data.
THEOREM ServerImplementsLobby == Spec => ImplementsLobby
BY LobbyInit, LobbyNext, GameInvariant, PTL
   DEF Spec, ImplementsLobby, L!Spec, LobbyStep

-----------------------------------------------------------------------------

(* The message bus.                                                        *)


BP == INSTANCE BroadcastProofs WITH Messages <- Nat \X Notices

BusStep == [BP!Next]_(BP!busVars)

\* The variables that the other invariants leave untyped.
RestTypes ==
  /\ lock_holder \in Conns \cup {NoConn}
  /\ poisoned \in BOOLEAN
  /\ overflow_checks \in BOOLEAN
  /\ opponent_id \in [Conns -> Nat]
  /\ peer \in [Conns -> {"open", "closed"}]
  /\ requests \in 0 .. MaxRequests

-----------------------------------------------------------------------------

(* Ways to leave the bus alone, and to use it.                             *)

\* A step that touches no channel.
LEMMA Quiet == UNCHANGED busVars => BusStep
BY DEF busVars, BusStep, BP!busVars

\* A thread ends and drops its Receiver.
LEMMA Ending ==
  ASSUME NEW c \in Conns, Bus!DropReceiver(c)
  PROVE  BusStep
BY DEF Bus!DropReceiver, BP!DropReceiver, BusStep, BP!Next

\* A command sends to the dispatcher.
LEMMA Sending ==
  ASSUME NEW id \in Nat, NEW notice \in Notices, Notify(id, notice)
  PROVE  BusStep
<1>1. <<id, notice>> \in Nat \X Notices
  OBVIOUS
<1> QED
  BY <1>1 DEF Notify, Bus!Send, BP!Send, BusStep, BP!Next

\* A thread takes a message from its queue.
LEMMA Receiving ==
  ASSUME NEW c \in Conns, Bus!TryRecv(c)
  PROVE  BusStep
BY DEF Bus!TryRecv, BP!TryRecv, Bus!Taken, BP!Taken, BusStep, BP!Next

\* The listener subscribes a new thread.
LEMMA Subscribing ==
  ASSUME NEW c \in Conns, Bus!Subscribe(c)
  PROVE  BusStep
<1>1. Bus!FreshChannelId = BP!FreshChannelId
  BY DEF Bus!FreshChannelId, BP!FreshChannelId, Bus!ChannelIds, BP!ChannelIds,
         Bus!NextId, BP!NextId, Bus!Max, BP!Max
<1> QED
  BY <1>1 DEF Bus!Subscribe, BP!Subscribe, BusStep, BP!Next

\* The dispatcher hands a message on.
LEMMA Dispatching == Bus!Dispatch => BusStep
BY DEF Bus!Dispatch, BP!Dispatch, Bus!Deliver, BP!Deliver, Bus!Alive, BP!Alive,
       Bus!Unsubscribed, BP!Unsubscribed, BusStep, BP!Next

-----------------------------------------------------------------------------

\* What the commands name as the addressee is a user id.
LEMMA Addressees ==
  ASSUME GameInv, NEW c \in Conns
  PROVE  /\ \A g \in ongoing_games : g.host_id \in Nat /\ g.opponent_id \in Nat
         /\ MyGames(c) # {} => MyGame(c) \in ongoing_games
         /\ HostedGames(ongoing_games, local_id[c]) # {} => HintTarget(c) \in Nat
<1>1. ongoing_games \in SUBSET Games
  BY DEF GameInv, GameTypes
<1>2. HostedGames(ongoing_games, local_id[c]) \in SUBSET Games
  BY <1>1 DEF HostedGames
<1>3. \A g \in Games : g.host_id \in Nat /\ g.opponent_id \in Nat
  BY DEF Games
<1> QED
  BY <1>1, <1>2, <1>3, FirstIsOne, MyGameIsListed DEF GameInv, HintTarget

\* The turns of the loop, and how a thread takes leave of the bus.
LEMMA TurnOnBus ==
  ASSUME GameInv, RestTypes, NEW c \in Conns, Turn(c)
  PROVE  BusStep /\ RestTypes'
<1>1. CASE Greet(c)
  BY <1>1, Quiet DEF Greet, RestTypes, lockVars, clientVars
<1>2. CASE LoginEof(c)
  BY <1>2, Ending DEF LoginEof, End, RestTypes, lockVars, clientVars
<1>3. CASE RecvNothing(c)
  BY <1>3, Quiet, Ending DEF RecvNothing, End, RestTypes, lockVars, clientVars
<1>4. CASE Recv(c)
  BY <1>4, Receiving DEF Recv, RestTypes, lockVars, clientVars
<1>5. CASE Idle(c)
  BY <1>5, Quiet DEF Idle, RestTypes, lockVars, clientVars
<1>6. CASE Eof(c)
  BY <1>6, Ending DEF Eof, EndOfStream, End, RestTypes, lockVars, clientVars
<1>7. CASE NotifyGuest(c)
  <2>1. opponent_id[c] \in Nat /\ "REQUESTEDGAME" \in Notices
    BY DEF RestTypes, Notices
  <2>2. BusStep
    BY <1>7, <2>1, Sending DEF NotifyGuest
  <2>3. RestTypes'
    BY <1>7 DEF NotifyGuest, RestTypes, lockVars, clientVars
  <2> QED
    BY <2>2, <2>3
<1>8. CASE Reply(c)
  BY <1>8, Quiet DEF Reply, RestTypes, lockVars, clientVars
<1>9. CASE Leave(c)
  BY <1>9, Ending DEF Leave, End, RestTypes, lockVars, clientVars
<1>10. CASE LockPoisoned(c)
  BY <1>10, Ending DEF LockPoisoned, End, RestTypes, lockVars, clientVars
<1> QED
  BY <1>1, <1>2, <1>3, <1>4, <1>5, <1>6, <1>7, <1>8, <1>9, <1>10 DEF Turn

\* A request counts, and the client stays connected.
LEMMA Counted ==
  ASSUME RestTypes, NEW c \in Conns, NEW kind, Request(c, kind)
  PROVE  /\ requests' \in 0 .. MaxRequests
         /\ peer' \in [Conns -> {"open", "closed"}]
BY ServerAssumption DEF RestTypes, Request

\* A cancelled game is announced to its guest.
LEMMA CancelledOnBus ==
  ASSUME GameInv, NEW c \in Conns, MyGames(c) # {}, Cancelled(c)
  PROVE  BusStep
<1>1. MyGame(c).opponent_id \in Nat /\ "MATCH CANCELED" \in Notices
  BY Addressees DEF Notices
<1> QED
  BY <1>1, Sending DEF Cancelled

\* The login and the commands, and whom they write to.
LEMMA ServeOnBus ==
  ASSUME GameInv, RestTypes, NEW c \in Conns, Serve(c)
  PROVE  BusStep /\ RestTypes'
<1> USE ServerAssumption
<1>1. CASE Connect(c)
  BY <1>1, Subscribing DEF Connect, RestTypes, lockVars, clientVars
<1>2. CASE Login(c)
  BY <1>2, Quiet DEF Login, RestTypes, lockVars, clientVars
<1>3. CASE Reject(c)
  BY <1>3, Ending DEF Reject, End, RestTypes, lockVars, clientVars
<1>4. CASE LoginPoisoned(c)
  BY <1>4, Ending DEF LoginPoisoned, End, RestTypes, lockVars, clientVars
<1>5. CASE Chat(c)
  BY <1>5, Quiet, Counted DEF Chat, Request, RestTypes, lockVars, clientVars
<1>6. CASE RequestOpponents(c)
  BY <1>6, Quiet, Counted DEF RequestOpponents, Request, RestTypes, lockVars, clientVars
<1>7. CASE Spectate(c)
  BY <1>7, Quiet, Ending DEF Spectate, End, RestTypes, lockVars, clientVars
<1>8. CASE Malformed(c)
  BY <1>8, Ending DEF Malformed, End, RestTypes, lockVars, clientVars
<1>9. CASE DirectMessage(c)
  <2>1. PICK id \in UserIds : Notify(id, "DM")
    BY <1>9 DEF DirectMessage
  <2>2. id \in Nat /\ "DM" \in Notices
    BY DEF Notices
  <2>3. BusStep
    BY <2>1, <2>2, Sending
  <2>4. RestTypes'
    BY <1>9 DEF DirectMessage, DirectMessageRead, RestTypes, lockVars
  <2> QED
    BY <2>3, <2>4
<1>10. CASE StartGame(c)
  <2>1. BusStep
    BY <1>10, Quiet DEF StartGame
  <2>2. opponent_id' \in [Conns -> Nat]
    BY <1>10 DEF StartGame, RestTypes
  <2> QED
    BY <1>10, <2>1, <2>2, Counted DEF StartGame, RestTypes, lockVars
<1>11. CASE Hint(c)
  <2>1. ASSUME UNCHANGED busVars PROVE BusStep
    BY <2>1, Quiet
  <2>2. ASSUME HostedGames(ongoing_games, local_id[c]) # {},
               Notify(HintTarget(c), "HINT")
        PROVE  BusStep
    <3>1. HintTarget(c) \in Nat /\ "HINT" \in Notices
      BY <2>2, Addressees DEF Notices
    <3> QED
      BY <2>2, <3>1, Sending
  <2>3. BusStep
    BY <1>11, <2>1, <2>2 DEF Hint
  <2>4. RestTypes'
    BY <1>11, Counted DEF Hint, RestTypes, lockVars
  <2> QED
    BY <2>3, <2>4
<1>12. CASE Guess(c)
  <2>1. ASSUME UNCHANGED busVars PROVE BusStep
    BY <2>1, Quiet
  <2>2. ASSUME Bus!DropReceiver(c) PROVE BusStep
    BY <2>2, Ending
  <2>3. ASSUME MyGames(c) # {},
               Notify(MyGame(c).host_id, HostNews(MyGame(c).game_state))
        PROVE  BusStep
    <3>1. MyGame(c) \in ongoing_games /\ MyGame(c).host_id \in Nat
      BY <2>3, Addressees
    <3>2. MyGame(c).game_state \in GameStates
      BY <3>1 DEF GameInv, GameTypes, Games
    <3>3. HostNews(MyGame(c).game_state) \in Notices
      BY <3>2 DEF HostNews, GameStates, Notices
    <3> QED
      BY <2>3, <3>1, <3>3, Sending
  <2>4. BusStep
    BY <1>12, <2>1, <2>2, <2>3 DEF Guess, End
  <2>5. RestTypes'
    BY <1>12, Counted DEF Guess, RestTypes
  <2> QED
    BY <2>4, <2>5
<1>13. CASE BadHint(c)
  BY <1>13, Ending, Counted DEF BadHint, Request, End, RestTypes, lockVars, clientVars
<1>14. CASE CancelGame(c)
  <2>1. BusStep
    BY <1>14, Quiet, CancelledOnBus DEF CancelGame
  <2> QED
    BY <1>14, <2>1, Counted DEF CancelGame, RestTypes, lockVars
<1>15. CASE Drop(c)
  <2>1. BusStep
    BY <1>15, Quiet, CancelledOnBus DEF Drop
  <2> QED
    BY <1>15, <2>1, Counted DEF Drop, RestTypes
<1>16. CASE RequestPoisoned(c)
  BY <1>16, Ending, Counted DEF RequestPoisoned, Request, End, RestTypes, lockVars, clientVars
<1> QED
  BY <1>1, <1>2, <1>3, <1>4, <1>5, <1>6, <1>7, <1>8, <1>9, <1>10, <1>11, <1>12,
     <1>13, <1>14, <1>15, <1>16 DEF Serve

\* Every step of the server is one of the bus or none, and keeps the types.
LEMMA BusUse == GameInv /\ RestTypes /\ [Next]_vars => BusStep /\ RestTypes'
<1> SUFFICES ASSUME GameInv, RestTypes, [Next]_vars
             PROVE  BusStep /\ RestTypes'
  OBVIOUS
<1>1. ASSUME NEW c \in Conns, Hangup(c) PROVE BusStep /\ RestTypes'
  BY <1>1, Quiet DEF Hangup, RestTypes, lockVars
<1>2. CASE Dispatch
  BY <1>2, Dispatching DEF Dispatch, RestTypes, lockVars, clientVars
<1>3. CASE UNCHANGED vars
  BY <1>3, Quiet DEF vars, RestTypes, lockVars, clientVars
<1> QED
  BY <1>1, <1>2, <1>3, TurnOnBus, ServeOnBus DEF Next

\* At the start too.
LEMMA RestInit == Init => BP!Init /\ RestTypes
<1> SUFFICES ASSUME Init PROVE BP!Init /\ RestTypes
  OBVIOUS
<1>1. BP!Init
  BY DEF Init, Bus!Init, BP!Init
<1>2. overflow_checks \in BOOLEAN /\ requests \in 0 .. MaxRequests
  BY ServerAssumption DEF Init
<1> QED
  BY <1>1, <1>2 DEF Init, RestTypes

\* The types hold throughout.
LEMMA RestInvariant == Spec => [](GameInv /\ RestTypes)
<1>1. Init => GameInv /\ RestTypes
  BY GameInit, RestInit
<1>2. GameInv /\ RestTypes /\ [Next]_vars => (GameInv /\ RestTypes)'
  BY GameStep, BusUse
<1> QED
  BY <1>1, <1>2, PTL DEF Spec

\* The threads, the dispatcher and the listener together use the bus only as
\* Broadcast does: the server implements it.
THEOREM ServerUsesBus == Spec => BP!Spec
<1>1. GameInv /\ RestTypes /\ [Next]_vars => [BP!Next]_(BP!busVars)
  BY BusUse DEF BusStep
<1> QED
  BY <1>1, RestInit, RestInvariant, PTL DEF Spec, BP!Spec

\* So in the server, too, a running thread is subscribed, whoever dies.
THEOREM RunningThreadsSubscribed == Spec => []BP!LiveSubscribed
BY ServerUsesBus, BP!RunningThreadsSubscribed, PTL

\* None of them is cut off, however many come and go (NeverCutOff): the branch of
\* client_connection for a disconnected channel is never taken.
THEOREM NobodyCutOff == Spec => []NeverCutOff
<1>1. Init => NeverCutOff
  BY DEF Init, NeverCutOff
<1>2. GameInv /\ BP!LiveSubscribed /\ NeverCutOff /\ [Next]_vars => NeverCutOff'
  <2> SUFFICES ASSUME GameInv, BP!LiveSubscribed, NeverCutOff, [Next]_vars,
                      NEW d \in Conns
               PROVE  pc'[d] # "disconnected"
    BY DEF NeverCutOff
  <2>1. pc \in [Conns -> Points] /\ pc[d] # "disconnected"
    BY DEF GameInv, IdInv, IdTypes, NeverCutOff
  <2>2. ~Bus!Disconnected(d)
    BY DEF BP!LiveSubscribed, Bus!Disconnected
  <2>3. CASE ThreadsKept
    BY <2>1, <2>3 DEF ThreadsKept
  <2>4. ASSUME NEW c \in Conns, Moves(c), c # d PROVE pc'[d] # "disconnected"
    BY <2>1, <2>4 DEF Moves, Login, Goto
  <2>5. ASSUME Moves(d) PROVE pc'[d] # "disconnected"
    BY <2>1, <2>2, <2>5 DEF Moves, Login, Goto
  <2> QED
    BY <2>3, <2>4, <2>5, StepMoves
<1> QED
  BY <1>1, <1>2, GameInvariant, RunningThreadsSubscribed, PTL DEF Spec

\* The variables of the server have the types of the code's (TypeOK).
THEOREM ServerTypes == Spec => []TypeOK
<1>1. GameInv /\ RestTypes /\ BP!TypeOK => TypeOK
  BY DEF GameInv, IdInv, IdTypes, GameTypes, RestTypes, TypeOK, BP!TypeOK, Bus!TypeOK
<1> QED
  BY <1>1, RestInvariant, ServerUsesBus, BP!BusTypes, PTL

=============================================================================
