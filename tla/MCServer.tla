------------------------------ MODULE MCServer ------------------------------
(* Model-checking instances of the server: few connections, few requests.    *)
EXTENDS ServerCorrectness, TLC

CONSTANTS c1, c2, c3

\* Where all clients may make the same requests, threads differ in nothing but their name.
Symmetry == Permutations(Conns)

Same(kinds) == [c \in Conns |-> kinds]

\* Every client makes every request that does not need a game.
IdentityKinds == Same({"CHAT", "REQUEST", "SPECTATE", "MALFORMED", "DM", "DROP"})

\* Every client plays, with all the commands about games, and one that breaks them.
GameKinds == Same({"STARTGAME", "HINT", "GUESS", "CANCEL", "DROP", "BADHINT"})

\* Clients that do nothing but leave.
DropKinds == Same({"DROP"})

\* Both clients start games with each other, so two at once, guess and drop out.
PairKinds == Same({"STARTGAME", "GUESS", "DROP"})

\* c1 plays and drops out; c2 starts games, and sends messages all the time.
BusyKinds == [c \in Conns |-> IF c = c1 THEN {"GUESS", "DROP"}
                                       ELSE {"STARTGAME", "DM"}]

=============================================================================
