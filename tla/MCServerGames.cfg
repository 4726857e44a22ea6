SPECIFICATION Spec
CONSTANTS
  c1 = c1
  c2 = c2
  c3 = c3
  NoConn = NoConn
  Attempts = 1
  Conns = {c1, c2}
  RequestKinds <- GameKinds
  MaxRequests = 3
  MaxQueued = 0
  UserIds = {1, 2}
  Leavers = {c1, c2}
  Builds = {TRUE, FALSE}
SYMMETRY Symmetry
INVARIANTS
  GamesWellFormed
  PlayersAccountedFor
PROPERTIES
  ImplementsLobby
  GameMoves
  EndsAreAnnounced
  HintsReachTheGuest
  PoisonFreezes
CHECK_DEADLOCK FALSE
