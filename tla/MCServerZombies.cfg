SPECIFICATION Spec
CONSTANTS
  c1 = c1
  c2 = c2
  c3 = c3
  NoConn = NoConn
  Attempts = 1
  Conns = {c1, c2}
  RequestKinds <- DropKinds
  MaxRequests = 1
  MaxQueued = 0
  UserIds = {}
  Leavers = {}
  Builds = {TRUE}
SYMMETRY Symmetry
INVARIANT ConnectedUsersConnected
CHECK_DEADLOCK FALSE
