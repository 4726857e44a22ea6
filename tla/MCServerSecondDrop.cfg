SPECIFICATION Spec
CONSTANTS
  c1 = c1
  c2 = c2
  c3 = c3
  NoConn = NoConn
  Attempts = 1
  Conns = {c1, c2, c3}
  RequestKinds <- IdentityKinds
  MaxRequests = 0
  MaxQueued = 0
  UserIds = {}
  Leavers = {c1, c2, c3}
  Builds = {TRUE}
SYMMETRY Symmetry
PROPERTY SecondDropRefused
CHECK_DEADLOCK FALSE
