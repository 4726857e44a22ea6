SPECIFICATION Spec
CONSTANTS
  c1 = c1
  c2 = c2
  c3 = c3
  NoConn = NoConn
  Attempts = 1
  Conns = {c1, c2, c3}
  RequestKinds <- IdentityKinds
  MaxRequests = 2
  MaxQueued = 1
  UserIds = {2}
  Leavers = {c1, c2, c3}
  Builds = {TRUE}
SYMMETRY Symmetry
INVARIANTS
  TypeOK
  SessionsDistinct
  RegisteredHasThread
  NeverCutOff
PROPERTY UnauthenticatedInert
CHECK_DEADLOCK FALSE
