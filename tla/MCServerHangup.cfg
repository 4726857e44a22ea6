SPECIFICATION FairSpec
CONSTANTS
  c1 = c1
  c2 = c2
  c3 = c3
  NoConn = NoConn
  Attempts = 1
  Conns = {c1, c2}
  RequestKinds <- PairKinds
  MaxRequests = 3
  MaxQueued = 0
  UserIds = {1, 2}
  Leavers = {c1}
  Builds = {TRUE}
PROPERTY EveryHungUpThreadEnds
CHECK_DEADLOCK FALSE
