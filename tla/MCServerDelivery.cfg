SPECIFICATION DeliverySpec
CONSTANTS
  c1 = c1
  c2 = c2
  c3 = c3
  NoConn = NoConn
  Attempts = 1
  Conns = {c1, c2}
  RequestKinds <- BusyKinds
  MaxRequests = 3
  MaxQueued = 2
  UserIds = {1}
  Leavers = {c1}
  Builds = {TRUE}
PROPERTIES
  HungUpThreadsEnd
  QueuesMove
  InvitationsArrive
CHECK_DEADLOCK FALSE
