SPECIFICATION HSpec
CONSTANTS
  Conns = {c1, c2, c3}
  Messages = {m1, m2}
  MaxPublished = 3
INVARIANTS
  TypeOK
  UniqueChannelIds
  LiveSubscribed
PROPERTY ImplementsTotalOrder
CHECK_DEADLOCK FALSE
