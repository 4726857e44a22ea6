SPECIFICATION FairSpec
CONSTANTS
  Base = 8
  BufferSize = 11
  Space = 3
  Slash = 1
  Newline = 0
  IdSize = 2
  CutPoints = {4}
  MaxLines = 2
  MaxNotices = 1
  Lines <- MCLines
  IdWord <- MCIdWord
  Password <- MCPassword
  Greeting <- MCGreeting
  Refusals <- MCRefusals
  DropWord <- MCDropWord
  Replies <- MCReplies
  Notices <- MCNotices
INVARIANTS
  TypeOK
  RepliesInOrder
  RequestsInOrder
  RefusalShown
PROPERTIES
  EndsTogether
  QueuesDrain
CHECK_DEADLOCK FALSE
