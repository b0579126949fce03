SPECIFICATION FairSpec
CONSTANTS
  Client = {c1, c2}
  Topics <- MCTopics
  MsgCap = 1
  LineCap = 1
  MaxLines = 2
CHECK_DEADLOCK FALSE
INVARIANTS TypeOK Accounted StaleTakesFew
PROPERTIES ConnectionEnds
