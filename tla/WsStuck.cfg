SPECIFICATION FairSpec
CONSTANTS
  Clients = 1
  Id = {u1}
  ChanCap = 2
  BroadcastCap = 2
  MaxLifetime = 1
  MaxTime = 0
  MaxMessages = 2
CHECK_DEADLOCK FALSE
PROPERTY TalkAnswered
