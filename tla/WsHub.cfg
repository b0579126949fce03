SPECIFICATION FairSpec
CONSTANTS
  Clients = 2
  Id = {u1}
  ChanCap = 1
  BroadcastCap = 2
  MaxLifetime = 1
  MaxTime = 1
  MaxMessages = 2
CHECK_DEADLOCK FALSE
INVARIANTS TypeOK ReleasedNotListed UnlistedHadNamesake TalkFree
PROPERTIES SilentUnlisted ClosedIsReleased
