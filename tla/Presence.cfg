SPECIFICATION MCSpec
CONSTANTS
  Device = {1, 2}
  Handler = {1, 2}
  Writer = {1, 2}
  Expires = {0, 1}
  HeartbeatTimeout = 2
  RegisterGrace = 0
  KeepaliveMargin = 0
  ChanCap = 1
  StartTime = 4
  MaxTime = 6
  MaxRequests = 2
  MaxRestarts = 1
INVARIANTS TypeOK OnlyGrantedOnline WatchWithinGrant
PROPERTIES NoResurrection FollowsLife HandlersFinish StaleWatchEnds
