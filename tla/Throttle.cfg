SPECIFICATION FairSpec
CONSTANTS
  Caller = {c1, c2}
  Period = 2
  MaxRetries = 2
  MaxCalls = 3
  MaxTime = 6
CHECK_DEADLOCK FALSE
INVARIANTS TypeOK PendingHasTimer NoCallLost RunsOnce
PROPERTIES EveryCallEnds KeepsContract
