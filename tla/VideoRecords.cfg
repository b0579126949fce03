SPECIFICATION FairSpec
CONSTANTS
  Requester = {r1, r2}
  Day = {"24-01-02", "24-01-20", "24-01-03"}
  SN <- MCSN
  Total <- MCTotal
  ChanCap = 1
CHECK_DEADLOCK FALSE
INVARIANTS TypeOK FirstAnswerComplete
PROPERTY NothingLeft
