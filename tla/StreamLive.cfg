SPECIFICATION FairSpec
CONSTANTS
  Stream = {s1}
  DeviceKey = dev
  Handler = {h1}
  Inviter = {i1}
  Stopper = {p1}
  Byer = {b1}
  ChanCap = 1
  MaxInvites = 1
  MaxStops = 2
CHECK_DEADLOCK FALSE
PROPERTIES GuardReleased StopClearsContext PipelineEnds
