SPECIFICATION Spec
CONSTANTS
  Stream = {s1}
  DeviceKey = dev
  Handler = {h1}
  Inviter = {i1}
  Stopper = {p1}
  Byer = {b1}
  ChanCap = 1
  MaxInvites = 1
  MaxStops = 1
CHECK_DEADLOCK FALSE
PROPERTY StopSendsBye
