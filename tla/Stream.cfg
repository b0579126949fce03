SPECIFICATION Spec
CONSTANTS
  Stream = {s1, s2}
  DeviceKey = dev
  Handler = {h1, h2}
  Inviter = {i1, i2}
  Stopper = {p1}
  Byer = {b1}
  ChanCap = 1
  MaxInvites = 2
  MaxStops = 0
CHECK_DEADLOCK FALSE
SYMMETRY Perms
INVARIANTS TypeOK GuardHeld ContextOfStream LiveDialogKept
