SPECIFICATION Spec
CONSTANTS
  Signatures = {g1, g2}
  DefaultSignature = g1
  RoomIds = {r1, r2}
  None = None
  ServicesFail = TRUE
  HostMayDie = TRUE
  MaxOrphans = 1

  
PROPERTIES
  FailsClosed
  TunnelsAreKept
  OnlyFailedServersAreOrphaned
CHECK_DEADLOCK FALSE
