SPECIFICATION RetryingSpec
CONSTANTS
  Signatures = {g1, g2}
  DefaultSignature = g1
  RoomIds = {r1}
  None = None
  ServicesFail = TRUE
  HostMayDie = FALSE
  MaxOrphans = 1
PROPERTY
  CleanupCanFinish
CHECK_DEADLOCK FALSE
