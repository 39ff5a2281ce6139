SPECIFICATION Spec
CONSTANTS
  HostIds = {h1}
  RoomIds = {r1, r2}
  Holders = {f1}
  HostCredentials <- AllCredentials
  SessionIds = {s1, s2}
  TunnelIds = {t1, t2}
  StreamIds = {x1, x2}
  OpenCalls = {c1}
  Nobody = Nobody
  AsyncService = FALSE
  ServiceConsumes = TRUE
  SessionTtl = 1
  MaxRoomMembers = 2
  MaxSessionTime = 2
  IdleTimeout = 1
  MaxRoomBytes = 4
  MaxMonthlyHostBytes = 5
  FrameSizes = {2}
  MaxTime = 3
  MaxCloses = 2
INVARIANTS
  BytesAddUp
PROPERTIES
  EndedStreamsStayEnded
SYMMETRY Symmetry
CHECK_DEADLOCK FALSE
