SPECIFICATION Spec
CONSTANTS
  HostIds = {h1, h2}
  RoomIds = {r1}
  Holders = {f1, f2}
  HostCredentials <- AllCredentials
  SessionIds = {s1, s2}
  TunnelIds = {t1, t2}
  StreamIds = {x1, x2}
  OpenCalls = {c1, c2}
  Nobody = Nobody
  AsyncService = TRUE
  ServiceConsumes = TRUE
  SessionTtl = 1
  MaxRoomMembers = 1
  MaxSessionTime = 2
  IdleTimeout = 1
  MaxRoomBytes = 2
  MaxMonthlyHostBytes = 2
  FrameSizes = {}
  MaxTime = 1
  MaxCloses = 2
INVARIANTS
  OpenStreamsHaveTheirTunnel
  RoomsAreNotOverfull
  OneStreamPerSession
  StreamsMatchSessions
SYMMETRY Symmetry
CHECK_DEADLOCK FALSE
