SPECIFICATION Spec
CONSTANTS
  ActorIds = {h1}
  Uuids = {u1}
  Devices = {d1}
  RoomIds = {r1}
  InviteIds = {i1}
  RequestIds = {q1}
  SessionIds = {s1}
  CallIds = {c1, c2}
  Stores <- OverlappingServices
  InviteTtl = 1
  PresenceTtl = 2
  SessionTtl = 2
  JoinRequestLimit = 1
  JoinRequestWindow = 1
  MaxTime = 2
  MaxCount = 2
INVARIANT
  SessionsAreApproved
SYMMETRY Symmetry
CHECK_DEADLOCK FALSE
