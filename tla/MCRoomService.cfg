SPECIFICATION Spec
CONSTANTS
  ActorIds = {h1}
  Uuids = {u1}
  Devices = {d1}
  RoomIds = {r1}
  InviteIds = {i1, i2}
  RequestIds = {q1, q2}
  SessionIds = {s1, s2}
  CallIds = {c1, c2}
  Stores <- Services
  InviteTtl = 1
  PresenceTtl = 2
  SessionTtl = 2
  JoinRequestLimit = 1
  JoinRequestWindow = 1
  MaxTime = 2
  MaxCount = 2
INVARIANTS
  ApprovedHasSession
  
  
PROPERTIES
  ImplementsAdmission
SYMMETRY Symmetry
CHECK_DEADLOCK FALSE
