SPECIFICATION HttpSpec
CONSTANTS
  ActorIds = {h1, h2}
  Uuids = {u1, u2}
  RoomIds = {r1, r2}
  InviteIds = {i1, i2}
  RequestIds = {q1, q2}
  SessionIds = {s1, s2}
  InviteTtl = 2
  PresenceTtl = 1
  SessionTtl = 1
  MaxTime = 3
  ActorTypes = {"service", "friend"}
  InviteHandles = {ih1, ih2}
  SessionHandles = {sh1, sh2}
INVARIANTS
  PermissionRule
  OneSessionPerRequest
  ReadableSessionIsFresh
  MapsMirrorTables
PROPERTIES
  ImplementsAdmission
SYMMETRY Symmetry
