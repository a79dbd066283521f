CONSTANTS
  RoomIds = {r1, r2}
  PlayerIds = {p1, p2, p3}
  Conns = {c1, c2, c3}
  Codes = {k1, k2}
  Callers = {a1, a2}
  Capacities = {2}
  Requests = {"leave", "initialize"}
  NoRoom = NoRoom
  NoPlayer = NoPlayer
  NoConn = NoConn
  NoCode = NoCode
  Idle = Idle
SPECIFICATION Spec
SYMMETRY RoomSymmetry
INVARIANTS
  SessionsAreMembers
  CodesLeadToOpenRooms
  PresenceIsAttachment
  GameKeepsItsTable
  NewsReachMembersOnly
CHECK_DEADLOCK FALSE
