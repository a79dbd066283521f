CONSTANTS
  RoomIds = {r1}
  PlayerIds = {p1, p2}
  Conns = {c1, c2}
  Codes = {k1}
  Callers = {a1}
  Capacities = {1, 2}
  Requests <- PlayerRequests
  NoRoom = NoRoom
  NoPlayer = NoPlayer
  NoConn = NoConn
  NoCode = NoCode
  Idle = Idle
SPECIFICATION FairSpec
INVARIANTS
  TypeOK
  CredentialsAreShown
PROPERTIES
  LossesAreNoticed
CHECK_DEADLOCK FALSE
