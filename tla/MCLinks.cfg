\* Connections against two changes of the users and against reports.
SPECIFICATION FairSpec
CONSTANTS
  u1 = u1
  c1 = c1
  c2 = c2
  ip1 = ip1
  ip2 = ip2
  Users <- MCUsers
  Conns <- MCConns
  User <- MCUser
  Ip <- MCIp
  Direct = {c2}
  Speeds = {"unlimited", "slow"}
  Device <- MCDevice
  MaxUpdates = 2
INVARIANTS
  TypeOK
  Reachable
  SpeedInForce
  Seen
PROPERTY
  RevocationEnds
CHECK_DEADLOCK FALSE
