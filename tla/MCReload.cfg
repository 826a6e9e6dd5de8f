\* Boot, reloads of two versions and exit, with up to two failures.
SPECIFICATION FairSpec
CONSTANTS
  p1 = p1
  p2 = p2
  Protocols <- MCProtocols
  Enabled <- MCEnabled
  MaxVer = 2
  MaxFails = 2
INVARIANTS
  TypeOK
  WorkersOnLiveCore
  NoLeak
  AllOrNothing
PROPERTIES
  ShutsDown
  Converges
CHECK_DEADLOCK FALSE
