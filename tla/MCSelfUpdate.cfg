\* Two updaters, failures of every step and power losses.
SPECIFICATION Spec
CONSTANTS
  Versions <- MCVersions
  First = "v1"
  MaxPublish = 2
INVARIANTS
  TypeOK
  OnlyVerified
  Recoverable
CHECK_DEADLOCK FALSE
