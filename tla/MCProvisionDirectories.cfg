SPECIFICATION Spec
CONSTANTS
  c1 = c1
  c2 = c2
  Conns <- MCConns
  Nodes <- MCNodes
  Configs <- Legacy
  Keys <- MCKeys
  Names <- MCNames
  Base <- MCBase
INVARIANT
  InForce
CHECK_DEADLOCK FALSE
