SPECIFICATION FairSpec
CONSTANTS
  c1 = c1
  c2 = c2
  Conns <- MCConns
  Nodes <- MCNodes
  Configs <- MCConfigs
  Keys <- MCKeys
  Names <- MCNames
  Base <- MCBase
INVARIANTS
  TypeOK
  PairUsable
  OwnCredentials
  RoutesResolve
PROPERTY
  Renewed
CHECK_DEADLOCK FALSE
