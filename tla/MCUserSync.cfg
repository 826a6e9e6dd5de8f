\* Six lists, one with a user xray refuses; restarts and replacements.
SPECIFICATION FairSpec
CONSTANTS
  u1 = u1
  u2 = u2
  bad = bad
  Users <- MCUsers
  Plans <- MCPlans
  Lists <- MCLists
  Refused = {bad}
  MaxLists = 4
  MaxStarts = 3
INVARIANTS
  TypeOK
  LimiterMatches
  InStep
  Attributed
PROPERTY
  Converges
CHECK_DEADLOCK FALSE
