\* The last users leave after a run that xray refused.
SPECIFICATION FairSpec
CONSTANTS
  u1 = u1
  u2 = u2
  bad = bad
  Users <- MCUsers
  Plans <- MCPlans
  Lists <- MCLists
  Refused = {bad}
  MaxLists = 4
  MaxStarts = 3
INVARIANT EmptyListRevokes
CHECK_DEADLOCK FALSE
