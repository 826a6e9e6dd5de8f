\* Five clients of four requests against the timeout, both ends leaving and
\* one relay that answers once; associations hold one message.
SPECIFICATION FairSpec
CONSTANTS
  u1 = u1
  u2 = u2
  Users <- MCUsers
  r1 = r1
  r2 = r2
  r3 = r3
  r4 = r4
  Ids <- MCIds
  Sessions = {1}
  Scripts <- MCScripts
  QueueSize = 1
  Sizes = {900, 2000}
  Limit = 1000
  Answering = {r4}
  MaxWrites = 1
INVARIANTS
  TypeOK
  AuthFirst
  Registered
  Intact
PROPERTY
  Released
CHECK_DEADLOCK FALSE
