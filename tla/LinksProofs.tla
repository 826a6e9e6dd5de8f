----------------------------- MODULE LinksProofs -----------------------------
(***************************************************************************)
(* Proofs about Links, for any users, connections, addresses, limits and   *)
(* numbers of changes. What carries them: nobody begins a connection for a *)
(* user while CloseAll works on him, so whatever is still being made then  *)
(* began before; a bucket keeps the speed of the limits it was made under  *)
(* as long as no CheckLimit overlaps their change; and an address that is  *)
(* stored while no report is under way is in the next one.                 *)
(***************************************************************************)
EXTENDS Links, TLAPS

(* The user the monitor works on.                                          *)
Subject ==
  /\ mpc # "idle" => subject \in Users
  /\ mpc \in {"take", "close"} => subject \notin xray
  /\ mpc # "close" => taken = {}

(* Managers and the links they hold. A link is in one manager only, which  *)
(* belongs to its user, and not in it once CloseAll has taken it.          *)
Managers ==
  /\ \A u \in Users : mgr[u] # None => User[mgr[u]] = u
  /\ \A c \in Conns :
       /\ mine[c] # None => User[mine[c]] = User[c]
       /\ pc[c] \in {"add", "open"} => mine[c] # None
  /\ \A m \in Conns : \A c \in links[m] : m = mine[c] /\ c \notin taken
  /\ \A c \in taken : pc[c] \in {"open", "closed"}

(* A connection that is being made while its user is revoked raced with    *)
(* that; any other one will be added to the manager in the table.          *)
Made ==
  /\ \A c \in Conns \ raced : pc[c] = "add" => mine[c] = mgr[User[c]]
  /\ mpc = "close" =>
       \A c \in ConnsOf(subject) \ raced :
         pc[c] \notin Making /\ (pc[c] = "open" => c \in Direct \cup taken)

(* The limits of the user are being deleted, but not his bucket yet.       *)
Deleting(u) == mpc \in {"offline", "unbucket"} /\ subject = u

(* Buckets and the limits they were made under.                            *)
Buckets ==
  /\ mpc \in {"offline", "unbucket", "store"} => limits[subject] = Gone
  /\ \A u \in Users : bucket[u] # None =>
       /\ User[bucket[u]] = u
       /\ pc[bucket[u]] \in {"keep", "manager", "add", "open", "closed"}
  /\ \A c \in fresh :
       /\ pc[c] \in {"keep", "manager", "add", "open"}
       /\ rate[c] # Unlimited => holds[c] # None
  /\ \A c \in Conns : calm[User[c]] =>
       /\ pc[c] = "keep" => bucket[User[c]] = c /\ holds[c] = c
       /\ pc[c] \in Checking /\ limits[User[c]] # Gone =>
            rate[c] = limits[User[c]]
  /\ \A u \in Users : calm[u] /\ limits[u] = Gone /\ ~Deleting(u) =>
       bucket[u] = None /\ \A c \in ConnsOf(u) : pc[c] \notin Checking

(* What a report has read is what it is about to delete.                   *)
Read ==
  rpc # None =>
    \A c \in ConnsOf(rpc) \ unseen :
      pc[c] \in Tracked => Ip[c] \in got \/ c \in reported

IInv == TypeOK /\ Subject /\ Managers /\ Made /\ Reachable /\ Buckets
          /\ SpeedInForce /\ Read /\ Seen

-----------------------------------------------------------------------------
(* A user without connections.                                             *)
LEMMA InitIInv == Init => IInv
  <1> USE UserAssumption, SetAssumption, NumberAssumption, NoneAssumption,
          GoneAssumption
  <1> SUFFICES ASSUME Init PROVE IInv
    OBVIOUS
  <1>1. TypeOK BY DEF Init, TypeOK, Making
  <1>2. Subject BY DEF Init, Subject
  <1>3. Managers /\ Made /\ Reachable
    BY DEF Init, Managers, Made, Reachable
  <1>4. Buckets /\ SpeedInForce
    BY DEF Init, Buckets, SpeedInForce, Deleting, Checking
  <1>5. Read /\ Seen
    BY DEF Init, Read, Seen, Tracked
  <1> QED BY <1>1, <1>2, <1>3, <1>4, <1>5 DEF IInv

(* Every step keeps the types.                                             *)
LEMMA TypeStep ==
  ASSUME TypeOK, Subject, [Next]_vars
  PROVE  TypeOK'
  <1> USE UserAssumption, SetAssumption, NumberAssumption, NoneAssumption,
          GoneAssumption
  <1> USE DEF goto, tableVars, connVars, monitorVars, reportVars, historyVars,
              TypeOK, Subject, Making, Ips, ConnsOf
  <1>1. ASSUME NEW c \in Conns, Authenticate(c) PROVE TypeOK'
    BY <1>1 DEF Authenticate
  <1>2. ASSUME NEW c \in Conns, NEW tracked \in BOOLEAN, LoadLimit(c, tracked)
        PROVE  TypeOK'
    BY <1>2 DEF LoadLimit
  <1>3. ASSUME NEW c \in Conns, Refuse(c) PROVE TypeOK'
    BY <1>3 DEF Refuse, Ends
  <1>4. ASSUME NEW c \in Conns, Track(c) PROVE TypeOK'
    BY <1>4 DEF Track
  <1>5. ASSUME NEW c \in Conns, TrackIp(c) PROVE TypeOK'
    BY <1>5 DEF TrackIp
  <1>6. ASSUME NEW c \in Conns, TakeBucket(c) PROVE TypeOK'
    BY <1>6 DEF TakeBucket
  <1>7. ASSUME NEW c \in Conns, KeepBucket(c) PROVE TypeOK'
    BY <1>7 DEF KeepBucket
  <1>8. ASSUME NEW c \in Conns, TakeManager(c) PROVE TypeOK'
    BY <1>8 DEF TakeManager
  <1>9. ASSUME NEW c \in Conns, AddLink(c) PROVE TypeOK'
    BY <1>9 DEF AddLink
  <1>10. ASSUME NEW c \in Conns, CloseLink(c) PROVE TypeOK'
    BY <1>10 DEF CloseLink, Ends
  <1>11. ASSUME NEW c \in Conns, CloseTaken(c) PROVE TypeOK'
    BY <1>11 DEF CloseTaken, Ends
  <1>12. ASSUME NEW u \in Users, NEW plan \in Speeds \cup {Gone},
                UpdateBegins(u, plan)
        PROVE  TypeOK'
    BY <1>12 DEF UpdateBegins
  <1>13. ASSUME RemoveUser PROVE TypeOK'
    BY <1>13 DEF RemoveUser
  <1>14. ASSUME TakeLinks PROVE TypeOK'
    BY <1>14 DEF TakeLinks
  <1>15. ASSUME DropManager PROVE TypeOK'
    BY <1>15 DEF DropManager
  <1>16. ASSUME AddUser PROVE TypeOK'
    BY <1>16 DEF AddUser
  <1>17. ASSUME DeleteLimit PROVE TypeOK'
    BY <1>17 DEF DeleteLimit
  <1>18. ASSUME DeleteOnline PROVE TypeOK'
    BY <1>18 DEF DeleteOnline, Forget
  <1>19. ASSUME DeleteBucket PROVE TypeOK'
    BY <1>19 DEF DeleteBucket, UpdateEnds
  <1>20. ASSUME StoreLimit PROVE TypeOK'
    BY <1>20 DEF StoreLimit, UpdateEnds
  <1>21. ASSUME NEW u \in Users, ReadOnline(u) PROVE TypeOK'
    BY <1>21 DEF ReadOnline
  <1>22. ASSUME ResetOnline PROVE TypeOK'
    BY <1>22 DEF ResetOnline, Forget
  <1>23. CASE UNCHANGED vars
    BY <1>23 DEF vars, tableVars, historyVars
  <1> QED
    BY <1>1, <1>2, <1>3, <1>4, <1>5, <1>6, <1>7, <1>8, <1>9, <1>10, <1>11,
       <1>12, <1>13, <1>14, <1>15, <1>16, <1>17, <1>18, <1>19, <1>20, <1>21,
       <1>22, <1>23
    DEF Next, Connection, CheckLimit, MonitorStep

(* The monitor works on one user at a time, and has removed him first.     *)
LEMMA SubjectStep ==
  ASSUME TypeOK, Subject, [Next]_vars
  PROVE  Subject'
  <1> USE UserAssumption, SetAssumption, NumberAssumption, NoneAssumption,
          GoneAssumption
  <1> USE DEF goto, tableVars, connVars, monitorVars, reportVars, historyVars,
              TypeOK, Subject
  <1>1. ASSUME NEW c \in Conns, Authenticate(c) PROVE Subject'
    BY <1>1 DEF Authenticate
  <1>2. ASSUME NEW c \in Conns, NEW tracked \in BOOLEAN, LoadLimit(c, tracked)
        PROVE  Subject'
    BY <1>2 DEF LoadLimit
  <1>3. ASSUME NEW c \in Conns, Refuse(c) PROVE Subject'
    BY <1>3 DEF Refuse, Ends
  <1>4. ASSUME NEW c \in Conns, Track(c) PROVE Subject'
    BY <1>4 DEF Track
  <1>5. ASSUME NEW c \in Conns, TrackIp(c) PROVE Subject'
    BY <1>5 DEF TrackIp
  <1>6. ASSUME NEW c \in Conns, TakeBucket(c) PROVE Subject'
    BY <1>6 DEF TakeBucket
  <1>7. ASSUME NEW c \in Conns, KeepBucket(c) PROVE Subject'
    BY <1>7 DEF KeepBucket
  <1>8. ASSUME NEW c \in Conns, TakeManager(c) PROVE Subject'
    BY <1>8 DEF TakeManager
  <1>9. ASSUME NEW c \in Conns, AddLink(c) PROVE Subject'
    BY <1>9 DEF AddLink
  <1>10. ASSUME NEW c \in Conns, CloseLink(c) PROVE Subject'
    BY <1>10 DEF CloseLink, Ends
  <1>11. ASSUME NEW c \in Conns, CloseTaken(c) PROVE Subject'
    BY <1>11 DEF CloseTaken, Ends
  <1>12. ASSUME NEW u \in Users, NEW plan \in Speeds \cup {Gone},
                UpdateBegins(u, plan)
        PROVE  Subject'
    BY <1>12 DEF UpdateBegins
  <1>13. ASSUME RemoveUser PROVE Subject'
    BY <1>13 DEF RemoveUser
  <1>14. ASSUME TakeLinks PROVE Subject'
    BY <1>14 DEF TakeLinks
  <1>15. ASSUME DropManager PROVE Subject'
    BY <1>15 DEF DropManager
  <1>16. ASSUME AddUser PROVE Subject'
    BY <1>16 DEF AddUser
  <1>17. ASSUME DeleteLimit PROVE Subject'
    BY <1>17 DEF DeleteLimit
  <1>18. ASSUME DeleteOnline PROVE Subject'
    BY <1>18 DEF DeleteOnline, Forget
  <1>19. ASSUME DeleteBucket PROVE Subject'
    BY <1>19 DEF DeleteBucket, UpdateEnds
  <1>20. ASSUME StoreLimit PROVE Subject'
    BY <1>20 DEF StoreLimit, UpdateEnds
  <1>21. ASSUME NEW u \in Users, ReadOnline(u) PROVE Subject'
    BY <1>21 DEF ReadOnline
  <1>22. ASSUME ResetOnline PROVE Subject'
    BY <1>22 DEF ResetOnline, Forget
  <1>23. CASE UNCHANGED vars
    BY <1>23 DEF vars, tableVars, historyVars
  <1> QED
    BY <1>1, <1>2, <1>3, <1>4, <1>5, <1>6, <1>7, <1>8, <1>9, <1>10, <1>11,
       <1>12, <1>13, <1>14, <1>15, <1>16, <1>17, <1>18, <1>19, <1>20, <1>21,
       <1>22, <1>23
    DEF Next, Connection, CheckLimit, MonitorStep

(* Links stay in the manager of their user until CloseAll takes them.      *)
LEMMA LinksStep ==
  ASSUME TypeOK, Subject, Managers, Made, Reachable, [Next]_vars
  PROVE  Managers' /\ Made' /\ Reachable'
  <1> USE UserAssumption, SetAssumption, NumberAssumption, NoneAssumption,
          GoneAssumption
  <1> USE DEF goto, tableVars, connVars, monitorVars, reportVars, historyVars,
              TypeOK, Subject, Managers, Made, Reachable, Making, ConnsOf
  <1>1. ASSUME NEW c \in Conns, Authenticate(c)
        PROVE  Managers' /\ Made' /\ Reachable'
    BY <1>1 DEF Authenticate
  <1>2. ASSUME NEW c \in Conns, NEW tracked \in BOOLEAN, LoadLimit(c, tracked)
        PROVE  Managers' /\ Made' /\ Reachable'
    BY <1>2 DEF LoadLimit
  <1>3. ASSUME NEW c \in Conns, Refuse(c)
        PROVE  Managers' /\ Made' /\ Reachable'
    BY <1>3 DEF Refuse, Ends
  <1>4. ASSUME NEW c \in Conns, Track(c) PROVE Managers' /\ Made' /\ Reachable'
    BY <1>4 DEF Track
  <1>5. ASSUME NEW c \in Conns, TrackIp(c)
        PROVE  Managers' /\ Made' /\ Reachable'
    BY <1>5 DEF TrackIp
  <1>6. ASSUME NEW c \in Conns, TakeBucket(c)
        PROVE  Managers' /\ Made' /\ Reachable'
    BY <1>6 DEF TakeBucket
  <1>7. ASSUME NEW c \in Conns, KeepBucket(c)
        PROVE  Managers' /\ Made' /\ Reachable'
    BY <1>7 DEF KeepBucket
  <1>8. ASSUME NEW c \in Conns, TakeManager(c)
        PROVE  Managers' /\ Made' /\ Reachable'
    BY <1>8 DEF TakeManager
  <1>9. ASSUME NEW c \in Conns, AddLink(c)
        PROVE  Managers' /\ Made' /\ Reachable'
    BY <1>9 DEF AddLink
  <1>10. ASSUME NEW c \in Conns, CloseLink(c)
        PROVE  Managers' /\ Made' /\ Reachable'
    BY <1>10 DEF CloseLink, Ends
  <1>11. ASSUME NEW c \in Conns, CloseTaken(c)
        PROVE  Managers' /\ Made' /\ Reachable'
    BY <1>11 DEF CloseTaken, Ends
  <1>12. ASSUME NEW u \in Users, NEW plan \in Speeds \cup {Gone},
                UpdateBegins(u, plan)
        PROVE  Managers' /\ Made' /\ Reachable'
    BY <1>12 DEF UpdateBegins
  <1>13. ASSUME RemoveUser PROVE Managers' /\ Made' /\ Reachable'
    BY <1>13 DEF RemoveUser
  <1>14. ASSUME TakeLinks PROVE Managers' /\ Made' /\ Reachable'
    BY <1>14 DEF TakeLinks
  <1>15. ASSUME DropManager PROVE Managers' /\ Made' /\ Reachable'
    BY <1>15 DEF DropManager
  <1>16. ASSUME AddUser PROVE Managers' /\ Made' /\ Reachable'
    BY <1>16 DEF AddUser
  <1>17. ASSUME DeleteLimit PROVE Managers' /\ Made' /\ Reachable'
    BY <1>17 DEF DeleteLimit
  <1>18. ASSUME DeleteOnline PROVE Managers' /\ Made' /\ Reachable'
    BY <1>18 DEF DeleteOnline, Forget
  <1>19. ASSUME DeleteBucket PROVE Managers' /\ Made' /\ Reachable'
    BY <1>19 DEF DeleteBucket, UpdateEnds
  <1>20. ASSUME StoreLimit PROVE Managers' /\ Made' /\ Reachable'
    BY <1>20 DEF StoreLimit, UpdateEnds
  <1>21. ASSUME NEW u \in Users, ReadOnline(u)
        PROVE  Managers' /\ Made' /\ Reachable'
    BY <1>21 DEF ReadOnline
  <1>22. ASSUME ResetOnline PROVE Managers' /\ Made' /\ Reachable'
    BY <1>22 DEF ResetOnline, Forget
  <1>23. CASE UNCHANGED vars
    BY <1>23 DEF vars, tableVars, historyVars
  <1> QED
    BY <1>1, <1>2, <1>3, <1>4, <1>5, <1>6, <1>7, <1>8, <1>9, <1>10, <1>11,
       <1>12, <1>13, <1>14, <1>15, <1>16, <1>17, <1>18, <1>19, <1>20, <1>21,
       <1>22, <1>23
    DEF Next, Connection, CheckLimit, MonitorStep

(* Buckets keep the speed in force.                                        *)
LEMMA BucketsStep ==
  ASSUME TypeOK, Subject, Buckets, SpeedInForce, [Next]_vars
  PROVE  Buckets' /\ SpeedInForce'
  <1> USE UserAssumption, SetAssumption, NumberAssumption, NoneAssumption,
          GoneAssumption
  <1> USE DEF goto, tableVars, connVars, monitorVars, reportVars, historyVars,
              TypeOK, Subject, Buckets, SpeedInForce, Deleting, Checking,
              Making, ConnsOf
  <1>1. ASSUME NEW c \in Conns, Authenticate(c) PROVE Buckets' /\ SpeedInForce'
    BY <1>1 DEF Authenticate
  <1>2. ASSUME NEW c \in Conns, NEW tracked \in BOOLEAN, LoadLimit(c, tracked)
        PROVE  Buckets' /\ SpeedInForce'
    BY <1>2 DEF LoadLimit
  <1>3. ASSUME NEW c \in Conns, Refuse(c) PROVE Buckets' /\ SpeedInForce'
    BY <1>3 DEF Refuse, Ends
  <1>4. ASSUME NEW c \in Conns, Track(c) PROVE Buckets' /\ SpeedInForce'
    BY <1>4 DEF Track
  <1>5. ASSUME NEW c \in Conns, TrackIp(c) PROVE Buckets' /\ SpeedInForce'
    BY <1>5 DEF TrackIp
  <1>6. ASSUME NEW c \in Conns, TakeBucket(c) PROVE Buckets' /\ SpeedInForce'
    BY <1>6 DEF TakeBucket
  <1>7. ASSUME NEW c \in Conns, KeepBucket(c) PROVE Buckets' /\ SpeedInForce'
    BY <1>7 DEF KeepBucket
  <1>8. ASSUME NEW c \in Conns, TakeManager(c) PROVE Buckets' /\ SpeedInForce'
    BY <1>8 DEF TakeManager
  <1>9. ASSUME NEW c \in Conns, AddLink(c) PROVE Buckets' /\ SpeedInForce'
    BY <1>9 DEF AddLink
  <1>10. ASSUME NEW c \in Conns, CloseLink(c) PROVE Buckets' /\ SpeedInForce'
    BY <1>10 DEF CloseLink, Ends
  <1>11. ASSUME NEW c \in Conns, CloseTaken(c) PROVE Buckets' /\ SpeedInForce'
    BY <1>11 DEF CloseTaken, Ends
  <1>12. ASSUME NEW u \in Users, NEW plan \in Speeds \cup {Gone},
                UpdateBegins(u, plan)
        PROVE  Buckets' /\ SpeedInForce'
    BY <1>12 DEF UpdateBegins
  <1>13. ASSUME RemoveUser PROVE Buckets' /\ SpeedInForce'
    BY <1>13 DEF RemoveUser
  <1>14. ASSUME TakeLinks PROVE Buckets' /\ SpeedInForce'
    BY <1>14 DEF TakeLinks
  <1>15. ASSUME DropManager PROVE Buckets' /\ SpeedInForce'
    BY <1>15 DEF DropManager
  <1>16. ASSUME AddUser PROVE Buckets' /\ SpeedInForce'
    BY <1>16 DEF AddUser
  <1>17. ASSUME DeleteLimit PROVE Buckets' /\ SpeedInForce'
    BY <1>17 DEF DeleteLimit
  <1>18. ASSUME DeleteOnline PROVE Buckets' /\ SpeedInForce'
    BY <1>18 DEF DeleteOnline, Forget
  <1>19. ASSUME DeleteBucket PROVE Buckets' /\ SpeedInForce'
    BY <1>19 DEF DeleteBucket, UpdateEnds
  <1>20. ASSUME StoreLimit PROVE Buckets' /\ SpeedInForce'
    BY <1>20 DEF StoreLimit, UpdateEnds
  <1>21. ASSUME NEW u \in Users, ReadOnline(u) PROVE Buckets' /\ SpeedInForce'
    BY <1>21 DEF ReadOnline
  <1>22. ASSUME ResetOnline PROVE Buckets' /\ SpeedInForce'
    BY <1>22 DEF ResetOnline, Forget
  <1>23. CASE UNCHANGED vars
    BY <1>23 DEF vars, tableVars, historyVars
  <1> QED
    BY <1>1, <1>2, <1>3, <1>4, <1>5, <1>6, <1>7, <1>8, <1>9, <1>10, <1>11,
       <1>12, <1>13, <1>14, <1>15, <1>16, <1>17, <1>18, <1>19, <1>20, <1>21,
       <1>22, <1>23
    DEF Next, Connection, CheckLimit, MonitorStep

(* Addresses are online until they are reported.                           *)
LEMMA SeenStep ==
  ASSUME TypeOK, Subject, Read, Seen, [Next]_vars
  PROVE  Read' /\ Seen'
  <1> USE UserAssumption, SetAssumption, NumberAssumption, NoneAssumption,
          GoneAssumption
  <1> USE DEF goto, tableVars, connVars, monitorVars, reportVars, historyVars,
              TypeOK, Subject, Read, Seen, Tracked, Making, ConnsOf
  <1>1. ASSUME NEW c \in Conns, Authenticate(c) PROVE Read' /\ Seen'
    BY <1>1 DEF Authenticate
  <1>2. ASSUME NEW c \in Conns, NEW tracked \in BOOLEAN, LoadLimit(c, tracked)
        PROVE  Read' /\ Seen'
    BY <1>2 DEF LoadLimit
  <1>3. ASSUME NEW c \in Conns, Refuse(c) PROVE Read' /\ Seen'
    BY <1>3 DEF Refuse, Ends
  <1>4. ASSUME NEW c \in Conns, Track(c) PROVE Read' /\ Seen'
    BY <1>4 DEF Track
  <1>5. ASSUME NEW c \in Conns, TrackIp(c) PROVE Read' /\ Seen'
    BY <1>5 DEF TrackIp
  <1>6. ASSUME NEW c \in Conns, TakeBucket(c) PROVE Read' /\ Seen'
    BY <1>6 DEF TakeBucket
  <1>7. ASSUME NEW c \in Conns, KeepBucket(c) PROVE Read' /\ Seen'
    BY <1>7 DEF KeepBucket
  <1>8. ASSUME NEW c \in Conns, TakeManager(c) PROVE Read' /\ Seen'
    BY <1>8 DEF TakeManager
  <1>9. ASSUME NEW c \in Conns, AddLink(c) PROVE Read' /\ Seen'
    BY <1>9 DEF AddLink
  <1>10. ASSUME NEW c \in Conns, CloseLink(c) PROVE Read' /\ Seen'
    BY <1>10 DEF CloseLink, Ends
  <1>11. ASSUME NEW c \in Conns, CloseTaken(c) PROVE Read' /\ Seen'
    BY <1>11 DEF CloseTaken, Ends
  <1>12. ASSUME NEW u \in Users, NEW plan \in Speeds \cup {Gone},
                UpdateBegins(u, plan)
        PROVE  Read' /\ Seen'
    BY <1>12 DEF UpdateBegins
  <1>13. ASSUME RemoveUser PROVE Read' /\ Seen'
    BY <1>13 DEF RemoveUser
  <1>14. ASSUME TakeLinks PROVE Read' /\ Seen'
    BY <1>14 DEF TakeLinks
  <1>15. ASSUME DropManager PROVE Read' /\ Seen'
    BY <1>15 DEF DropManager
  <1>16. ASSUME AddUser PROVE Read' /\ Seen'
    BY <1>16 DEF AddUser
  <1>17. ASSUME DeleteLimit PROVE Read' /\ Seen'
    BY <1>17 DEF DeleteLimit
  <1>18. ASSUME DeleteOnline PROVE Read' /\ Seen'
    BY <1>18 DEF DeleteOnline, Forget
  <1>19. ASSUME DeleteBucket PROVE Read' /\ Seen'
    BY <1>19 DEF DeleteBucket, UpdateEnds
  <1>20. ASSUME StoreLimit PROVE Read' /\ Seen'
    BY <1>20 DEF StoreLimit, UpdateEnds
  <1>21. ASSUME NEW u \in Users, ReadOnline(u) PROVE Read' /\ Seen'
    BY <1>21 DEF ReadOnline
  <1>22. ASSUME ResetOnline PROVE Read' /\ Seen'
    BY <1>22 DEF ResetOnline, Forget
  <1>23. CASE UNCHANGED vars
    BY <1>23 DEF vars, tableVars, historyVars
  <1> QED
    BY <1>1, <1>2, <1>3, <1>4, <1>5, <1>6, <1>7, <1>8, <1>9, <1>10, <1>11,
       <1>12, <1>13, <1>14, <1>15, <1>16, <1>17, <1>18, <1>19, <1>20, <1>21,
       <1>22, <1>23
    DEF Next, Connection, CheckLimit, MonitorStep

-----------------------------------------------------------------------------
(* The inductive invariant of links, limits and addresses.                 *)
THEOREM InductiveInvariant == Spec => []IInv
  <1>1. IInv /\ [Next]_vars => IInv'
    BY TypeStep, SubjectStep, LinksStep, BucketsStep, SeenStep DEF IInv
  <1> QED BY InitIInv, <1>1, PTL DEF Spec

(* Every table of the dispatcher and the limiter holds what its type says. *)
THEOREM TypeCorrect == Spec => []TypeOK
  <1>1. IInv => TypeOK BY DEF IInv
  <1> QED BY <1>1, InductiveInvariant, PTL

(* getLink, LinkManager and CloseAll: an established link of a user is     *)
(* where a revocation will find it, unless it was being made while one     *)
(* took the links; and no manager keeps a link that has ended.             *)
THEOREM LinksStayReachable == Spec => []Reachable
  <1>1. IInv => Reachable BY DEF IInv
  <1> QED BY <1>1, InductiveInvariant, PTL

(* CheckLimit and UpdateUser: the connections of a user share one bucket   *)
(* with the speed in force, unless a CheckLimit overlapped its last change.*)
THEOREM SpeedStaysInForce == Spec => []SpeedInForce
  <1>1. IInv => SpeedInForce BY DEF IInv
  <1> QED BY <1>1, InductiveInvariant, PTL

(* CheckLimit and GetOnlineDevice: the address of a connection is online   *)
(* or reported, but for the windows that Seen names.                       *)
THEOREM AddressesAreSeen == Spec => []Seen
  <1>1. IInv => Seen BY DEF IInv
  <1> QED BY <1>1, InductiveInvariant, PTL
=============================================================================
