--------------------------- MODULE UserSyncProofs ---------------------------
(***************************************************************************)
(* Proofs about UserSync, for any users, plans and lists, any set of users *)
(* xray refuses, and any number of publications and restarts. The          *)
(* invariant follows a list through a run: while users are removed the     *)
(* inbound has those that stay and those not yet visited, while they are   *)
(* added it lacks those not yet visited.                                   *)
(***************************************************************************)
EXTENDS UserSync, TLAPS

(* A new controller has nothing yet.                                       *)
Fresh == pc = "new" => ~made /\ xray = {}

(* The users still to be added have their ids already.                     *)
IdsFirst == pc \in {"adding", "starting"} => toAdd \subseteq uidMap

(* Where a run that nothing has disturbed stands.                          *)
Starting ==
  /\ pc = "prepared" => etag = {userList} /\ xray = {}
  /\ pc = "starting" => etag = {userList} /\ xray \cup toAdd = DOMAIN userList
Deleting ==
  pc = "deleting" =>
    /\ etag = {newU}
    /\ toAdd = Added(userList, newU)
    /\ toDelete \subseteq Deleted(userList, newU)
    /\ xray = (DOMAIN userList \ Deleted(userList, newU)) \cup toDelete
Adding == pc = "adding" => etag = {newU} /\ xray \cup toAdd = DOMAIN newU

Undisturbed == clean => Starting /\ Deleting /\ Adding

IInv == Fresh /\ IdsFirst /\ Attributed /\ LimiterMatches /\ Undisturbed /\ InStep

-----------------------------------------------------------------------------
(* Two lists differ by what compareUserList says: taking the deleted users *)
(* from the old list and adding the added ones gives the new list.         *)
LEMMA DifferenceIsComplete ==
  ASSUME NEW old, NEW new
  PROVE  (DOMAIN old \ Deleted(old, new)) \cup Added(old, new) = DOMAIN new
  BY DEF Deleted, Added

(* What UpdateUser does to a limiter that matched the old list makes it    *)
(* match the new one.                                                      *)
LEMMA UpdateUserFollows ==
  ASSUME NEW l, NEW old, NEW new,
         DOMAIN l = DOMAIN old,
         \A u \in DOMAIN old : l[u].speed = old[u].speed,
         NEW m, m = UpdateUser(l, Deleted(old, new),
                               [u \in Added(old, new) |-> new[u]])
  PROVE  /\ DOMAIN m = DOMAIN new
         /\ \A u \in DOMAIN new : m[u].speed = new[u].speed
  <1> DEFINE A == [u \in Added(old, new) |-> new[u]]
  <1>1. DOMAIN A = Added(old, new)
    OBVIOUS
  <1>2. m = [u \in (DOMAIN l \ Deleted(old, new)) \cup DOMAIN A |->
               IF u \in DOMAIN A THEN A[u] ELSE l[u]]
    BY DEF UpdateUser
  <1> HIDE DEF A
  <1>3. DOMAIN m = DOMAIN new
    BY <1>1, <1>2, DifferenceIsComplete
  <1>4. ASSUME NEW u \in DOMAIN new
        PROVE  m[u].speed = new[u].speed
    <2>1. CASE u \in Added(old, new)
      <3>1. A[u] = new[u]
        BY <2>1 DEF A
      <3> QED BY <2>1, <3>1, <1>1, <1>2
    <2>2. CASE u \notin Added(old, new)
      <3>1. u \in DOMAIN old /\ new[u].speed = old[u].speed
        BY <2>2 DEF Added
      <3>2. u \in DOMAIN l \ Deleted(old, new)
        BY <3>1 DEF Deleted
      <3>3. m[u] = l[u]
        BY <3>2, <2>2, <1>1, <1>2
      <3> QED BY <3>1, <3>3
    <2> QED BY <2>1, <2>2
  <1> QED BY <1>3, <1>4

-----------------------------------------------------------------------------
(* The controller before its first list has the invariant.                 *)
LEMMA InitIInv == Init => IInv
  BY DEF Init, IInv, Fresh, IdsFirst, Attributed, LimiterMatches, Undisturbed,
         Starting, Deleting, Adding, InStep

(* Prepare, Start, Stop and the replacement of a controller keep it.       *)
LEMMA MainIInv ==
  ASSUME IInv, Main \/ Stop \/ Replace
  PROVE  IInv'
  <1> USE DEF IInv, Fresh, IdsFirst, Attributed, LimiterMatches, Undisturbed,
              Starting, Deleting, Adding, InStep
  <1>1. CASE Prepare
    BY <1>1 DEF Prepare, tableVars
  <1>2. CASE Start
    BY <1>2 DEF Start, syncVars
  <1>3. CASE Started
    BY <1>3 DEF Started, syncVars, tableVars
  <1>4. CASE Stop
    BY <1>4 DEF Stop, syncVars
  <1>5. CASE Replace
    BY <1>5 DEF Replace
  <1> QED BY <1>1, <1>2, <1>3, <1>4, <1>5 DEF Main

(* A run of userListMonitor keeps it, whichever user xray refuses.         *)
LEMMA MonitorIInv ==
  ASSUME IInv, Monitor
  PROVE  IInv'
  <1> USE DEF Fresh, IdsFirst, Attributed, LimiterMatches, Undisturbed,
              Starting, Deleting, Adding, InStep
  <1>1. CASE MonitorFetches
    <2>1. Undisturbed'
      <3>1. clean' => xray' = (DOMAIN userList' \ Deleted(userList, newU)') \cup toDelete'
        BY <1>1 DEF IInv, MonitorFetches, tableVars, Deleted
      <3> QED BY <1>1, <3>1 DEF IInv, MonitorFetches, tableVars
    <2> QED BY <1>1, <2>1 DEF IInv, MonitorFetches, tableVars
  <1>2. ASSUME NEW u \in Users, RemoveUser(u)
        PROVE  IInv'
    <2>1. CASE u \in xray
      BY <1>2, <2>1 DEF IInv, RemoveUser, syncVars
    <2>2. CASE u \notin xray
      BY <1>2, <2>2 DEF IInv, RemoveUser, GiveUp, syncVars
    <2> QED BY <2>1, <2>2
  <1>3. CASE AddBegins
    <2>1. clean => xray \cup toAdd = DOMAIN newU
      BY <1>3, DifferenceIsComplete DEF IInv, AddBegins
    <2> QED BY <1>3, <2>1 DEF IInv, AddBegins, syncVars
  <1>4. ASSUME NEW u \in Users, AddUser(u)
        PROVE  IInv'
    <2>1. CASE u \notin xray \cup Refused
      BY <1>4, <2>1 DEF IInv, AddUser, syncVars
    <2>2. CASE u \in xray \cup Refused
      BY <1>4, <2>2 DEF IInv, AddUser, GiveUp, syncVars
    <2> QED BY <2>1, <2>2
  <1>5. CASE Applied
    <2>1. LimiterMatches'
      BY <1>5, UpdateUserFollows DEF IInv, Applied
    <2>2. Fresh' /\ IdsFirst' /\ Attributed' /\ Undisturbed' /\ InStep'
      BY <1>5 DEF IInv, Applied
    <2> QED BY <2>1, <2>2 DEF IInv
  <1> QED BY <1>1, <1>2, <1>3, <1>4, <1>5 DEF Monitor

(* Every step of the whole system keeps the invariant.                     *)
LEMMA NextIInv == IInv /\ [Next]_vars => IInv'
  <1> SUFFICES ASSUME IInv, [Next]_vars PROVE IInv'
    OBVIOUS
  <1>1. CASE UNCHANGED vars
    BY <1>1 DEF IInv, Fresh, IdsFirst, Attributed, LimiterMatches, Undisturbed,
                Starting, Deleting, Adding, InStep, Added, Deleted,
                vars, listVars, syncVars, tableVars
  <1>2. CASE Publish
    BY <1>2 DEF IInv, Fresh, IdsFirst, Attributed, LimiterMatches, Undisturbed,
                Starting, Deleting, Adding, InStep, Added, Deleted,
                Publish, syncVars, tableVars
  <1> QED BY <1>1, <1>2, MainIInv, MonitorIInv DEF Next

-----------------------------------------------------------------------------
(* Lists are the functions from users to plans; an update of a list by     *)
(* another is a list again.                                                *)
LEMMA ListsAreFunctions ==
  ASSUME NEW l
  PROVE  l \in UserLists <=> /\ l = [u \in DOMAIN l |-> l[u]]
                             /\ DOMAIN l \subseteq Users
                             /\ \A u \in DOMAIN l : l[u] \in Plans
  <1>1. ASSUME l \in UserLists
        PROVE  /\ l = [u \in DOMAIN l |-> l[u]]
               /\ DOMAIN l \subseteq Users
               /\ \A u \in DOMAIN l : l[u] \in Plans
    <2>1. PICK S \in SUBSET Users : l \in [S -> Plans]
      BY <1>1 DEF UserLists
    <2> QED BY <2>1
  <1>2. ASSUME l = [u \in DOMAIN l |-> l[u]], DOMAIN l \subseteq Users,
               \A u \in DOMAIN l : l[u] \in Plans
        PROVE  l \in UserLists
    <2>1. l \in [DOMAIN l -> Plans]
      BY <1>2
    <2> QED BY <1>2, <2>1 DEF UserLists
  <1> QED BY <1>1, <1>2

(* UpdateUser makes a list of users with plans of such lists.              *)
LEMMA UpdatesAreLists ==
  ASSUME NEW l \in UserLists, NEW old \in UserLists, NEW new \in UserLists
  PROVE  UpdateUser(l, Deleted(old, new),
                    [u \in Added(old, new) |-> new[u]]) \in UserLists
  <1> DEFINE A == [u \in Added(old, new) |-> new[u]]
             m == UpdateUser(l, Deleted(old, new), A)
  <1>1. DOMAIN A = Added(old, new) /\ Added(old, new) \subseteq DOMAIN new
    BY DEF Added
  <1>2. \A u \in DOMAIN A : A[u] = new[u]
    OBVIOUS
  <1>3. m = [u \in (DOMAIN l \ Deleted(old, new)) \cup DOMAIN A |->
               IF u \in DOMAIN A THEN A[u] ELSE l[u]]
    BY DEF UpdateUser
  <1> HIDE DEF A, m
  <1>4. DOMAIN m \subseteq DOMAIN l \cup DOMAIN new
    BY <1>1, <1>3
  <1>5. \A u \in DOMAIN m : m[u] \in Plans
    BY <1>1, <1>2, <1>3, ListsAreFunctions
  <1>6. m = [u \in DOMAIN m |-> m[u]]
    BY <1>3
  <1>7. m \in UserLists
    BY <1>4, <1>5, <1>6, ListsAreFunctions
  <1> QED BY <1>7 DEF m, A

(* Every step keeps the types.                                             *)
LEMMA TypeStep == TypeOK /\ [Next]_vars => TypeOK'
  <1> SUFFICES ASSUME TypeOK, [Next]_vars PROVE TypeOK'
    OBVIOUS
  <1> USE ListsAssumption, BoundAssumption
      DEF TypeOK, listVars, syncVars, tableVars
  <1>0. EmptyList \in UserLists
    BY ListsAreFunctions DEF EmptyList
  <1>1. \A l \in UserLists : DOMAIN l \subseteq Users
    BY ListsAreFunctions
  <1>2. \A l, m \in UserLists :
          Deleted(l, m) \subseteq Users /\ Added(l, m) \subseteq Users
    BY <1>1 DEF Deleted, Added
  <1>3. CASE Prepare
    BY <1>3 DEF Prepare
  <1>4. CASE Start
    BY <1>1, <1>4 DEF Start
  <1>5. CASE Started
    BY <1>5 DEF Started
  <1>6. CASE Stop
    BY <1>6 DEF Stop
  <1>7. CASE Replace
    BY <1>0, <1>7 DEF Replace
  <1>8. CASE MonitorFetches
    BY <1>2, <1>8 DEF MonitorFetches
  <1>9. ASSUME NEW u \in Users, RemoveUser(u) \/ AddUser(u) PROVE TypeOK'
    <2>1. UNCHANGED <<listVars, syncVars, made, limits, starts>>
      BY <1>9 DEF RemoveUser, AddUser
    <2>2. /\ xray' \subseteq Users /\ uidMap' \subseteq Users
          /\ toDelete' \subseteq Users /\ toAdd' \subseteq Users
      BY <1>9 DEF RemoveUser, AddUser, GiveUp
    <2>3. pc' \in {"starting", "idle", "deleting", "adding", "down"}
      BY <1>9 DEF RemoveUser, AddUser, GiveUp
    <2>4. clean' = clean \/ clean' = FALSE
      BY <1>9 DEF RemoveUser, AddUser, GiveUp
    <2>5. clean' \in BOOLEAN /\ made
      BY <1>9, <2>4 DEF RemoveUser, AddUser
    <2> QED BY <2>1, <2>2, <2>3, <2>5
  <1>10. CASE AddBegins
    BY <1>10 DEF AddBegins
  <1>11. CASE Applied
    BY <1>11, UpdatesAreLists DEF Applied
  <1>12. CASE Publish
    BY <1>12 DEF Publish
  <1>13. CASE UNCHANGED vars
    BY <1>13 DEF vars
  <1> QED
    BY <1>3, <1>4, <1>5, <1>6, <1>7, <1>8, <1>9, <1>10, <1>11, <1>12, <1>13
    DEF Next, Main, Monitor

-----------------------------------------------------------------------------
(* Lists, tables and limits are what their types say; a controller that    *)
(* has begun to add users has its limiter.                                 *)
THEOREM TypeCorrect == Spec => []TypeOK
  <1>1. Init => TypeOK
    <2>1. EmptyList \in UserLists
      BY ListsAreFunctions DEF EmptyList
    <2>2. /\ 0 \in 0..MaxLists /\ 0 \in 0..MaxStarts
          /\ FALSE \in BOOLEAN /\ TRUE \in BOOLEAN
      BY BoundAssumption
    <2> QED BY <2>1, <2>2 DEF Init, TypeOK
  <1> QED BY <1>1, TypeStep, PTL DEF Spec

(* The inductive invariant of userListMonitor and of the life of its       *)
(* controller.                                                             *)
THEOREM InductiveInvariant == Spec => []IInv
  BY InitIInv, NextIInv, PTL DEF Spec

(* UpdateUser keeps the limiter at the last list applied, over restarts    *)
(* and runs that failed.                                                   *)
THEOREM LimiterFollowsTheList == Spec => []LimiterMatches
  <1>1. IInv => LimiterMatches BY DEF IInv
  <1> QED BY <1>1, InductiveInvariant, PTL

(* AddUsers registers every id before xray can admit the user.             *)
THEOREM EveryUserHasAnId == Spec => []Attributed
  <1>1. IInv => Attributed BY DEF IInv
  <1> QED BY <1>1, InductiveInvariant, PTL

(* Between two runs the inbound is what the last list fetched says, as     *)
(* long as xray has refused nobody.                                        *)
THEOREM InboundFollowsTheList == Spec => []InStep
  <1>1. IInv => InStep BY DEF IInv
  <1> QED BY <1>1, InductiveInvariant, PTL
=============================================================================
