------------------------------ MODULE UserSync ------------------------------
(***************************************************************************)
(* How one controller keeps three tables in step with the user list of the *)
(* panel: the users of its xray inbound, uidMap, which attributes their    *)
(* traffic, and the limiter, which rejects whom it does not know.          *)
(*                                                                         *)
(* The list is fetched with an ETag, compared with the last one applied,   *)
(* and applied user by user; a user xray refuses ends the run in the       *)
(* middle. A request that fails leaves everything as it was and is not     *)
(* shown. The controller is stopped and started again when a reload is     *)
(* rolled back, and replaced by a new one, on a new core, when it is not   *)
(* (module Reload).                                                        *)
(***************************************************************************)
EXTENDS Naturals

CONSTANTS
  Users,    \* uuids
  Plans,    \* the limits of a user, records with a speed and a device limit
  Lists,    \* lists the panel may publish: functions from users to plans
  Refused,  \* users xray does not take: malformed, or listed twice
  MaxLists, \* bound: publications
  MaxStarts \* bound: starts and restarts of the controller

UserLists == UNION {[S -> Plans] : S \in SUBSET Users}
ASSUME ListsAssumption == Lists \subseteq UserLists /\ Refused \subseteq Users
ASSUME BoundAssumption == MaxLists \in Nat /\ MaxStarts \in Nat

EmptyList == [u \in {} |-> {}]

VARIABLES
  panel,     \* the list the panel publishes
  published, \* how many it has published
  etag,      \* the list the stored ETag belongs to, in a set, or {}
  userList,  \* c.userList
  newU,      \* the list the monitor applies
  pc,        \* where the controller is
  toDelete,  \* users DelUsers has still to visit
  toAdd,     \* users AddUsers has still to visit
  xray,      \* users of the inbound
  uidMap,    \* users with an id
  made,      \* whether the controller has its limiter
  limits,    \* UserLimitInfo of the limiter
  starts,    \* starts so far
  clean      \* history: no user was refused since the controller was made

listVars == <<panel, published>>
syncVars == <<etag, userList, newU>>
tableVars == <<xray, uidMap, made, limits>>
vars == <<listVars, syncVars, tableVars, pc, toDelete, toAdd, starts, clean>>

Init ==
  /\ panel \in Lists /\ published = 0
  /\ etag = {} /\ userList = EmptyList /\ newU = EmptyList
  /\ pc = "new" /\ toDelete = {} /\ toAdd = {}
  /\ xray = {} /\ uidMap = {} /\ made = FALSE /\ limits = EmptyList
  /\ starts = 0
  /\ clean = TRUE

-----------------------------------------------------------------------------
(* Mutants: the same definitions with a plausible bug. No specification    *)
(* uses them.                                                              *)

(* Users are compared by uuid alone.                                       *)
Added_ByUuid(old, new) == DOMAIN new \ DOMAIN old

(* The added users are stored before the deleted ones are removed.         *)
UpdateUser_AddsFirst(l, deleted, added) ==
  [u \in (DOMAIN l \cup DOMAIN added) \ deleted |->
     IF u \in DOMAIN added THEN added[u] ELSE l[u]]

(* The limiter is made by somebody else.                                   *)
Start_NoLimiter ==
  /\ pc = "prepared"
  /\ starts < MaxStarts /\ starts' = starts + 1
  /\ uidMap' = uidMap \cup DOMAIN userList
  /\ toAdd' = DOMAIN userList
  /\ pc' = "starting"
  /\ UNCHANGED <<listVars, syncVars, xray, made, limits, toDelete, clean>>

(* Ids are not registered before the users.                                *)
AddBegins_NoIds ==
  /\ pc = "deleting" /\ toDelete = {}
  /\ pc' = "adding"
  /\ UNCHANGED <<listVars, syncVars, tableVars, toDelete, toAdd, starts, clean>>

-----------------------------------------------------------------------------
(* compareUserList: a user is identified by uuid and speed limit together. *)
Deleted(old, new) ==
  {u \in DOMAIN old : u \in DOMAIN new => new[u].speed # old[u].speed}
Added(old, new) ==
  {u \in DOMAIN new : u \in DOMAIN old => new[u].speed # old[u].speed}

(* Limiter.UpdateUser: deleted users go first, so that a user with a new   *)
(* speed limit stays.                                                      *)
UpdateUser(l, deleted, added) ==
  [u \in (DOMAIN l \ deleted) \cup DOMAIN added |->
     IF u \in DOMAIN added THEN added[u] ELSE l[u]]

(* Prepare: the first list, with no ETag.                                  *)
Prepare ==
  /\ pc = "new"
  /\ etag' = {panel}
  /\ userList' = panel
  /\ pc' = "prepared"
  /\ UNCHANGED <<listVars, newU, tableVars, toDelete, toAdd, starts, clean>>

(* Start: the limiter of a controller is made once; the inbound is new and *)
(* AddUsers registers the ids of all users before it adds the first one.   *)
Start ==
  /\ pc = "prepared"
  /\ starts < MaxStarts /\ starts' = starts + 1
  /\ made' = TRUE
  /\ limits' = IF made THEN limits ELSE userList
  /\ uidMap' = uidMap \cup DOMAIN userList
  /\ toAdd' = DOMAIN userList
  /\ pc' = "starting"
  /\ UNCHANGED <<listVars, syncVars, xray, toDelete, clean>>

Started ==
  /\ pc = "starting" /\ toAdd = {}
  /\ pc' = "idle"
  /\ UNCHANGED <<listVars, syncVars, tableVars, toDelete, toAdd, starts, clean>>

(* Stop: the inbound goes, everything else is kept.                        *)
Stop ==
  /\ pc = "idle"
  /\ xray' = {}
  /\ pc' = "prepared"
  /\ UNCHANGED <<listVars, syncVars, uidMap, made, limits, toDelete, toAdd,
                 starts, clean>>

(* A reload that succeeds: a new controller on a new core.                 *)
Replace ==
  /\ pc \in {"idle", "prepared", "down"}
  /\ starts < MaxStarts
  /\ etag' = {} /\ userList' = EmptyList /\ newU' = EmptyList
  /\ pc' = "new" /\ toDelete' = {} /\ toAdd' = {}
  /\ xray' = {} /\ uidMap' = {} /\ made' = FALSE /\ limits' = EmptyList
  /\ clean' = TRUE
  /\ UNCHANGED <<listVars, starts>>

-----------------------------------------------------------------------------
(* userListMonitor: 304 unless the panel has another list.                 *)
MonitorFetches ==
  /\ pc = "idle"
  /\ etag # {panel}
  /\ etag' = {panel}
  /\ newU' = panel
  /\ toDelete' = Deleted(userList, panel)
  /\ toAdd' = Added(userList, panel)
  /\ pc' = "deleting"
  /\ UNCHANGED <<listVars, userList, tableVars, starts, clean>>

(* The run ends in an error. Users in front of the refused one stay as     *)
(* they are, and neither the limiter nor the list follows.                 *)
GiveUp ==
  /\ pc' = IF pc = "starting" THEN "down" ELSE "idle"
  /\ toDelete' = {} /\ toAdd' = {}
  /\ clean' = FALSE

(* DelUsers, in the order of a Go map. Xray refuses a user it has not.     *)
RemoveUser(u) ==
  /\ pc = "deleting" /\ u \in toDelete
  /\ IF u \in xray
     THEN /\ xray' = xray \ {u}
          /\ uidMap' = uidMap \ {u}
          /\ toDelete' = toDelete \ {u}
          /\ UNCHANGED <<pc, toAdd, clean>>
     ELSE GiveUp /\ UNCHANGED <<xray, uidMap>>
  /\ UNCHANGED <<listVars, syncVars, made, limits, starts>>

AddBegins ==
  /\ pc = "deleting" /\ toDelete = {}
  /\ uidMap' = uidMap \cup toAdd
  /\ pc' = "adding"
  /\ UNCHANGED <<listVars, syncVars, xray, made, limits, toDelete, toAdd,
                 starts, clean>>

(* AddUsers, for the monitor and for Start. Xray refuses a user it has.    *)
AddUser(u) ==
  /\ pc \in {"adding", "starting"} /\ u \in toAdd
  /\ IF u \notin xray \cup Refused
     THEN /\ xray' = xray \cup {u}
          /\ toAdd' = toAdd \ {u}
          /\ UNCHANGED <<pc, toDelete, clean>>
     ELSE GiveUp /\ UNCHANGED xray
  /\ UNCHANGED <<listVars, syncVars, uidMap, made, limits, starts>>

(* Mutant of Applied: a list that changes no user is not kept.             *)
Applied_OnlyChanges ==
  /\ pc = "adding" /\ toAdd = {}
  /\ pc' = "idle"
  /\ limits' = UpdateUser(limits, Deleted(userList, newU),
                          [u \in Added(userList, newU) |-> newU[u]])
  /\ userList' = IF DOMAIN limits' = DOMAIN limits THEN userList ELSE newU
  /\ UNCHANGED <<listVars, etag, newU, xray, uidMap, made, toDelete, toAdd,
                 starts, clean>>

(* Every user is in: the limiter learns the difference, and the list is    *)
(* the one to compare with.                                                *)
Applied ==
  /\ pc = "adding" /\ toAdd = {}
  /\ pc' = "idle"
  /\ limits' = UpdateUser(limits, Deleted(userList, newU),
                          [u \in Added(userList, newU) |-> newU[u]])
  /\ userList' = newU
  /\ UNCHANGED <<listVars, etag, newU, xray, uidMap, made, toDelete, toAdd,
                 starts, clean>>

Publish ==
  /\ published < MaxLists
  /\ published' = published + 1
  /\ panel' \in Lists \ {panel}
  /\ UNCHANGED <<syncVars, tableVars, pc, toDelete, toAdd, starts, clean>>

Main == Prepare \/ Start \/ Started
Monitor ==
  \/ MonitorFetches \/ AddBegins \/ Applied
  \/ \E u \in Users : RemoveUser(u) \/ AddUser(u)

Next == Main \/ Monitor \/ Stop \/ Replace \/ Publish

(* Main finishes what it began; the monitor runs on its period.            *)
Spec == Init /\ [][Next]_vars
FairSpec == Spec /\ WF_vars(Main) /\ WF_vars(Monitor)

-----------------------------------------------------------------------------
TypeOK ==
  /\ panel \in Lists /\ published \in 0..MaxLists
  /\ etag \subseteq Lists /\ userList \in UserLists /\ newU \in UserLists
  /\ pc \in {"new", "prepared", "starting", "idle", "deleting", "adding", "down"}
  /\ toDelete \subseteq Users /\ toAdd \subseteq Users
  /\ xray \subseteq Users /\ uidMap \subseteq Users
  /\ made \in BOOLEAN /\ limits \in UserLists
  /\ made \/ pc \in {"new", "prepared"}
  /\ starts \in 0..MaxStarts /\ clean \in BOOLEAN

(* Users whose connections the node carries: the inbound authenticates     *)
(* them and CheckLimit knows them.                                         *)
Served == xray \cap DOMAIN limits

(* The limiter, kept up to date by differences, over restarts and failed   *)
(* runs, knows exactly the users of the last list applied, each with its   *)
(* speed limit. (A changed device limit alone does not reach it.)          *)
LimiterMatches ==
  made =>
    /\ DOMAIN limits = DOMAIN userList
    /\ \A u \in DOMAIN userList : limits[u].speed = userList[u].speed

(* Between two runs the inbound has exactly the users of the last list     *)
(* fetched, unless xray refused one.                                       *)
InStep ==
  pc = "idle" /\ clean => etag = {userList} /\ xray = DOMAIN userList

(* Every user xray admits has an id, or the bytes would be dropped, also   *)
(* after a run that failed.                                                *)
Attributed == xray \subseteq uidMap

(* A published list is applied, unless a newer one comes, a user is        *)
(* refused or the controller is stopped.                                   *)
Converges ==
  \A l \in Lists :
    panel = l ~> \/ userList = l \/ panel # l \/ ~clean
                 \/ pc \in {"new", "prepared", "starting"}

(* README.md of the repository: an empty list of the panel revokes all     *)
(* users. The run that takes it leaves nobody served.                      *)
EmptyListRevokes ==
  pc = "idle" /\ etag = {EmptyList} => Served = {}
=============================================================================
