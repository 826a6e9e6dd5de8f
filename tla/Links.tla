------------------------------- MODULE Links --------------------------------
(***************************************************************************)
(* How a connection of a user is let through and limited, and how it ends  *)
(* when the user is revoked: getLink and DispatchLink of the dispatcher,   *)
(* CheckLimit of the limiter, the link managers, and the two goroutines    *)
(* that change the same tables, the user list monitor (DelUsers, AddUsers, *)
(* UpdateUser) and the report of online users (GetOnlineDevice).           *)
(*                                                                         *)
(* Tables that are sync.Maps change one entry per step. A link manager, a  *)
(* bucket and a map of addresses are objects that live on after the entry  *)
(* that named them; the first two are known by the connection that made    *)
(* them.                                                                   *)
(*                                                                         *)
(* OldUserOnline decides only whether the device limit is looked at, and   *)
(* that never refuses anybody (AtCapacity); it is left out, and so are the *)
(* dynamic speed limit and its expiry, which nothing in the node sets, and *)
(* the speed limit of the node, which is a constant.                       *)
(***************************************************************************)
EXTENDS Naturals

CONSTANTS
  Users,     \* users of one inbound, known by email
  Conns,     \* connections, each made once
  User,      \* the user of a connection
  Ip,        \* its source address
  Direct,    \* connections of protocols that call DispatchLink
  Speeds,    \* speed limits of users, Unlimited (0 in the code) among them
  Device,    \* the device limit of each user; 0 is none
  MaxUpdates \* bound: changes of a user by the panel

ASSUME UserAssumption == User \in [Conns -> Users]
ASSUME SetAssumption == Direct \subseteq Conns
ASSUME NumberAssumption ==
  Device \in [Users -> Nat] /\ MaxUpdates \in Nat

Unlimited == "unlimited"
None == "none"
ASSUME NoneAssumption == None \notin Conns \cup Users
Gone == "gone"                 \* the plan of a user who is revoked
ASSUME GoneAssumption == Gone \notin Speeds /\ Unlimited \in Speeds

ConnsOf(u) == {c \in Conns : User[c] = u}
Ips == {Ip[c] : c \in Conns}

VARIABLES
  xray,     \* users the inbound authenticates
  limits,   \* UserLimitInfo: the speed of a user, Gone without an entry
  bucket,   \* SpeedLimiter: the bucket of a user, or None
  online,   \* UserOnlineIP: addresses of a user; {} without an entry
  mgr,      \* LinkManagers: the link manager of a user, or None
  links,    \* links of each manager
  pc,       \* where a connection is
  rate,     \* the speed limit CheckLimit read for it
  holds,    \* the bucket its writers wait for, or None
  mine,     \* the manager its writer knows, or None
  mpc,      \* where the monitor is
  subject,  \* the user it changes
  goal,     \* the speed that user gets, or Gone
  taken,    \* links CloseAll has taken and not closed yet
  rpc,      \* the user whose addresses are read and not deleted yet, or None
  got,      \* the addresses read
  updates,  \* changes so far
  reported, \* history: connections whose address was reported since they stored it
  detached, \* history: connections whose address map left the table
  unseen,   \* history: connections whose address need not be seen
  calm,     \* history: no CheckLimit overlapped the last change of limits
  fresh,    \* history: connections that took their bucket since then
  raced     \* history: connections being made while CloseAll took the links

tableVars == <<xray, limits, bucket, online, mgr, links>>
connVars == <<pc, rate, holds, mine>>
monitorVars == <<mpc, subject, goal, taken, updates>>
reportVars == <<rpc, got, reported>>
historyVars == <<detached, unseen, calm, fresh, raced>>
vars == <<tableVars, connVars, monitorVars, reportVars, historyVars>>

Init ==
  /\ xray = Users
  /\ limits \in [Users -> Speeds]
  /\ bucket = [u \in Users |-> None]
  /\ online = [u \in Users |-> {}]
  /\ mgr = [u \in Users |-> None]
  /\ links = [m \in Conns |-> {}]
  /\ pc = [c \in Conns |-> "new"]
  /\ rate = [c \in Conns |-> Unlimited]
  /\ holds = [c \in Conns |-> None]
  /\ mine = [c \in Conns |-> None]
  /\ mpc = "idle" /\ subject = None /\ goal = Gone /\ taken = {}
  /\ rpc = None /\ got = {}
  /\ updates = 0
  /\ reported = {} /\ detached = {} /\ unseen = {}
  /\ calm = [u \in Users |-> TRUE]
  /\ fresh = {} /\ raced = {}

goto(c, p) == pc' = [pc EXCEPT ![c] = p]

(* A connection that is closed is gone, and history forgets it.            *)
Ends(c) ==
  /\ goto(c, "closed")
  /\ holds' = [holds EXCEPT ![c] = None]
  /\ mine' = [mine EXCEPT ![c] = None]
  /\ reported' = reported \ {c} /\ unseen' = unseen \ {c}
  /\ fresh' = fresh \ {c} /\ raced' = raced \ {c}

-----------------------------------------------------------------------------
(* A connection: xray authenticates it and calls the dispatcher.           *)
Authenticate(c) ==
  /\ pc[c] = "new"
  /\ User[c] \in xray
  /\ goto(c, "check")
  /\ UNCHANGED <<tableVars, rate, holds, mine, monitorVars, reportVars,
                 historyVars>>

(* Mutant of LoadLimit.                                                    *)
LoadLimit_Unknown(c, tracked) == \* a user without limits is let through
  /\ pc[c] = "check"
  /\ rate' = [rate EXCEPT ![c] = limits[User[c]]]
  /\ goto(c, IF tracked THEN "track" ELSE "bucket")
  /\ UNCHANGED <<tableVars, holds, mine, monitorVars, reportVars, historyVars>>

(* CheckLimit refuses a user the limiter does not know. The addresses of   *)
(* UDP connections are not tracked, except for protocols made of them.     *)
LoadLimit(c, tracked) ==
  LET u == User[c] IN
  /\ pc[c] = "check"
  /\ limits[u] # Gone
  /\ rate' = [rate EXCEPT ![c] = limits[u]]
  /\ goto(c, IF tracked THEN "track" ELSE "bucket")
  /\ unseen' = IF tracked THEN unseen ELSE unseen \cup {c}
  /\ UNCHANGED <<tableVars, holds, mine, monitorVars, reportVars, detached,
                 calm, fresh, raced>>

Refuse(c) ==
  /\ pc[c] = "check"
  /\ limits[User[c]] = Gone
  /\ Ends(c)
  /\ UNCHANGED <<tableVars, rate, monitorVars, rpc, got, detached, calm>>

(* The device limit is compared with AliveList, which GetUserAlive returns *)
(* without entries.                                                        *)
AliveCount(u) == 0
AtCapacity(u) == Device[u] > 0 /\ Device[u] <= AliveCount(u)

(* Mutant of Track: the map of the user is replaced.                       *)
Track_Stores(c) ==
  /\ pc[c] = "track"
  /\ online' = [online EXCEPT ![User[c]] = {Ip[c]}]
  /\ goto(c, "bucket")
  /\ UNCHANGED <<xray, limits, bucket, mgr, links, rate, holds, mine,
                 monitorVars, reportVars, historyVars>>

(* The first address of a user comes with a new map.                       *)
Track(c) ==
  LET u == User[c] IN
  /\ pc[c] = "track"
  /\ IF online[u] # {} THEN goto(c, "trackIp") /\ UNCHANGED <<online, unseen>>
     ELSE IF AtCapacity(u) THEN goto(c, "closed") /\ UNCHANGED <<online, unseen>>
     ELSE /\ online' = [online EXCEPT ![u] = {Ip[c]}]
          /\ unseen' = IF rpc = u THEN unseen \cup {c} ELSE unseen
          /\ goto(c, "bucket")
  /\ UNCHANGED <<xray, limits, bucket, mgr, links, rate, holds, mine,
                 monitorVars, reportVars, detached, calm, fresh, raced>>

(* Another one goes into the map that was found, wherever it is now.       *)
TrackIp(c) ==
  LET u == User[c] IN
  /\ pc[c] = "trackIp"
  /\ IF AtCapacity(u) /\ Ip[c] \notin online[u]
     THEN goto(c, "closed") /\ UNCHANGED <<online, unseen>>
     ELSE /\ online' = IF c \in detached THEN online
                       ELSE [online EXCEPT ![u] = @ \cup {Ip[c]}]
          /\ unseen' = IF c \in detached \/ rpc = u THEN unseen \cup {c}
                       ELSE unseen
          /\ goto(c, "bucket")
  /\ UNCHANGED <<xray, limits, bucket, mgr, links, rate, holds, mine,
                 monitorVars, reportVars, detached, calm, fresh, raced>>

(* SpeedLimiter.LoadOrStore: the bucket of the user, or one with the speed *)
(* that was read.                                                          *)
TakeBucket(c) ==
  LET u == User[c] IN
  /\ pc[c] = "bucket"
  /\ fresh' = fresh \cup {c}
  /\ IF rate[c] = Unlimited
     THEN goto(c, "manager") /\ UNCHANGED <<holds, bucket>>
     ELSE IF bucket[u] # None
     THEN /\ holds' = [holds EXCEPT ![c] = bucket[u]]
          /\ goto(c, "manager")
          /\ UNCHANGED bucket
     ELSE /\ holds' = [holds EXCEPT ![c] = c]
          /\ bucket' = [bucket EXCEPT ![u] = c]
          /\ goto(c, "keep")
  /\ UNCHANGED <<xray, limits, online, mgr, links, rate, mine, monitorVars,
                 reportVars, detached, unseen, calm, raced>>

(* A bucket LoadOrStore has just stored is stored once more.               *)
KeepBucket(c) ==
  /\ pc[c] = "keep"
  /\ bucket' = [bucket EXCEPT ![User[c]] = c]
  /\ goto(c, "manager")
  /\ UNCHANGED <<xray, limits, online, mgr, links, rate, holds, mine,
                 monitorVars, reportVars, historyVars>>

(* Mutant of TakeManager: every connection stores a manager.               *)
TakeManager_Stores(c) ==
  /\ pc[c] = "manager"
  /\ mgr' = [mgr EXCEPT ![User[c]] = c]
  /\ mine' = [mine EXCEPT ![c] = c]
  /\ goto(c, IF c \in Direct THEN "open" ELSE "add")
  /\ UNCHANGED <<xray, limits, bucket, online, links, rate, holds, monitorVars,
                 reportVars, historyVars>>

(* LinkManagers.LoadOrStore. DispatchLink makes a managed writer as well,  *)
(* but does not add it to the manager.                                     *)
TakeManager(c) ==
  LET u == User[c]
      m == IF mgr[u] = None THEN c ELSE mgr[u] IN
  /\ pc[c] = "manager"
  /\ mgr' = [mgr EXCEPT ![u] = m]
  /\ mine' = [mine EXCEPT ![c] = m]
  /\ goto(c, IF c \in Direct THEN "open" ELSE "add")
  /\ UNCHANGED <<xray, limits, bucket, online, links, rate, holds, monitorVars,
                 reportVars, historyVars>>

AddLink(c) ==
  /\ pc[c] = "add"
  /\ links' = [links EXCEPT ![mine[c]] = @ \cup {c}]
  /\ goto(c, "open")
  /\ UNCHANGED <<xray, limits, bucket, online, mgr, rate, holds, mine,
                 monitorVars, reportVars, historyVars>>

(* Either side closes the connection: RemoveWriter.                        *)
CloseLink(c) ==
  /\ pc[c] = "open"
  /\ links' = [links EXCEPT ![mine[c]] = @ \ {c}]
  /\ Ends(c)
  /\ UNCHANGED <<xray, limits, bucket, online, mgr, rate, monitorVars,
                 rpc, got, detached, calm>>

-----------------------------------------------------------------------------
(* The monitor applies a list that changes one user: who is in goes        *)
(* through DelUsers, who stays or comes through AddUsers.                  *)
UpdateBegins(u, plan) ==
  /\ mpc = "idle"
  /\ updates < MaxUpdates /\ updates' = updates + 1
  /\ plan # limits[u]
  /\ subject' = u /\ goal' = plan
  /\ mpc' = IF u \in xray THEN "remove" ELSE "admit"
  /\ UNCHANGED <<tableVars, connVars, taken, reportVars, historyVars>>

UpdateEnds == mpc' = "idle" /\ subject' = None /\ goal' = Gone

RemoveUser ==
  /\ mpc = "remove"
  /\ xray' = xray \ {subject}
  /\ mpc' = "take"
  /\ UNCHANGED <<limits, bucket, online, mgr, links, connVars, subject, goal,
                 taken, updates, reportVars, historyVars>>

Making == {"check", "track", "trackIp", "bucket", "keep", "manager", "add"}

(* Mutant of TakeLinks: the new map is in place before the old one is read.*)
TakeLinks_Empty ==
  /\ mpc = "take"
  /\ links' = IF mgr[subject] = None THEN links
              ELSE [links EXCEPT ![mgr[subject]] = {}]
  /\ taken' = {}
  /\ mpc' = "close"
  /\ raced' = raced \cup {c \in ConnsOf(subject) : pc[c] \in Making}
  /\ UNCHANGED <<xray, limits, bucket, online, mgr, connVars, subject, goal,
                 updates, reportVars, detached, unseen, calm, fresh>>

(* CloseAll takes the links under the lock of the manager.                 *)
TakeLinks ==
  LET m == mgr[subject] IN
  /\ mpc = "take"
  /\ taken' = IF m = None THEN {} ELSE links[m]
  /\ links' = IF m = None THEN links ELSE [links EXCEPT ![m] = {}]
  /\ mpc' = "close"
  /\ raced' = raced \cup {c \in ConnsOf(subject) : pc[c] \in Making}
  /\ UNCHANGED <<xray, limits, bucket, online, mgr, connVars, subject, goal,
                 updates, reportVars, detached, unseen, calm, fresh>>

(* It closes the writer and interrupts the reader of each.                 *)
CloseTaken(c) ==
  /\ mpc = "close"
  /\ c \in taken
  /\ taken' = taken \ {c}
  /\ Ends(c)
  /\ UNCHANGED <<tableVars, rate, mpc, subject, goal, updates, rpc, got,
                 detached, calm>>

(* Then the manager is deleted from the table.                             *)
DropManager ==
  /\ mpc = "close" /\ taken = {}
  /\ mgr' = [mgr EXCEPT ![subject] = None]
  /\ mpc' = IF goal = Gone THEN "unlimit" ELSE "admit"
  /\ UNCHANGED <<xray, limits, bucket, online, links, connVars, subject, goal,
                 taken, updates, reportVars, historyVars>>

AddUser ==
  /\ mpc = "admit"
  /\ xray' = xray \cup {subject}
  /\ mpc' = IF limits[subject] = Gone THEN "store" ELSE "unlimit"
  /\ UNCHANGED <<limits, bucket, online, mgr, links, connVars, subject, goal,
                 taken, updates, reportVars, historyVars>>

(* UpdateUser: three tables forget the user, in this order,                *)
DeleteLimit ==
  /\ mpc = "unlimit"
  /\ limits' = [limits EXCEPT ![subject] = Gone]
  /\ mpc' = "offline"
  /\ UNCHANGED <<xray, bucket, online, mgr, links, connVars, subject, goal,
                 taken, updates, reportVars, historyVars>>

Tracked == {"bucket", "keep", "manager", "add", "open"}

(* An address map leaves the table; who has found it before writes to it   *)
(* all the same.                                                           *)
Forget(u) ==
  /\ online' = [online EXCEPT ![u] = {}]
  /\ detached' = detached \cup {c \in ConnsOf(u) : pc[c] = "trackIp"}

DeleteOnline ==
  /\ mpc = "offline"
  /\ Forget(subject)
  /\ unseen' = unseen \cup {c \in ConnsOf(subject) : pc[c] \in Tracked}
  /\ mpc' = "unbucket"
  /\ UNCHANGED <<xray, limits, bucket, mgr, links, connVars, subject, goal,
                 taken, updates, reportVars, calm, fresh, raced>>

Checking == {"track", "trackIp", "bucket", "keep"}

(* Mutant of DeleteBucket: the bucket stays.                               *)
DeleteBucket_Keeps ==
  /\ mpc = "unbucket"
  /\ calm' = [calm EXCEPT ![subject] =
                \A c \in ConnsOf(subject) : pc[c] \notin Checking]
  /\ fresh' = fresh \ ConnsOf(subject)
  /\ IF goal = Gone THEN UpdateEnds
     ELSE mpc' = "store" /\ UNCHANGED <<subject, goal>>
  /\ UNCHANGED <<xray, limits, bucket, online, mgr, links, connVars, taken,
                 updates, reportVars, detached, unseen, raced>>

DeleteBucket ==
  /\ mpc = "unbucket"
  /\ bucket' = [bucket EXCEPT ![subject] = None]
  /\ calm' = [calm EXCEPT ![subject] =
                \A c \in ConnsOf(subject) : pc[c] \notin Checking]
  /\ fresh' = fresh \ ConnsOf(subject)
  /\ IF goal = Gone THEN UpdateEnds
     ELSE mpc' = "store" /\ UNCHANGED <<subject, goal>>
  /\ UNCHANGED <<xray, limits, online, mgr, links, connVars, taken, updates,
                 reportVars, detached, unseen, raced>>

(* and the first learns the new limits.                                    *)
StoreLimit ==
  /\ mpc = "store"
  /\ limits' = [limits EXCEPT ![subject] = goal]
  /\ UpdateEnds
  /\ UNCHANGED <<xray, bucket, online, mgr, links, connVars, taken, updates,
                 reportVars, historyVars>>

-----------------------------------------------------------------------------
(* GetOnlineDevice: the addresses of a user are read, then his entry is    *)
(* deleted.                                                                *)
ReadOnline(u) ==
  /\ rpc = None
  /\ online[u] # {}
  /\ rpc' = u /\ got' = online[u]
  /\ UNCHANGED <<tableVars, connVars, monitorVars, reported, historyVars>>

ResetOnline ==
  /\ rpc # None
  /\ Forget(rpc)
  /\ reported' = reported \cup
                   {c \in ConnsOf(rpc) : pc[c] \in Tracked /\ Ip[c] \in got}
  /\ rpc' = None /\ got' = {}
  /\ UNCHANGED <<xray, limits, bucket, mgr, links, connVars, monitorVars,
                 unseen, calm, fresh, raced>>

-----------------------------------------------------------------------------
CheckLimit(c) ==
  \/ \E tracked \in BOOLEAN : LoadLimit(c, tracked)
  \/ Refuse(c) \/ Track(c) \/ TrackIp(c) \/ TakeBucket(c) \/ KeepBucket(c)

Connection(c) ==
  Authenticate(c) \/ CheckLimit(c) \/ TakeManager(c) \/ AddLink(c) \/ CloseLink(c)

MonitorStep ==
  \/ RemoveUser \/ TakeLinks \/ (\E c \in Conns : CloseTaken(c)) \/ DropManager
  \/ AddUser \/ DeleteLimit \/ DeleteOnline \/ DeleteBucket \/ StoreLimit

Next ==
  \/ \E c \in Conns : Connection(c)
  \/ \E u \in Users, plan \in Speeds \cup {Gone} : UpdateBegins(u, plan)
  \/ MonitorStep
  \/ \E u \in Users : ReadOnline(u)
  \/ ResetOnline

(* The monitor finishes what it began. Connections may stay open.          *)
Spec == Init /\ [][Next]_vars
FairSpec == Spec /\ WF_vars(MonitorStep)

-----------------------------------------------------------------------------
TypeOK ==
  /\ xray \subseteq Users
  /\ limits \in [Users -> Speeds \cup {Gone}]
  /\ bucket \in [Users -> Conns \cup {None}]
  /\ online \in [Users -> SUBSET Ips]
  /\ mgr \in [Users -> Conns \cup {None}]
  /\ links \in [Conns -> SUBSET Conns]
  /\ pc \in [Conns -> Making \cup {"new", "open", "closed"}]
  /\ rate \in [Conns -> Speeds]
  /\ holds \in [Conns -> Conns \cup {None}]
  /\ mine \in [Conns -> Conns \cup {None}]
  /\ mpc \in {"idle", "remove", "take", "close", "admit", "unlimit", "offline",
              "unbucket", "store"}
  /\ subject \in Users \cup {None} /\ goal \in Speeds \cup {Gone}
  /\ taken \subseteq Conns /\ updates \in 0..MaxUpdates
  /\ rpc \in Users \cup {None} /\ got \subseteq Ips
  /\ reported \subseteq Conns
  /\ detached \subseteq Conns /\ unseen \subseteq Conns
  /\ calm \in [Users -> BOOLEAN]
  /\ fresh \subseteq Conns /\ raced \subseteq Conns

(* A link can be closed by a revocation: it is in the manager the table    *)
(* has for its user. Only a link that was being made while a revocation    *)
(* took the links may escape, and those of DispatchLink always do.         *)
(* No manager keeps a link that is closed.                                 *)
Reachable ==
  /\ \A c \in Conns \ (Direct \cup raced) :
       pc[c] = "open" => \/ c \in taken
                         \/ mine[c] = mgr[User[c]] /\ c \in links[mine[c]]
  /\ \A m \in Conns : \A c \in links[m] : pc[c] = "open"

(* Connections of a user share one bucket, and it has the speed in force,  *)
(* unless a CheckLimit of his overlapped the last change of his limits: it *)
(* may put the old speed back for everybody who follows.                   *)
SpeedInForce ==
  \A u \in Users : calm[u] =>
    /\ \A c \in fresh \cap ConnsOf(u) : rate[c] # Unlimited => holds[c] = bucket[u]
    /\ bucket[u] # None /\ limits[u] # Gone => rate[bucket[u]] = limits[u]

(* The address of a connection that was let through is online or was       *)
(* reported, unless it is not tracked, a change of the user deleted it, or *)
(* a report was under way when it was stored.                              *)
Seen ==
  \A c \in Conns \ unseen :
    pc[c] \in Tracked => Ip[c] \in online[User[c]] \/ c \in reported

(* A link made before its user is revoked ends.                            *)
RevocationEnds ==
  \A c \in Conns \ Direct :
    pc[c] = "open" /\ User[c] \notin xray ~>
      pc[c] = "closed" \/ c \in raced
=============================================================================
