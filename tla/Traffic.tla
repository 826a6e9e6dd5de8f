------------------------------ MODULE Traffic -------------------------------
(***************************************************************************)
(* How the bytes of a user reach the panel: the counters of                *)
(* common/counter, the collection of core/user.go and node/traffic.go, the *)
(* queue of unacknowledged batches, and the report to the panel.           *)
(*                                                                         *)
(* An account is a user on one controller; its controller is also the      *)
(* destination its batch is sent to. Uploaded and downloaded bytes travel  *)
(* together and are counted as one number.                                 *)
(*                                                                         *)
(* Two kinds of goroutines collect: the report task of the node, which     *)
(* walks over the controllers and then sends, and the userListMonitor of a *)
(* controller, which collects before it deletes users.                     *)
(*                                                                         *)
(* The exit is steps of the reporter, for it begins with the end of the    *)
(* report task. Node.Close stops the controllers one by one: the tasks of  *)
(* a controller are closed while the others' monitors still run, its       *)
(* inbound is removed, and its counters are collected for the last time.   *)
(* An inbound xray does not remove leaves its controller started and its   *)
(* counters as they are; Close tries it a second time. FlushTraffic comes  *)
(* last, whatever was collected.                                           *)
(***************************************************************************)
EXTENDS Naturals, FiniteSets

CONSTANTS
  Accounts,   \* users with traffic counters
  Dests,      \* controllers
  Dest,       \* the controller of an account
  Threshold,  \* TrafficReportThreshold
  Revocable,  \* accounts the panel may revoke and bring back
  MaxBytes,   \* bound: bytes each account moves
  MaxFails    \* bound: requests that fail, lost responses, expired reports

ASSUME DestAssumption == Dest \in [Accounts -> Dests]
ASSUME NumberAssumption ==
  Threshold \in Nat /\ MaxBytes \in [Accounts -> Nat] /\ MaxFails \in Nat

Reporter == "reporter"
ASSUME ReporterAssumption == Reporter \notin Dests
Collectors == {Reporter} \cup Dests     \* a monitor has its controller's name
None == "none"
ASSUME NoneAssumption == None \notin Accounts \cup Collectors

AccountsOf(d) == {a \in Accounts : Dest[a] = d}

VARIABLES
  active,   \* users in xray and in uidMap
  live,     \* bytes in the storage the counter map has for an account
  orphan,   \* accounts with a connection on a storage the map forgot
  pcc,      \* where a collector is
  tag,      \* the controller it collects
  todo,     \* accounts its Range has still to visit
  hot,      \* the account whose bytes it found above the threshold
  slice,    \* what it swapped out and has not queued, per account
  entries,  \* the accounts in that slice
  left,     \* controllers the reporter has still to collect, or Stop to stop
  queued,   \* bytes in the pending batches
  inQueue,  \* destinations with a pending batch
  mu,       \* the mutex of the queue: None or Reporter
  unsent,   \* destinations the current report has still to try
  flight,   \* the destination of the request under way, or None
  sent,     \* bytes in that request
  billed,   \* bytes the panel has counted
  fails,    \* failed requests, lost responses, expired reports so far
  started,  \* controllers whose inbound is in xray
  phase,    \* "run", "final" in Stop, "closing" when Close stops those left
            \* again, "flush", "exited"
  moved,    \* history: bytes the connections moved
  acked,    \* history: bytes the panel acknowledged
  late,     \* history: bytes moved after Stop collected the account
  lost,     \* history: bytes no collector can reach any more
  revoked   \* history: accounts that DelUsers deleted

userVars == <<active, revoked>>
countVars == <<live, orphan, moved, late, lost>>
collectVars == <<pcc, tag, todo, hot, slice, entries, left>>
queueVars == <<queued, inQueue, mu, unsent, flight, sent, billed, fails, acked>>
lifeVars == <<started, phase>>
vars == <<userVars, countVars, collectVars, queueVars, lifeVars>>

Zero == [a \in Accounts |-> 0]

Init ==
  /\ active = Accounts /\ revoked = {}
  /\ live = Zero /\ orphan = {}
  /\ moved = Zero /\ late = Zero /\ lost = Zero
  /\ pcc = [c \in Collectors |-> "idle"]
  /\ tag = [c \in Collectors |-> IF c = Reporter THEN None ELSE c]
  /\ todo = [c \in Collectors |-> {}]
  /\ hot = [c \in Collectors |-> None]
  /\ slice = [c \in Collectors |-> Zero]
  /\ entries = [c \in Collectors |-> {}]
  /\ left = {}
  /\ queued = Zero /\ inQueue = {} /\ mu = None /\ unsent = {}
  /\ flight = None /\ sent = Zero /\ billed = Zero /\ fails = 0
  /\ acked = Zero
  /\ started = Dests /\ phase = "run"

-----------------------------------------------------------------------------
(* Mutants: the same steps with a plausible bug. No specification of the   *)
(* project uses them; each shows that a property can tell it.              *)

(* Stop marks the controller as stopped before it tries DelNode, so that   *)
(* the second Stop returns at once.                                        *)
StaysStarted_Forgets(d) ==
  /\ pcc[Reporter] = "stop" /\ tag[Reporter] = d
  /\ pcc[d] = "idle"
  /\ pcc' = [pcc EXCEPT ![Reporter] = "next"]
  /\ started' = started \ {d}
  /\ UNCHANGED <<userVars, countVars, tag, todo, hot, slice, entries, left,
                 queueVars, phase>>

(* The bytes that Compare saw are subtracted, instead of a swap.           *)
Swap_Subtracts(c, a) ==
  LET seen == IF c = Reporter /\ phase = "run" THEN Threshold + 1 ELSE 1 IN
  /\ hot[c] = a
  /\ hot' = [hot EXCEPT ![c] = None]
  /\ a \in active
  /\ slice' = [slice EXCEPT ![c][a] = @ + seen]
  /\ entries' = [entries EXCEPT ![c] = @ \cup {a}]
  /\ live' = [live EXCEPT ![a] = @ - seen]
  /\ UNCHANGED <<orphan, lost, userVars, moved, late, pcc, tag, todo, left,
                 queueVars, lifeVars>>

(* The queue is not locked.                                                *)
Add_Unlocked(c) ==
  /\ pcc[c] = "range" /\ hot[c] = None /\ todo[c] = {}
  /\ queued' = [a \in Accounts |-> queued[a] + slice[c][a]]
  /\ inQueue' = IF entries[c] = {} THEN inQueue ELSE inQueue \cup {tag[c]}
  /\ slice' = [slice EXCEPT ![c] = Zero]
  /\ entries' = [entries EXCEPT ![c] = {}]
  /\ pcc' = [pcc EXCEPT ![c] = IF c = Reporter THEN "next" ELSE "delete"]
  /\ UNCHANGED <<userVars, countVars, tag, todo, hot, left, mu, unsent, flight,
                 sent, billed, fails, acked, lifeVars>>

(* A failed batch is deleted like an acknowledged one.                     *)
NotAcknowledged_Drops ==
  /\ flight # None
  /\ fails < MaxFails
  /\ fails' = fails + 1
  /\ queued' = [a \in Accounts |-> IF Dest[a] = flight THEN 0 ELSE queued[a]]
  /\ inQueue' = inQueue \ {flight}
  /\ flight' = None /\ sent' = Zero
  /\ UNCHANGED <<userVars, countVars, collectVars, mu, unsent, billed, acked,
                 lifeVars>>

(* The early return of an expired report leaves the queue locked.          *)
SendEnds_KeepsLock ==
  /\ pcc[Reporter] = "send" /\ flight = None
  /\ \/ unsent = {} /\ mu' = None /\ UNCHANGED fails
     \/ unsent # {} /\ fails < MaxFails /\ fails' = fails + 1 /\ UNCHANGED mu
  /\ unsent' = {}
  /\ pcc' = [pcc EXCEPT ![Reporter] = "idle"]
  /\ phase' = IF phase = "flush" THEN "exited" ELSE phase
  /\ UNCHANGED <<started, userVars, countVars, tag, todo, hot, slice, entries,
                 left, queued, inQueue, flight, sent, billed, acked>>

-----------------------------------------------------------------------------
(* Stop has swapped out the counters of the account for the last time.     *)
FinallyCollected(a) ==
  /\ Dest[a] \notin started
  /\ tag[Reporter] = Dest[a] => a \notin todo[Reporter] /\ hot[Reporter] # a

(* A connection counts a byte into the storage its getLink loaded or made, *)
(* which is the one in the map unless that was deleted meanwhile. A user   *)
(* who authenticated before a revocation may still come here after it.     *)
Move(a) ==
  /\ moved[a] < MaxBytes[a]
  /\ phase # "exited"
  /\ moved' = [moved EXCEPT ![a] = @ + 1]
  /\ \/ live' = [live EXCEPT ![a] = @ + 1] /\ UNCHANGED lost
     \/ a \in orphan /\ lost' = [lost EXCEPT ![a] = @ + 1] /\ UNCHANGED live
  /\ late' = IF FinallyCollected(a) THEN [late EXCEPT ![a] = @ + 1] ELSE late
  /\ UNCHANGED <<userVars, orphan, collectVars, queueVars, lifeVars>>

(* The counter map forgets the storage of an account; a connection that    *)
(* goes on counts into a storage no collector can reach.                   *)
Unmap(a) ==
  /\ live' = [live EXCEPT ![a] = 0]
  /\ lost' = [lost EXCEPT ![a] = @ + live[a]]
  /\ orphan' \in {orphan, orphan \cup {a}}

-----------------------------------------------------------------------------
(* collectTraffic: Range over the counters of a controller under the read  *)
(* lock of mapLock, then add the slice to the queue.                       *)
CollectBegins(c, d) ==
  /\ pcc' = [pcc EXCEPT ![c] = "range"]
  /\ tag' = [tag EXCEPT ![c] = d]
  /\ todo' = [todo EXCEPT ![c] = AccountsOf(d)]
  /\ UNCHANGED <<hot, slice, entries>>

(* The userListMonitor runs until Stop comes to its controller.            *)
Monitored(d) == phase = "run" \/ (phase = "final" /\ d \in left)

(* A list that deletes users: collect first.                               *)
MonitorCollects(d) ==
  /\ Monitored(d)
  /\ pcc[d] = "idle"
  /\ AccountsOf(d) \cap active \cap Revocable # {}
  /\ CollectBegins(d, d)
  /\ UNCHANGED <<userVars, countVars, left, queueVars, lifeVars>>

(* The report task runs over all controllers.                              *)
ReportBegins ==
  /\ phase = "run"
  /\ pcc[Reporter] = "idle"
  /\ pcc' = [pcc EXCEPT ![Reporter] = "next"]
  /\ left' = Dests
  /\ UNCHANGED <<userVars, countVars, tag, todo, hot, slice, entries, queueVars,
                 lifeVars>>

ReporterCollects(d) ==
  /\ phase = "run"
  /\ pcc[Reporter] = "next"
  /\ d \in left
  /\ left' = left \ {d}
  /\ CollectBegins(Reporter, d)
  /\ UNCHANGED <<userVars, countVars, queueVars, lifeVars>>

MinTraffic(c) == IF c = Reporter /\ phase = "run" THEN Threshold ELSE 0

(* Load both counters and compare.                                         *)
Compare(c, a) ==
  /\ pcc[c] = "range" /\ hot[c] = None
  /\ a \in todo[c]
  /\ todo' = [todo EXCEPT ![c] = @ \ {a}]
  /\ hot' = [hot EXCEPT ![c] = IF live[a] > MinTraffic(c) THEN a ELSE None]
  /\ UNCHANGED <<userVars, countVars, pcc, tag, slice, entries, left, queueVars,
                 lifeVars>>

(* Swap both counters out. Another collector may have been faster. Bytes   *)
(* of a user without an id are dropped with their counter.                 *)
Swap(c, a) ==
  /\ hot[c] = a
  /\ hot' = [hot EXCEPT ![c] = None]
  /\ IF a \in active
     THEN /\ slice' = [slice EXCEPT ![c][a] = @ + live[a]]
          /\ entries' = [entries EXCEPT ![c] = @ \cup {a}]
          /\ live' = [live EXCEPT ![a] = 0]
          /\ UNCHANGED <<orphan, lost>>
     ELSE Unmap(a) /\ UNCHANGED <<slice, entries>>
  /\ UNCHANGED <<userVars, moved, late, pcc, tag, todo, left, queueVars, lifeVars>>

(* trafficQueue.add, which an empty slice leaves without the lock.         *)
Add(c) ==
  /\ pcc[c] = "range" /\ hot[c] = None /\ todo[c] = {}
  /\ entries[c] # {} => mu = None
  /\ queued' = [a \in Accounts |-> queued[a] + slice[c][a]]
  /\ inQueue' = IF entries[c] = {} THEN inQueue ELSE inQueue \cup {tag[c]}
  /\ slice' = [slice EXCEPT ![c] = Zero]
  /\ entries' = [entries EXCEPT ![c] = {}]
  /\ pcc' = [pcc EXCEPT ![c] = IF c = Reporter THEN "next" ELSE "delete"]
  /\ UNCHANGED <<userVars, countVars, tag, todo, hot, left, mu, unsent, flight,
                 sent, billed, fails, acked, lifeVars>>

-----------------------------------------------------------------------------
(* No collector holds mapLock for reading.                                 *)
NoRange == \A c \in Collectors : pcc[c] = "range" => hot[c] = None /\ todo[c] = {}

(* DelUsers, under mapLock: no Range is under way. CloseAll interrupts the *)
(* connections it knows of; one that goes on counts into the old storage.  *)
DelUser(d, a) ==
  /\ pcc[d] \in {"delete", "deleting"}
  /\ a \in active \cap AccountsOf(d) \cap Revocable
  /\ NoRange
  /\ active' = active \ {a}
  /\ revoked' = revoked \cup {a}
  /\ Unmap(a)
  /\ pcc' = [pcc EXCEPT ![d] = "deleting"]
  /\ UNCHANGED <<moved, late, tag, todo, hot, slice, entries, left, queueVars,
                 lifeVars>>

(* A list that deletes nobody is applied without collecting.               *)
MonitorAdds(d) ==
  /\ Monitored(d)
  /\ pcc[d] = "idle"
  /\ AccountsOf(d) \ active # {}
  /\ pcc' = [pcc EXCEPT ![d] = "add"]
  /\ UNCHANGED <<userVars, countVars, tag, todo, hot, slice, entries, left,
                 queueVars, lifeVars>>

(* AddUsers: the user comes back, perhaps with another speed limit.        *)
AddUser(d, a) ==
  /\ pcc[d] \in {"deleting", "add"}
  /\ a \in AccountsOf(d) \ active
  /\ NoRange
  /\ active' = active \cup {a}
  /\ pcc' = [pcc EXCEPT ![d] = "add"]
  /\ UNCHANGED <<revoked, countVars, tag, todo, hot, slice, entries,
                 left, queueVars, lifeVars>>

MonitorEnds(d) ==
  /\ pcc[d] \in {"deleting", "add"}
  /\ pcc' = [pcc EXCEPT ![d] = "idle"]
  /\ UNCHANGED <<userVars, countVars, tag, todo, hot, slice, entries, left,
                 queueVars, lifeVars>>

-----------------------------------------------------------------------------
(* Node.Close: once its report task has ended, Stop goes over the          *)
(* controllers.                                                            *)
StopBegins ==
  /\ phase = "run"
  /\ pcc[Reporter] = "idle"
  /\ phase' = "final"
  /\ pcc' = [pcc EXCEPT ![Reporter] = "next"]
  /\ left' = Dests
  /\ UNCHANGED <<userVars, countVars, tag, todo, hot, slice, entries, queueVars,
                 started>>

(* Controller.Stop closes its tasks: no run of the monitor begins any more.*)
CloseTasks(d) ==
  /\ phase \in {"final", "closing"}
  /\ pcc[Reporter] = "next"
  /\ d \in left
  /\ left' = left \ {d}
  /\ tag' = [tag EXCEPT ![Reporter] = d]
  /\ pcc' = [pcc EXCEPT ![Reporter] = "stop"]
  /\ UNCHANGED <<userVars, countVars, todo, hot, slice, entries, queueVars,
                 lifeVars>>

(* The run that was under way has ended, and DelNode removes the inbound.  *)
CollectsLast(d) ==
  /\ pcc[Reporter] = "stop" /\ tag[Reporter] = d
  /\ pcc[d] = "idle"
  /\ started' = started \ {d}
  /\ CollectBegins(Reporter, d)
  /\ UNCHANGED <<userVars, countVars, left, queueVars, phase>>

(* DelNode fails: Stop returns before it collects.                         *)
StaysStarted(d) ==
  /\ pcc[Reporter] = "stop" /\ tag[Reporter] = d
  /\ pcc[d] = "idle"
  /\ pcc' = [pcc EXCEPT ![Reporter] = "next"]
  /\ UNCHANGED <<userVars, countVars, tag, todo, hot, slice, entries, left,
                 queueVars, lifeVars>>

(* Close stops all of them again; a controller that is not started returns.*)
StopsAgain ==
  /\ phase = "final"
  /\ pcc[Reporter] = "next" /\ left = {}
  /\ phase' = "closing"
  /\ left' = started
  /\ UNCHANGED <<userVars, countVars, pcc, tag, todo, hot, slice, entries,
                 queueVars, started>>

-----------------------------------------------------------------------------
(* trafficQueue.report holds the mutex over all of its requests, for the   *)
(* report task and for FlushTraffic.                                       *)
SendBegins ==
  /\ phase \in {"run", "closing"}
  /\ pcc[Reporter] = "next" /\ left = {}
  /\ mu = None
  /\ mu' = Reporter
  /\ unsent' = inQueue
  /\ pcc' = [pcc EXCEPT ![Reporter] = "send"]
  /\ phase' = IF phase = "closing" THEN "flush" ELSE phase
  /\ UNCHANGED <<started, userVars, countVars, tag, todo, hot, slice, entries,
                 left, queued, inQueue, flight, sent, billed, fails, acked>>

Post(d) ==
  /\ pcc[Reporter] = "send" /\ flight = None
  /\ d \in unsent
  /\ unsent' = unsent \ {d}
  /\ flight' = d
  /\ sent' = [a \in Accounts |-> IF Dest[a] = d THEN queued[a] ELSE 0]
  /\ UNCHANGED <<userVars, countVars, collectVars, queued, inQueue, mu, billed,
                 fails, acked, lifeVars>>

PanelCounts == billed' = [a \in Accounts |-> billed[a] + sent[a]]

(* The panel counts the batch and the response arrives: the batch goes.    *)
Acknowledged ==
  /\ flight # None
  /\ PanelCounts
  /\ acked' = [a \in Accounts |-> acked[a] + sent[a]]
  /\ queued' = [a \in Accounts |-> IF Dest[a] = flight THEN 0 ELSE queued[a]]
  /\ inQueue' = inQueue \ {flight}
  /\ flight' = None /\ sent' = Zero
  /\ UNCHANGED <<userVars, countVars, collectVars, mu, unsent, fails, lifeVars>>

(* The request or its response is lost, or the panel refuses: the batch    *)
(* stays, and the next destination is tried.                               *)
NotAcknowledged ==
  /\ flight # None
  /\ fails < MaxFails
  /\ fails' = fails + 1
  /\ PanelCounts \/ UNCHANGED billed
  /\ flight' = None /\ sent' = Zero
  /\ UNCHANGED <<userVars, countVars, collectVars, queued, inQueue, mu, unsent,
                 acked, lifeVars>>

(* All destinations were tried, or the context of the report is done.      *)
SendEnds ==
  /\ pcc[Reporter] = "send" /\ flight = None
  /\ \/ unsent = {} /\ UNCHANGED fails
     \/ unsent # {} /\ fails < MaxFails /\ fails' = fails + 1
  /\ mu' = None
  /\ unsent' = {}
  /\ pcc' = [pcc EXCEPT ![Reporter] = "idle"]
  /\ phase' = IF phase = "flush" THEN "exited" ELSE phase
  /\ UNCHANGED <<started, userVars, countVars, tag, todo, hot, slice, entries,
                 left, queued, inQueue, flight, sent, billed, acked>>

Collect(c) ==
  (\E a \in Accounts : Compare(c, a) \/ Swap(c, a)) \/ Add(c)

ReporterStep ==
  \/ Collect(Reporter) \/ (\E d \in Dests : ReporterCollects(d))
  \/ \E d \in Dests : CloseTasks(d) \/ CollectsLast(d) \/ StaysStarted(d)
  \/ StopsAgain
  \/ SendBegins \/ (\E d \in Dests : Post(d)) \/ Acknowledged \/ SendEnds

MonitorStep(d) ==
  \/ Collect(d) \/ MonitorEnds(d)
  \/ \E a \in Accounts : DelUser(d, a) \/ AddUser(d, a)

Next ==
  \/ \E a \in Accounts : Move(a)
  \/ \E d \in Dests :
       MonitorCollects(d) \/ MonitorAdds(d) \/ MonitorStep(d)
  \/ ReportBegins \/ StopBegins \/ ReporterStep \/ NotAcknowledged

(* The report task runs on its period until Stop, every request it sends   *)
(* ends, and a monitor finishes what it began. An exit that has begun goes *)
(* on: what it waits for is a run of a monitor no other follows.           *)
Fairness ==
  /\ WF_vars(ReportBegins \/ ReporterStep)
  /\ \A d \in Dests : WF_vars(MonitorStep(d))

Spec == Init /\ [][Next]_vars
FairSpec == Spec /\ Fairness

-----------------------------------------------------------------------------
Bytes == [Accounts -> Nat]

TypeOK ==
  /\ active \subseteq Accounts /\ revoked \subseteq Accounts
  /\ orphan \subseteq Accounts
  /\ live \in Bytes /\ moved \in Bytes /\ late \in Bytes /\ lost \in Bytes
  /\ pcc \in [Collectors -> {"idle", "next", "range", "delete", "deleting",
                             "add", "stop", "send"}]
  /\ tag \in [Collectors -> Dests \cup {None}]
  /\ todo \in [Collectors -> SUBSET Accounts]
  /\ hot \in [Collectors -> Accounts \cup {None}]
  /\ slice \in [Collectors -> Bytes]
  /\ entries \in [Collectors -> SUBSET Accounts]
  /\ left \subseteq Dests
  /\ queued \in Bytes /\ inQueue \subseteq Dests /\ unsent \subseteq Dests
  /\ mu \in {None, Reporter} /\ flight \in Dests \cup {None}
  /\ sent \in Bytes /\ billed \in Bytes /\ acked \in Bytes
  /\ fails \in 0..MaxFails
  /\ started \subseteq Dests
  /\ phase \in {"run", "final", "closing", "flush", "exited"}

(* What the node still has of an account's bytes. Only the reporter and    *)
(* the monitor of its controller ever hold some of them.                   *)
Owed(a) == live[a] + slice[Reporter][a] + slice[Dest[a]][a] + queued[a]

(* No byte is lost or counted twice on its way from the counter to the     *)
(* acknowledgement, with two collectors, a queue locked over the requests  *)
(* and failing reports in between. Bytes are lost only for users that were *)
(* revoked. The panel counts a byte more than once only if a request       *)
(* failed: the batch that is deleted is the batch that was sent.           *)
Accounted ==
  \A a \in Accounts :
    /\ moved[a] = Owed(a) + acked[a] + lost[a]
    /\ lost[a] > 0 \/ a \in orphan => a \in revoked
    /\ acked[a] <= billed[a] /\ (fails = 0 => billed[a] = acked[a])
    /\ flight = Dest[a] => sent[a] = queued[a]

(* After an exit whose flush emptied the queue, the panel has every byte   *)
(* that was moved before Stop collected the account, and only a controller *)
(* whose inbound xray refused to remove, twice, has kept others, in its    *)
(* counters.                                                               *)
ExitFlushes ==
  phase = "exited" /\ inQueue = {} =>
    \A a \in Accounts \ revoked :
      moved[a] = acked[a] + IF Dest[a] \in started THEN live[a] ELSE late[a]

(* A byte in the queue reaches the panel once requests succeed again,      *)
(* unless the process exits first.                                         *)
Delivered ==
  \A a \in Accounts : queued[a] > 0 ~> queued[a] = 0 \/ phase = "exited"

Ledger == INSTANCE TrafficLedger WITH
            owed <- [a \in Accounts |-> Owed(a)], billed <- billed,
            revoked <- revoked

(* The pipeline keeps the promise of the ledger.                           *)
LedgerSpec == Ledger!Spec
=============================================================================
