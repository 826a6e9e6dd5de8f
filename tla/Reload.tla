------------------------------- MODULE Reload -------------------------------
(***************************************************************************)
(* The life of the server process: boot, the main loop of cmd/server.go,   *)
(* the hot reload that replaces the running instance, and the exit.        *)
(*                                                                         *)
(* An instance is an xray core (core/xray.go) and the node on top of it    *)
(* (node/node.go), whose controllers (node/controller.go) own one listener *)
(* each. A reload builds a second instance beside the current one, so two  *)
(* slots are enough: cur holds the installed one, 1 - cur the other. Boot  *)
(* is a reload that finds no instance to replace.                          *)
(*                                                                         *)
(* Node.Start and Node.Stop walk over their controllers; main keeps the    *)
(* controllers left in todo, the slot it works on in at, and where it      *)
(* continues afterwards in next. The tasks of an instance run concurrently *)
(* with all of this; closing one waits for its run (module PeriodicTask).  *)
(***************************************************************************)
EXTENDS Naturals, FiniteSets

CONSTANTS
  Protocols,  \* protocols the panel can enable on this server
  MaxVer,     \* bound: versions of the configuration the panel publishes
  Enabled,    \* the protocols each version enables
  MaxFails    \* bound: failures of the panel, the system or xray

Vers == 1..MaxVer
Slots == {0, 1}
None == 2                   \* no slot

ASSUME MaxAssumption == MaxVer \in Nat \ {0} /\ MaxFails \in Nat
ASSUME EnabledAssumption == Enabled \in [Vers -> SUBSET Protocols]

VARIABLES
  pc,        \* where the main goroutine is
  at,        \* slot of the node it starts or stops
  todo,      \* controllers Node.Start or Node.Stop has still to visit
  next,      \* where Node.Stop returns to
  cur,       \* slot of *nodes and *xcore
  old,       \* whether that slot holds an instance: FALSE while booting
  switching, \* whether the reload has begun to stop the old node
  outcome,   \* how the last reload ended
  core,      \* XrayCore: "none", "running" or "closed"
  ver,       \* version of the configuration an instance was built from
  seen,      \* ETag and body hash of a core's panel client
  mon,       \* run of its ServerConfigMonitor
  report,    \* run of its node's report task
  started,   \* Controller.started
  users,     \* run of each controller's userListMonitor
  queue,     \* whether the node's traffic queue is the first instance's
  port,      \* slot that listens on the port of a protocol
  reloadCh,  \* signals in ReloadCh, capacity 1
  sig,       \* whether a termination signal is pending
  panel,     \* version the panel publishes
  fails,     \* failures so far
  stuck      \* history: controllers whose inbound could not be removed

mainVars == <<pc, at, todo, next, cur, old, switching, outcome>>
coreVars == <<core, ver, seen, mon>>
nodeVars == <<report, started, users, queue, port, stuck>>
envVars == <<reloadCh, sig, panel, fails>>
vars == <<mainVars, coreVars, nodeVars, envVars>>

new == 1 - cur
Off == "off"
Idle == "idle"
Busy == "busy"

Init ==
  /\ pc = "fetch"
  /\ at = 0 /\ todo = {} /\ next = "loop"
  /\ cur = 1 /\ old = FALSE /\ switching = FALSE
  /\ outcome = "none"
  /\ core = [i \in Slots |-> "none"]
  /\ ver = [i \in Slots |-> 1]
  /\ seen = [i \in Slots |-> 0]
  /\ mon = [i \in Slots |-> Off]
  /\ report = [i \in Slots |-> Off]
  /\ started = [i \in Slots |-> {}]
  /\ users = [i \in Slots |-> [p \in Protocols |-> Off]]
  /\ queue = [i \in Slots |-> FALSE]
  /\ port = [p \in Protocols |-> None]
  /\ stuck = [i \in Slots |-> {}]
  /\ reloadCh = 0 /\ sig = FALSE /\ panel = 1 /\ fails = 0

Fail == fails < MaxFails /\ fails' = fails + 1
NoFail == UNCHANGED fails

-----------------------------------------------------------------------------
(* Where main goes. A reload that gives up before it touched the old node  *)
(* returns to the loop, to whatever served before; a boot that fails ends  *)
(* the process.                                                            *)
Return(result) ==
  /\ outcome' = IF result = "kept" /\ outcome = "restoreFailed" THEN outcome
                ELSE result
  /\ pc' = IF old THEN "loop" ELSE "exited"

StopNode(i, then) ==
  /\ pc' = "stopReport" /\ at' = i /\ next' = then /\ todo' = Enabled[ver[i]]

StartNode(i) ==
  /\ pc' = "start" /\ at' = i /\ todo' = Enabled[ver[i]]

-----------------------------------------------------------------------------
(* Mutants: what a plausible mistake would make of an action below. They   *)
(* are no part of the specification.                                       *)

(* A channel that takes any number of signals.                             *)
MonitorSignals_Queues(i) ==
  /\ mon[i] = Busy
  /\ mon' = [mon EXCEPT ![i] = Idle]
  /\ reloadCh' = reloadCh + 1
  /\ UNCHANGED <<mainVars, core, ver, seen, nodeVars, sig, panel, fails>>

(* A send that blocks while a signal is buffered.                          *)
MonitorSignals_Blocks(i) ==
  /\ mon[i] = Busy /\ reloadCh = 0
  /\ mon' = [mon EXCEPT ![i] = Idle]
  /\ reloadCh' = 1
  /\ UNCHANGED <<mainVars, core, ver, seen, nodeVars, sig, panel, fails>>

(* A channel without a buffer: only a waiting receiver gets the signal.    *)
MonitorSignals_Unbuffered(i) ==
  /\ mon[i] = Busy
  /\ mon' = [mon EXCEPT ![i] = Idle]
  /\ reloadCh' = IF pc = "loop" THEN 1 ELSE reloadCh
  /\ UNCHANGED <<mainVars, core, ver, seen, nodeVars, sig, panel, fails>>

(* Controller.Stop forgets its tasks.                                      *)
StopController_KeepsTasks(p) ==
  /\ pc = "stop" /\ p \in todo
  /\ todo' = todo \ {p}
  /\ started' = [started EXCEPT ![at] = @ \ {p}]
  /\ port' = [port EXCEPT ![p] = IF @ = at THEN None ELSE @]
  /\ UNCHANGED <<pc, at, next, cur, old, switching, outcome, coreVars, report,
                 users, queue, stuck, envVars>>

(* The new core is left running when its node is given up.                 *)
CloseNewCore_Leaks ==
  /\ pc = "closeNew"
  /\ IF switching THEN StartNode(cur) /\ UNCHANGED outcome
     ELSE Return("kept") /\ UNCHANGED <<at, todo>>
  /\ UNCHANGED <<next, cur, old, switching, coreVars, nodeVars, envVars>>

(* Node.Stop keeps the closed report task, so Node.Start does not start    *)
(* one again.                                                              *)
StartDone_ReportOnce ==
  /\ pc = "start" /\ todo = {}
  /\ report' = [report EXCEPT ![at] = IF @ = Off /\ at = new THEN Idle ELSE @]
  /\ switching' = FALSE
  /\ IF at = cur
     THEN Return("restored") /\ UNCHANGED <<at, todo, next, cur, old>>
     ELSE /\ cur' = new /\ old' = TRUE
          /\ IF old THEN StopNode(cur, "closeOld") /\ UNCHANGED outcome
             ELSE pc' = "loop" /\ outcome' = "ok" /\ UNCHANGED <<at, todo, next>>
  /\ UNCHANGED <<coreVars, started, users, queue, port, stuck, envVars>>

-----------------------------------------------------------------------------
(* The select of the main loop.                                            *)
TakeReload ==
  /\ pc = "loop"
  /\ reloadCh = 1
  /\ reloadCh' = 0
  /\ pc' = "fetch"
  /\ UNCHANGED <<at, todo, next, cur, old, switching, outcome, coreVars,
                 nodeVars, sig, panel, fails>>

TakeSignal ==
  /\ pc = "loop"
  /\ sig
  /\ StopNode(cur, "exitCore")
  /\ UNCHANGED <<cur, old, switching, outcome, coreVars, nodeVars, envVars>>

(* Load the file, fetch the configuration with a new panel client, and     *)
(* validate it.                                                            *)
Fetch ==
  /\ pc = "fetch"
  /\ \/ /\ NoFail
        /\ ver' = [ver EXCEPT ![new] = panel]
        /\ seen' = [seen EXCEPT ![new] = panel]
        /\ pc' = "core"
        /\ UNCHANGED outcome
     \/ Fail /\ Return("kept") /\ UNCHANGED <<ver, seen>>
  /\ UNCHANGED <<at, todo, next, cur, old, switching, core, mon, nodeVars,
                 reloadCh, sig, panel>>

(* XrayCore.Start, which starts the monitor. The slot is the new           *)
(* instance's from here on, which has no controllers yet.                  *)
StartCore ==
  /\ pc = "core"
  /\ \/ /\ NoFail
        /\ core' = [core EXCEPT ![new] = "running"]
        /\ mon' = [mon EXCEPT ![new] = Idle]
        /\ started' = [started EXCEPT ![new] = {}]
        /\ stuck' = [stuck EXCEPT ![new] = {}]
        /\ pc' = "new"
        /\ UNCHANGED outcome
     \/ Fail /\ Return("kept") /\ UNCHANGED <<core, mon, started, stuck>>
  /\ UNCHANGED <<at, todo, next, cur, old, switching, ver, seen, report, users,
                 queue, port, reloadCh, sig, panel>>

(* node.New: controllers that are not started, and a queue of its own. If  *)
(* it fails, the core is closed.                                           *)
NewNode ==
  /\ pc = "new"
  /\ \/ NoFail /\ pc' = "prepare" /\ queue' = [queue EXCEPT ![new] = ~old]
     \/ Fail /\ pc' = "closeNew" /\ UNCHANGED queue
  /\ UNCHANGED <<at, todo, next, cur, old, switching, outcome, coreVars, report,
                 started, users, port, stuck, reloadCh, sig, panel>>

(* Node.Prepare fetches users and certificates. Only when all of it is     *)
(* there does the reload take over the queue and stop the old node.        *)
Prepare ==
  /\ pc = "prepare"
  /\ \/ NoFail /\ queue' = [queue EXCEPT ![new] = IF old THEN queue[cur] ELSE @]
        /\ switching' = old
        /\ IF old THEN StopNode(cur, "start") ELSE StartNode(new) /\ UNCHANGED next
     \/ Fail /\ StopNode(new, "closeNew") /\ UNCHANGED <<switching, queue>>
  /\ UNCHANGED <<cur, old, outcome, coreVars, report, started, users, port,
                 stuck, reloadCh, sig, panel>>

-----------------------------------------------------------------------------
(* Node.Stop: the report task first, then every controller.                *)
StopReport ==
  /\ pc = "stopReport"
  /\ report[at] # Busy
  /\ report' = [report EXCEPT ![at] = Off]
  /\ pc' = "stop"
  /\ UNCHANGED <<at, todo, next, cur, old, switching, outcome, coreVars,
                 started, users, queue, port, stuck, envVars>>

(* Controller.Stop: close the tasks, waiting for their runs, then remove   *)
(* the inbound. An inbound that cannot be removed leaves the controller    *)
(* started, and turns a stop of the old node into a failed reload.         *)
StopController(p) ==
  /\ pc = "stop"
  /\ p \in todo
  /\ users[at][p] # Busy
  /\ users' = [users EXCEPT ![at][p] = Off]
  /\ todo' = todo \ {p}
  /\ \/ /\ NoFail
        /\ started' = [started EXCEPT ![at] = @ \ {p}]
        /\ port' = [port EXCEPT ![p] = IF @ = at THEN None ELSE @]
        /\ UNCHANGED <<next, stuck>>
     \/ /\ p \in started[at] /\ Fail
        /\ next' = IF next = "start" THEN "dropNew" ELSE next
        /\ stuck' = [stuck EXCEPT ![at] = @ \cup {p}]
        /\ UNCHANGED <<started, port>>
  /\ UNCHANGED <<pc, at, cur, old, switching, outcome, coreVars, report, queue,
                 reloadCh, sig, panel>>

StopDone ==
  /\ pc = "stop"
  /\ todo = {}
  /\ IF next = "start" THEN StartNode(new) /\ UNCHANGED next
     ELSE pc' = next /\ UNCHANGED <<at, todo, next>>
  /\ UNCHANGED <<cur, old, switching, outcome, coreVars, nodeVars, envVars>>

(* Controller.Start: nothing on a started controller; else bind the        *)
(* listener, add the users and start the tasks. A controller that failed   *)
(* after binding is started, and Node.Start stops the whole node.          *)
StartController(p) ==
  /\ pc = "start"
  /\ p \in todo
  /\ \/ /\ p \in started[at]
        /\ todo' = todo \ {p}
        /\ NoFail
        /\ UNCHANGED <<pc, at, next, started, users, port>>
     \/ /\ p \notin started[at]
        /\ port[p] = None
        /\ NoFail
        /\ started' = [started EXCEPT ![at] = @ \cup {p}]
        /\ port' = [port EXCEPT ![p] = at]
        /\ users' = [users EXCEPT ![at][p] = Idle]
        /\ todo' = todo \ {p}
        /\ UNCHANGED <<pc, at, next>>
     \/ /\ p \notin started[at]
        /\ port[p] = None
        /\ Fail                                   \* adding the users failed
        /\ started' = [started EXCEPT ![at] = @ \cup {p}]
        /\ port' = [port EXCEPT ![p] = at]
        /\ StopNode(at, IF at = cur THEN "restoreFailed" ELSE "dropNew")
        /\ UNCHANGED users
     \/ /\ p \notin started[at]
        /\ IF port[p] = None THEN Fail ELSE NoFail \* binding failed
        /\ StopNode(at, IF at = cur THEN "restoreFailed" ELSE "dropNew")
        /\ UNCHANGED <<started, users, port>>
  /\ UNCHANGED <<cur, old, switching, outcome, coreVars, report, queue, stuck,
                 reloadCh, sig, panel>>

(* The end of Node.Start: a new node is installed and the old instance     *)
(* closed, an old one has been restored.                                   *)
StartDone ==
  /\ pc = "start"
  /\ todo = {}
  /\ report' = [report EXCEPT ![at] = IF @ = Off THEN Idle ELSE @]
  /\ switching' = FALSE
  /\ IF at = cur
     THEN Return("restored") /\ UNCHANGED <<at, todo, next, cur, old>>
     ELSE /\ cur' = new
          /\ old' = TRUE
          /\ IF old THEN StopNode(cur, "closeOld") /\ UNCHANGED outcome
             ELSE pc' = "loop" /\ outcome' = "ok" /\ UNCHANGED <<at, todo, next>>
  /\ UNCHANGED <<coreVars, started, users, queue, port, stuck, envVars>>

-----------------------------------------------------------------------------
(* restore: newNodes.Close stops the node once more.                       *)
DropNew ==
  /\ pc = "dropNew"
  /\ StopNode(new, "closeNew")
  /\ UNCHANGED <<cur, old, switching, outcome, coreVars, nodeVars, envVars>>

(* XrayCore.Close waits for the monitor, then closes the instance, which   *)
(* releases every listener it still holds.                                 *)
CloseCore(i) ==
  /\ mon[i] \in {Off, Idle}
  /\ mon' = [mon EXCEPT ![i] = Off]
  /\ core' = [core EXCEPT ![i] = "closed"]
  /\ port' = [p \in Protocols |-> IF port[p] = i THEN None ELSE port[p]]
  /\ UNCHANGED <<ver, seen, report, started, users, queue, stuck>>

CloseNewCore ==
  /\ pc = "closeNew"
  /\ CloseCore(new)
  /\ IF switching THEN StartNode(cur) /\ UNCHANGED outcome
     ELSE Return("kept") /\ UNCHANGED <<at, todo>>
  /\ UNCHANGED <<next, cur, old, switching, envVars>>

CloseOldCore ==
  /\ pc = "closeOld"
  /\ CloseCore(new)
  /\ Return("ok")
  /\ UNCHANGED <<at, todo, next, cur, old, switching, envVars>>

(* "restoring previous nodes failed": the loop goes on without service.    *)
RestoreFailed ==
  /\ pc = "restoreFailed"
  /\ Return("restoreFailed")
  /\ switching' = FALSE
  /\ UNCHANGED <<at, todo, next, cur, old, coreVars, nodeVars, envVars>>

(* The deferred calls of serverHandle: the node was closed and the queue   *)
(* flushed, the core is last.                                              *)
Exit ==
  /\ pc = "exitCore"
  /\ CloseCore(cur)
  /\ pc' = "exited"
  /\ UNCHANGED <<at, todo, next, cur, old, switching, outcome, envVars>>

-----------------------------------------------------------------------------
(* A run of ServerConfigMonitor: the client remembers what it fetched,     *)
(* then a wanted upgrade is applied, then the reload is signalled.         *)
MonitorFetches(i) ==
  /\ mon[i] = Idle
  /\ seen[i] # panel
  /\ seen' = [seen EXCEPT ![i] = panel]
  /\ mon' = [mon EXCEPT ![i] = Busy]
  /\ UNCHANGED <<mainVars, core, ver, nodeVars, envVars>>

MonitorSignals(i) ==
  /\ mon[i] = Busy
  /\ mon' = [mon EXCEPT ![i] = Idle]
  /\ reloadCh' = 1
  /\ UNCHANGED <<mainVars, core, ver, seen, nodeVars, sig, panel, fails>>

UsersRun(i, p) ==
  /\ \/ users[i][p] = Idle /\ users' = [users EXCEPT ![i][p] = Busy]
     \/ users[i][p] = Busy /\ users' = [users EXCEPT ![i][p] = Idle]
  /\ UNCHANGED <<mainVars, coreVars, report, started, queue, port, stuck,
                 envVars>>

ReportRun(i) ==
  /\ \/ report[i] = Idle /\ report' = [report EXCEPT ![i] = Busy]
     \/ report[i] = Busy /\ report' = [report EXCEPT ![i] = Idle]
  /\ UNCHANGED <<mainVars, coreVars, started, users, queue, port, stuck,
                 envVars>>

(* The configuration file changed, or a run of a task timed out.           *)
SignalReload ==
  /\ pc # "exited" /\ old
  /\ reloadCh' = 1
  /\ UNCHANGED <<mainVars, coreVars, nodeVars, sig, panel, fails>>

Publish ==
  /\ panel < MaxVer
  /\ panel' = panel + 1
  /\ UNCHANGED <<mainVars, coreVars, nodeVars, reloadCh, sig, fails>>

Terminate ==
  /\ old                     \* signal.Notify is called once booted
  /\ sig' = TRUE
  /\ UNCHANGED <<mainVars, coreVars, nodeVars, reloadCh, panel, fails>>

ReloadStep ==
  \/ Fetch \/ StartCore \/ NewNode \/ Prepare
  \/ StopReport \/ (\E p \in Protocols : StopController(p)) \/ StopDone
  \/ (\E p \in Protocols : StartController(p)) \/ StartDone
  \/ DropNew \/ CloseNewCore \/ CloseOldCore \/ RestoreFailed \/ Exit

Tasks ==
  \E i \in Slots :
    \/ MonitorFetches(i) \/ MonitorSignals(i) \/ ReportRun(i)
    \/ \E p \in Protocols : UsersRun(i, p)

Next ==
  \/ ReloadStep \/ TakeReload \/ TakeSignal
  \/ Tasks
  \/ SignalReload \/ Publish \/ Terminate

(* The main goroutine runs; a Close it waits in returns although runs of   *)
(* the task come and go, which PeriodicTask!CloseReturns shows; and the    *)
(* select of its loop does not pass over a pending signal for ever. The    *)
(* runs of the tasks end, their requests being bound to a context, and the *)
(* monitor runs on its period.                                             *)
Fairness ==
  /\ SF_vars(ReloadStep)
  /\ SF_vars(TakeReload)
  /\ SF_vars(TakeSignal)
  /\ \A i \in Slots :
       /\ WF_vars(MonitorFetches(i))
       /\ WF_vars(MonitorSignals(i))
       /\ WF_vars(report[i] = Busy /\ ReportRun(i))
       /\ \A p \in Protocols : WF_vars(users[i][p] = Busy /\ UsersRun(i, p))

Spec == Init /\ [][Next]_vars
FairSpec == Spec /\ Fairness

-----------------------------------------------------------------------------
TypeOK ==
  /\ pc \in {"loop", "fetch", "core", "new", "prepare", "stopReport", "stop", "start",
             "dropNew", "closeNew", "closeOld", "restoreFailed", "exitCore",
             "exited"}
  /\ at \in Slots /\ cur \in Slots
  /\ todo \in SUBSET Protocols
  /\ next \in {"loop", "start", "dropNew", "closeNew", "closeOld",
               "restoreFailed", "exitCore"}
  /\ old \in BOOLEAN /\ switching \in BOOLEAN /\ sig \in BOOLEAN
  /\ outcome \in {"none", "ok", "kept", "restored", "restoreFailed"}
  /\ core \in [Slots -> {"none", "running", "closed"}]
  /\ ver \in [Slots -> Vers] /\ seen \in [Slots -> 0..MaxVer]
  /\ mon \in [Slots -> {Off, Idle, Busy}]
  /\ report \in [Slots -> {Off, Idle, Busy}]
  /\ started \in [Slots -> SUBSET Protocols]
  /\ users \in [Slots -> [Protocols -> {Off, Idle, Busy}]]
  /\ queue \in [Slots -> BOOLEAN]
  /\ port \in [Protocols -> Slots \cup {None}]
  /\ stuck \in [Slots -> SUBSET Protocols]
  /\ reloadCh \in {0, 1}
  /\ panel \in Vers /\ fails \in 0..MaxFails

(* No task works on a core that is closed or on a listener that is gone:   *)
(* "a cancelled task must finish before its controller or core is closed". *)
WorkersOnLiveCore ==
  \A i \in Slots :
    /\ mon[i] # Off \/ report[i] # Off => core[i] = "running"
    /\ \A p \in Protocols :
         users[i][p] # Off =>
           core[i] = "running" /\ p \in started[i] /\ port[p] = i

(* When main is back in its loop the instance it replaced, or the one it   *)
(* gave up, is closed and holds no listener; after the exit none is left.  *)
NoLeak ==
  /\ pc = "loop" => core[new] # "running" /\ core[cur] = "running"
  /\ pc = "exited" => \A i \in Slots : core[i] # "running"
  /\ \A p \in Protocols : port[p] # None => core[port[p]] = "running"

Serving(i) ==
  /\ core[i] = "running" /\ mon[i] # Off /\ report[i] # Off
  /\ started[i] = Enabled[ver[i]]
  /\ \A p \in Enabled[ver[i]] :
       port[p] = i /\ (users[i][p] # Off \/ p \in stuck[i])

(* However a reload ends, the server afterwards serves one whole           *)
(* configuration, the new or the previous one, with every task running;    *)
(* only a reload that says that restoring failed leaves it without. The    *)
(* exception is a controller whose inbound xray did not remove: it is      *)
(* restored as a listener, but Controller.Start returns early on it and    *)
(* its user list is no longer kept up to date.                             *)
(* And every controller that counts traffic adds to the one queue that     *)
(* lives as long as the process, so that no reload drops what is pending.  *)
AllOrNothing ==
  /\ pc = "loop" /\ outcome # "restoreFailed" => Serving(cur)
  /\ \A i \in Slots : started[i] # {} => queue[i]

(* A termination signal ends the process, whatever reload it interrupts.   *)
ShutsDown == sig ~> pc = "exited"

(* As long as nothing fails, the configuration that runs becomes the last  *)
(* one the panel published, however changes race with a running reload.    *)
Converges ==
  [](fails = 0) => <>[](pc = "exited" \/ ver[cur] = panel)
=============================================================================
