---------------------------- MODULE ReloadProofs -----------------------------
(***************************************************************************)
(* Proofs about Reload, for any protocols, versions and numbers of         *)
(* failures. What carries them: where main is says which of the two cores  *)
(* run; a Node.Stop has ended the tasks of every controller it has         *)
(* visited; and a Node.Start has started every controller it has visited.  *)
(***************************************************************************)
EXTENDS Reload, TLAPS

Up(i) == core[i] = "running"
Stopping(then) == pc \in {"stopReport", "stop"} /\ next = then

(* Main is in one of these places, or stops a node on the way to it.       *)
Heading(places) == pc \in places \/ \E then \in places : Stopping(then)

(* Which cores run, and of which node main starts or stops controllers.    *)
Places ==
  /\ pc = "loop" \/ Heading({"restoreFailed", "exitCore"}) =>
       old /\ Up(cur) /\ ~Up(new)
  /\ pc \in {"fetch", "core"} => ~Up(new) /\ (Up(cur) <=> old)
  /\ pc \in {"new", "prepare"} \/ Heading({"dropNew", "closeNew"}) =>
       Up(new) /\ (Up(cur) <=> old)
  /\ Stopping("start") \/ Heading({"closeOld"}) => old /\ Up(cur) /\ Up(new)
  /\ pc = "start" => IF at = cur THEN old /\ Up(cur) /\ ~Up(new)
                     ELSE Up(new) /\ (Up(cur) <=> old)
  /\ pc = "exited" => ~Up(cur) /\ ~Up(new)
  /\ pc \in {"stopReport", "stop"} =>
       /\ Up(at) /\ next # "loop"
       /\ next \in {"start", "restoreFailed", "exitCore"} => at = cur
       /\ next \in {"closeNew", "closeOld"} => at = new

(* Main knows whether the old node was touched.                            *)
Touched ==
  /\ pc \in {"loop", "fetch", "core", "new", "prepare"}
       \/ Heading({"closeOld"}) => ~switching
  /\ Heading({"start", "dropNew", "restoreFailed"}) => (switching <=> old)
  /\ switching => old

(* The controllers of a running core: started ones belong to its version   *)
(* and hold their port; one without its task is in the middle of a stop,   *)
(* or its inbound could not be removed.                                    *)
Controllers ==
  \A i \in Slots : Up(i) =>
    /\ mon[i] # Off
    /\ started[i] \subseteq Enabled[ver[i]]
    /\ \A p \in started[i] :
         /\ port[p] = i
         /\ \/ users[i][p] # Off \/ p \in stuck[i]
            \/ pc \in {"stopReport", "stop"} /\ at = i /\ p \in todo

(* What Node.Stop and Node.Start have visited.                             *)
Visited ==
  /\ pc = "stopReport" => todo = Enabled[ver[at]]
  /\ pc = "stop" =>
       report[at] = Off /\ \A p \in Protocols \ todo : users[at][p] = Off
  /\ pc \in {"new", "closeNew", "closeOld"} =>
       report[new] = Off /\ \A p \in Protocols : users[new][p] = Off
  /\ pc = "exitCore" =>
       report[cur] = Off /\ \A p \in Protocols : users[cur][p] = Off
  /\ pc = "start" => todo \subseteq Enabled[ver[at]]
                       /\ Enabled[ver[at]] \ todo \subseteq started[at]

(* The queue is there before a controller can add to it.                   *)
Queued ==
  /\ old => queue[cur]
  /\ pc \in {"new", "prepare"} => started[new] = {}
  /\ pc = "prepare" /\ ~old => queue[new]
  /\ (pc = "start" /\ at = new) \/ Stopping("start") => queue[new]
  /\ \A i \in Slots : started[i] # {} => queue[i]

(* The current instance serves unless the reload has begun to stop it, or  *)
(* an earlier one could not restore it.                                    *)
Untouched ==
  \/ pc = "loop"
  \/ old /\ pc \in {"fetch", "core", "new", "prepare"}
  \/ old /\ ~switching /\ Heading({"closeNew"})

Serves ==
  /\ Untouched /\ outcome # "restoreFailed" => Serving(cur)
  /\ Heading({"closeOld"}) => Serving(cur)

IInv == TypeOK /\ Places /\ Touched /\ Controllers /\ Visited
          /\ WorkersOnLiveCore /\ NoLeak /\ Queued /\ Serves

-----------------------------------------------------------------------------
(* A process that has not booted.                                          *)
LEMMA InitIInv == Init => IInv
  <1> USE MaxAssumption, EnabledAssumption
      DEF Slots, new, Off, Idle, Busy, None, Vers, Up, Heading, Stopping
  <1> SUFFICES ASSUME Init PROVE IInv
    OBVIOUS
  <1>1. TypeOK
    <2>1. 1 \in Vers /\ 0 \in 0..MaxVer /\ 0 \in 0..MaxFails
      OBVIOUS
    <2>2. /\ ver \in [Slots -> Vers] /\ seen \in [Slots -> 0..MaxVer]
          /\ panel \in Vers /\ fails \in 0..MaxFails
      BY <2>1 DEF Init
    <2>3. /\ users \in [Slots -> [Protocols -> {Off, Idle, Busy}]]
          /\ started \in [Slots -> SUBSET Protocols]
          /\ stuck \in [Slots -> SUBSET Protocols]
          /\ port \in [Protocols -> Slots \cup {None}]
      BY DEF Init
    <2>4. /\ core \in [Slots -> {"none", "running", "closed"}]
          /\ mon \in [Slots -> {Off, Idle, Busy}]
          /\ report \in [Slots -> {Off, Idle, Busy}]
          /\ queue \in [Slots -> BOOLEAN]
      BY DEF Init
    <2> QED BY <2>2, <2>3, <2>4 DEF Init, TypeOK
  <1>2. Places /\ Touched BY DEF Init, Places, Touched
  <1>3. Controllers /\ Visited BY DEF Init, Controllers, Visited
  <1>4. WorkersOnLiveCore /\ NoLeak BY DEF Init, WorkersOnLiveCore, NoLeak
  <1>5. Queued /\ Serves BY DEF Init, Queued, Serves, Untouched
  <1> QED BY <1>1, <1>2, <1>3, <1>4, <1>5 DEF IInv

(* Every step keeps the types.                                             *)
LEMMA TypeStep ==
  ASSUME TypeOK, [Next]_vars
  PROVE  TypeOK'
  <1> USE MaxAssumption, EnabledAssumption
  <1> USE DEF mainVars, coreVars, nodeVars, envVars, Slots, new, TypeOK, Off,
              Idle, Busy, None, Vers
  <1>1. ASSUME TakeReload PROVE TypeOK'
    BY <1>1 DEF TakeReload
  <1>2. ASSUME TakeSignal PROVE TypeOK'
    BY <1>2 DEF TakeSignal, StopNode
  <1>3. ASSUME Fetch PROVE TypeOK'
    BY <1>3 DEF Fetch, Fail, NoFail, Return
  <1>4. ASSUME StartCore PROVE TypeOK'
    <2>1. core' \in [Slots -> {"none", "running", "closed"}]
      BY <1>4 DEF StartCore
    <2>2. mon' \in [Slots -> {Off, Idle, Busy}]
      BY <1>4 DEF StartCore
    <2>3. started' \in [Slots -> SUBSET Protocols]
      BY <1>4 DEF StartCore
    <2>4. stuck' \in [Slots -> SUBSET Protocols]
      BY <1>4 DEF StartCore
    <2>5. fails' \in 0..MaxFails
      BY <1>4 DEF StartCore, Fail, NoFail
    <2> QED BY <1>4, <2>1, <2>2, <2>3, <2>4, <2>5 DEF StartCore, Return
  <1>4a. ASSUME NewNode PROVE TypeOK'
    <2>1. queue' \in [Slots -> BOOLEAN]
      <3>1. queue' = queue \/ queue' = [queue EXCEPT ![new] = ~old]
        BY <1>4a DEF NewNode
      <3>2. [queue EXCEPT ![new] = ~old] \in [Slots -> BOOLEAN]
        OBVIOUS
      <3> QED BY <3>1, <3>2
    <2>2. fails' \in 0..MaxFails
      BY <1>4a DEF NewNode, Fail, NoFail
    <2> QED BY <1>4a, <2>1, <2>2 DEF NewNode
  <1>5. ASSUME Prepare PROVE TypeOK'
    <2>1. queue' \in [Slots -> BOOLEAN] /\ switching' \in BOOLEAN
      BY <1>5 DEF Prepare
    <2>2. todo' \in SUBSET Protocols
      BY <1>5 DEF Prepare, StopNode, StartNode
    <2>3. fails' \in 0..MaxFails
      BY <1>5 DEF Prepare, Fail, NoFail
    <2>4. at' \in Slots
      BY <1>5 DEF Prepare, StopNode, StartNode
    <2> QED
      BY <1>5, <2>1, <2>2, <2>3, <2>4 DEF Prepare, StopNode, StartNode
  <1>6. ASSUME StopReport PROVE TypeOK'
    BY <1>6 DEF StopReport
  <1>7. ASSUME NEW p \in Protocols, StopController(p) PROVE TypeOK'
    <2>1. users' \in [Slots -> [Protocols -> {Off, Idle, Busy}]]
      <3>1. users' = [users EXCEPT ![at] = [users[at] EXCEPT ![p] = Off]]
        BY <1>7 DEF StopController
      <3>2. [users[at] EXCEPT ![p] = Off] \in [Protocols -> {Off, Idle, Busy}]
        OBVIOUS
      <3> QED BY <3>1, <3>2
    <2>2. started' \in [Slots -> SUBSET Protocols]
      BY <1>7 DEF StopController
    <2>3. stuck' \in [Slots -> SUBSET Protocols]
      BY <1>7 DEF StopController
    <2>4. port' \in [Protocols -> Slots \cup {None}]
      BY <1>7 DEF StopController
    <2>5. fails' \in 0..MaxFails
      BY <1>7 DEF StopController, Fail, NoFail
    <2> QED
      BY <1>7, <2>1, <2>2, <2>3, <2>4, <2>5 DEF StopController
  <1>8. ASSUME StopDone PROVE TypeOK'
    BY <1>8 DEF StopDone, StartNode
  <1>9. ASSUME NEW p \in Protocols, StartController(p) PROVE TypeOK'
    <2>1. users' \in [Slots -> [Protocols -> {Off, Idle, Busy}]]
      <3>1. \/ users' = users
            \/ users' = [users EXCEPT ![at] = [users[at] EXCEPT ![p] = Idle]]
        BY <1>9 DEF StartController
      <3>2. [users[at] EXCEPT ![p] = Idle] \in [Protocols -> {Off, Idle, Busy}]
        OBVIOUS
      <3> QED BY <3>1, <3>2
    <2>2. started' \in [Slots -> SUBSET Protocols]
      BY <1>9 DEF StartController
    <2>3. port' \in [Protocols -> Slots \cup {None}]
      BY <1>9 DEF StartController
    <2>4. fails' \in 0..MaxFails
      BY <1>9 DEF StartController, Fail, NoFail
    <2>5. todo' \in SUBSET Protocols /\ at' \in Slots
      BY <1>9 DEF StartController, StopNode
    <2> QED
      BY <1>9, <2>1, <2>2, <2>3, <2>4, <2>5 DEF StartController, StopNode
  <1>10. ASSUME StartDone PROVE TypeOK'
    <2>1. report' \in [Slots -> {Off, Idle, Busy}]
      BY <1>10 DEF StartDone
    <2>2. todo' \in SUBSET Protocols
      BY <1>10 DEF StartDone, StopNode
    <2>3. at' \in Slots /\ cur' \in Slots
      BY <1>10 DEF StartDone, StopNode
    <2> QED BY <1>10, <2>1, <2>2, <2>3 DEF StartDone, Return, StopNode
  <1>11. ASSUME DropNew PROVE TypeOK'
    BY <1>11 DEF DropNew, StopNode
  <1>12. ASSUME CloseNewCore PROVE TypeOK'
    BY <1>12 DEF CloseNewCore, CloseCore, Return, StartNode
  <1>13. ASSUME CloseOldCore PROVE TypeOK'
    BY <1>13 DEF CloseOldCore, CloseCore, Return
  <1>14. ASSUME RestoreFailed PROVE TypeOK'
    BY <1>14 DEF RestoreFailed, Return
  <1>15. ASSUME Exit PROVE TypeOK'
    BY <1>15 DEF Exit, CloseCore
  <1>16. ASSUME NEW i \in Slots, MonitorFetches(i) PROVE TypeOK'
    BY <1>16 DEF MonitorFetches
  <1>17. ASSUME NEW i \in Slots, MonitorSignals(i) PROVE TypeOK'
    BY <1>17 DEF MonitorSignals
  <1>18. ASSUME NEW i \in Slots, NEW p \in Protocols, UsersRun(i, p)
        PROVE  TypeOK'
    <2>1. \E run \in {Idle, Busy} :
            users' = [users EXCEPT ![i] = [users[i] EXCEPT ![p] = run]]
      BY <1>18 DEF UsersRun
    <2>2. \A run \in {Idle, Busy} :
            [users[i] EXCEPT ![p] = run] \in [Protocols -> {Off, Idle, Busy}]
      OBVIOUS
    <2>3. users' \in [Slots -> [Protocols -> {Off, Idle, Busy}]]
      BY <2>1, <2>2
    <2> QED BY <1>18, <2>3 DEF UsersRun
  <1>19. ASSUME NEW i \in Slots, ReportRun(i) PROVE TypeOK'
    BY <1>19 DEF ReportRun
  <1>20. ASSUME SignalReload PROVE TypeOK'
    BY <1>20 DEF SignalReload
  <1>21. ASSUME Publish PROVE TypeOK'
    BY <1>21 DEF Publish
  <1>22. ASSUME Terminate PROVE TypeOK'
    BY <1>22 DEF Terminate
  <1>23. CASE UNCHANGED vars
    BY <1>23 DEF vars
  <1> QED
    BY <1>1, <1>2, <1>3, <1>4, <1>5, <1>6, <1>7, <1>8, <1>9, <1>10, <1>11,
       <1>12, <1>13, <1>14, <1>15, <1>16, <1>17, <1>18, <1>19, <1>20, <1>21,
       <1>22, <1>23, <1>4a
    DEF Next, ReloadStep, Tasks

(* Main knows which cores run, and whether the old node was touched.       *)
LEMMA PlacesStep ==
  ASSUME TypeOK, Places, Touched, [Next]_vars
  PROVE  Places' /\ Touched'
  <1> USE MaxAssumption, EnabledAssumption
  <1> USE DEF mainVars, coreVars, nodeVars, envVars, Slots, new, TypeOK,
              Places, Touched, Up, Heading, Stopping
  <1>1. ASSUME TakeReload PROVE Places' /\ Touched'
    BY <1>1 DEF TakeReload
  <1>2. ASSUME TakeSignal PROVE Places' /\ Touched'
    BY <1>2 DEF TakeSignal, StopNode
  <1>3. ASSUME Fetch PROVE Places' /\ Touched'
    BY <1>3 DEF Fetch, Fail, NoFail, Return
  <1>4. ASSUME StartCore PROVE Places' /\ Touched'
    BY <1>4 DEF StartCore, Fail, NoFail, Return
  <1>4a. ASSUME NewNode PROVE Places' /\ Touched'
    BY <1>4a DEF NewNode, Fail, NoFail
  <1>5. ASSUME Prepare PROVE Places' /\ Touched'
    BY <1>5 DEF Prepare, Fail, NoFail, StopNode, StartNode
  <1>6. ASSUME StopReport PROVE Places' /\ Touched'
    BY <1>6 DEF StopReport
  <1>7. ASSUME NEW p \in Protocols, StopController(p) PROVE Places' /\ Touched'
    BY <1>7 DEF StopController, Fail, NoFail
  <1>8. ASSUME StopDone PROVE Places' /\ Touched'
    BY <1>8 DEF StopDone, StartNode
  <1>9. ASSUME NEW p \in Protocols, StartController(p)
        PROVE  Places' /\ Touched'
    BY <1>9 DEF StartController, Fail, NoFail, StopNode
  <1>10. ASSUME StartDone PROVE Places' /\ Touched'
    BY <1>10 DEF StartDone, Return, StopNode
  <1>11. ASSUME DropNew PROVE Places' /\ Touched'
    BY <1>11 DEF DropNew, StopNode
  <1>12. ASSUME CloseNewCore PROVE Places' /\ Touched'
    BY <1>12 DEF CloseNewCore, CloseCore, Return, StartNode
  <1>13. ASSUME CloseOldCore PROVE Places' /\ Touched'
    BY <1>13 DEF CloseOldCore, CloseCore, Return
  <1>14. ASSUME RestoreFailed PROVE Places' /\ Touched'
    BY <1>14 DEF RestoreFailed, Return
  <1>15. ASSUME Exit PROVE Places' /\ Touched'
    BY <1>15 DEF Exit, CloseCore
  <1>16. ASSUME NEW i \in Slots, MonitorFetches(i) PROVE Places' /\ Touched'
    BY <1>16 DEF MonitorFetches
  <1>17. ASSUME NEW i \in Slots, MonitorSignals(i) PROVE Places' /\ Touched'
    BY <1>17 DEF MonitorSignals
  <1>18. ASSUME NEW i \in Slots, NEW p \in Protocols, UsersRun(i, p)
        PROVE  Places' /\ Touched'
    BY <1>18 DEF UsersRun
  <1>19. ASSUME NEW i \in Slots, ReportRun(i) PROVE Places' /\ Touched'
    BY <1>19 DEF ReportRun
  <1>20. ASSUME SignalReload PROVE Places' /\ Touched'
    BY <1>20 DEF SignalReload
  <1>21. ASSUME Publish PROVE Places' /\ Touched'
    BY <1>21 DEF Publish
  <1>22. ASSUME Terminate PROVE Places' /\ Touched'
    BY <1>22 DEF Terminate
  <1>23. CASE UNCHANGED vars
    BY <1>23 DEF vars
  <1> QED
    BY <1>1, <1>2, <1>3, <1>4, <1>5, <1>6, <1>7, <1>8, <1>9, <1>10, <1>11,
       <1>12, <1>13, <1>14, <1>15, <1>16, <1>17, <1>18, <1>19, <1>20, <1>21,
       <1>22, <1>23, <1>4a
    DEF Next, ReloadStep, Tasks

(* A controller of a running core has its port and its task.               *)
LEMMA ControllersStep ==
  ASSUME TypeOK, Places, Controllers, Visited, WorkersOnLiveCore, [Next]_vars
  PROVE  Controllers'
  <1> USE MaxAssumption, EnabledAssumption
  <1> USE DEF mainVars, coreVars, nodeVars, envVars, Slots, new, TypeOK,
              Places, Controllers, Visited, WorkersOnLiveCore, Up, Heading,
              Stopping, Off, Idle, Busy, None
  <1>1. ASSUME TakeReload PROVE Controllers'
    BY <1>1 DEF TakeReload
  <1>2. ASSUME TakeSignal PROVE Controllers'
    BY <1>2 DEF TakeSignal, StopNode
  <1>3. ASSUME Fetch PROVE Controllers'
    BY <1>3 DEF Fetch, Fail, NoFail, Return
  <1>4. ASSUME StartCore PROVE Controllers'
    BY <1>4 DEF StartCore, Fail, NoFail, Return
  <1>4a. ASSUME NewNode PROVE Controllers'
    BY <1>4a DEF NewNode, Fail, NoFail
  <1>5. ASSUME Prepare PROVE Controllers'
    BY <1>5 DEF Prepare, Fail, NoFail, StopNode, StartNode
  <1>6. ASSUME StopReport PROVE Controllers'
    BY <1>6 DEF StopReport
  <1>7. ASSUME NEW p \in Protocols, StopController(p) PROVE Controllers'
    BY <1>7 DEF StopController, Fail, NoFail
  <1>8. ASSUME StopDone PROVE Controllers'
    BY <1>8 DEF StopDone, StartNode
  <1>9. ASSUME NEW p \in Protocols, StartController(p) PROVE Controllers'
    BY <1>9 DEF StartController, Fail, NoFail, StopNode
  <1>10. ASSUME StartDone PROVE Controllers'
    BY <1>10 DEF StartDone, Return, StopNode
  <1>11. ASSUME DropNew PROVE Controllers'
    BY <1>11 DEF DropNew, StopNode
  <1>12. ASSUME CloseNewCore PROVE Controllers'
    BY <1>12 DEF CloseNewCore, CloseCore, Return, StartNode
  <1>13. ASSUME CloseOldCore PROVE Controllers'
    BY <1>13 DEF CloseOldCore, CloseCore, Return
  <1>14. ASSUME RestoreFailed PROVE Controllers'
    BY <1>14 DEF RestoreFailed, Return
  <1>15. ASSUME Exit PROVE Controllers'
    BY <1>15 DEF Exit, CloseCore
  <1>16. ASSUME NEW i \in Slots, MonitorFetches(i) PROVE Controllers'
    BY <1>16 DEF MonitorFetches
  <1>17. ASSUME NEW i \in Slots, MonitorSignals(i) PROVE Controllers'
    BY <1>17 DEF MonitorSignals
  <1>18. ASSUME NEW i \in Slots, NEW p \in Protocols, UsersRun(i, p)
        PROVE  Controllers'
    BY <1>18 DEF UsersRun
  <1>19. ASSUME NEW i \in Slots, ReportRun(i) PROVE Controllers'
    BY <1>19 DEF ReportRun
  <1>20. ASSUME SignalReload PROVE Controllers'
    BY <1>20 DEF SignalReload
  <1>21. ASSUME Publish PROVE Controllers'
    BY <1>21 DEF Publish
  <1>22. ASSUME Terminate PROVE Controllers'
    BY <1>22 DEF Terminate
  <1>23. CASE UNCHANGED vars
    BY <1>23 DEF vars
  <1> QED
    BY <1>1, <1>2, <1>3, <1>4, <1>5, <1>6, <1>7, <1>8, <1>9, <1>10, <1>11,
       <1>12, <1>13, <1>14, <1>15, <1>16, <1>17, <1>18, <1>19, <1>20, <1>21,
       <1>22, <1>23, <1>4a
    DEF Next, ReloadStep, Tasks

(* Starting and stopping a node leaves no controller out.                  *)
LEMMA VisitedStep ==
  ASSUME TypeOK, Places, Controllers, Visited, WorkersOnLiveCore, [Next]_vars
  PROVE  Visited'
  <1> USE MaxAssumption, EnabledAssumption
  <1> USE DEF mainVars, coreVars, nodeVars, envVars, Slots, new, TypeOK,
              Places, Controllers, Visited, WorkersOnLiveCore, Up, Heading,
              Stopping, Off, Idle, Busy, None
  <1>1. ASSUME TakeReload PROVE Visited'
    BY <1>1 DEF TakeReload
  <1>2. ASSUME TakeSignal PROVE Visited'
    BY <1>2 DEF TakeSignal, StopNode
  <1>3. ASSUME Fetch PROVE Visited'
    BY <1>3 DEF Fetch, Fail, NoFail, Return
  <1>4. ASSUME StartCore PROVE Visited'
    BY <1>4 DEF StartCore, Fail, NoFail, Return
  <1>4a. ASSUME NewNode PROVE Visited'
    BY <1>4a DEF NewNode, Fail, NoFail
  <1>5. ASSUME Prepare PROVE Visited'
    BY <1>5 DEF Prepare, Fail, NoFail, StopNode, StartNode
  <1>6. ASSUME StopReport PROVE Visited'
    BY <1>6 DEF StopReport
  <1>7. ASSUME NEW p \in Protocols, StopController(p) PROVE Visited'
    BY <1>7 DEF StopController, Fail, NoFail
  <1>8. ASSUME StopDone PROVE Visited'
    BY <1>8 DEF StopDone, StartNode
  <1>9. ASSUME NEW p \in Protocols, StartController(p) PROVE Visited'
    BY <1>9 DEF StartController, Fail, NoFail, StopNode
  <1>10. ASSUME StartDone PROVE Visited'
    BY <1>10 DEF StartDone, Return, StopNode
  <1>11. ASSUME DropNew PROVE Visited'
    BY <1>11 DEF DropNew, StopNode
  <1>12. ASSUME CloseNewCore PROVE Visited'
    BY <1>12 DEF CloseNewCore, CloseCore, Return, StartNode
  <1>13. ASSUME CloseOldCore PROVE Visited'
    BY <1>13 DEF CloseOldCore, CloseCore, Return
  <1>14. ASSUME RestoreFailed PROVE Visited'
    BY <1>14 DEF RestoreFailed, Return
  <1>15. ASSUME Exit PROVE Visited'
    BY <1>15 DEF Exit, CloseCore
  <1>16. ASSUME NEW i \in Slots, MonitorFetches(i) PROVE Visited'
    BY <1>16 DEF MonitorFetches
  <1>17. ASSUME NEW i \in Slots, MonitorSignals(i) PROVE Visited'
    BY <1>17 DEF MonitorSignals
  <1>18. ASSUME NEW i \in Slots, NEW p \in Protocols, UsersRun(i, p)
        PROVE  Visited'
    BY <1>18 DEF UsersRun
  <1>19. ASSUME NEW i \in Slots, ReportRun(i) PROVE Visited'
    BY <1>19 DEF ReportRun
  <1>20. ASSUME SignalReload PROVE Visited'
    BY <1>20 DEF SignalReload
  <1>21. ASSUME Publish PROVE Visited'
    BY <1>21 DEF Publish
  <1>22. ASSUME Terminate PROVE Visited'
    BY <1>22 DEF Terminate
  <1>23. CASE UNCHANGED vars
    BY <1>23 DEF vars
  <1> QED
    BY <1>1, <1>2, <1>3, <1>4, <1>5, <1>6, <1>7, <1>8, <1>9, <1>10, <1>11,
       <1>12, <1>13, <1>14, <1>15, <1>16, <1>17, <1>18, <1>19, <1>20, <1>21,
       <1>22, <1>23, <1>4a
    DEF Next, ReloadStep, Tasks

(* Tasks end before their core or their listener.                          *)
LEMMA WorkersStep ==
  ASSUME TypeOK, Places, Controllers, Visited, WorkersOnLiveCore, [Next]_vars
  PROVE  WorkersOnLiveCore'
  <1> USE MaxAssumption, EnabledAssumption
  <1> USE DEF mainVars, coreVars, nodeVars, envVars, Slots, new, TypeOK,
              Places, Controllers, Visited, WorkersOnLiveCore, Up, Heading,
              Stopping, Off, Idle, Busy, None
  <1>1. ASSUME TakeReload PROVE WorkersOnLiveCore'
    BY <1>1 DEF TakeReload
  <1>2. ASSUME TakeSignal PROVE WorkersOnLiveCore'
    BY <1>2 DEF TakeSignal, StopNode
  <1>3. ASSUME Fetch PROVE WorkersOnLiveCore'
    BY <1>3 DEF Fetch, Fail, NoFail, Return
  <1>4. ASSUME StartCore PROVE WorkersOnLiveCore'
    BY <1>4 DEF StartCore, Fail, NoFail, Return
  <1>4a. ASSUME NewNode PROVE WorkersOnLiveCore'
    BY <1>4a DEF NewNode, Fail, NoFail
  <1>5. ASSUME Prepare PROVE WorkersOnLiveCore'
    BY <1>5 DEF Prepare, Fail, NoFail, StopNode, StartNode
  <1>6. ASSUME StopReport PROVE WorkersOnLiveCore'
    BY <1>6 DEF StopReport
  <1>7. ASSUME NEW p \in Protocols, StopController(p) PROVE WorkersOnLiveCore'
    BY <1>7 DEF StopController, Fail, NoFail
  <1>8. ASSUME StopDone PROVE WorkersOnLiveCore'
    BY <1>8 DEF StopDone, StartNode
  <1>9. ASSUME NEW p \in Protocols, StartController(p) PROVE WorkersOnLiveCore'
    BY <1>9 DEF StartController, Fail, NoFail, StopNode
  <1>10. ASSUME StartDone PROVE WorkersOnLiveCore'
    BY <1>10 DEF StartDone, Return, StopNode
  <1>11. ASSUME DropNew PROVE WorkersOnLiveCore'
    BY <1>11 DEF DropNew, StopNode
  <1>12. ASSUME CloseNewCore PROVE WorkersOnLiveCore'
    BY <1>12 DEF CloseNewCore, CloseCore, Return, StartNode
  <1>13. ASSUME CloseOldCore PROVE WorkersOnLiveCore'
    BY <1>13 DEF CloseOldCore, CloseCore, Return
  <1>14. ASSUME RestoreFailed PROVE WorkersOnLiveCore'
    BY <1>14 DEF RestoreFailed, Return
  <1>15. ASSUME Exit PROVE WorkersOnLiveCore'
    BY <1>15 DEF Exit, CloseCore
  <1>16. ASSUME NEW i \in Slots, MonitorFetches(i) PROVE WorkersOnLiveCore'
    BY <1>16 DEF MonitorFetches
  <1>17. ASSUME NEW i \in Slots, MonitorSignals(i) PROVE WorkersOnLiveCore'
    BY <1>17 DEF MonitorSignals
  <1>18. ASSUME NEW i \in Slots, NEW p \in Protocols, UsersRun(i, p)
        PROVE  WorkersOnLiveCore'
    BY <1>18 DEF UsersRun
  <1>19. ASSUME NEW i \in Slots, ReportRun(i) PROVE WorkersOnLiveCore'
    BY <1>19 DEF ReportRun
  <1>20. ASSUME SignalReload PROVE WorkersOnLiveCore'
    BY <1>20 DEF SignalReload
  <1>21. ASSUME Publish PROVE WorkersOnLiveCore'
    BY <1>21 DEF Publish
  <1>22. ASSUME Terminate PROVE WorkersOnLiveCore'
    BY <1>22 DEF Terminate
  <1>23. CASE UNCHANGED vars
    BY <1>23 DEF vars
  <1> QED
    BY <1>1, <1>2, <1>3, <1>4, <1>5, <1>6, <1>7, <1>8, <1>9, <1>10, <1>11,
       <1>12, <1>13, <1>14, <1>15, <1>16, <1>17, <1>18, <1>19, <1>20, <1>21,
       <1>22, <1>23, <1>4a
    DEF Next, ReloadStep, Tasks

(* A core that is closed releases its listeners.                           *)
LEMMA NoLeakStep ==
  ASSUME TypeOK, Places, NoLeak, [Next]_vars
  PROVE  NoLeak'
  <1> USE MaxAssumption, EnabledAssumption
  <1> USE DEF mainVars, coreVars, nodeVars, envVars, Slots, new, TypeOK,
              Places, NoLeak, Up, Heading, Stopping, None
  <1>1. ASSUME TakeReload PROVE NoLeak'
    BY <1>1 DEF TakeReload
  <1>2. ASSUME TakeSignal PROVE NoLeak'
    BY <1>2 DEF TakeSignal, StopNode
  <1>3. ASSUME Fetch PROVE NoLeak'
    BY <1>3 DEF Fetch, Fail, NoFail, Return
  <1>4. ASSUME StartCore PROVE NoLeak'
    BY <1>4 DEF StartCore, Fail, NoFail, Return
  <1>4a. ASSUME NewNode PROVE NoLeak'
    BY <1>4a DEF NewNode, Fail, NoFail
  <1>5. ASSUME Prepare PROVE NoLeak'
    BY <1>5 DEF Prepare, Fail, NoFail, StopNode, StartNode
  <1>6. ASSUME StopReport PROVE NoLeak'
    BY <1>6 DEF StopReport
  <1>7. ASSUME NEW p \in Protocols, StopController(p) PROVE NoLeak'
    BY <1>7 DEF StopController, Fail, NoFail
  <1>8. ASSUME StopDone PROVE NoLeak'
    BY <1>8 DEF StopDone, StartNode
  <1>9. ASSUME NEW p \in Protocols, StartController(p) PROVE NoLeak'
    BY <1>9 DEF StartController, Fail, NoFail, StopNode
  <1>10. ASSUME StartDone PROVE NoLeak'
    BY <1>10 DEF StartDone, Return, StopNode
  <1>11. ASSUME DropNew PROVE NoLeak'
    BY <1>11 DEF DropNew, StopNode
  <1>12. ASSUME CloseNewCore PROVE NoLeak'
    BY <1>12 DEF CloseNewCore, CloseCore, Return, StartNode
  <1>13. ASSUME CloseOldCore PROVE NoLeak'
    BY <1>13 DEF CloseOldCore, CloseCore, Return
  <1>14. ASSUME RestoreFailed PROVE NoLeak'
    BY <1>14 DEF RestoreFailed, Return
  <1>15. ASSUME Exit PROVE NoLeak'
    BY <1>15 DEF Exit, CloseCore
  <1>16. ASSUME NEW i \in Slots, MonitorFetches(i) PROVE NoLeak'
    BY <1>16 DEF MonitorFetches
  <1>17. ASSUME NEW i \in Slots, MonitorSignals(i) PROVE NoLeak'
    BY <1>17 DEF MonitorSignals
  <1>18. ASSUME NEW i \in Slots, NEW p \in Protocols, UsersRun(i, p)
        PROVE  NoLeak'
    BY <1>18 DEF UsersRun
  <1>19. ASSUME NEW i \in Slots, ReportRun(i) PROVE NoLeak'
    BY <1>19 DEF ReportRun
  <1>20. ASSUME SignalReload PROVE NoLeak'
    BY <1>20 DEF SignalReload
  <1>21. ASSUME Publish PROVE NoLeak'
    BY <1>21 DEF Publish
  <1>22. ASSUME Terminate PROVE NoLeak'
    BY <1>22 DEF Terminate
  <1>23. CASE UNCHANGED vars
    BY <1>23 DEF vars
  <1> QED
    BY <1>1, <1>2, <1>3, <1>4, <1>5, <1>6, <1>7, <1>8, <1>9, <1>10, <1>11,
       <1>12, <1>13, <1>14, <1>15, <1>16, <1>17, <1>18, <1>19, <1>20, <1>21,
       <1>22, <1>23, <1>4a
    DEF Next, ReloadStep, Tasks

(* Every node that starts has the queue.                                   *)
LEMMA QueuedStep ==
  ASSUME TypeOK, Places, Touched, Queued, [Next]_vars
  PROVE  Queued'
  <1> USE MaxAssumption, EnabledAssumption
  <1> USE DEF mainVars, coreVars, nodeVars, envVars, Slots, new, TypeOK,
              Places, Touched, Queued, Up, Heading, Stopping
  <1>1. ASSUME TakeReload PROVE Queued'
    BY <1>1 DEF TakeReload
  <1>2. ASSUME TakeSignal PROVE Queued'
    BY <1>2 DEF TakeSignal, StopNode
  <1>3. ASSUME Fetch PROVE Queued'
    BY <1>3 DEF Fetch, Fail, NoFail, Return
  <1>4. ASSUME StartCore PROVE Queued'
    BY <1>4 DEF StartCore, Fail, NoFail, Return
  <1>4a. ASSUME NewNode PROVE Queued'
    <2>1. CASE pc' = "prepare"
      <3>1. /\ pc = "new" /\ queue' = [queue EXCEPT ![new] = ~old]
            /\ UNCHANGED <<cur, old, at, next, started>>
        BY <1>4a, <2>1 DEF NewNode
      <3>2. queue'[new] = ~old /\ queue'[cur] = queue[cur]
        BY <3>1
      <3>3. started[new] = {}
        BY <3>1
      <3> QED BY <2>1, <3>1, <3>2, <3>3
    <2>2. CASE pc' # "prepare"
      BY <1>4a, <2>2 DEF NewNode
    <2> QED BY <2>1, <2>2
  <1>5. ASSUME Prepare PROVE Queued'
    BY <1>5 DEF Prepare, Fail, NoFail, StopNode, StartNode
  <1>6. ASSUME StopReport PROVE Queued'
    BY <1>6 DEF StopReport
  <1>7. ASSUME NEW p \in Protocols, StopController(p) PROVE Queued'
    BY <1>7 DEF StopController, Fail, NoFail
  <1>8. ASSUME StopDone PROVE Queued'
    BY <1>8 DEF StopDone, StartNode
  <1>9. ASSUME NEW p \in Protocols, StartController(p) PROVE Queued'
    BY <1>9 DEF StartController, Fail, NoFail, StopNode
  <1>10. ASSUME StartDone PROVE Queued'
    BY <1>10 DEF StartDone, Return, StopNode
  <1>11. ASSUME DropNew PROVE Queued'
    BY <1>11 DEF DropNew, StopNode
  <1>12. ASSUME CloseNewCore PROVE Queued'
    BY <1>12 DEF CloseNewCore, CloseCore, Return, StartNode
  <1>13. ASSUME CloseOldCore PROVE Queued'
    BY <1>13 DEF CloseOldCore, CloseCore, Return
  <1>14. ASSUME RestoreFailed PROVE Queued'
    BY <1>14 DEF RestoreFailed, Return
  <1>15. ASSUME Exit PROVE Queued'
    BY <1>15 DEF Exit, CloseCore
  <1>16. ASSUME NEW i \in Slots, MonitorFetches(i) PROVE Queued'
    BY <1>16 DEF MonitorFetches
  <1>17. ASSUME NEW i \in Slots, MonitorSignals(i) PROVE Queued'
    BY <1>17 DEF MonitorSignals
  <1>18. ASSUME NEW i \in Slots, NEW p \in Protocols, UsersRun(i, p)
        PROVE  Queued'
    BY <1>18 DEF UsersRun
  <1>19. ASSUME NEW i \in Slots, ReportRun(i) PROVE Queued'
    BY <1>19 DEF ReportRun
  <1>20. ASSUME SignalReload PROVE Queued'
    BY <1>20 DEF SignalReload
  <1>21. ASSUME Publish PROVE Queued'
    BY <1>21 DEF Publish
  <1>22. ASSUME Terminate PROVE Queued'
    BY <1>22 DEF Terminate
  <1>23. CASE UNCHANGED vars
    BY <1>23 DEF vars
  <1> QED
    BY <1>1, <1>2, <1>3, <1>4, <1>5, <1>6, <1>7, <1>8, <1>9, <1>10, <1>11,
       <1>12, <1>13, <1>14, <1>15, <1>16, <1>17, <1>18, <1>19, <1>20, <1>21,
       <1>22, <1>23, <1>4a
    DEF Next, ReloadStep, Tasks

(* What is not touched goes on serving.                                    *)
LEMMA ServesStep ==
  ASSUME TypeOK, Places, Touched, Controllers, Visited, WorkersOnLiveCore,
         Serves, [Next]_vars
  PROVE  Serves'
  <1> USE MaxAssumption, EnabledAssumption
  <1> USE DEF mainVars, coreVars, nodeVars, envVars, Slots, new, TypeOK,
              Places, Touched, Controllers, Visited, WorkersOnLiveCore,
              Serves, Serving, Untouched, Up, Heading, Stopping, Off, Idle,
              Busy, None
  <1>1. ASSUME TakeReload PROVE Serves'
    BY <1>1 DEF TakeReload
  <1>2. ASSUME TakeSignal PROVE Serves'
    BY <1>2 DEF TakeSignal, StopNode
  <1>3. ASSUME Fetch PROVE Serves'
    BY <1>3 DEF Fetch, Fail, NoFail, Return
  <1>4. ASSUME StartCore PROVE Serves'
    BY <1>4 DEF StartCore, Fail, NoFail, Return
  <1>4a. ASSUME NewNode PROVE Serves'
    BY <1>4a DEF NewNode, Fail, NoFail
  <1>5. ASSUME Prepare PROVE Serves'
    BY <1>5 DEF Prepare, Fail, NoFail, StopNode, StartNode
  <1>6. ASSUME StopReport PROVE Serves'
    BY <1>6 DEF StopReport
  <1>7. ASSUME NEW p \in Protocols, StopController(p) PROVE Serves'
    BY <1>7 DEF StopController, Fail, NoFail
  <1>8. ASSUME StopDone PROVE Serves'
    BY <1>8 DEF StopDone, StartNode
  <1>9. ASSUME NEW p \in Protocols, StartController(p) PROVE Serves'
    BY <1>9 DEF StartController, Fail, NoFail, StopNode
  <1>10. ASSUME StartDone PROVE Serves'
    <2> DEFINE i == at
    <2>1. pc = "start" /\ todo = {} /\ i \in Slots /\ Up(i)
      BY <1>10 DEF StartDone
    <2>2. mon[i] # Off /\ started[i] = Enabled[ver[i]]
      <3>1. mon[i] # Off /\ started[i] \subseteq Enabled[ver[i]]
        BY <2>1
      <3>2. Enabled[ver[i]] \subseteq started[i]
        BY <2>1
      <3> HIDE DEF i, Visited, Controllers, TypeOK
      <3> QED BY <3>1, <3>2
    <2>3. \A p \in started[i] :
            port[p] = i /\ (users[i][p] # Off \/ p \in stuck[i])
      BY <2>1
    <2>4. report'[i] # Off
      BY <1>10, <2>1 DEF StartDone
    <2>5. UNCHANGED <<core, mon, ver, started, users, port, stuck>>
      BY <1>10 DEF StartDone
    <2>6. cur' = i
      BY <1>10 DEF StartDone
    <2> HIDE DEF i
    <2> QED BY <2>1, <2>2, <2>3, <2>4, <2>5, <2>6
  <1>11. ASSUME DropNew PROVE Serves'
    BY <1>11 DEF DropNew, StopNode
  <1>12. ASSUME CloseNewCore PROVE Serves'
    BY <1>12 DEF CloseNewCore, CloseCore, Return, StartNode
  <1>13. ASSUME CloseOldCore PROVE Serves'
    BY <1>13 DEF CloseOldCore, CloseCore, Return
  <1>14. ASSUME RestoreFailed PROVE Serves'
    BY <1>14 DEF RestoreFailed, Return
  <1>15. ASSUME Exit PROVE Serves'
    BY <1>15 DEF Exit, CloseCore
  <1>16. ASSUME NEW i \in Slots, MonitorFetches(i) PROVE Serves'
    BY <1>16 DEF MonitorFetches
  <1>17. ASSUME NEW i \in Slots, MonitorSignals(i) PROVE Serves'
    BY <1>17 DEF MonitorSignals
  <1>18. ASSUME NEW i \in Slots, NEW p \in Protocols, UsersRun(i, p)
        PROVE  Serves'
    BY <1>18 DEF UsersRun
  <1>19. ASSUME NEW i \in Slots, ReportRun(i) PROVE Serves'
    BY <1>19 DEF ReportRun
  <1>20. ASSUME SignalReload PROVE Serves'
    BY <1>20 DEF SignalReload
  <1>21. ASSUME Publish PROVE Serves'
    BY <1>21 DEF Publish
  <1>22. ASSUME Terminate PROVE Serves'
    BY <1>22 DEF Terminate
  <1>23. CASE UNCHANGED vars
    BY <1>23 DEF vars
  <1> QED
    BY <1>1, <1>2, <1>3, <1>4, <1>5, <1>6, <1>7, <1>8, <1>9, <1>10, <1>11,
       <1>12, <1>13, <1>14, <1>15, <1>16, <1>17, <1>18, <1>19, <1>20, <1>21,
       <1>22, <1>23, <1>4a
    DEF Next, ReloadStep, Tasks

-----------------------------------------------------------------------------
(* The inductive invariant of boot, reloads and exit.                      *)
THEOREM InductiveInvariant == Spec => []IInv
  <1>1. IInv /\ [Next]_vars => IInv'
    BY TypeStep, PlacesStep, ControllersStep, VisitedStep, WorkersStep,
       NoLeakStep, QueuedStep, ServesStep
    DEF IInv
  <1> QED BY InitIInv, <1>1, PTL DEF Spec

(* Every variable of the process has its type; one reload at most is       *)
(* pending.                                                              *)
THEOREM TypeCorrect == Spec => []TypeOK
  <1>1. IInv => TypeOK BY DEF IInv
  <1> QED BY <1>1, InductiveInvariant, PTL

(* Node.Stop, Controller.Stop and XrayCore.Close: no task outlives its     *)
(* core or its listener, however reloads, failures and runs interleave.    *)
THEOREM WorkersStayOnLiveCores == Spec => []WorkersOnLiveCore
  <1>1. IInv => WorkersOnLiveCore BY DEF IInv
  <1> QED BY <1>1, InductiveInvariant, PTL

(* reload and serverHandle: an instance that is replaced or given up is    *)
(* closed, and no listener stays with it.                                  *)
THEOREM NothingLeaks == Spec => []NoLeak
  <1>1. IInv => NoLeak BY DEF IInv
  <1> QED BY <1>1, InductiveInvariant, PTL

(* reload: back in the loop the server serves one whole configuration,     *)
(* unless it reported that restoring failed; and no controller counts into *)
(* a queue that a reload would drop.                                       *)
THEOREM WholeConfigurations == Spec => []AllOrNothing
  <1>1. IInv => AllOrNothing
    BY DEF IInv, AllOrNothing, Serves, Untouched, Queued
  <1> QED BY <1>1, InductiveInvariant, PTL

-----------------------------------------------------------------------------
(* The tasks of an instance, as module TaskContract sees them. Main starts *)
(* and closes them, one call after the other.                              *)
Monitor(i) == INSTANCE TaskContract
  WITH phase <- mon[i], starts <- 0, asked <- 0, Closers <- {}
Report(i) == INSTANCE TaskContract
  WITH phase <- report[i], starts <- 0, asked <- 0, Closers <- {}
UserList(i, p) == INSTANCE TaskContract
  WITH phase <- users[i][p], starts <- 0, asked <- 0, Closers <- {}

(* XrayCore.Start, Node.Start, Controller.Start and their counterparts:    *)
(* main only asks of its tasks what PeriodicTask grants. It starts none    *)
(* that still runs, and none of them ends in the middle of a run.          *)
THEOREM TasksKeepTheContract ==
  ASSUME NEW i \in Slots, NEW p \in Protocols
  PROVE  Spec => Monitor(i)!PhaseSpec /\ Report(i)!PhaseSpec /\ UserList(i, p)!PhaseSpec
  <1> DEFINE Step(from, to) == to = from \/ <<from, to>> \in Monitor(i)!Moves
  <1>1. Init => mon[i] = "off" /\ report[i] = "off" /\ users[i][p] = "off"
    BY DEF Init, Off
  <1>2. ASSUME IInv, [Next]_vars
        PROVE  Step(mon[i], mon[i]') /\ Step(report[i], report[i]') /\ Step(users[i][p], users[i][p]')
    <2> USE <1>2 DEF Monitor!Moves, Off, Idle, Busy, new, Slots, mainVars, coreVars, nodeVars, envVars
    <2>0. TypeOK /\ Places /\ WorkersOnLiveCore
      BY DEF IInv
    <2> USE <2>0 DEF TypeOK
    <2>1. CASE Tasks
      BY <2>1 DEF Tasks, MonitorFetches, MonitorSignals, ReportRun, UsersRun
    <2>2. CASE StartCore
      BY <2>2 DEF StartCore, Places, WorkersOnLiveCore, Up
    <2>3. ASSUME NEW q \in Protocols, StopController(q) \/ StartController(q)
          PROVE Step(mon[i], mon[i]') /\ Step(report[i], report[i]') /\ Step(users[i][p], users[i][p]')
      BY <2>3 DEF StopController, StartController, WorkersOnLiveCore
    <2>4. CASE StopReport \/ StartDone
      BY <2>4 DEF StopReport, StartDone
    <2>5. CASE CloseNewCore \/ CloseOldCore \/ Exit
      BY <2>5 DEF CloseNewCore, CloseOldCore, Exit, CloseCore
    <2>6. CASE \/ Fetch \/ NewNode \/ Prepare \/ StopDone \/ DropNew
               \/ RestoreFailed \/ TakeReload \/ TakeSignal \/ SignalReload \/ Publish \/ Terminate
               \/ UNCHANGED vars
      BY <2>6 DEF Fetch, NewNode, Prepare, StopDone, DropNew, RestoreFailed,
                  TakeReload, TakeSignal, SignalReload, Publish, Terminate, vars
    <2> QED BY <1>2, <2>1, <2>2, <2>3, <2>4, <2>5, <2>6 DEF Next, ReloadStep
  <1>3. IInv /\ [Next]_vars =>
          /\ [Monitor(i)!Moved]_(mon[i])
          /\ [Report(i)!Moved]_(report[i])
          /\ [UserList(i, p)!Moved]_(users[i][p])
    BY <1>2 DEF Monitor!Moves, Report!Moves, UserList!Moves,
                Monitor!Moved, Report!Moved, UserList!Moved
  <1> QED
    BY <1>1, <1>3, InductiveInvariant, PTL
       DEF Spec, Monitor!PhaseSpec, Report!PhaseSpec, UserList!PhaseSpec
=============================================================================
