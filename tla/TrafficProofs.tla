---------------------------- MODULE TrafficProofs ----------------------------
(***************************************************************************)
(* Proofs about Traffic, for any accounts, controllers, thresholds and     *)
(* numbers of failures. What carries them: a collector holds bytes of the  *)
(* controller it collects and only between its Range and its Add; the      *)
(* request under way holds what its batch holds, for the reporter has the  *)
(* mutex then; and what the final collection has passed by keeps only the  *)
(* bytes that came later.                                                  *)
(***************************************************************************)
EXTENDS Traffic, TLAPS

(* A collector holds accounts of the controller it collects, and only      *)
(* during its Range; a monitor collects its own controller.                *)
Roles ==
  /\ \A d \in Dests : tag[d] = d
  /\ \A c \in Collectors :
       /\ todo[c] \cup entries[c] \subseteq {a \in Accounts : Dest[a] = tag[c]}
       /\ hot[c] # None => Dest[hot[c]] = tag[c]
       /\ pcc[c] # "range" => todo[c] = {} /\ hot[c] = None /\ entries[c] = {}
       /\ \A a \in Accounts \ entries[c] : slice[c][a] = 0

(* Only the reporter sends, under the mutex, and what it sends is queued.  *)
Locked ==
  /\ pcc[Reporter] = "send" <=> mu = Reporter
  /\ flight # None => mu = Reporter
  /\ \A a \in Accounts :
       /\ sent[a] = IF flight = Dest[a] THEN queued[a] ELSE 0
       /\ queued[a] # 0 => Dest[a] \in inQueue

(* Who is not in force was revoked, and only such users lose bytes.        *)
Forgiven ==
  /\ Accounts \ active \subseteq revoked
  /\ orphan \subseteq revoked
  /\ \A a \in Accounts : lost[a] # 0 => a \in revoked

(* Every byte is owed, acknowledged or lost.                               *)
Balanced ==
  \A a \in Accounts :
    /\ moved[a] = Owed(a) + acked[a] + lost[a]
    /\ acked[a] <= billed[a]
    /\ fails = 0 => billed[a] = acked[a]

(* While Stop goes over the controllers, the monitor of one it has left    *)
(* behind rests, or its last run is waited for; what Stop has collected    *)
(* has only the bytes that came later.                                     *)
Resting(d) ==
  \/ phase \notin {"run", "final"}
  \/ phase = "final" /\ d \notin left
                     /\ ~(pcc[Reporter] = "stop" /\ tag[Reporter] = d)

Ending ==
  /\ \A d \in Dests : /\ Resting(d) => pcc[d] = "idle"
                      /\ d \notin started => Resting(d)
  /\ left \subseteq started
  /\ pcc[Reporter] = "stop" =>
       /\ tag[Reporter] \in started \ left
       /\ phase \in {"final", "closing"}
  /\ phase \in {"flush", "exited"} =>
       left = {} /\ pcc[Reporter] \in {"send", "idle"}
  /\ \A a \in Accounts \ revoked :
       late[a] = IF FinallyCollected(a) THEN live[a] ELSE 0

IInv == TypeOK /\ Roles /\ Locked /\ Forgiven /\ Balanced /\ Ending

-----------------------------------------------------------------------------
(* Nothing moved.                                                          *)
LEMMA InitIInv == Init => IInv
  <1> USE DestAssumption, NumberAssumption, ReporterAssumption, NoneAssumption
  <1> SUFFICES ASSUME Init PROVE IInv
    OBVIOUS
  <1>1. TypeOK BY DEF Init, TypeOK, Bytes, Zero, Collectors
  <1>2. Roles BY DEF Init, Roles, Zero, Collectors
  <1>3. Locked BY DEF Init, Locked, Zero, Collectors
  <1>4. Forgiven BY DEF Init, Forgiven, Zero
  <1>5. Balanced BY DEF Init, Balanced, Zero, Owed, Collectors
  <1>6. Ending BY DEF Init, Ending, Resting, Zero, FinallyCollected, Collectors
  <1> QED BY <1>1, <1>2, <1>3, <1>4, <1>5, <1>6 DEF IInv

(* Every step keeps the types.                                             *)
LEMMA TypeStep ==
  ASSUME TypeOK, Roles, [Next]_vars
  PROVE  TypeOK'
  <1> USE DestAssumption, NumberAssumption, ReporterAssumption, NoneAssumption
  <1> USE DEF TypeOK, Bytes, Zero, userVars, countVars, collectVars,
              queueVars, lifeVars, Collectors
  <1>1. ASSUME NEW a \in Accounts, Move(a) PROVE TypeOK'
    <2>1. live' \in Bytes /\ lost' \in Bytes
      BY <1>1 DEF Move
    <2>2. moved' \in Bytes /\ late' \in Bytes
      BY <1>1 DEF Move
    <2> QED BY <1>1, <2>1, <2>2 DEF Move
  <1>2. ASSUME NEW d \in Dests, MonitorCollects(d) PROVE TypeOK'
    <2>1. pcc' \in [Collectors -> {"idle", "next", "range", "delete",
                                  "deleting", "add", "stop", "send"}]
      BY <1>2 DEF MonitorCollects, CollectBegins
    <2>2. tag' \in [Collectors -> Dests \cup {None}]
      BY <1>2 DEF MonitorCollects, CollectBegins
    <2>3. todo' \in [Collectors -> SUBSET Accounts]
      BY <1>2 DEF MonitorCollects, CollectBegins, AccountsOf
    <2> QED BY <1>2, <2>1, <2>2, <2>3 DEF MonitorCollects, CollectBegins
  <1>3. ASSUME NEW d \in Dests, MonitorAdds(d) PROVE TypeOK'
    BY <1>3 DEF MonitorAdds
  <1>4. ASSUME NEW d \in Dests, MonitorEnds(d) PROVE TypeOK'
    BY <1>4 DEF MonitorEnds
  <1>5. ASSUME NEW d \in Dests, NEW a \in Accounts, DelUser(d, a) PROVE TypeOK'
    BY <1>5 DEF DelUser, Unmap, NoRange
  <1>6. ASSUME NEW d \in Dests, NEW a \in Accounts, AddUser(d, a) PROVE TypeOK'
    BY <1>6 DEF AddUser, NoRange
  <1>7. ASSUME NEW c \in Collectors, NEW a \in Accounts, Compare(c, a)
        PROVE  TypeOK'
    BY <1>7 DEF Compare
  <1>8. ASSUME NEW c \in Collectors, NEW a \in Accounts, Swap(c, a)
        PROVE  TypeOK'
    <2>1. CASE a \in active
      <3>1. [slice[c] EXCEPT ![a] = @ + live[a]] \in Bytes
        OBVIOUS
      <3>2. slice' = [slice EXCEPT ![c] = [slice[c] EXCEPT ![a] = @ + live[a]]]
        BY <1>8, <2>1 DEF Swap
      <3>3. slice' \in [Collectors -> Bytes]
        BY <3>1, <3>2
      <3>4. entries' \in [Collectors -> SUBSET Accounts]
        <4>1. entries' = [entries EXCEPT ![c] = @ \cup {a}]
          BY <1>8, <2>1 DEF Swap
        <4> QED BY <4>1
      <3>5. live' \in Bytes
        <4>1. live' = [live EXCEPT ![a] = 0]
          BY <1>8, <2>1 DEF Swap
        <4> QED BY <4>1
      <3>6. hot' \in [Collectors -> Accounts \cup {None}]
        BY <1>8 DEF Swap
      <3> QED BY <1>8, <2>1, <3>3, <3>4, <3>5, <3>6 DEF Swap
    <2>2. CASE a \notin active
      <3>1. hot' \in [Collectors -> Accounts \cup {None}]
        BY <1>8 DEF Swap
      <3>2. live' \in Bytes
        <4>1. live' = [live EXCEPT ![a] = 0]
          BY <1>8, <2>2 DEF Swap, Unmap
        <4> QED BY <4>1
      <3>3. lost' \in Bytes
        <4>1. lost' = [lost EXCEPT ![a] = @ + live[a]]
          BY <1>8, <2>2 DEF Swap, Unmap
        <4> QED BY <4>1
      <3>4. orphan' \subseteq Accounts
        BY <1>8, <2>2 DEF Swap, Unmap
      <3> QED BY <1>8, <2>2, <3>1, <3>2, <3>3, <3>4 DEF Swap
    <2> QED BY <2>1, <2>2
  <1>9. ASSUME NEW c \in Collectors, Add(c) PROVE TypeOK'
    <2>1. slice' \in [Collectors -> Bytes]
      <3>1. Zero \in Bytes
        OBVIOUS
      <3> HIDE DEF Zero
      <3> QED BY <1>9, <3>1 DEF Add
    <2>2. queued' \in Bytes
      BY <1>9 DEF Add
    <2>3. inQueue' \subseteq Dests
      BY <1>9 DEF Add, Roles
    <2> QED BY <1>9, <2>1, <2>2, <2>3 DEF Add
  <1>10. ASSUME NEW d \in Dests, ReporterCollects(d) PROVE TypeOK'
    <2>1. pcc' \in [Collectors -> {"idle", "next", "range", "delete",
                                  "deleting", "add", "stop", "send"}]
      BY <1>10 DEF ReporterCollects, CollectBegins
    <2>2. tag' \in [Collectors -> Dests \cup {None}]
      BY <1>10 DEF ReporterCollects, CollectBegins
    <2>3. todo' \in [Collectors -> SUBSET Accounts]
      BY <1>10 DEF ReporterCollects, CollectBegins, AccountsOf
    <2> QED BY <1>10, <2>1, <2>2, <2>3 DEF ReporterCollects, CollectBegins
  <1>11. ASSUME SendBegins PROVE TypeOK'
    BY <1>11 DEF SendBegins
  <1>12. ASSUME NEW d \in Dests, Post(d) PROVE TypeOK'
    BY <1>12 DEF Post
  <1>13. ASSUME Acknowledged PROVE TypeOK'
    BY <1>13 DEF Acknowledged, PanelCounts
  <1>14. ASSUME SendEnds PROVE TypeOK'
    BY <1>14 DEF SendEnds
  <1>15. ASSUME ReportBegins PROVE TypeOK'
    BY <1>15 DEF ReportBegins
  <1>16. ASSUME StopBegins PROVE TypeOK'
    BY <1>16 DEF StopBegins
  <1>17. ASSUME NotAcknowledged PROVE TypeOK'
    BY <1>17 DEF NotAcknowledged, PanelCounts
  <1>18. ASSUME NEW d \in Dests, CloseTasks(d) PROVE TypeOK'
    BY <1>18 DEF CloseTasks
  <1>19. ASSUME NEW d \in Dests, CollectsLast(d) PROVE TypeOK'
    <2>1. pcc' \in [Collectors -> {"idle", "next", "range", "delete",
                                  "deleting", "add", "stop", "send"}]
      BY <1>19 DEF CollectsLast, CollectBegins
    <2>2. tag' \in [Collectors -> Dests \cup {None}]
      BY <1>19 DEF CollectsLast, CollectBegins
    <2>3. todo' \in [Collectors -> SUBSET Accounts]
      BY <1>19 DEF CollectsLast, CollectBegins, AccountsOf
    <2> QED BY <1>19, <2>1, <2>2, <2>3 DEF CollectsLast, CollectBegins
  <1>20. ASSUME NEW d \in Dests, StaysStarted(d) PROVE TypeOK'
    BY <1>20 DEF StaysStarted
  <1>21. ASSUME StopsAgain PROVE TypeOK'
    BY <1>21 DEF StopsAgain
  <1>22. CASE UNCHANGED vars
    BY <1>22 DEF vars
  <1> QED
    BY <1>1, <1>2, <1>3, <1>4, <1>5, <1>6, <1>7, <1>8, <1>9, <1>10, <1>11,
       <1>12, <1>13, <1>14, <1>15, <1>16, <1>17, <1>18, <1>19, <1>20, <1>21,
       <1>22
    DEF Next, ReporterStep, MonitorStep, Collect, Collectors

(* A collector holds what it collects.                                     *)
LEMMA RolesStep ==
  ASSUME TypeOK, Roles, [Next]_vars
  PROVE  Roles'
  <1> USE DestAssumption, NumberAssumption, ReporterAssumption, NoneAssumption
  <1> USE DEF TypeOK, Bytes, Roles, AccountsOf, Zero, userVars, countVars,
              collectVars, queueVars, lifeVars, Collectors
  <1>1. ASSUME NEW a \in Accounts, Move(a) PROVE Roles'
    BY <1>1 DEF Move
  <1>2. ASSUME NEW d \in Dests, MonitorCollects(d) PROVE Roles'
    BY <1>2 DEF MonitorCollects, CollectBegins
  <1>3. ASSUME NEW d \in Dests, MonitorAdds(d) PROVE Roles'
    BY <1>3 DEF MonitorAdds
  <1>4. ASSUME NEW d \in Dests, MonitorEnds(d) PROVE Roles'
    BY <1>4 DEF MonitorEnds
  <1>5. ASSUME NEW d \in Dests, NEW a \in Accounts, DelUser(d, a) PROVE Roles'
    BY <1>5 DEF DelUser, Unmap, NoRange
  <1>6. ASSUME NEW d \in Dests, NEW a \in Accounts, AddUser(d, a) PROVE Roles'
    BY <1>6 DEF AddUser, NoRange
  <1>7. ASSUME NEW c \in Collectors, NEW a \in Accounts, Compare(c, a)
        PROVE  Roles'
    BY <1>7 DEF Compare
  <1>8. ASSUME NEW c \in Collectors, NEW a \in Accounts, Swap(c, a)
        PROVE  Roles'
    BY <1>8 DEF Swap, Unmap
  <1>9. ASSUME NEW c \in Collectors, Add(c) PROVE Roles'
    BY <1>9 DEF Add
  <1>10. ASSUME NEW d \in Dests, ReporterCollects(d) PROVE Roles'
    BY <1>10 DEF ReporterCollects, CollectBegins
  <1>11. ASSUME SendBegins PROVE Roles'
    BY <1>11 DEF SendBegins
  <1>12. ASSUME NEW d \in Dests, Post(d) PROVE Roles'
    BY <1>12 DEF Post
  <1>13. ASSUME Acknowledged PROVE Roles'
    BY <1>13 DEF Acknowledged, PanelCounts
  <1>14. ASSUME SendEnds PROVE Roles'
    BY <1>14 DEF SendEnds
  <1>15. ASSUME ReportBegins PROVE Roles'
    <2>1. UNCHANGED <<tag, todo, entries, hot, slice>>
      BY <1>15 DEF ReportBegins
    <2>2. pcc' = [pcc EXCEPT ![Reporter] = "next"] /\ pcc[Reporter] = "idle"
      BY <1>15 DEF ReportBegins
    <2> QED BY <2>1, <2>2
  <1>16. ASSUME StopBegins PROVE Roles'
    BY <1>16 DEF StopBegins
  <1>17. ASSUME NotAcknowledged PROVE Roles'
    BY <1>17 DEF NotAcknowledged, PanelCounts
  <1>18. ASSUME NEW d \in Dests, CloseTasks(d) PROVE Roles'
    BY <1>18 DEF CloseTasks
  <1>19. ASSUME NEW d \in Dests, CollectsLast(d) PROVE Roles'
    BY <1>19 DEF CollectsLast, CollectBegins
  <1>20. ASSUME NEW d \in Dests, StaysStarted(d) PROVE Roles'
    BY <1>20 DEF StaysStarted
  <1>21. ASSUME StopsAgain PROVE Roles'
    BY <1>21 DEF StopsAgain
  <1>22. CASE UNCHANGED vars
    BY <1>22 DEF vars
  <1> QED
    BY <1>1, <1>2, <1>3, <1>4, <1>5, <1>6, <1>7, <1>8, <1>9, <1>10, <1>11,
       <1>12, <1>13, <1>14, <1>15, <1>16, <1>17, <1>18, <1>19, <1>20, <1>21,
       <1>22
    DEF Next, ReporterStep, MonitorStep, Collect, Collectors

(* Only the reporter sends, and what it sends is queued.                   *)
LEMMA LockedStep ==
  ASSUME TypeOK, Roles, Locked, [Next]_vars
  PROVE  Locked'
  <1> USE DestAssumption, NumberAssumption, ReporterAssumption, NoneAssumption
  <1> USE DEF TypeOK, Bytes, Roles, Locked, Zero, AccountsOf, userVars,
              countVars, collectVars, queueVars,
              lifeVars, Collectors
  <1>1. ASSUME NEW a \in Accounts, Move(a) PROVE Locked'
    BY <1>1 DEF Move
  <1>2. ASSUME NEW d \in Dests, MonitorCollects(d) PROVE Locked'
    BY <1>2 DEF MonitorCollects, CollectBegins
  <1>3. ASSUME NEW d \in Dests, MonitorAdds(d) PROVE Locked'
    BY <1>3 DEF MonitorAdds
  <1>4. ASSUME NEW d \in Dests, MonitorEnds(d) PROVE Locked'
    BY <1>4 DEF MonitorEnds
  <1>5. ASSUME NEW d \in Dests, NEW a \in Accounts, DelUser(d, a) PROVE Locked'
    BY <1>5 DEF DelUser, Unmap, NoRange
  <1>6. ASSUME NEW d \in Dests, NEW a \in Accounts, AddUser(d, a) PROVE Locked'
    BY <1>6 DEF AddUser, NoRange
  <1>7. ASSUME NEW c \in Collectors, NEW a \in Accounts, Compare(c, a)
        PROVE  Locked'
    BY <1>7 DEF Compare
  <1>8. ASSUME NEW c \in Collectors, NEW a \in Accounts, Swap(c, a)
        PROVE  Locked'
    BY <1>8 DEF Swap, Unmap
  <1>9. ASSUME NEW c \in Collectors, Add(c) PROVE Locked'
    BY <1>9 DEF Add
  <1>10. ASSUME NEW d \in Dests, ReporterCollects(d) PROVE Locked'
    BY <1>10 DEF ReporterCollects, CollectBegins
  <1>11. ASSUME SendBegins PROVE Locked'
    BY <1>11 DEF SendBegins
  <1>12. ASSUME NEW d \in Dests, Post(d) PROVE Locked'
    BY <1>12 DEF Post
  <1>13. ASSUME Acknowledged PROVE Locked'
    BY <1>13 DEF Acknowledged, PanelCounts
  <1>14. ASSUME SendEnds PROVE Locked'
    BY <1>14 DEF SendEnds
  <1>15. ASSUME ReportBegins PROVE Locked'
    BY <1>15 DEF ReportBegins
  <1>16. ASSUME StopBegins PROVE Locked'
    BY <1>16 DEF StopBegins
  <1>17. ASSUME NotAcknowledged PROVE Locked'
    BY <1>17 DEF NotAcknowledged, PanelCounts
  <1>18. ASSUME NEW d \in Dests, CloseTasks(d) PROVE Locked'
    BY <1>18 DEF CloseTasks
  <1>19. ASSUME NEW d \in Dests, CollectsLast(d) PROVE Locked'
    BY <1>19 DEF CollectsLast, CollectBegins
  <1>20. ASSUME NEW d \in Dests, StaysStarted(d) PROVE Locked'
    BY <1>20 DEF StaysStarted
  <1>21. ASSUME StopsAgain PROVE Locked'
    BY <1>21 DEF StopsAgain
  <1>22. CASE UNCHANGED vars
    BY <1>22 DEF vars
  <1> QED
    BY <1>1, <1>2, <1>3, <1>4, <1>5, <1>6, <1>7, <1>8, <1>9, <1>10, <1>11,
       <1>12, <1>13, <1>14, <1>15, <1>16, <1>17, <1>18, <1>19, <1>20, <1>21,
       <1>22
    DEF Next, ReporterStep, MonitorStep, Collect, Collectors

(* Only users who were revoked lose bytes.                                 *)
LEMMA ForgivenStep ==
  ASSUME TypeOK, Forgiven, [Next]_vars
  PROVE  Forgiven'
  <1> USE DestAssumption, NumberAssumption, ReporterAssumption, NoneAssumption
  <1> USE DEF TypeOK, Bytes, Forgiven, Zero, AccountsOf, userVars, countVars,
              collectVars, queueVars, lifeVars, Collectors
  <1>1. ASSUME NEW a \in Accounts, Move(a) PROVE Forgiven'
    BY <1>1 DEF Move
  <1>2. ASSUME NEW d \in Dests, MonitorCollects(d) PROVE Forgiven'
    BY <1>2 DEF MonitorCollects, CollectBegins
  <1>3. ASSUME NEW d \in Dests, MonitorAdds(d) PROVE Forgiven'
    BY <1>3 DEF MonitorAdds
  <1>4. ASSUME NEW d \in Dests, MonitorEnds(d) PROVE Forgiven'
    BY <1>4 DEF MonitorEnds
  <1>5. ASSUME NEW d \in Dests, NEW a \in Accounts, DelUser(d, a)
        PROVE  Forgiven'
    BY <1>5 DEF DelUser, Unmap, NoRange
  <1>6. ASSUME NEW d \in Dests, NEW a \in Accounts, AddUser(d, a)
        PROVE  Forgiven'
    BY <1>6 DEF AddUser, NoRange
  <1>7. ASSUME NEW c \in Collectors, NEW a \in Accounts, Compare(c, a)
        PROVE  Forgiven'
    BY <1>7 DEF Compare
  <1>8. ASSUME NEW c \in Collectors, NEW a \in Accounts, Swap(c, a)
        PROVE  Forgiven'
    BY <1>8 DEF Swap, Unmap
  <1>9. ASSUME NEW c \in Collectors, Add(c) PROVE Forgiven'
    BY <1>9 DEF Add
  <1>10. ASSUME NEW d \in Dests, ReporterCollects(d) PROVE Forgiven'
    BY <1>10 DEF ReporterCollects, CollectBegins
  <1>11. ASSUME SendBegins PROVE Forgiven'
    BY <1>11 DEF SendBegins
  <1>12. ASSUME NEW d \in Dests, Post(d) PROVE Forgiven'
    BY <1>12 DEF Post
  <1>13. ASSUME Acknowledged PROVE Forgiven'
    BY <1>13 DEF Acknowledged, PanelCounts
  <1>14. ASSUME SendEnds PROVE Forgiven'
    BY <1>14 DEF SendEnds
  <1>15. ASSUME ReportBegins PROVE Forgiven'
    BY <1>15 DEF ReportBegins
  <1>16. ASSUME StopBegins PROVE Forgiven'
    BY <1>16 DEF StopBegins
  <1>17. ASSUME NotAcknowledged PROVE Forgiven'
    BY <1>17 DEF NotAcknowledged, PanelCounts
  <1>18. ASSUME NEW d \in Dests, CloseTasks(d) PROVE Forgiven'
    BY <1>18 DEF CloseTasks
  <1>19. ASSUME NEW d \in Dests, CollectsLast(d) PROVE Forgiven'
    BY <1>19 DEF CollectsLast, CollectBegins
  <1>20. ASSUME NEW d \in Dests, StaysStarted(d) PROVE Forgiven'
    BY <1>20 DEF StaysStarted
  <1>21. ASSUME StopsAgain PROVE Forgiven'
    BY <1>21 DEF StopsAgain
  <1>22. CASE UNCHANGED vars
    BY <1>22 DEF vars
  <1> QED
    BY <1>1, <1>2, <1>3, <1>4, <1>5, <1>6, <1>7, <1>8, <1>9, <1>10, <1>11,
       <1>12, <1>13, <1>14, <1>15, <1>16, <1>17, <1>18, <1>19, <1>20, <1>21,
       <1>22
    DEF Next, ReporterStep, MonitorStep, Collect, Collectors

(* What a swap takes from the counter of a user in force it adds to the    *)
(* slice; what it takes from another's is lost.                            *)
LEMMA SwapBalances ==
  ASSUME TypeOK, TypeOK', Roles, Balanced,
         NEW c \in Collectors, NEW a \in Accounts, Swap(c, a)
  PROVE  Balanced'
  <1> USE DestAssumption, ReporterAssumption, NoneAssumption DEF Collectors
  <1>1. c = Reporter \/ c = Dest[a]
    BY DEF Swap, Roles
  <1>2. \A b \in Accounts :
          /\ live[b] \in Nat /\ queued[b] \in Nat /\ lost[b] \in Nat
          /\ acked[b] \in Nat /\ Dest[b] \in Dests /\ Dest[b] # Reporter
          /\ \A k \in Collectors : slice[k][b] \in Nat
    BY DEF TypeOK, Bytes
  <1>3. UNCHANGED <<moved, acked, queued, billed, fails>>
    BY DEF Swap, Unmap, queueVars
  <1>4. \A b \in Accounts : live'[b] = IF b = a THEN 0 ELSE live[b]
    BY DEF Swap, Unmap, TypeOK, Bytes
  <1>5. \A b \in Accounts : Owed(b)' + lost'[b] = Owed(b) + lost[b]
    <2>1. CASE a \in active
      <3>1. \A b \in Accounts, k \in Collectors :
              slice'[k][b] = IF k = c /\ b = a THEN slice[k][b] + live[b]
                             ELSE slice[k][b]
        BY <2>1 DEF Swap, TypeOK, Bytes
      <3>2. lost' = lost
        BY <2>1 DEF Swap
      <3>3. ASSUME NEW b \in Accounts PROVE Owed(b)' = Owed(b)
        <4>1. CASE b # a
          BY <1>2, <1>3, <1>4, <3>1, <4>1 DEF Owed
        <4>2. CASE b = a /\ c = Reporter
          BY <1>2, <1>3, <1>4, <3>1, <4>2 DEF Owed
        <4>3. CASE b = a /\ c = Dest[a]
          BY <1>2, <1>3, <1>4, <3>1, <4>3 DEF Owed
        <4> QED BY <1>1, <4>1, <4>2, <4>3
      <3> QED BY <3>2, <3>3
    <2>2. CASE a \notin active
      <3>1. \A b \in Accounts : lost'[b] = IF b = a THEN lost[b] + live[b] ELSE lost[b]
        BY <2>2 DEF Swap, Unmap, TypeOK, Bytes
      <3>2. slice' = slice
        BY <2>2 DEF Swap
      <3> QED BY <1>2, <1>3, <1>4, <3>1, <3>2 DEF Owed
    <2> QED BY <2>1, <2>2
  <1>6. \A b \in Accounts : moved[b] = Owed(b) + acked[b] + lost[b]
    BY DEF Balanced
  <1>7. ASSUME NEW b \in Accounts
        PROVE  moved'[b] = Owed(b)' + acked'[b] + lost'[b]
    <2>1. Owed(b) \in Nat /\ lost[b] \in Nat /\ acked[b] \in Nat
      BY <1>2 DEF Owed
    <2>2. Owed(b)' \in Nat /\ lost'[b] \in Nat
      BY <1>2 DEF Owed, TypeOK, Bytes
    <2> QED BY <1>3, <1>5, <1>6, <2>1, <2>2
  <1> QED BY <1>3, <1>7 DEF Balanced

(* Every step keeps the account of the bytes.                              *)
LEMMA BalancedStep ==
  ASSUME TypeOK, Roles, Locked, Balanced, [Next]_vars
  PROVE  Balanced'
  <1> USE DestAssumption, NumberAssumption, ReporterAssumption, NoneAssumption
  <1> USE DEF TypeOK, Bytes, Roles, Locked, Balanced, Owed, Zero, AccountsOf,
              userVars, countVars, collectVars, queueVars,
              lifeVars, Collectors
  <1>0. TypeOK'
    BY TypeStep
  <1>1. ASSUME NEW a \in Accounts, Move(a) PROVE Balanced'
    BY <1>1 DEF Move
  <1>2. ASSUME NEW d \in Dests, MonitorCollects(d) PROVE Balanced'
    BY <1>2 DEF MonitorCollects, CollectBegins
  <1>3. ASSUME NEW d \in Dests, MonitorAdds(d) PROVE Balanced'
    BY <1>3 DEF MonitorAdds
  <1>4. ASSUME NEW d \in Dests, MonitorEnds(d) PROVE Balanced'
    BY <1>4 DEF MonitorEnds
  <1>5. ASSUME NEW d \in Dests, NEW a \in Accounts, DelUser(d, a)
        PROVE  Balanced'
    BY <1>5 DEF DelUser, Unmap, NoRange
  <1>6. ASSUME NEW d \in Dests, NEW a \in Accounts, AddUser(d, a)
        PROVE  Balanced'
    BY <1>6 DEF AddUser, NoRange
  <1>7. ASSUME NEW c \in Collectors, NEW a \in Accounts, Compare(c, a)
        PROVE  Balanced'
    BY <1>7 DEF Compare
  <1>8. ASSUME NEW c \in Collectors, NEW a \in Accounts, Swap(c, a)
        PROVE  Balanced'
    BY <1>8, <1>0, SwapBalances
  <1>9. ASSUME NEW c \in Collectors, Add(c) PROVE Balanced'
    BY <1>9 DEF Add
  <1>10. ASSUME NEW d \in Dests, ReporterCollects(d) PROVE Balanced'
    BY <1>10 DEF ReporterCollects, CollectBegins
  <1>11. ASSUME SendBegins PROVE Balanced'
    BY <1>11 DEF SendBegins
  <1>12. ASSUME NEW d \in Dests, Post(d) PROVE Balanced'
    BY <1>12 DEF Post
  <1>13. ASSUME Acknowledged PROVE Balanced'
    BY <1>13 DEF Acknowledged, PanelCounts
  <1>14. ASSUME SendEnds PROVE Balanced'
    BY <1>14 DEF SendEnds
  <1>15. ASSUME ReportBegins PROVE Balanced'
    BY <1>15 DEF ReportBegins
  <1>16. ASSUME StopBegins PROVE Balanced'
    BY <1>16 DEF StopBegins
  <1>17. ASSUME NotAcknowledged PROVE Balanced'
    BY <1>17 DEF NotAcknowledged, PanelCounts
  <1>18. ASSUME NEW d \in Dests, CloseTasks(d) PROVE Balanced'
    BY <1>18 DEF CloseTasks
  <1>19. ASSUME NEW d \in Dests, CollectsLast(d) PROVE Balanced'
    BY <1>19 DEF CollectsLast, CollectBegins
  <1>20. ASSUME NEW d \in Dests, StaysStarted(d) PROVE Balanced'
    BY <1>20 DEF StaysStarted
  <1>21. ASSUME StopsAgain PROVE Balanced'
    BY <1>21 DEF StopsAgain
  <1>22. CASE UNCHANGED vars
    BY <1>22 DEF vars
  <1> QED
    BY <1>1, <1>2, <1>3, <1>4, <1>5, <1>6, <1>7, <1>8, <1>9, <1>10, <1>11,
       <1>12, <1>13, <1>14, <1>15, <1>16, <1>17, <1>18, <1>19, <1>20, <1>21,
       <1>22
    DEF Next, ReporterStep, MonitorStep, Collect, Collectors

(* The steps that Stop takes.                                              *)
LEMMA StopEnding ==
  ASSUME TypeOK, Roles, Ending,
         \/ StopBegins \/ StopsAgain
         \/ \E d \in Dests : CloseTasks(d) \/ CollectsLast(d) \/ StaysStarted(d)
  PROVE  Ending'
  <1> USE DestAssumption, ReporterAssumption, NoneAssumption
  <1> USE DEF TypeOK, Bytes, Roles, Ending, Resting, FinallyCollected,
              AccountsOf, userVars, countVars, collectVars, queueVars, lifeVars,
              Collectors
  <1>1. CASE StopBegins
    BY <1>1 DEF StopBegins
  <1>2. CASE StopsAgain
    BY <1>2 DEF StopsAgain
  <1>3. ASSUME NEW d \in Dests, CloseTasks(d) PROVE Ending'
    <2>1. /\ UNCHANGED <<started, phase, live, late, revoked, todo, hot>>
          /\ pcc' = [pcc EXCEPT ![Reporter] = "stop"]
          /\ tag' = [tag EXCEPT ![Reporter] = d]
          /\ left' = left \ {d} /\ d \in left
          /\ phase \in {"final", "closing"} /\ pcc[Reporter] = "next"
      BY <1>3 DEF CloseTasks
    <2>2. tag'[Reporter] = d /\ pcc'[Reporter] = "stop"
      BY <2>1
    <2>3. ASSUME NEW e \in Dests
          PROVE  /\ Resting(e)' => pcc'[e] = "idle"
                 /\ e \notin started' => Resting(e)'
      <3>1. pcc'[e] = pcc[e]
        BY <2>1
      <3>2. Resting(e)' => Resting(e)
        BY <2>1, <2>2
      <3>3. d \in started \/ phase = "closing"
        BY <2>1
      <3> QED BY <2>1, <2>2, <3>1, <3>2, <3>3
    <2>4. todo[Reporter] = {} /\ hot[Reporter] = None
      BY <2>1
    <2>5. \A a \in Accounts : FinallyCollected(a)' <=> FinallyCollected(a)
      BY <2>1, <2>2, <2>4
    <2>6. \A a \in Accounts \ revoked' :
            late'[a] = IF FinallyCollected(a)' THEN live'[a] ELSE 0
      BY <2>1, <2>5
    <2>7. /\ left' \subseteq started' /\ tag'[Reporter] \in started' \ left'
          /\ phase' \in {"final", "closing"}
      BY <2>1, <2>2
    <2> HIDE DEF FinallyCollected, Resting
    <2> QED BY <2>3, <2>6, <2>7
  <1>4. ASSUME NEW d \in Dests, CollectsLast(d) PROVE Ending'
    <2>1. /\ UNCHANGED <<left, phase, live, late, revoked, hot>>
          /\ pcc' = [pcc EXCEPT ![Reporter] = "range"]
          /\ tag' = [tag EXCEPT ![Reporter] = d] /\ tag[Reporter] = d
          /\ todo' = [todo EXCEPT ![Reporter] = AccountsOf(d)]
          /\ started' = started \ {d} /\ pcc[d] = "idle"
          /\ pcc[Reporter] = "stop"
      BY <1>4 DEF CollectsLast, CollectBegins
    <2>2. /\ tag' = tag /\ pcc'[Reporter] = "range"
          /\ todo'[Reporter] = AccountsOf(d)
      BY <2>1
    <2>3. \A e \in Dests : pcc'[e] = pcc[e]
      BY <2>1
    <2>4. phase \in {"final", "closing"}
      BY <2>1
    <2>5. d \notin left \/ phase # "final"
      BY <2>1
    <2>6. todo[Reporter] = {} /\ hot[Reporter] = None
      BY <2>1
    <2>7. \A a \in Accounts : FinallyCollected(a)' <=> FinallyCollected(a)
      BY <2>1, <2>2, <2>6
    <2>8. \A a \in Accounts \ revoked' :
            late'[a] = IF FinallyCollected(a)' THEN live'[a] ELSE 0
      BY <2>1, <2>7
    <2>9. ASSUME NEW e \in Dests
          PROVE  /\ Resting(e)' => pcc'[e] = "idle"
                 /\ e \notin started' => Resting(e)'
      BY <2>1, <2>2, <2>3, <2>5
    <2>10. left' \subseteq started' /\ pcc'[Reporter] # "stop"
      BY <2>1, <2>2
    <2> HIDE DEF FinallyCollected, Resting
    <2> QED BY <2>1, <2>4, <2>8, <2>9, <2>10
  <1>5. ASSUME NEW d \in Dests, StaysStarted(d) PROVE Ending'
    BY <1>5 DEF StaysStarted
  <1> QED BY <1>1, <1>2, <1>3, <1>4, <1>5

(* What the final collection has passed by has only late bytes.            *)
LEMMA EndingStep ==
  ASSUME TypeOK, Roles, Forgiven, Ending, [Next]_vars
  PROVE  Ending'
  <1> USE DestAssumption, NumberAssumption, ReporterAssumption, NoneAssumption
  <1> USE DEF TypeOK, Bytes, Roles, Forgiven, Ending, Resting,
              FinallyCollected, Zero, AccountsOf, MinTraffic, Monitored,
              userVars, countVars, collectVars, queueVars, lifeVars, Collectors
  <1>1. ASSUME NEW a \in Accounts, Move(a) PROVE Ending'
    BY <1>1 DEF Move
  <1>2. ASSUME NEW d \in Dests, MonitorCollects(d) PROVE Ending'
    BY <1>2 DEF MonitorCollects, CollectBegins
  <1>3. ASSUME NEW d \in Dests, MonitorAdds(d) PROVE Ending'
    BY <1>3 DEF MonitorAdds
  <1>4. ASSUME NEW d \in Dests, MonitorEnds(d) PROVE Ending'
    BY <1>4 DEF MonitorEnds
  <1>5. ASSUME NEW d \in Dests, NEW a \in Accounts, DelUser(d, a) PROVE Ending'
    BY <1>5 DEF DelUser, Unmap, NoRange
  <1>6. ASSUME NEW d \in Dests, NEW a \in Accounts, AddUser(d, a) PROVE Ending'
    BY <1>6 DEF AddUser, NoRange
  <1>7. ASSUME NEW c \in Collectors, NEW a \in Accounts, Compare(c, a)
        PROVE  Ending'
    BY <1>7 DEF Compare
  <1>8. ASSUME NEW c \in Collectors, NEW a \in Accounts, Swap(c, a)
        PROVE  Ending'
    BY <1>8 DEF Swap, Unmap
  <1>9. ASSUME NEW c \in Collectors, Add(c) PROVE Ending'
    BY <1>9 DEF Add
  <1>10. ASSUME NEW d \in Dests, ReporterCollects(d) PROVE Ending'
    BY <1>10 DEF ReporterCollects, CollectBegins
  <1>11. ASSUME SendBegins PROVE Ending'
    BY <1>11 DEF SendBegins
  <1>12. ASSUME NEW d \in Dests, Post(d) PROVE Ending'
    BY <1>12 DEF Post
  <1>13. ASSUME Acknowledged PROVE Ending'
    BY <1>13 DEF Acknowledged, PanelCounts
  <1>14. ASSUME SendEnds PROVE Ending'
    BY <1>14 DEF SendEnds
  <1>15. ASSUME ReportBegins PROVE Ending'
    BY <1>15 DEF ReportBegins
  <1>16. ASSUME \/ StopBegins \/ StopsAgain
                \/ \E d \in Dests :
                     CloseTasks(d) \/ CollectsLast(d) \/ StaysStarted(d)
         PROVE  Ending'
    BY <1>16, StopEnding
  <1>17. ASSUME NotAcknowledged PROVE Ending'
    BY <1>17 DEF NotAcknowledged, PanelCounts
  <1>18. CASE UNCHANGED vars
    BY <1>18 DEF vars
  <1> QED
    BY <1>1, <1>2, <1>3, <1>4, <1>5, <1>6, <1>7, <1>8, <1>9, <1>10, <1>11,
       <1>12, <1>13, <1>14, <1>15, <1>16, <1>17, <1>18
    DEF Next, ReporterStep, MonitorStep, Collect, Collectors

-----------------------------------------------------------------------------
(* The ledger. A debt of the node is what Owed says, step by step.         *)
LEMMA TypeOKNumbers ==
  ASSUME TypeOK
  PROVE  \A a \in Accounts :
           /\ live[a] \in Nat /\ queued[a] \in Nat /\ lost[a] \in Nat
           /\ billed[a] \in Nat /\ sent[a] \in Nat
           /\ Dest[a] \in Dests /\ Dest[a] # Reporter
           /\ \A k \in Collectors : slice[k][a] \in Nat
           /\ Owed(a) \in Nat
  <1> USE DestAssumption, ReporterAssumption DEF TypeOK, Bytes, Collectors
  <1> QED BY DEF Owed

(* A storage that the counter map forgets leaves with what it held.        *)
LEMMA UnmapForgives ==
  ASSUME TypeOK, TypeOK', NEW a \in Accounts, Unmap(a),
         UNCHANGED <<slice, queued, billed>>, revoked' = revoked \cup {a}
  PROVE  Ledger!Forgive(a)
  <1>1. \A b \in Accounts : live'[b] = IF b = a THEN 0 ELSE live[b]
    BY DEF Unmap, TypeOK, Bytes
  <1>2. \A b \in Accounts \ {a} : Owed(b)' = Owed(b)
    BY <1>1 DEF Owed
  <1>3. Owed(a)' <= Owed(a)
    BY <1>1, TypeOKNumbers DEF Owed, Collectors
  <1> HIDE DEF Owed
  <1> QED BY <1>2, <1>3 DEF Ledger!Forgive

(* Steps that move bytes within the node, or none at all.                  *)
LEMMA StutterOwes ==
  ASSUME \A a \in Accounts : Owed(a)' = Owed(a), UNCHANGED <<billed, revoked>>
  PROVE  UNCHANGED Ledger!ledger
  BY DEF Ledger!ledger

(* Bytes that go from a slice to the queue are owed as before.             *)
LEMMA AddOwes ==
  ASSUME TypeOK, TypeOK', Roles, NEW c \in Collectors, Add(c)
  PROVE  \A a \in Accounts : Owed(a)' = Owed(a)
  <1> USE DEF Collectors
  <1> SUFFICES ASSUME NEW a \in Accounts PROVE Owed(a)' = Owed(a)
    OBVIOUS
  <1>1. c # Reporter /\ c # Dest[a] => slice[c][a] = 0
    BY DEF Roles
  <1>2. queued'[a] = queued[a] + slice[c][a] /\ live'[a] = live[a]
    BY DEF Add, countVars
  <1>3. \A k \in Collectors : slice'[k][a] = IF k = c THEN 0 ELSE slice[k][a]
    BY DEF Add, Zero, TypeOK
  <1>4. Dest[a] \in Collectors /\ Dest[a] # Reporter
    BY TypeOKNumbers
  <1>5. live[a] \in Nat /\ queued[a] \in Nat /\ \A k \in Collectors : slice[k][a] \in Nat
    BY TypeOKNumbers
  <1> QED BY <1>1, <1>2, <1>3, <1>4, <1>5 DEF Owed

(* So are those that go from a counter to a slice.                         *)
LEMMA SwapOwes ==
  ASSUME TypeOK, TypeOK', Roles, Balanced, Balanced',
         NEW c \in Collectors, NEW a \in Accounts, Swap(c, a), a \in active
  PROVE  \A b \in Accounts : Owed(b)' = Owed(b)
  <1>1. UNCHANGED <<moved, acked, lost>>
    BY DEF Swap, queueVars
  <1>2. \A b \in Accounts : acked[b] \in Nat /\ lost[b] \in Nat
    BY DEF TypeOK, Bytes
  <1>3. ASSUME NEW b \in Accounts PROVE Owed(b)' = Owed(b)
    <2>1. Owed(b) \in Nat
      BY TypeOKNumbers
    <2>2. Owed(b)' \in Nat
      BY DestAssumption, ReporterAssumption DEF Owed, TypeOK, Bytes, Collectors
    <2>3. moved[b] = Owed(b) + acked[b] + lost[b]
      BY DEF Balanced
    <2>4. moved'[b] = Owed(b)' + acked'[b] + lost'[b]
      BY DEF Balanced
    <2> QED BY <1>1, <1>2, <2>1, <2>2, <2>3, <2>4
  <1> QED BY <1>3

(* What the panel counts of a request is at most what the node owes.       *)
LEMMA SentIsOwed ==
  ASSUME TypeOK, Locked
  PROVE  \A a \in Accounts : sent[a] <= queued[a] /\ queued[a] <= Owed(a)
  BY TypeOKNumbers DEF Locked, Owed, Collectors

(* An acknowledged batch settles what it holds.                            *)
LEMMA AcknowledgedSettles ==
  ASSUME TypeOK, Locked, Acknowledged
  PROVE  Ledger!Settle
  <1>1. \A a \in Accounts : queued'[a] = queued[a] - sent[a]
    BY TypeOKNumbers DEF Acknowledged, Locked
  <1>2. UNCHANGED <<live, slice, revoked>>
    BY DEF Acknowledged, countVars, collectVars, userVars
  <1>3. \A a \in Accounts : Owed(a)' = Owed(a) - sent[a]
    BY <1>1, <1>2, TypeOKNumbers DEF Owed, Collectors
  <1>4. \A a \in Accounts : billed'[a] = billed[a] + sent[a]
    BY DEF Acknowledged, PanelCounts
  <1>5. \A a \in Accounts : Owed(a) \in Nat /\ sent[a] \in Nat /\ billed[a] \in Nat
    BY TypeOKNumbers
  <1> HIDE DEF Owed
  <1> QED BY <1>2, <1>3, <1>4, <1>5 DEF Ledger!Settle

(* A lost response bills it, and leaves it owed.                           *)
LEMMA NotAcknowledgedRepeats ==
  ASSUME TypeOK, Locked, NotAcknowledged
  PROVE  Ledger!Repeat
  <1>1. UNCHANGED <<live, slice, queued, revoked>>
    BY DEF NotAcknowledged, countVars, collectVars, userVars
  <1>2. \A a \in Accounts : Owed(a)' = Owed(a)
    BY <1>1 DEF Owed
  <1>3. \A a \in Accounts : billed'[a] \in {billed[a], billed[a] + sent[a]}
    BY DEF NotAcknowledged, PanelCounts
  <1>4. \A a \in Accounts : /\ Owed(a) \in Nat /\ sent[a] \in Nat
                            /\ billed[a] \in Nat /\ sent[a] <= Owed(a)
    BY TypeOKNumbers, SentIsOwed
  <1> HIDE DEF Owed
  <1> QED BY <1>1, <1>2, <1>3, <1>4 DEF Ledger!Repeat

(* A byte is a new debt, or goes to a storage nobody can reach.            *)
LEMMA MoveOwes ==
  ASSUME TypeOK, NEW a \in Accounts, Move(a)
  PROVE  Ledger!Move(a) \/ UNCHANGED Ledger!ledger
  <1>1. UNCHANGED <<slice, queued, billed, revoked>>
    BY DEF Move, collectVars, queueVars, userVars
  <1>2. CASE live' = [live EXCEPT ![a] = @ + 1]
    <2>1. \A b \in Accounts : live'[b] = IF b = a THEN live[b] + 1 ELSE live[b]
      BY <1>2 DEF TypeOK, Bytes
    <2>2. ASSUME NEW b \in Accounts
          PROVE  Owed(b)' = IF b = a THEN Owed(b) + 1 ELSE Owed(b)
      <3>1. /\ live[b] \in Nat /\ queued[b] \in Nat
            /\ slice[Reporter][b] \in Nat /\ slice[Dest[b]][b] \in Nat
        BY TypeOKNumbers DEF Collectors
      <3> QED BY <1>1, <2>1, <3>1 DEF Owed
    <2> HIDE DEF Owed
    <2> QED BY <1>1, <2>2 DEF Ledger!Move
  <1>3. CASE live' = live
    BY <1>1, <1>3, StutterOwes DEF Owed
  <1> QED BY <1>2, <1>3 DEF Move

(* Every step is a step of the ledger, or leaves it alone.                 *)
LEMMA StepsAreLedgerSteps ==
  ASSUME IInv, [Next]_vars
  PROVE  [Ledger!Next]_Ledger!ledger
  <1> DEFINE Goal == [Ledger!Next]_Ledger!ledger
  <1> USE DEF userVars, countVars, collectVars, queueVars, lifeVars
  <1>0. TypeOK /\ TypeOK' /\ Roles /\ Locked /\ Forgiven /\ Balanced /\ Balanced'
    BY TypeStep, BalancedStep DEF IInv
  <1>1. ASSUME NEW a \in Accounts, Move(a) PROVE Goal
    BY <1>0, <1>1, MoveOwes DEF Ledger!Next
  <1>2. ASSUME NEW c \in Collectors, NEW a \in Accounts, Swap(c, a) PROVE Goal
    <2>1. CASE a \in active
      BY <1>0, <1>2, <2>1, SwapOwes, StutterOwes DEF Swap
    <2>2. CASE a \notin active
      <3>1. Unmap(a) /\ UNCHANGED <<slice, queued, billed, revoked>>
        BY <1>2, <2>2 DEF Swap
      <3>2. revoked' = revoked \cup {a}
        BY <1>0, <2>2, <3>1 DEF Forgiven
      <3>3. Ledger!Forgive(a)
        BY <1>0, <3>1, <3>2, UnmapForgives
      <3> QED BY <3>3 DEF Ledger!Next
    <2> QED BY <2>1, <2>2
  <1>3. ASSUME NEW d \in Dests, NEW a \in Accounts, DelUser(d, a) PROVE Goal
    <2>1. Unmap(a) /\ revoked' = revoked \cup {a}
      BY <1>3 DEF DelUser
    <2>2. UNCHANGED <<slice, queued, billed>>
      BY <1>3 DEF DelUser
    <2>3. Ledger!Forgive(a)
      BY <1>0, <2>1, <2>2, UnmapForgives
    <2> QED BY <2>3 DEF Ledger!Next
  <1>4. ASSUME NEW c \in Collectors, Add(c) PROVE Goal
    BY <1>0, <1>4, AddOwes, StutterOwes DEF Add
  <1>5. ASSUME Acknowledged PROVE Goal
    BY <1>0, <1>5, AcknowledgedSettles DEF Ledger!Next
  <1>6. ASSUME NotAcknowledged PROVE Goal
    BY <1>0, <1>6, NotAcknowledgedRepeats DEF Ledger!Next
  <1>7. ASSUME UNCHANGED <<live, slice, queued, billed, revoked>> PROVE Goal
    BY <1>7, StutterOwes DEF Owed
  <1>8. ASSUME NEW d \in Dests,
               \/ MonitorCollects(d) \/ MonitorAdds(d) \/ MonitorEnds(d)
               \/ ReporterCollects(d) \/ Post(d)
               \/ CloseTasks(d) \/ CollectsLast(d) \/ StaysStarted(d)
               \/ \E a \in Accounts : AddUser(d, a)
        PROVE  Goal
    BY <1>7, <1>8 DEF MonitorCollects, MonitorAdds, MonitorEnds,
                      ReporterCollects, Post, AddUser, CollectBegins,
                      CloseTasks, CollectsLast, StaysStarted
  <1>9. ASSUME NEW c \in Collectors, NEW a \in Accounts, Compare(c, a) PROVE Goal
    BY <1>7, <1>9 DEF Compare
  <1>10. ASSUME SendBegins \/ SendEnds \/ ReportBegins \/ StopBegins
                \/ StopsAgain \/ UNCHANGED vars
         PROVE  Goal
    BY <1>7, <1>10
    DEF SendBegins, SendEnds, ReportBegins, StopBegins, StopsAgain, vars
  <1> HIDE DEF Goal
  <1>11. ASSUME NEW c \in Collectors, Collect(c) PROVE Goal
    BY <1>2, <1>4, <1>9, <1>11 DEF Collect
  <1>12. ASSUME NEW d \in Dests,
                MonitorCollects(d) \/ MonitorAdds(d) \/ MonitorStep(d)
         PROVE  Goal
    BY <1>3, <1>8, <1>11, <1>12 DEF MonitorStep, Collectors
  <1>13. ASSUME ReporterStep PROVE Goal
    BY <1>5, <1>8, <1>10, <1>11, <1>13 DEF ReporterStep, Collectors
  <1>14. Goal
    BY <1>1, <1>6, <1>10, <1>12, <1>13 DEF Next
  <1> QED BY <1>14 DEF Goal

-----------------------------------------------------------------------------
(* The inductive invariant of the pipeline.                                *)
THEOREM InductiveInvariant == Spec => []IInv
  <1>1. IInv /\ [Next]_vars => IInv'
    BY TypeStep, RolesStep, LockedStep, ForgivenStep, BalancedStep, EndingStep
    DEF IInv
  <1> QED BY InitIInv, <1>1, PTL DEF Spec

(* Collectors, the queue and the panel hold what their types say: no       *)
(* number of bytes ever goes below zero.                                   *)
THEOREM TypeCorrect == Spec => []TypeOK
  <1>1. IInv => TypeOK BY DEF IInv
  <1> QED BY <1>1, InductiveInvariant, PTL

(* collectTraffic, trafficQueue and ReportUserTraffic: every byte that was *)
(* moved is in a counter, in a slice, in the queue, acknowledged, or lost  *)
(* with a revoked user, however collectors and failing requests interleave.*)
THEOREM NoByteAstray == Spec => []Accounted
  <1>1. IInv => Accounted
    BY DEF IInv, Balanced, Forgiven, Locked, Accounted, TypeOK, Bytes
  <1> QED BY <1>1, InductiveInvariant, PTL

(* Stop, Close and FlushTraffic: an exit whose queue is empty has told the *)
(* panel of every byte that was moved before the final collection; what    *)
(* a controller keeps whose inbound DelNode could not remove is still in   *)
(* its counters.                                                           *)
THEOREM ExitLosesNothing == Spec => []ExitFlushes
  <1>1. IInv => ExitFlushes
    <2> SUFFICES ASSUME IInv, phase = "exited", inQueue = {},
                        NEW a \in Accounts \ revoked
                 PROVE  moved[a] = acked[a] +
                          IF Dest[a] \in started THEN live[a] ELSE late[a]
      BY DEF ExitFlushes
    <2>1. Dest[a] \in Collectors /\ Reporter \in Collectors
      BY DestAssumption DEF Collectors
    <2>2. pcc[Dest[a]] = "idle" /\ pcc[Reporter] \in {"send", "idle"}
      BY DestAssumption DEF IInv, Ending, Resting
    <2>3. \A c \in {Reporter, Dest[a]} : entries[c] = {} /\ todo[c] = {} /\ hot[c] = None
      BY <2>1, <2>2 DEF IInv, Roles
    <2>4. slice[Reporter][a] = 0 /\ slice[Dest[a]][a] = 0
      BY <2>1, <2>3 DEF IInv, Roles
    <2>5. queued[a] = 0 /\ lost[a] = 0
      BY DEF IInv, Locked, Forgiven
    <2>6. Dest[a] \notin started => late[a] = live[a]
      BY <2>3, NoneAssumption DEF IInv, Ending, FinallyCollected
    <2>7. live[a] \in Nat /\ acked[a] \in Nat
      BY DEF IInv, TypeOK, Bytes
    <2>8. moved[a] = Owed(a) + acked[a] + lost[a]
      BY DEF IInv, Balanced
    <2> QED BY <2>4, <2>5, <2>6, <2>7, <2>8 DEF Owed
  <1> QED BY <1>1, InductiveInvariant, PTL

(* The detailed pipeline implements the abstract ledger.                   *)
THEOREM ImplementsLedger == Spec => LedgerSpec
  <1>1. Init => Ledger!Init
    BY DestAssumption, ReporterAssumption
    DEF Init, Ledger!Init, Owed, Zero, Collectors
  <1> QED
    BY <1>1, InductiveInvariant, StepsAreLedgerSteps, PTL
    DEF Spec, LedgerSpec, Ledger!Spec
=============================================================================
