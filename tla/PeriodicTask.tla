---------------------------- MODULE PeriodicTask ----------------------------
(***************************************************************************)
(* The periodic task of common/task/task.go: the loop that runs the user   *)
(* list monitor, the certificate renewal, the node report and the server   *)
(* configuration monitor.                                                  *)
(*                                                                         *)
(* One Task value is started, closed and started again by several          *)
(* goroutines. Every Start that finds the task stopped makes a new pair of *)
(* a context and a done channel; the model calls such a pair a generation. *)
(* t.cancel and t.done are set and cleared together, so cur stands for     *)
(* both: 0 is nil.                                                         *)
(*                                                                         *)
(* A step is one critical section of t.mu, one channel operation or one    *)
(* call that another goroutine can observe.                                *)
(***************************************************************************)
EXTENDS Naturals

CONSTANTS
  Closers,   \* the goroutines that call Close
  MaxGen,    \* bound: how many times the task is started
  HasReload  \* whether the task was given a ReloadCh

ASSUME MaxGenAssumption == MaxGen \in Nat
ASSUME HasReloadAssumption == HasReload \in BOOLEAN

Gens == 1..MaxGen

VARIABLES
  cur,       \* t.cancel / t.done: the generation they belong to, 0 when nil
  started,   \* generations made so far
  loop,      \* where the loop goroutine of each generation is
  timer,     \* its timer: "off" once received from, "armed" or "fired"
  running,   \* calls of t.Execute that have begun and not returned
  result,    \* whether execute's done channel holds a result
  expired,   \* whether the context of the current call timed out
  cancelled, \* whether the generation's own context is cancelled
  reloadCh,  \* signals buffered in ReloadCh, whose capacity is 1
  closer,    \* where each goroutine inside Close is
  mine,      \* the generation it read
  closed     \* history: generations some Close has returned for

vars == <<cur, started, loop, timer, running, result, expired, cancelled,
          reloadCh, closer, mine, closed>>

taskVars == <<cur, started>>
runVars == <<running, result, expired>>
closeVars == <<closer, mine, closed>>

Init ==
  /\ cur = 0
  /\ started = 0
  /\ loop = [g \in Gens |-> "none"]
  /\ timer = [g \in Gens |-> "off"]
  /\ running = [g \in Gens |-> 0]
  /\ result = [g \in Gens |-> FALSE]
  /\ expired = [g \in Gens |-> FALSE]
  /\ cancelled = [g \in Gens |-> FALSE]
  /\ reloadCh = 0
  /\ closer = [c \in Closers |-> "out"]
  /\ mine = [c \in Closers |-> 0]
  /\ closed = {}

-----------------------------------------------------------------------------
(* Mutants: what a plausible mistake would make of an action below. They   *)
(* are no part of the specification.                                       *)

(* A queue of signals where the code drops the second one.                 *)
PostReload_Queues(g) ==
  /\ loop[g] = "post"
  /\ reloadCh' = reloadCh + 1
  /\ loop' = [loop EXCEPT ![g] = "drain"]
  /\ UNCHANGED <<taskVars, timer, runVars, cancelled, closeVars>>

(* A send that blocks while a signal is buffered.                          *)
PostReload_Blocks(g) ==
  /\ loop[g] = "post"
  /\ reloadCh = 0
  /\ reloadCh' = 1
  /\ loop' = [loop EXCEPT ![g] = "drain"]
  /\ UNCHANGED <<taskVars, timer, runVars, cancelled, closeVars>>

(* A timed out call is abandoned to the background.                        *)
Drain_Abandons(g) ==
  /\ loop[g] = "drain"
  /\ loop' = [loop EXCEPT ![g] = "select"]
  /\ timer' = [timer EXCEPT ![g] = IF @ = "off" THEN "armed" ELSE @]
  /\ UNCHANGED <<taskVars, runVars, cancelled, reloadCh, closeVars>>

(* Close cancels and does not wait.                                        *)
CloseWaits_Skips(c) ==
  /\ closer[c] = "wait"
  /\ closer' = [closer EXCEPT ![c] = "clear"]
  /\ UNCHANGED <<taskVars, loop, timer, runVars, cancelled, reloadCh, mine,
                 closed>>

(* Close clears whatever the task has become.                              *)
CloseClears_Always(c) ==
  /\ closer[c] = "clear"
  /\ cur' = 0
  /\ closer' = [closer EXCEPT ![c] = "out"]
  /\ closed' = closed \cup {mine[c]}
  /\ UNCHANGED <<started, loop, timer, runVars, cancelled, reloadCh, mine>>

(* No timer.Reset.                                                         *)
EndRun_NoReset(g) ==
  /\ result[g]
  /\ result' = [result EXCEPT ![g] = FALSE]
  /\ loop' = [loop EXCEPT ![g] = "select"]
  /\ UNCHANGED <<taskVars, timer, running, expired, cancelled, reloadCh,
                 closeVars>>

-----------------------------------------------------------------------------
(* Start holds t.mu throughout. On a started task it returns at once.      *)
Start(first) ==
  /\ cur = 0
  /\ started < MaxGen
  /\ started' = started + 1
  /\ cur' = started'
  /\ loop' = [loop EXCEPT ![started'] = IF first THEN "first" ELSE "select"]
  /\ timer' = [timer EXCEPT ![started'] = "armed"]
  /\ UNCHANGED <<runVars, cancelled, reloadCh, closeVars>>

TimerFires(g) ==
  /\ timer[g] = "armed"
  /\ loop[g] # "exited"
  /\ timer' = [timer EXCEPT ![g] = "fired"]
  /\ UNCHANGED <<taskVars, loop, runVars, cancelled, reloadCh, closeVars>>

(* execute: a fresh context under the task's, and a goroutine that calls   *)
(* t.Execute. The select may take timer.C although ctx is done as well.    *)
BeginRun(g) ==
  /\ \/ loop[g] = "first" /\ UNCHANGED timer
     \/ loop[g] = "select" /\ timer[g] = "fired"
        /\ timer' = [timer EXCEPT ![g] = "off"]
  /\ loop' = [loop EXCEPT ![g] = "exec"]
  /\ running' = [running EXCEPT ![g] = @ + 1]
  /\ expired' = [expired EXCEPT ![g] = FALSE]
  /\ UNCHANGED <<taskVars, result, cancelled, reloadCh, closeVars>>

(* The call of t.Execute returns; its send into done never blocks.         *)
RunReturns(g) ==
  /\ running[g] > 0
  /\ running' = [running EXCEPT ![g] = @ - 1]
  /\ result' = [result EXCEPT ![g] = TRUE]
  /\ UNCHANGED <<taskVars, loop, timer, expired, cancelled, reloadCh, closeVars>>

DeadlineExpires(g) ==
  /\ loop[g] = "exec"
  /\ ~expired[g]
  /\ expired' = [expired EXCEPT ![g] = TRUE]
  /\ UNCHANGED <<taskVars, loop, timer, running, result, cancelled, reloadCh,
                 closeVars>>

(* execute returns to the loop, which resets a timer it has received from. *)
EndRun(g) ==
  /\ result[g]
  /\ result' = [result EXCEPT ![g] = FALSE]
  /\ loop' = [loop EXCEPT ![g] = "select"]
  /\ timer' = [timer EXCEPT ![g] = IF @ = "off" THEN "armed" ELSE @]
  /\ UNCHANGED <<taskVars, running, expired, cancelled, reloadCh, closeVars>>

TakeResult(g) == loop[g] = "exec" /\ EndRun(g)

(* The select of execute takes ctx.Done() and reads parent.Err().          *)
TakeDone(g) ==
  /\ loop[g] = "exec"
  /\ expired[g] \/ cancelled[g]
  /\ loop' = [loop EXCEPT ![g] =
                IF ~cancelled[g] /\ HasReload THEN "post" ELSE "drain"]
  /\ UNCHANGED <<taskVars, timer, runVars, cancelled, reloadCh, closeVars>>

(* The non-blocking send of a reload signal.                               *)
PostReload(g) ==
  /\ loop[g] = "post"
  /\ reloadCh' = 1
  /\ loop' = [loop EXCEPT ![g] = "drain"]
  /\ UNCHANGED <<taskVars, timer, runVars, cancelled, closeVars>>

(* err = <-done: a timed out call is waited for before anything else runs. *)
Drain(g) == loop[g] = "drain" /\ EndRun(g)

LoopExits(g) ==
  /\ loop[g] = "select"
  /\ cancelled[g]
  /\ loop' = [loop EXCEPT ![g] = "exited"]
  /\ UNCHANGED <<taskVars, timer, runVars, cancelled, reloadCh, closeVars>>

(* The main loop of cmd/server.go receives the signal.                     *)
TakeReload ==
  /\ reloadCh = 1
  /\ reloadCh' = 0
  /\ UNCHANGED <<taskVars, loop, timer, runVars, cancelled, closeVars>>

-----------------------------------------------------------------------------
(* Close reads cancel and done in one critical section, and returns at     *)
(* once on a stopped task.                                                 *)
CloseReads(c) ==
  /\ closer[c] = "out"
  /\ cur # 0
  /\ mine' = [mine EXCEPT ![c] = cur]
  /\ closer' = [closer EXCEPT ![c] = "cancel"]
  /\ UNCHANGED <<taskVars, loop, timer, runVars, cancelled, reloadCh, closed>>

CloseCancels(c) ==
  /\ closer[c] = "cancel"
  /\ cancelled' = [cancelled EXCEPT ![mine[c]] = TRUE]
  /\ closer' = [closer EXCEPT ![c] = "wait"]
  /\ UNCHANGED <<taskVars, loop, timer, runVars, reloadCh, mine, closed>>

(* <-done                                                                  *)
CloseWaits(c) ==
  /\ closer[c] = "wait"
  /\ loop[mine[c]] = "exited"
  /\ closer' = [closer EXCEPT ![c] = "clear"]
  /\ UNCHANGED <<taskVars, loop, timer, runVars, cancelled, reloadCh, mine,
                 closed>>

(* if t.done == done: a task started again meanwhile is left alone.        *)
CloseClears(c) ==
  /\ closer[c] = "clear"
  /\ cur' = IF cur = mine[c] THEN 0 ELSE cur
  /\ closer' = [closer EXCEPT ![c] = "out"]
  /\ closed' = closed \cup {mine[c]}
  /\ UNCHANGED <<started, loop, timer, runVars, cancelled, reloadCh, mine>>

LoopStep(g) ==
  \/ BeginRun(g) \/ TakeResult(g) \/ TakeDone(g) \/ PostReload(g)
  \/ Drain(g) \/ LoopExits(g)

CloseStep(c) ==
  \/ CloseReads(c) \/ CloseCancels(c) \/ CloseWaits(c) \/ CloseClears(c)

Next ==
  \/ \E first \in BOOLEAN : Start(first)
  \/ \E g \in Gens :
       LoopStep(g) \/ TimerFires(g) \/ RunReturns(g) \/ DeadlineExpires(g)
  \/ \E c \in Closers : CloseStep(c)
  \/ TakeReload

(* Goroutines are scheduled, timers and deadlines elapse. t.Execute        *)
(* returns only once its context is done: every task function passes the   *)
(* context to its requests. The select of the loop picks uniformly among   *)
(* ready cases, so a ready ctx.Done() cannot lose for ever.                *)
Fairness ==
  /\ \A g \in Gens :
       /\ WF_vars(LoopStep(g))
       /\ SF_vars(LoopExits(g))
       /\ WF_vars(TimerFires(g))
       /\ WF_vars(DeadlineExpires(g))
       /\ WF_vars((expired[g] \/ cancelled[g]) /\ RunReturns(g))
  /\ \A c \in Closers :
       WF_vars(CloseCancels(c) \/ CloseWaits(c) \/ CloseClears(c))

Spec == Init /\ [][Next]_vars
FairSpec == Spec /\ Fairness

-----------------------------------------------------------------------------
LoopStates == {"none", "first", "select", "exec", "post", "drain", "exited"}

(* Types, and the capacity of ReloadCh.                                    *)
TypeOK ==
  /\ cur \in 0..MaxGen
  /\ started \in 0..MaxGen
  /\ loop \in [Gens -> LoopStates]
  /\ timer \in [Gens -> {"off", "armed", "fired"}]
  /\ running \in [Gens -> Nat]
  /\ result \in [Gens -> BOOLEAN]
  /\ expired \in [Gens -> BOOLEAN]
  /\ cancelled \in [Gens -> BOOLEAN]
  /\ reloadCh \in {0, 1}
  /\ closer \in [Closers -> {"out", "cancel", "wait", "clear"}]
  /\ mine \in [Closers -> 0..MaxGen]
  /\ closed \in SUBSET Gens

(* At most one call of t.Execute is under way, over all generations of the *)
(* task: neither a timeout nor a Close racing a Start makes two runs       *)
(* overlap (the comment before the final receive of execute).              *)
NoOverlap ==
  /\ \A g \in Gens : running[g] <= 1
  /\ \A g, h \in Gens : running[g] > 0 /\ running[h] > 0 => g = h

(* Once a Close has returned for a generation, no call of t.Execute of     *)
(* that generation is under way or can begin: the controller or core the   *)
(* task works on may be released.                                          *)
QuietAfterClose ==
  \A g \in closed : loop[g] = "exited" /\ running[g] = 0

(* Every loop that nobody has asked to stop is the one t.cancel reaches,   *)
(* so a later Close can still stop it: a Close that lost a race with a     *)
(* second Close and a Start never forgets the new loop.                    *)
NoOrphan ==
  \A g \in Gens :
    loop[g] \notin {"none", "exited"} /\ ~cancelled[g] => cur = g

(* A Close always returns, however the run it interrupts is placed.        *)
CloseReturns ==
  \A c \in Closers : closer[c] # "out" ~> closer[c] = "out"

(* A task keeps running on its period until it is closed: no timeout and   *)
(* no result, however late, stops the loop.                                *)
KeepsRunning ==
  \A g \in Gens : loop[g] \notin {"none", "exited"}
                    ~> (loop[g] = "exec" \/ cancelled[g])

(* The task keeps the contract its users rely on: one run at a time, an    *)
(* end only between two runs and only for a Close, and no Close that       *)
(* returns while the loop it asked to stop goes on.                        *)
Phase ==
  IF \E g \in Gens : running[g] > 0 THEN "busy"
  ELSE IF \A g \in Gens : loop[g] \in {"none", "exited"} THEN "off"
  ELSE "idle"
Contract == INSTANCE TaskContract
  WITH phase <- Phase, starts <- started,
       asked <- [c \in Closers |-> IF closer[c] = "out" THEN 0 ELSE mine[c]]
ContractSpec == Contract!Spec
=============================================================================
