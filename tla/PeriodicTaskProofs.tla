------------------------- MODULE PeriodicTaskProofs -------------------------
(***************************************************************************)
(* The safety properties of PeriodicTask, proved for any set of closers    *)
(* and any number of generations.                                          *)
(*                                                                         *)
(* The invariant that carries them says that every generation but the one  *)
(* t.cancel reaches has a loop that ended, and that a generation has one   *)
(* call of t.Execute, running or returned, exactly while its loop is       *)
(* inside execute. The first part is what makes "t.done == done" in Close  *)
(* matter: a closer clears only a generation it has seen end.              *)
(***************************************************************************)
EXTENDS PeriodicTask, TLAPS

InExecute(g) == loop[g] \in {"exec", "post", "drain"}

(* The calls of t.Execute a generation accounts for.                       *)
OneCall(g) ==
  /\ InExecute(g) => (running[g] = 1 /\ ~result[g]) \/ (running[g] = 0 /\ result[g])
  /\ ~InExecute(g) => running[g] = 0 /\ ~result[g]

(* Generations are made in order, and all but the current one are over.    *)
OthersOver ==
  /\ cur <= started
  /\ \A g \in Gens : g > started => loop[g] = "none"
  /\ \A g \in Gens : g <= started /\ g # cur => loop[g] = "exited"

CloserKnows(c) ==
  /\ closer[c] # "out" => mine[c] \in 1..started
  /\ closer[c] = "clear" => loop[mine[c]] = "exited"

IInv ==
  /\ TypeOK
  /\ OthersOver
  /\ \A g \in Gens : OneCall(g)
  /\ \A c \in Closers : CloserKnows(c)
  /\ \A g \in closed : loop[g] = "exited"

-----------------------------------------------------------------------------
USE MaxGenAssumption, HasReloadAssumption DEF Gens

(* A task that was never started has the invariant.                       *)
LEMMA InitIInv == Init => IInv
BY DEF Init, IInv, TypeOK, LoopStates, OthersOver, OneCall, InExecute,
       CloserKnows

(* Steps of the loop of one generation: the task, the closers and the      *)
(* other loops stay as they are, and this loop ends only from its select.  *)
LEMMA LoopStepIInv ==
  ASSUME IInv, NEW g \in Gens,
         LoopStep(g) \/ TimerFires(g) \/ RunReturns(g) \/ DeadlineExpires(g)
  PROVE  IInv'
<1> USE DEF IInv, TypeOK, LoopStates, OthersOver, OneCall, InExecute,
            CloserKnows, taskVars, runVars, closeVars
<1>1. CASE BeginRun(g) BY <1>1 DEF BeginRun
<1>2. CASE TakeResult(g) BY <1>2 DEF TakeResult, EndRun
<1>3. CASE TakeDone(g) BY <1>3 DEF TakeDone
<1>4. CASE PostReload(g) BY <1>4 DEF PostReload
<1>5. CASE Drain(g) BY <1>5 DEF Drain, EndRun
<1>6. CASE LoopExits(g) BY <1>6 DEF LoopExits
<1>7. CASE TimerFires(g) BY <1>7 DEF TimerFires
<1>8. CASE RunReturns(g) BY <1>8 DEF RunReturns
<1>9. CASE DeadlineExpires(g) BY <1>9 DEF DeadlineExpires
<1>10. QED
  BY <1>1, <1>2, <1>3, <1>4, <1>5, <1>6, <1>7, <1>8, <1>9 DEF LoopStep

(* Steps of one closer: it clears only a generation it has seen end.       *)
LEMMA CloseStepIInv ==
  ASSUME IInv, NEW c \in Closers, CloseStep(c)
  PROVE  IInv'
<1> USE DEF IInv, TypeOK, LoopStates, OthersOver, OneCall, InExecute,
            CloserKnows, taskVars, runVars, closeVars
<1>1. CASE CloseReads(c) BY <1>1 DEF CloseReads
<1>2. CASE CloseCancels(c) BY <1>2 DEF CloseCancels
<1>3. CASE CloseWaits(c) BY <1>3 DEF CloseWaits
<1>4. CASE CloseClears(c)
  <2> USE <1>4 DEF CloseClears
  <2>1. mine[c] \in Gens /\ mine[c] <= started /\ loop[mine[c]] = "exited"
    OBVIOUS
  <2>2. OthersOver'
    BY <2>1
  <2>3. \A g \in closed' : loop'[g] = "exited"
    BY <2>1
  <2>4. TypeOK'
    <3>1. cur' \in 0..MaxGen
      OBVIOUS
    <3>2. closed' \in SUBSET Gens
      <4>1. closed \subseteq Gens /\ closed' = closed \cup {mine[c]}
        OBVIOUS
      <4>2. QED BY <2>1, <4>1, Zenon
    <3>3. closer' \in [Closers -> {"out", "cancel", "wait", "clear"}]
      OBVIOUS
    <3>4. QED BY <3>1, <3>2, <3>3
  <2>5. \A g \in Gens : OneCall(g)'
    OBVIOUS
  <2>6. \A d \in Closers : CloserKnows(d)'
    OBVIOUS
  <2>7. QED BY <2>2, <2>3, <2>4, <2>5, <2>6
<1>5. QED BY <1>1, <1>2, <1>3, <1>4 DEF CloseStep

(* A new generation begins only when every earlier one is over.            *)
LEMMA StartIInv ==
  ASSUME IInv, NEW first \in BOOLEAN, Start(first)
  PROVE  IInv'
BY DEF IInv, TypeOK, LoopStates, OthersOver, OneCall, InExecute, CloserKnows,
       taskVars, runVars, closeVars, Start

(* Every step of the task, its callers and its reader keeps the invariant. *)
LEMMA NextIInv == IInv /\ [Next]_vars => IInv'
<1> SUFFICES ASSUME IInv, [Next]_vars PROVE IInv'
  OBVIOUS
<1>1. CASE TakeReload
  BY <1>1 DEF TakeReload, IInv, TypeOK, LoopStates, OthersOver, OneCall,
              InExecute, CloserKnows, taskVars, runVars, closeVars
<1>2. CASE UNCHANGED vars
  BY <1>2 DEF vars, IInv, TypeOK, LoopStates, OthersOver, OneCall, InExecute,
              CloserKnows
<1>3. QED
  BY <1>1, <1>2, StartIInv, LoopStepIInv, CloseStepIInv DEF Next

(* The inductive invariant of Start, the loop, execute and Close.          *)
THEOREM InductiveInvariant == Spec => []IInv
BY InitIInv, NextIInv, PTL DEF Spec

-----------------------------------------------------------------------------
(* Every variable keeps its type and ReloadCh never holds more than its    *)
(* one signal, for any number of closers and starts.                       *)
THEOREM TypeCorrect == Spec => []TypeOK
<1>1. IInv => TypeOK BY DEF IInv
<1>2. QED BY <1>1, InductiveInvariant, PTL

(* At most one call of t.Execute is under way, over all generations: the   *)
(* promise of the comment at the end of execute.                           *)
THEOREM RunsNeverOverlap == Spec => []NoOverlap
<1>1. IInv => NoOverlap
  <2> SUFFICES ASSUME IInv PROVE NoOverlap
    OBVIOUS
  <2>1. \A g \in Gens : running[g] > 0 => InExecute(g) /\ running[g] = 1
    BY DEF IInv, TypeOK, OneCall
  <2>2. ASSUME NEW g \in Gens, InExecute(g) PROVE g = cur
    <3>1. loop[g] # "none" /\ loop[g] # "exited"
      BY <2>2 DEF InExecute
    <3>2. g <= started
      BY <3>1 DEF IInv, TypeOK, OthersOver
    <3>3. QED BY <3>1, <3>2 DEF IInv, OthersOver
  <2>3. \A g \in Gens : running[g] <= 1
    BY <2>1 DEF IInv, TypeOK
  <2>4. QED BY <2>1, <2>2, <2>3 DEF NoOverlap
<1>2. QED BY <1>1, InductiveInvariant, PTL

(* After Close returned nothing of the closed generation runs.             *)
THEOREM CloseIsABarrier == Spec => []QuietAfterClose
<1>1. IInv => QuietAfterClose
  BY DEF IInv, TypeOK, OneCall, InExecute, QuietAfterClose
<1>2. QED BY <1>1, InductiveInvariant, PTL

(* No loop escapes t.cancel: racing closers never lose a restarted task.   *)
THEOREM EveryLoopIsReachable == Spec => []NoOrphan
<1>1. IInv => NoOrphan
  BY DEF IInv, TypeOK, OthersOver, NoOrphan
<1>2. QED BY <1>1, InductiveInvariant, PTL

-----------------------------------------------------------------------------
(* The contract. A task that was started again is about the last start     *)
(* only, and whoever cancelled a loop is still waiting for its end.        *)
Latest == cur \in {0, started}
Awaited ==
  \A g \in Gens : cancelled[g] /\ loop[g] # "exited" =>
    \E c \in Closers : closer[c] = "wait" /\ mine[c] = g

CInv == IInv /\ Latest /\ Awaited

(* The phase of a task is that of the generation t.cancel reaches.         *)
LEMMA PhaseOfCurrent ==
  ASSUME IInv
  PROVE  /\ \A g \in Gens : running[g] > 0 => Phase = "busy"
         /\ (\A g \in Gens : loop[g] \in {"none", "exited"}) => Phase = "off"
         /\ \A g \in Gens : /\ loop[g] \notin {"none", "exited"} /\ running[g] = 0
                            => g = cur /\ Phase = "idle"
<1>1. \A g \in Gens : running[g] > 0 => InExecute(g)
  BY DEF IInv, TypeOK, OneCall
<1>2. \A g \in Gens : loop[g] \notin {"none", "exited"} => g = cur
  BY DEF IInv, TypeOK, OthersOver
<1>3. \A g \in Gens : running[g] > 0 => Phase = "busy"
  BY DEF Phase
<1>4. ASSUME \A g \in Gens : loop[g] \in {"none", "exited"} PROVE Phase = "off"
  <2>1. ~ \E g \in Gens : running[g] > 0
    BY <1>1, <1>4 DEF InExecute
  <2>2. QED BY <2>1, <1>4 DEF Phase
<1>5. ASSUME NEW g \in Gens, loop[g] \notin {"none", "exited"}, running[g] = 0
      PROVE  g = cur /\ Phase = "idle"
  <2>1. g = cur
    BY <1>2, <1>5
  <2>2. ~ \E h \in Gens : running[h] > 0
    <3>1. \A h \in Gens : running[h] > 0 => h = cur
      BY <1>1, <1>2 DEF InExecute
    <3>2. QED BY <3>1, <2>1, <1>5
  <2>3. QED BY <2>1, <2>2, <1>5 DEF Phase
<1>6. QED BY <1>3, <1>4, <1>5

(* Every step keeps the latest start and the waiting of the closers.       *)
LEMMA NextCInv == CInv /\ [Next]_vars => CInv'
<1> SUFFICES ASSUME CInv, [Next]_vars PROVE Latest' /\ Awaited'
  BY NextIInv DEF CInv
<1> USE DEF CInv, IInv, TypeOK, OthersOver, CloserKnows, Latest, Awaited,
            taskVars, runVars, closeVars
<1>1. ASSUME NEW first \in BOOLEAN, Start(first) PROVE Latest' /\ Awaited'
  <2>1. started' \in Gens /\ loop[started'] = "none" /\ loop' = [loop EXCEPT ![started'] = IF first THEN "first" ELSE "select"]
    BY <1>1 DEF Start
  <2>2. ~cancelled[started']
    <3>1. started' = started + 1 /\ started \in Nat
      BY <1>1 DEF Start
    <3>2. \A c \in Closers : closer[c] = "wait" => mine[c] # started'
      BY <3>1
    <3>3. QED BY <2>1, <3>2
  <2>3. Awaited'
    BY <2>1, <2>2, <1>1 DEF Start
  <2>4. QED BY <2>3, <1>1 DEF Start
<1>2. ASSUME NEW g \in Gens,
             LoopStep(g) \/ TimerFires(g) \/ RunReturns(g) \/ DeadlineExpires(g)
      PROVE  Latest' /\ Awaited'
  <2>1. /\ UNCHANGED <<cur, started, cancelled, closer, mine>>
        /\ \A h \in Gens : loop[h] = "exited" => loop'[h] = "exited"
    BY <1>2 DEF LoopStep, BeginRun, TakeResult, TakeDone, PostReload, Drain, EndRun,
                LoopExits, TimerFires, RunReturns, DeadlineExpires
  <2>2. QED BY <2>1
<1>3. ASSUME NEW c \in Closers, CloseStep(c) PROVE Latest' /\ Awaited'
  <2>1. CASE CloseReads(c)   BY <2>1 DEF CloseReads
  <2>2. CASE CloseCancels(c) BY <2>2 DEF CloseCancels
  <2>3. CASE CloseWaits(c)   BY <2>3 DEF CloseWaits
  <2>4. CASE CloseClears(c)  BY <2>4 DEF CloseClears
  <2>5. QED BY <1>3, <2>1, <2>2, <2>3, <2>4 DEF CloseStep
<1>4. CASE TakeReload     BY <1>4 DEF TakeReload
<1>5. CASE UNCHANGED vars BY <1>5 DEF vars
<1>6. QED BY <1>1, <1>2, <1>3, <1>4, <1>5 DEF Next

(* A step that leaves the contract alone.                                  *)
LEMMA QuietContract ==
  ASSUME UNCHANGED <<loop, running, started, closer, mine>>
  PROVE  UNCHANGED Contract!contract
BY DEF Contract!contract, Phase

(* Start: the task was off.                                                *)
LEMMA StartContract ==
  ASSUME CInv, NEW first \in BOOLEAN, Start(first)
  PROVE  Contract!Start
<1>1. IInv /\ IInv'
  BY NextCInv, NextIInv DEF CInv, Next
<1>2. Phase = "off"
  <2>1. \A g \in Gens : loop[g] \in {"none", "exited"}
    BY DEF CInv, IInv, TypeOK, OthersOver, Start
  <2>2. QED BY <1>1, <2>1, PhaseOfCurrent
<1>3. Phase' = "idle"
  <2>1. started' \in Gens /\ started' = started + 1 /\ loop[started'] = "none"
        /\ loop'[started'] \in {"first", "select"}
    BY DEF CInv, IInv, TypeOK, OthersOver, Start
  <2>2. running'[started'] = 0
    BY <2>1 DEF CInv, IInv, OneCall, InExecute, Start, runVars
  <2>3. \E g \in Gens : loop'[g] \notin {"none", "exited"}
    BY <2>1
  <2>4. ~ \E g \in Gens : running'[g] > 0
    <3>1. \A g \in Gens : loop[g] \in {"none", "exited"}
      BY DEF CInv, IInv, TypeOK, OthersOver, Start
    <3>2. \A g \in Gens : running[g] = 0
      BY <3>1 DEF CInv, IInv, OneCall, InExecute
    <3>3. QED BY <3>2 DEF Start, runVars
  <2>5. QED BY <2>3, <2>4 DEF Phase
<1>4. QED BY <1>2, <1>3 DEF Start, closeVars, Contract!Start

(* Steps of the loop: runs begin and end one after the other, and the loop *)
(* ends for somebody who waits for it.                                     *)
LEMMA LoopContract ==
  ASSUME CInv, NEW g \in Gens,
         LoopStep(g) \/ TimerFires(g) \/ RunReturns(g) \/ DeadlineExpires(g)
  PROVE  Contract!Next \/ UNCHANGED Contract!contract
<1>1. IInv /\ IInv'
  BY NextIInv DEF CInv, Next
<1>0. loop \in [Gens -> LoopStates] /\ running \in [Gens -> Nat]
  BY DEF CInv, IInv, TypeOK
<1>2. CASE BeginRun(g)
  <2>1. loop[g] \notin {"none", "exited"} /\ running[g] = 0 /\ running'[g] > 0
    BY <1>0, <1>2 DEF CInv, IInv, OneCall, InExecute, BeginRun
  <2>2. Phase = "idle" /\ Phase' = "busy"
    <3>1. Phase = "idle"
      BY <2>1, <1>1, PhaseOfCurrent
    <3>2. Phase' = "busy"
      BY <2>1 DEF Phase
    <3>3. QED BY <3>1, <3>2
  <2>3. QED BY <2>2, <1>2 DEF BeginRun, taskVars, closeVars, Contract!Begin, Contract!Next
<1>3. CASE RunReturns(g)
  <2>1. running[g] > 0 /\ running'[g] = 0 /\ loop'[g] \notin {"none", "exited"}
    BY <1>0, <1>3 DEF CInv, IInv, OneCall, InExecute, RunReturns
  <2>2. Phase = "busy" /\ Phase' = "idle"
    <3>1. Phase = "busy"
      BY <2>1, <1>1, PhaseOfCurrent
    <3>2. \A h \in Gens : h # g => running'[h] = 0
      <4>1. \A h \in Gens : running[h] > 0 => h = cur
        BY DEF CInv, IInv, TypeOK, OthersOver, OneCall, InExecute
      <4>2. g = cur
        BY <2>1, <4>1
      <4>3. QED BY <4>1, <4>2, <1>0, <1>3 DEF RunReturns
    <3>3. Phase' = "idle"
      BY <3>2, <2>1 DEF Phase
    <3>4. QED BY <3>1, <3>3
  <2>3. QED BY <2>2, <1>3 DEF RunReturns, taskVars, closeVars, Contract!End, Contract!Next
<1>4. CASE LoopExits(g)
  <2>1. loop[g] = "select" /\ running[g] = 0 /\ cancelled[g]
    BY <1>4 DEF CInv, IInv, OneCall, InExecute, LoopExits
  <2>2. Phase = "idle" /\ g = cur
    BY <2>1, <1>1, PhaseOfCurrent
  <2>3. Phase' = "off"
    <3>1. \A h \in Gens : h # g => loop[h] \in {"none", "exited"}
      BY <2>2 DEF CInv, IInv, TypeOK, OthersOver
    <3>2. \A h \in Gens : loop'[h] \in {"none", "exited"} /\ running'[h] = 0
      BY <3>1, <2>1, <1>0, <1>4 DEF LoopExits, runVars, CInv, IInv, OneCall, InExecute
    <3>3. QED BY <3>2 DEF Phase
  <2>4. g = started
    BY <2>2 DEF CInv, Latest
  <2>5. PICK c \in Closers : closer[c] = "wait" /\ mine[c] = g
    BY <2>1 DEF CInv, Awaited
  <2>6. QED
    BY <2>2, <2>3, <2>4, <2>5, <1>4 DEF LoopExits, taskVars, closeVars,
       Contract!Stop, Contract!Next
<1>5. CASE \/ TakeResult(g) \/ TakeDone(g) \/ PostReload(g) \/ Drain(g)
           \/ TimerFires(g) \/ DeadlineExpires(g)
  <2>1. /\ UNCHANGED <<running, started, closer, mine>>
        /\ \A h \in Gens : loop'[h] \in {"none", "exited"} <=> loop[h] \in {"none", "exited"}
    BY <1>0, <1>5 DEF TakeResult, TakeDone, PostReload, Drain, EndRun, TimerFires,
       DeadlineExpires, taskVars, runVars, closeVars
  <2>2. Phase' = Phase
    BY <2>1 DEF Phase
  <2>3. QED BY <2>1, <2>2 DEF Contract!contract
<1>6. QED BY <1>2, <1>3, <1>4, <1>5 DEF LoopStep

(* Steps of one closer: it asks for the last start, and returns after its  *)
(* end.                                                                    *)
LEMMA CloseContract ==
  ASSUME CInv, NEW c \in Closers, CloseStep(c)
  PROVE  Contract!Next \/ UNCHANGED Contract!contract
<1> DEFINE asked == [d \in Closers |-> IF closer[d] = "out" THEN 0 ELSE mine[d]]
<1>0. /\ closer \in [Closers -> {"out", "cancel", "wait", "clear"}]
      /\ mine \in [Closers -> 0..MaxGen]
  BY DEF CInv, IInv, TypeOK
<1>1. UNCHANGED <<loop, running, started>>
  BY DEF CloseStep, CloseReads, CloseCancels, CloseWaits, CloseClears, taskVars, runVars
<1>2. Phase' = Phase
  BY <1>1 DEF Phase
<1>3. CASE CloseReads(c)
  <2>1. asked[c] = 0 /\ started # 0 /\ asked' = [asked EXCEPT ![c] = started]
    BY <1>0, <1>3 DEF CloseReads, CInv, Latest, IInv, TypeOK
  <2>2. QED BY <2>1, <1>1, <1>2 DEF Contract!Ask, Contract!Next
<1>4. CASE CloseClears(c)
  <2>1. asked[c] # 0 /\ asked' = [asked EXCEPT ![c] = 0]
    <3>1. closer[c] = "clear" /\ closer' = [closer EXCEPT ![c] = "out"] /\ mine' = mine
      BY <1>4 DEF CloseClears
    <3>2. mine[c] # 0
      BY <3>1 DEF CInv, IInv, TypeOK, CloserKnows
    <3>3. QED BY <1>0, <3>1, <3>2
  <2>2. asked[c] = started => Phase = "off"
    <3> SUFFICES ASSUME mine[c] = started PROVE Phase = "off"
      BY <1>4 DEF CloseClears
    <3>1. loop[started] = "exited" /\ started \in Gens
      BY <1>4 DEF CloseClears, CInv, IInv, TypeOK, CloserKnows
    <3>2. \A g \in Gens : loop[g] \in {"none", "exited"}
      BY <3>1 DEF CInv, Latest, IInv, TypeOK, OthersOver
    <3>3. IInv
      BY DEF CInv
    <3>4. QED BY <3>2, <3>3, PhaseOfCurrent
  <2>3. QED BY <2>1, <2>2, <1>1, <1>2 DEF Contract!Return, Contract!Next
<1>5. CASE CloseCancels(c) \/ CloseWaits(c)
  <2>1. asked' = asked
    BY <1>0, <1>5 DEF CloseCancels, CloseWaits
  <2>2. QED BY <2>1, <1>1, <1>2 DEF Contract!contract
<1>6. QED BY <1>3, <1>4, <1>5 DEF CloseStep

(* Task implements the contract of its users, step by step: however many   *)
(* goroutines start and close it, its runs come one at a time, it ends     *)
(* only between two of them and for a Close, and a Close returns only      *)
(* after the end of what it was called for.                                *)
THEOREM ImplementsContract == Spec => ContractSpec
<1>1. Init => CInv /\ Contract!Init
  BY InitIInv DEF Init, CInv, Latest, Awaited, Contract!Init, Phase
<1>2. CInv /\ [Next]_vars => CInv'
  BY NextCInv
<1>3. CInv /\ [Next]_vars => [Contract!Next]_(Contract!contract)
  <2> SUFFICES ASSUME CInv, [Next]_vars
               PROVE  Contract!Next \/ UNCHANGED Contract!contract
    OBVIOUS
  <2>1. CASE TakeReload
    BY <2>1, QuietContract DEF TakeReload, taskVars, runVars, closeVars
  <2>2. CASE UNCHANGED vars
    BY <2>2, QuietContract DEF vars
  <2>3. ASSUME NEW first \in BOOLEAN, Start(first) PROVE Contract!Next
    BY <2>3, StartContract DEF Contract!Next
  <2>4. QED BY <2>1, <2>2, <2>3, LoopContract, CloseContract DEF Next
<1>4. QED BY <1>1, <1>2, <1>3, PTL DEF Spec, ContractSpec, Contract!Spec

(* Of the contract, what the main goroutine of Reload relies on.           *)
THEOREM PhasesOfATask == Spec => Contract!PhaseSpec
<1>1. Contract!Init => Phase = "off"
  BY DEF Contract!Init
<1>2. [Contract!Next]_(Contract!contract) => [Contract!Moved]_Phase
  BY DEF Contract!Next, Contract!Start, Contract!Begin, Contract!End, Contract!Stop,
         Contract!Ask, Contract!Return, Contract!contract, Contract!Moves, Contract!Moved
<1>3. QED
  BY <1>1, <1>2, ImplementsContract, PTL DEF ContractSpec, Contract!Spec, Contract!PhaseSpec
=============================================================================
