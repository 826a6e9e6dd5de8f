---------------------------- MODULE TaskContract ----------------------------
(***************************************************************************)
(* What whoever uses a periodic task relies on (common/task/task.go): the  *)
(* task is off, idle or busy, one thing at a time. It ends only between    *)
(* two runs and only when somebody asked, and a Close that returns has     *)
(* seen the end of what it asked for; what was started since goes on.      *)
(***************************************************************************)
EXTENDS Naturals

CONSTANT Closers

VARIABLES
  phase,  \* "off", "idle" or "busy"
  starts, \* how many times it was started
  asked   \* which start each Close under way is about, 0 for none

contract == <<phase, starts, asked>>

Init ==
  /\ phase = "off"
  /\ starts = 0
  /\ asked = [c \in Closers |-> 0]

Start ==
  /\ phase = "off" /\ phase' = "idle"
  /\ starts' = starts + 1
  /\ UNCHANGED asked

Begin == phase = "idle" /\ phase' = "busy" /\ UNCHANGED <<starts, asked>>
End == phase = "busy" /\ phase' = "idle" /\ UNCHANGED <<starts, asked>>

(* A Close begins, of what was started last.                               *)
Ask(c) ==
  /\ asked[c] = 0 /\ starts # 0
  /\ asked' = [asked EXCEPT ![c] = starts]
  /\ UNCHANGED <<phase, starts>>

Stop ==
  /\ phase = "idle" /\ phase' = "off"
  /\ \E c \in Closers : asked[c] = starts
  /\ UNCHANGED <<starts, asked>>

(* A Close returns.                                                        *)
Return(c) ==
  /\ asked[c] # 0
  /\ asked[c] = starts => phase = "off"
  /\ asked' = [asked EXCEPT ![c] = 0]
  /\ UNCHANGED <<phase, starts>>

Next == Start \/ Begin \/ End \/ Stop \/ \E c \in Closers : Ask(c) \/ Return(c)

Spec == Init /\ [][Next]_contract

(* What main relies on, which calls Close in one step: the ways a task goes *)
(* from one phase to another.                                              *)
Moves == {<<"off", "idle">>, <<"idle", "busy">>, <<"busy", "idle">>, <<"idle", "off">>}
Moved == <<phase, phase'>> \in Moves
PhaseSpec == phase = "off" /\ [][Moved]_phase
=============================================================================
