----------------------------- MODULE MCUserSync -----------------------------
(* Constants of UserSync for TLC: two good users and one xray refuses.     *)
EXTENDS UserSync, TLC

CONSTANTS u1, u2, bad
MCUsers == {u1, u2, bad}
Slow == [speed |-> 1, device |-> 1]
Fast == [speed |-> 2, device |-> 1]
Many == [speed |-> 1, device |-> 2]
MCPlans == {Slow, Fast, Many}
MCLists == {
  <<>>,
  u1 :> Slow @@ u2 :> Slow,
  u1 :> Fast @@ u2 :> Slow,
  u1 :> Many @@ u2 :> Slow,
  u2 :> Slow,
  u2 :> Slow @@ bad :> Slow}
=============================================================================
