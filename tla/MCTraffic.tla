----------------------------- MODULE MCTraffic ------------------------------
(* Constants of Traffic for TLC: one account on each of two controllers.   *)
EXTENDS Traffic

CONSTANTS a1, a2, d1, d2
MCAccounts == {a1, a2}
MCDests == {d1, d2}
MCDest == [a \in MCAccounts |-> IF a = a1 THEN d1 ELSE d2]
MCMaxBytes == [a \in MCAccounts |-> IF a = a1 THEN 2 ELSE 1]
=============================================================================
