------------------------------ MODULE MCLinks -------------------------------
(* Constants of Links for TLC. Every table is keyed by the user and the    *)
(* monitor treats users one after the other, so one user shows what there  *)
(* is: two connections from two addresses, one of which calls DispatchLink.*)
EXTENDS Links

CONSTANTS u1, c1, c2, ip1, ip2
MCUsers == {u1}
MCConns == {c1, c2}
MCUser == [c \in MCConns |-> u1]
MCIp == [c \in MCConns |-> IF c = c1 THEN ip1 ELSE ip2]
MCDevice == [u \in MCUsers |-> 1]
=============================================================================
