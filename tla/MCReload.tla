------------------------------ MODULE MCReload ------------------------------
(* Constants of Reload for TLC: the second version drops a protocol and    *)
(* keeps one, whose port both instances want.                              *)
EXTENDS Reload

CONSTANTS p1, p2
MCProtocols == {p1, p2}
MCEnabled == <<{p1, p2}, {p2}>>
=============================================================================
