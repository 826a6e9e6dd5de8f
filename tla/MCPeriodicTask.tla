--------------------------- MODULE MCPeriodicTask ---------------------------
(* Constants of PeriodicTask for TLC.                                      *)
EXTENDS PeriodicTask

CONSTANTS c1, c2
MCClosers == {c1, c2}
=============================================================================
