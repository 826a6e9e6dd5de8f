---------------------------- MODULE MCSelfUpdate ----------------------------
(* Constants of SelfUpdate for TLC: an installed and a newer release.      *)
EXTENDS SelfUpdate

MCVersions == {"v1", "v2"}
=============================================================================
