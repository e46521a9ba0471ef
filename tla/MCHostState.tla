---------------------------- MODULE MCHostState ----------------------------
(* HostState for TLC: no constant needs more than its configuration. *)
EXTENDS HostState
=============================================================================
