--------------------------- MODULE MCCrashDaemon ---------------------------
(***************************************************************************)
(* CrashDaemon on small instances for TLC.                                 *)
(***************************************************************************)
EXTENDS CrashDaemon

\* One program has every bug: it reaches its limit with crashes of both.
OneProgram == [s \in Signature |-> "a"]
=============================================================================
