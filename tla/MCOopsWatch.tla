---------------------------- MODULE MCOopsWatch ----------------------------
(* OopsWatch for TLC: the bounds are in the configurations. *)
EXTENDS OopsWatch
=============================================================================
