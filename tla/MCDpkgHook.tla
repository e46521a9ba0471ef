---------------------------- MODULE MCDpkgHook ----------------------------
(* DpkgHook for TLC: packages differ in nothing. *)
EXTENDS DpkgHook, TLC

Symmetry == Permutations(Package)
=============================================================================
