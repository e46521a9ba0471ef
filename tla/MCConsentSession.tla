-------------------------- MODULE MCConsentSession --------------------------
(***************************************************************************)
(* ConsentSession on small instances for TLC.                              *)
(***************************************************************************)
EXTENDS ConsentSession, TLC

\* Signatures and front ends are interchangeable.
Symmetry == Permutations(Signature) \cup Permutations(FrontEnd)
=============================================================================
