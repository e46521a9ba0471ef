--------------------------- MODULE MCIngestServer ---------------------------
(***************************************************************************)
(* IngestServer on small instances for TLC.                                *)
(***************************************************************************)
EXTENDS IngestServer, TLC

\* Signatures, event ids, report ids and tasks are interchangeable.
Symmetry ==
    Permutations(Signature) \cup Permutations(Event)
        \cup Permutations(Report) \cup Permutations(Handler)
=============================================================================
