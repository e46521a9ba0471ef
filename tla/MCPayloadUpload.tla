--------------------------- MODULE MCPayloadUpload ---------------------------
(* PayloadUpload for TLC.  The unit of size is 256 KiB, MAX_INLINE_BYTES, so  *)
(* that the slack of 1 MiB is 4 and two texts make at most 2.                 *)
EXTENDS PayloadUpload, TLC

\* Uploads differ only in what they are given to upload, and crashes in nothing.
Symmetry == Permutations(Upload) \cup Permutations(Crash)
=============================================================================
