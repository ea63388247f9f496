------------------------- MODULE BatchImageQueueMC -------------------------
(* Model-checking instance of BatchImageQueue. *)
EXTENDS BatchImageQueue, TLC

\* batches and workers are interchangeable; used by the safety run only
Symmetry == Permutations(Batches) \union Permutations(Workers)
=============================================================================
