------------------------ MODULE BatchImageLifecycleMC ------------------------
(* Model-checking instance of BatchImageLifecycle. *)
EXTENDS BatchImageLifecycle, TLC

\* workers and batches are interchangeable; used by safety runs only
Symmetry == Permutations(Workers) \union Permutations(Batches)
=============================================================================
