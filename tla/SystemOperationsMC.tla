------------------------- MODULE SystemOperationsMC -------------------------
(* SystemOperations for TLC: requests, and administrators, are             *)
(* interchangeable.                                                        *)
EXTENDS SystemOperations, TLC

Symmetry == Permutations(Requests) \cup Permutations(Admins)
=============================================================================
