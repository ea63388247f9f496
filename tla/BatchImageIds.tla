---------------------------- MODULE BatchImageIds ----------------------------
(* The names every part of the batch image subsystem shares. *)
EXTENDS FiniteSets

CONSTANTS
    Batches,        \* batch ids
    None            \* no batch, no cost

ASSUME IdsAssumption == IsFiniteSet(Batches) /\ None \notin Batches
=============================================================================
