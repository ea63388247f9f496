--------------------------- MODULE BatchImageCosts ---------------------------
(* What the ledger and the job table share besides the batch ids. *)
EXTENDS BatchImageIds, Integers

CONSTANT Costs      \* what a batch may turn out to cost, in units of money

ASSUME CostsAssumption == Costs \subseteq Nat /\ None \notin Costs
=============================================================================
