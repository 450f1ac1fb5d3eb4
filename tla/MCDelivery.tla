----------------------------- MODULE MCDelivery -----------------------------
(* DeliveryJournal on small sets for TLC.                                  *)
EXTENDS DeliveryJournal, TLC

Symmetry == Permutations(Calls) \cup Permutations(Texts) \cup Permutations(Bindings)
=============================================================================
