----------------------------- MODULE MCHandoff -----------------------------
(* Handoff on small sets for TLC.                                          *)
EXTENDS Handoff, TLC

Symmetry == Permutations(Procs) \cup Permutations(ReceiptIds)
=============================================================================
