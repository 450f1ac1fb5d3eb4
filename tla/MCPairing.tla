----------------------------- MODULE MCPairing -----------------------------
(* Model checking of Pairing on small instances.                           *)
EXTENDS Pairing
=============================================================================
