----------------------------- MODULE MCTrustTiers -----------------------------
(* TrustTiers with the scopes and the symmetry of the registry's TLC runs. *)
EXTENDS TrustTiers, MCAgentRegistry
=============================================================================
