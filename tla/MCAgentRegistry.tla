--------------------------- MODULE MCAgentRegistry ---------------------------
(* AgentRegistry with the scopes and the symmetry of the TLC runs. *)
EXTENDS AgentRegistry, TLC

AnyScope == (SUBSET Agents) \ {{}}

Symmetry == Permutations(Agents) \cup Permutations(Requests)
=============================================================================
