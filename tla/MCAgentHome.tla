----------------------------- MODULE MCAgentHome -----------------------------
EXTENDS AgentHome

Symmetry == Permutations(Procs) \cup Permutations(Agents)
=============================================================================
