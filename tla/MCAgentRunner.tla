---------------------------- MODULE MCAgentRunner ----------------------------
EXTENDS AgentRunner, TLC

\* The default order, with all agents but its last; an order that was edited and
\* leaves one out.
MCRegistries == {
    [order |-> <<"claude-code", "cursor", "hermes">>, installed |-> {"claude-code", "cursor"}],
    [order |-> <<"cursor", "claude-code">>, installed |-> Agents]}

Symmetry == Permutations(Runs)
=============================================================================
