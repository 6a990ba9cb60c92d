-------------------------- MODULE MCInferenceGuard --------------------------
(* InferenceGuard for TLC: budget files small enough to be exhausted.       *)
EXTENDS InferenceGuard, TLC

CONSTANT a1

Caps == [per_session_tokens |-> 2, per_agent_daily_tokens |-> 3]
NoAgents == [a \in {} |-> Caps]

\* Caps for every agent.
Defaults == [enforce |-> TRUE, defaults |-> Caps, agents |-> NoAgents]
\* One agent with a session cap of its own.
OneAgent == [enforce |-> TRUE, defaults |-> Caps,
             agents |-> [a \in {a1} |-> [per_session_tokens |-> 3]]]
\* Caps that are not enforced.
Switched == [enforce |-> FALSE, defaults |-> Caps, agents |-> NoAgents]

CapFiles == {Defaults, OneAgent, Switched}
EditFiles == {Defaults, Switched}
Symmetry == Permutations(Requests)
=============================================================================
