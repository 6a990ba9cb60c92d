-------------------------- MODULE ToolPassthrough --------------------------
(***************************************************************************)
(* What the tool loop promises about one tool call at a time, to its two   *)
(* ends: the agent that makes the call and the client that executes it.    *)
(* The adapter may lose a call, or fail it, but it never asks the client   *)
(* twice and never makes up an answer.                                     *)
(***************************************************************************)
CONSTANTS Calls, MayCrash

VARIABLES
    agent,  \* call -> what the agent knows
    seen    \* call -> what the client knows

Init ==
    /\ agent = [c \in Calls |-> "idle"]
    /\ seen = [c \in Calls |-> "unseen"]

Invoke(c) ==
    /\ agent[c] = "idle"
    /\ agent' = [agent EXCEPT ![c] = "waiting"]
    /\ UNCHANGED seen

\* An answer to the client carries one or more calls it has not seen.
Offer(S) ==
    /\ S # {}
    /\ \A c \in S : seen[c] = "unseen" /\ agent[c] # "idle"
    /\ seen' = [c \in Calls |-> IF c \in S THEN "offered" ELSE seen[c]]
    /\ UNCHANGED agent

\* An answer nobody receives: the calls in it are never offered again.
Lose(S) ==
    /\ S # {}
    /\ \A c \in S : seen[c] = "offered"
    /\ seen' = [c \in Calls |-> IF c \in S THEN "lost" ELSE seen[c]]
    /\ UNCHANGED agent

Execute(c) ==
    /\ seen[c] = "offered"
    /\ seen' = [seen EXCEPT ![c] = "executed"]
    /\ UNCHANGED agent

\* The agent gets an answer only to a call the client executed.
Answer(c) ==
    /\ agent[c] = "waiting"
    /\ seen[c] = "executed"
    /\ agent' = [agent EXCEPT ![c] = "answered"]
    /\ UNCHANGED seen

Fail(c) ==
    /\ agent[c] = "waiting"
    /\ agent' = [agent EXCEPT ![c] = "failed"]
    /\ UNCHANGED seen

Crash ==
    /\ MayCrash
    /\ agent' = [c \in Calls |-> IF agent[c] = "waiting" THEN "failed" ELSE agent[c]]
    /\ seen' = [c \in Calls |-> IF seen[c] = "unseen" /\ agent[c] # "idle" THEN "lost"
                                ELSE seen[c]]

Next ==
    \/ \E c \in Calls : Invoke(c) \/ Execute(c) \/ Answer(c) \/ Fail(c)
    \/ \E S \in SUBSET Calls : Offer(S) \/ Lose(S)
    \/ Crash

Spec == Init /\ [][Next]_<<agent, seen>>
=============================================================================
