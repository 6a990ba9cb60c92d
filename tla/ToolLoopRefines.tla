-------------------------- MODULE ToolLoopRefines --------------------------
(* The tool loop implements the contract of ToolPassthrough: what the agent *)
(* and the client know of a call, read off the state of the adapter.        *)
EXTENDS ToolLoop

AgentView == [c \in Calls |->
    CASE tool[c] = "idle" -> "idle"
      [] tool[c] \in {"parked", "waiting"} -> "waiting"
      [] tool[c] = "answered" -> "answered"
      [] OTHER -> "failed"]

\* A call handed out in an answer that was dropped, or one whose run died
\* before it was taken, is lost.
ClientView == [c \in Calls |->
    CASE c \in Executed -> "executed"
      [] c \notin Executed /\ c \in open \cup UNION {handed[r] : r \in Requests} -> "offered"
      [] OTHER -> IF \/ callToRun[c] # None
                     \/ owner[c] # None /\ phase[owner[c]] = "dead"
                  THEN "lost" ELSE "unseen"]

Contract == INSTANCE ToolPassthrough WITH
    agent <- AgentView, seen <- ClientView, MayCrash <- MaxRestarts > 0

\* The adapter implements the contract: the agent is answered only by results
\* the client produced, each call is offered to the client at most once, and a
\* call that failed stays failed.
ImplementsContract == Contract!Spec
=============================================================================
