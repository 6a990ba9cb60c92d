--------------------------- MODULE MCToolLoopLive ---------------------------
(* What eventually happens in the tool loop.  Threads run on; in half of    *)
(* the behaviours the two timeouts are sure to expire, in the others they   *)
(* may and nobody can rely on it.  Liveness allows no symmetry.             *)
EXTENDS ToolLoop

VARIABLE timed         \* whether timers are sure to expire

\* PollExpires and Deadline alternate: a deadline that has passed stays passed,
\* so a handler that comes back to the loop's head again and again leaves it.
TimerFairness ==
    /\ \A r \in Requests : SF_vars(timed /\ Deadline(r))
    /\ \A c \in Calls : WF_vars(timed /\ ToolTimeout(c))

LiveSpec ==
    /\ Init /\ timed \in BOOLEAN
    /\ [][Next /\ UNCHANGED timed]_<<vars, timed>>
    /\ ThreadFairness /\ TimerFairness

\* With timers, every handler of a request with tools answers, whatever the SDK
\* does, since its wait has a deadline.
RequestsAnswered ==
    \A r \in Requests : timed /\ pc[r] = "posted" ~> pc[r] \in {"replied", "idle"}

\* With timers, every tool callback returns to the SDK, whatever the client does.
ToolCallsReturn == \A c \in Calls : timed /\ tool[c] = "parked" ~> tool[c] \in Returned

\* The runner's end releases its callbacks without waiting for their timeouts.
EndReleasesCalls ==
    \A n \in Runs : phase[n] = "finished" ~> \A c \in CallsOf(n) : tool[c] \in Returned

\* The runner's end is seen by the handlers that wait for it without waiting
\* for their deadlines.
EndReleasesHandlers ==
    \A n \in Runs, r \in Requests :
        phase[n] = "finished" /\ Waiting(r) /\ active[r] = n ~> ~Waiting(r)
=============================================================================
