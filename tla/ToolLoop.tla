------------------------------ MODULE ToolLoop ------------------------------
(***************************************************************************)
(* The tool loop of the adapter: the Cursor driver's tool runs             *)
(* (drivers/cursor.py), the sessions in which tool calls are parked        *)
(* (core/sessions.py), the threads of the HTTP handlers that wait for a    *)
(* run, the kill switch, and a client (Hermes) that holds a conversation.  *)
(*                                                                         *)
(* A run is a thread in which the Cursor SDK works on one user turn.  Each *)
(* tool call of the run is a callback in a thread of its own: it parks,    *)
(* pushes itself on the run's batch and waits for a result.  A handler     *)
(* thread delivers the results its request carries, then waits until the   *)
(* run has a batch of new calls, or is done, or a deadline passes.         *)
(*                                                                         *)
(* Abstractions: a tool result is just "result" (the client returns one    *)
(* result per call); names, arguments, models and texts are left out; a    *)
(* timeout may expire whenever its thread waits; tool-call ids are unique, *)
(* as the SDK's are taken to be.                                           *)
(***************************************************************************)
EXTENDS Naturals, Sequences

CONSTANTS
    Runs,         \* the runs, each identified with its session
    Calls,        \* tool calls
    Requests,     \* handler threads of the server's pool
    None,         \* no run, no request
    ToolModes,    \* whether requests carry tools: a set of Booleans
    MaxTurns,     \* bound: user turns of the conversation
    MaxAbandons,  \* bound: requests the client gives up on and sends again
    MaxKills,     \* bound: uses of the kill switch
    MaxRestarts,  \* bound: restarts of the adapter process
    MayExpire     \* whether sessions can outlive the store's TTL

ASSUME ConstantsAssumption ==
    /\ None \notin Runs \cup Requests
    /\ ToolModes \subseteq BOOLEAN
    /\ {MaxTurns, MaxAbandons, MaxKills, MaxRestarts} \subseteq Nat
    /\ MayExpire \in BOOLEAN

VARIABLES
    \* SessionStore and its sessions
    store,        \* sessions in SessionStore._sessions
    expired,      \* sessions older than the TTL
    closed,       \* ToolLoopSession.closed
    owner,        \* call -> session whose pending table holds it
    result,       \* call -> PendingToolCall.result; set together with event
    \* runs
    phase,        \* where the runner thread is
    outcome,      \* ActiveRun.final_text / ActiveRun.error
    turnOf,       \* the turn a run was started for
    batch,        \* ActiveRun.batch_tools
    batchEvent,   \* ActiveRun.batch_event
    doneEvent,    \* ActiveRun.done_event
    tool,         \* where the thread of a tool call is
    callToRun,    \* CursorDriver._call_to_run
    \* handler threads
    pc,           \* where a handler is
    reqTurn,      \* the turn its request belongs to
    withTools,    \* whether its request carries tools
    todo,         \* tool results of its request still to deliver
    active,       \* the run it resumed or started
    reply,        \* what it answers
    handed,       \* the tool calls it answers with
    \* the client
    client, turn, cur, open, hist, abandons,
    \* the kill switch and the process
    killed, killing, kills, restarts

sessionVars == <<store, expired, closed>>
callVars    == <<owner, result, tool>>
runVars     == <<phase, outcome, turnOf, batch, batchEvent, doneEvent>>
reqVars     == <<pc, reqTurn, withTools, todo, active, reply, handed>>
clientVars  == <<client, turn, cur, open, hist, abandons>>
adminVars   == <<killed, killing, kills, restarts>>
vars == <<sessionVars, callVars, runVars, callToRun, reqVars, clientVars, adminVars>>

Phases  == {"free", "running", "finished", "signalled", "ended", "dead"}
Tools   == {"idle", "parked", "waiting", "answered", "closed", "timedout", "lost"}
Results == {"none", "result", "closed"}
PCs     == {"idle", "posted", "admitted", "texting", "waiting", "coalescing",
            "checking", "replied"}
Replies == {"none", "tools", "stop", "cut", "error", "killed"}

Returned == {"answered", "closed", "timedout", "lost"}

\* ActiveRuns in CursorDriver._runs: entries are never removed.
Registered == {n \in Runs : phase[n] \in {"running", "finished", "signalled", "ended"}}
CallsOf(n) == {c \in Calls : owner[c] = n}

-----------------------------------------------------------------------------
Init ==
    /\ store = {}
    /\ expired = {}
    /\ closed = [n \in Runs |-> FALSE]
    /\ owner = [c \in Calls |-> None]
    /\ result = [c \in Calls |-> "none"]
    /\ phase = [n \in Runs |-> "free"]
    /\ outcome = [n \in Runs |-> "none"]
    /\ turnOf = [n \in Runs |-> 0]
    /\ batch = [n \in Runs |-> {}]
    /\ batchEvent = [n \in Runs |-> FALSE]
    /\ doneEvent = [n \in Runs |-> FALSE]
    /\ tool = [c \in Calls |-> "idle"]
    /\ callToRun = [c \in Calls |-> None]
    /\ pc = [r \in Requests |-> "idle"]
    /\ reqTurn = [r \in Requests |-> 0]
    /\ withTools = [r \in Requests |-> FALSE]
    /\ todo = [r \in Requests |-> <<>>]
    /\ active = [r \in Requests |-> None]
    /\ reply = [r \in Requests |-> "none"]
    /\ handed = [r \in Requests |-> {}]
    /\ client = "idle"
    /\ turn = 0
    /\ cur = None
    /\ open = {}
    /\ hist = <<>>
    /\ abandons = 0
    /\ killed = FALSE
    /\ killing = FALSE
    /\ kills = 0
    /\ restarts = 0

-----------------------------------------------------------------------------
(* The client.  It posts the whole conversation each time: the results of  *)
(* every tool call of every turn so far, in the order it ran them.         *)

Submit(r) ==
    /\ pc[r] = "idle"
    /\ pc' = [pc EXCEPT ![r] = "posted"]
    /\ reqTurn' = [reqTurn EXCEPT ![r] = turn']
    /\ \E t \in ToolModes : withTools' = [withTools EXCEPT ![r] = t]
    /\ todo' = [todo EXCEPT ![r] = hist]
    /\ cur' = r
    /\ client' = "awaiting"
    /\ UNCHANGED <<active, reply, handed>>

AskTurn(r) ==
    /\ client = "idle"
    /\ turn < MaxTurns
    /\ turn' = turn + 1
    /\ Submit(r)
    /\ UNCHANGED <<open, hist, abandons, sessionVars, callVars, runVars, callToRun, adminVars>>

ExecuteTool(c) ==
    /\ client = "executing"
    /\ c \in open
    /\ open' = open \ {c}
    /\ hist' = Append(hist, c)
    /\ UNCHANGED <<client, turn, cur, abandons, sessionVars, callVars, runVars, callToRun,
                   reqVars, adminVars>>

PostResults(r) ==
    /\ client = "executing"
    /\ open = {}
    /\ turn' = turn
    /\ Submit(r)
    /\ UNCHANGED <<open, hist, abandons, sessionVars, callVars, runVars, callToRun, adminVars>>

\* The client's own HTTP timeout: it posts the same conversation again while
\* the handler of the first request goes on.
Abandon(r) ==
    /\ client = "awaiting"
    /\ abandons < MaxAbandons
    /\ abandons' = abandons + 1
    /\ turn' = turn
    /\ Submit(r)
    /\ UNCHANGED <<open, hist, sessionVars, callVars, runVars, callToRun, adminVars>>

\* The answer reaches the client, or nobody when the request was abandoned.
Receive(r) ==
    /\ pc[r] = "replied"
    /\ pc' = [pc EXCEPT ![r] = "idle"]
    /\ reply' = [reply EXCEPT ![r] = "none"]
    /\ handed' = [handed EXCEPT ![r] = {}]
    /\ reqTurn' = [reqTurn EXCEPT ![r] = 0]
    /\ withTools' = [withTools EXCEPT ![r] = FALSE]
    /\ todo' = [todo EXCEPT ![r] = <<>>]
    /\ active' = [active EXCEPT ![r] = None]
    /\ IF cur = r
       THEN /\ cur' = None
            /\ client' = IF reply[r] = "tools" THEN "executing" ELSE "idle"
            /\ open' = handed[r]
       ELSE UNCHANGED <<cur, client, open>>
    /\ UNCHANGED <<turn, hist, abandons, sessionVars, callVars, runVars, callToRun, adminVars>>

-----------------------------------------------------------------------------
(* ActiveRun and ToolLoopSession: the steps taken under their locks.  The   *)
(* operators whose names end in _ and a word are mutated forms: bugs that   *)
(* the properties below are shown to catch.                                *)

\* Mutated: the tool list is extended without setting the event.
PushOn_NoEvent(n, c) ==
    /\ batch' = [batch EXCEPT ![n] = @ \cup {c}]
    /\ UNCHANGED batchEvent

\* Mutated: a new call replaces the ones that wait to be taken.
PushOn_Replaces(n, c) ==
    /\ batch' = [batch EXCEPT ![n] = {c}]
    /\ batchEvent' = [batchEvent EXCEPT ![n] = TRUE]

\* ActiveRun.push_tool
PushOn(n, c) ==
    /\ batch' = [batch EXCEPT ![n] = @ \cup {c}]
    /\ batchEvent' = [batchEvent EXCEPT ![n] = TRUE]

\* Mutated: the tool list is copied but not cleared.
TakeFrom_Keeps(n) ==
    /\ UNCHANGED batch
    /\ batchEvent' = [batchEvent EXCEPT ![n] = FALSE]

\* ActiveRun.take_batch
TakeFrom(n) ==
    /\ batch' = [batch EXCEPT ![n] = {}]
    /\ batchEvent' = [batchEvent EXCEPT ![n] = FALSE]

\* The entries _wait_outcome makes for the calls of the batch it took.
Route(n) ==
    callToRun' = [c \in Calls |-> IF c \in batch[n] THEN n ELSE callToRun[c]]

\* Mutated: results are overwritten whether or not their event is set.
Close_Overwrites(sessions) ==
    /\ closed' = [n \in Runs |-> closed[n] \/ n \in sessions]
    /\ result' = [c \in Calls |-> IF owner[c] \in sessions THEN "closed" ELSE result[c]]

\* Mutated: the calls parked in other sessions are released as well.
Close_Every(sessions) ==
    /\ closed' = [n \in Runs |-> closed[n] \/ n \in sessions]
    /\ result' = [c \in Calls |-> IF owner[c] # None /\ result[c] = "none"
                                  THEN "closed" ELSE result[c]]

\* ToolLoopSession.close on each session of a set: the flag, and the error
\* result for the calls that have none.
Close(sessions) ==
    /\ closed' = [n \in Runs |-> closed[n] \/ n \in sessions]
    /\ result' = [c \in Calls |-> IF owner[c] \in sessions /\ result[c] = "none"
                                  THEN "closed" ELSE result[c]]

\* Mutated: the age test is inverted.
Kept_Inverted(sessions) == {n \in sessions : ~closed[n] /\ n \in expired}

\* SessionStore._purge_locked: closed and expired sessions leave the store;
\* the expired ones are not closed.
Kept(sessions) == {n \in sessions : ~closed[n] /\ n \notin expired}

\* Mutated: a run leaves the table when its thread ends.
RunFor_Forgets(c) ==
    IF callToRun[c] \in Runs /\ phase[callToRun[c]] = "running" THEN callToRun[c] ELSE None

\* The run a result is delivered to: by _call_to_run, else the best-effort
\* scan of the registered runs' pending tables.
RunFor(c) ==
    IF callToRun[c] # None THEN callToRun[c]
    ELSE IF owner[c] \in Registered THEN owner[c] ELSE None

-----------------------------------------------------------------------------
(* The handler: chat_completions, then CursorDriver.complete.              *)

Answer(r, kind) ==
    /\ pc' = [pc EXCEPT ![r] = "replied"]
    /\ reply' = [reply EXCEPT ![r] = kind]

CheckKilled(r) ==
    /\ pc[r] = "posted"
    /\ IF killed
       THEN Answer(r, "killed")
       ELSE pc' = [pc EXCEPT ![r] = "admitted"] /\ UNCHANGED reply
    /\ UNCHANGED <<reqTurn, withTools, todo, active, handed, sessionVars, callVars, runVars,
                   callToRun, clientVars, adminVars>>

DeliverResult(r) ==
    /\ pc[r] = "admitted"
    /\ todo[r] # <<>>
    /\ LET c == Head(todo[r]) IN
       /\ result' = IF RunFor(c) # None THEN [result EXCEPT ![c] = "result"] ELSE result
       /\ active' = [active EXCEPT ![r] = IF RunFor(c) # None THEN RunFor(c) ELSE @]
    /\ todo' = [todo EXCEPT ![r] = Tail(@)]
    /\ UNCHANGED <<pc, reqTurn, withTools, reply, handed, owner, tool, sessionVars, runVars,
                   callToRun, clientVars, adminVars>>

ResumeRun(r) ==
    /\ pc[r] = "admitted"
    /\ todo[r] = <<>>
    /\ active[r] # None
    /\ pc' = [pc EXCEPT ![r] = "waiting"]
    /\ UNCHANGED <<reqTurn, withTools, todo, active, reply, handed, sessionVars, callVars, runVars,
                   callToRun, clientVars, adminVars>>

StartToolRun(r, n) ==
    /\ pc[r] = "admitted"
    /\ todo[r] = <<>>
    /\ active[r] = None
    /\ withTools[r]
    /\ phase[n] = "free"
    /\ store' = Kept(store \cup {n})
    /\ phase' = [phase EXCEPT ![n] = "running"]
    /\ turnOf' = [turnOf EXCEPT ![n] = reqTurn[r]]
    /\ active' = [active EXCEPT ![r] = n]
    /\ pc' = [pc EXCEPT ![r] = "waiting"]
    /\ UNCHANGED <<expired, closed, outcome, batch, batchEvent, doneEvent, reqTurn, withTools, todo,
                   reply, handed, callVars, callToRun, clientVars, adminVars>>

\* _complete_text runs the agent in the handler's thread, without a deadline.
StartText(r) ==
    /\ pc[r] = "admitted"
    /\ todo[r] = <<>>
    /\ active[r] = None
    /\ ~withTools[r]
    /\ pc' = [pc EXCEPT ![r] = "texting"]
    /\ UNCHANGED <<reqTurn, withTools, todo, active, reply, handed, sessionVars, callVars, runVars,
                   callToRun, clientVars, adminVars>>

CompleteText(r) ==
    /\ pc[r] = "texting"
    /\ \E kind \in {"stop", "error"} : Answer(r, kind)
    /\ UNCHANGED <<reqTurn, withTools, todo, active, handed, sessionVars, callVars, runVars,
                   callToRun, clientVars, adminVars>>

-----------------------------------------------------------------------------
(* The handler: CursorDriver._wait_outcome.                                *)

WakeOnBatch(r) ==
    /\ pc[r] = "waiting"
    /\ batchEvent[active[r]]
    /\ pc' = [pc EXCEPT ![r] = "coalescing"]
    /\ UNCHANGED <<reqTurn, withTools, todo, active, reply, handed, sessionVars, callVars, runVars,
                   callToRun, clientVars, adminVars>>

\* The sleep that coalesces parallel calls is over.
TakeBatch(r) ==
    LET n == active[r] IN
    /\ pc[r] = "coalescing"
    /\ TakeFrom(n)
    /\ Route(n)
    /\ handed' = [handed EXCEPT ![r] = batch[n]]
    /\ IF batch[n] # {}
       THEN Answer(r, "tools")
       ELSE pc' = [pc EXCEPT ![r] = "checking"] /\ UNCHANGED reply
    /\ UNCHANGED <<reqTurn, withTools, todo, active, phase, outcome, turnOf, doneEvent, sessionVars,
                   callVars, clientVars, adminVars>>

PollExpires(r) ==
    /\ pc[r] = "waiting"
    /\ ~batchEvent[active[r]]
    /\ pc' = [pc EXCEPT ![r] = "checking"]
    /\ UNCHANGED <<reqTurn, withTools, todo, active, reply, handed, sessionVars, callVars, runVars,
                   callToRun, clientVars, adminVars>>

\* Mutated: the run's outcome is passed on as it is.
Verdict_Raw(n) == outcome[n]

\* What is answered after the loop: the error, else the text so far.  "cut"
\* is a finish_reason "stop" that does not carry the run's final text.
Verdict(n) ==
    IF outcome[n] = "error" THEN "error" ELSE IF outcome[n] = "text" THEN "stop" ELSE "cut"

CheckDone(r) ==
    /\ pc[r] = "checking"
    /\ IF doneEvent[active[r]]
       THEN Answer(r, Verdict(active[r]))
       ELSE pc' = [pc EXCEPT ![r] = "waiting"] /\ UNCHANGED reply
    /\ UNCHANGED <<reqTurn, withTools, todo, active, handed, sessionVars, callVars, runVars,
                   callToRun, clientVars, adminVars>>

\* Mutated: the deadline is looked at only once the run is done.
Deadline_WhenDone(r) ==
    /\ pc[r] = "waiting"
    /\ doneEvent[active[r]]
    /\ Answer(r, Verdict(active[r]))
    /\ UNCHANGED <<reqTurn, withTools, todo, active, handed, sessionVars, callVars, runVars,
                   callToRun, clientVars, adminVars>>

Deadline(r) ==
    /\ pc[r] = "waiting"
    /\ Answer(r, Verdict(active[r]))
    /\ UNCHANGED <<reqTurn, withTools, todo, active, handed, sessionVars, callVars, runVars,
                   callToRun, clientVars, adminVars>>

-----------------------------------------------------------------------------
(* The threads of a run: execute (one per tool call) and runner.           *)

Park(n, c) ==
    /\ phase[n] = "running"
    /\ tool[c] = "idle"
    /\ owner' = [owner EXCEPT ![c] = n]
    /\ tool' = [tool EXCEPT ![c] = "parked"]
    /\ UNCHANGED <<result, sessionVars, runVars, callToRun, reqVars, clientVars, adminVars>>

PushTool(c) ==
    /\ tool[c] = "parked"
    /\ tool' = [tool EXCEPT ![c] = "waiting"]
    /\ PushOn(owner[c], c)
    /\ UNCHANGED <<owner, result, phase, outcome, turnOf, doneEvent, sessionVars, callToRun,
                   reqVars, clientVars, adminVars>>

\* Mutated: the error result of a closed session is taken for an answer.
WaitResult_AnyResult(c) ==
    /\ tool[c] = "waiting"
    /\ result[c] # "none"
    /\ tool' = [tool EXCEPT ![c] = "answered"]
    /\ UNCHANGED <<owner, result, sessionVars, runVars, callToRun, reqVars, clientVars, adminVars>>

WaitResult(c) ==
    /\ tool[c] = "waiting"
    /\ result[c] # "none"
    /\ tool' = [tool EXCEPT ![c] = IF result[c] = "result" THEN "answered" ELSE "closed"]
    /\ UNCHANGED <<owner, result, sessionVars, runVars, callToRun, reqVars, clientVars, adminVars>>

\* Mutated: the wait has no timeout.
ToolTimeout_Never(c) ==
    /\ FALSE
    /\ tool' = [tool EXCEPT ![c] = "timedout"]
    /\ UNCHANGED <<owner, result, sessionVars, runVars, callToRun, reqVars, clientVars, adminVars>>

ToolTimeout(c) ==
    /\ tool[c] = "waiting"
    /\ result[c] = "none"
    /\ tool' = [tool EXCEPT ![c] = "timedout"]
    /\ UNCHANGED <<owner, result, sessionVars, runVars, callToRun, reqVars, clientVars, adminVars>>

\* The SDK gives the final text once its tool calls have returned; it may
\* fail at any time.
RunFinishes(n) ==
    /\ phase[n] = "running"
    /\ \/ /\ \A c \in CallsOf(n) : tool[c] \in Returned
          /\ outcome' = [outcome EXCEPT ![n] = "text"]
       \/ outcome' = [outcome EXCEPT ![n] = "error"]
    /\ phase' = [phase EXCEPT ![n] = "finished"]
    /\ batchEvent' = [batchEvent EXCEPT ![n] = TRUE]
    /\ UNCHANGED <<turnOf, batch, doneEvent, sessionVars, callVars, callToRun, reqVars, clientVars,
                   adminVars>>

\* Mutated: done_event is never set.
SignalDone_NoEvent(n) ==
    /\ phase[n] = "finished"
    /\ phase' = [phase EXCEPT ![n] = "signalled"]
    /\ UNCHANGED doneEvent
    /\ UNCHANGED <<outcome, turnOf, batch, batchEvent, sessionVars, callVars, callToRun, reqVars,
                   clientVars, adminVars>>

SignalDone(n) ==
    /\ phase[n] = "finished"
    /\ phase' = [phase EXCEPT ![n] = "signalled"]
    /\ doneEvent' = [doneEvent EXCEPT ![n] = TRUE]
    /\ UNCHANGED <<outcome, turnOf, batch, batchEvent, sessionVars, callVars, callToRun, reqVars,
                   clientVars, adminVars>>

RunnerCloses(n) ==
    /\ phase[n] = "signalled"
    /\ phase' = [phase EXCEPT ![n] = "ended"]
    /\ Close({n})
    /\ UNCHANGED <<store, expired, owner, tool, outcome, turnOf, batch, batchEvent, doneEvent,
                   callToRun, reqVars, clientVars, adminVars>>

-----------------------------------------------------------------------------
(* Time, the kill switch, and the process.                                 *)

Expire(n) ==
    /\ MayExpire
    /\ n \in store \ expired
    /\ expired' = expired \cup {n}
    /\ UNCHANGED <<store, closed, callVars, runVars, callToRun, reqVars, clientVars, adminVars>>

SetKilled ==
    /\ kills < MaxKills
    /\ ~killing
    /\ kills' = kills + 1
    /\ killed' = TRUE
    /\ killing' = TRUE
    /\ UNCHANGED <<restarts, sessionVars, callVars, runVars, callToRun, reqVars, clientVars>>

CloseAll ==
    /\ killing
    /\ killing' = FALSE
    /\ Close(store)
    /\ store' = {}
    /\ UNCHANGED <<killed, kills, restarts, expired, owner, tool, runVars, callToRun, reqVars,
                   clientVars>>

Unkill ==
    /\ killed
    /\ killed' = FALSE
    /\ UNCHANGED <<killing, kills, restarts, sessionVars, callVars, runVars, callToRun, reqVars,
                   clientVars>>

\* The process dies and comes back: every thread, session, run and table is
\* lost; requests in flight fail; the kill flag is a file and stays.
Restart ==
    /\ restarts < MaxRestarts
    /\ restarts' = restarts + 1
    /\ store' = {}
    /\ phase' = [n \in Runs |-> IF phase[n] = "free" THEN "free" ELSE "dead"]
    /\ batch' = [n \in Runs |-> {}]
    /\ batchEvent' = [n \in Runs |-> FALSE]
    /\ tool' = [c \in Calls |-> IF tool[c] \in {"parked", "waiting"} THEN "lost" ELSE tool[c]]
    /\ callToRun' = [c \in Calls |-> None]
    /\ pc' = [r \in Requests |-> IF pc[r] = "idle" THEN "idle" ELSE "replied"]
    /\ reply' = [r \in Requests |-> IF pc[r] \in {"idle", "replied"} THEN reply[r] ELSE "error"]
    /\ killing' = FALSE
    /\ UNCHANGED <<expired, closed, owner, result, outcome, turnOf, doneEvent, reqTurn, withTools,
                   todo, active, handed, clientVars, killed, kills>>

-----------------------------------------------------------------------------
Client == \/ \E r \in Requests : AskTurn(r) \/ PostResults(r) \/ Abandon(r) \/ Receive(r)
          \/ \E c \in Calls : ExecuteTool(c)

Handler(r) == \/ CheckKilled(r) \/ DeliverResult(r) \/ ResumeRun(r)
              \/ \E n \in Runs : StartToolRun(r, n)
              \/ StartText(r) \/ CompleteText(r)
              \/ WakeOnBatch(r) \/ TakeBatch(r) \/ PollExpires(r) \/ CheckDone(r) \/ Deadline(r)

ToolThread(c) == (\E n \in Runs : Park(n, c)) \/ PushTool(c) \/ WaitResult(c) \/ ToolTimeout(c)

Runner(n) == RunFinishes(n) \/ SignalDone(n) \/ RunnerCloses(n)

Next == \/ Client
        \/ \E r \in Requests : Handler(r)
        \/ \E c \in Calls : ToolThread(c)
        \/ \E n \in Runs : Runner(n) \/ Expire(n)
        \/ SetKilled \/ CloseAll \/ Unkill \/ Restart

Spec == Init /\ [][Next]_vars

\* Threads run on; nothing is assumed of the client, of the SDK (Park, RunFinishes,
\* CompleteText) or of whoever operates the adapter.
HandlerFairness(r) ==
    /\ WF_vars(CheckKilled(r)) /\ WF_vars(DeliverResult(r)) /\ WF_vars(ResumeRun(r))
    /\ WF_vars(\E n \in Runs : StartToolRun(r, n))
    /\ WF_vars(WakeOnBatch(r)) /\ WF_vars(TakeBatch(r))
    /\ WF_vars(PollExpires(r)) /\ WF_vars(CheckDone(r))

ThreadFairness ==
    /\ \A r \in Requests : HandlerFairness(r)
    /\ \A c \in Calls : WF_vars(PushTool(c)) /\ WF_vars(WaitResult(c))
    /\ \A n \in Runs : WF_vars(SignalDone(n)) /\ WF_vars(RunnerCloses(n))

-----------------------------------------------------------------------------
(* Properties.                                                             *)

\* The calls whose results the client has.
Executed == {hist[i] : i \in DOMAIN hist}

\* The calls the client has, or is about to have.
Known(c) == c \in open \/ c \in Executed \/ \E r \in Requests : c \in handed[r]

Waiting(r) == pc[r] \in {"waiting", "coalescing", "checking"}

\* Every variable holds a value of its type.
TypeOK ==
    /\ store \in SUBSET Runs
    /\ expired \in SUBSET Runs
    /\ closed \in [Runs -> BOOLEAN]
    /\ owner \in [Calls -> Runs \cup {None}]
    /\ result \in [Calls -> Results]
    /\ phase \in [Runs -> Phases]
    /\ outcome \in [Runs -> {"none", "text", "error"}]
    /\ turnOf \in [Runs -> Nat]
    /\ batch \in [Runs -> SUBSET Calls]
    /\ batchEvent \in [Runs -> BOOLEAN]
    /\ doneEvent \in [Runs -> BOOLEAN]
    /\ tool \in [Calls -> Tools]
    /\ callToRun \in [Calls -> Runs \cup {None}]
    /\ pc \in [Requests -> PCs]
    /\ reqTurn \in [Requests -> Nat]
    /\ withTools \in [Requests -> BOOLEAN]
    /\ todo \in [Requests -> Seq(Calls)]
    /\ active \in [Requests -> Runs \cup {None}]
    /\ reply \in [Requests -> Replies]
    /\ handed \in [Requests -> SUBSET Calls]
    /\ client \in {"idle", "executing", "awaiting"}
    /\ turn \in Nat
    /\ cur \in Requests \cup {None}
    /\ open \in SUBSET Calls
    /\ hist \in Seq(Calls)
    /\ abandons \in Nat /\ kills \in Nat /\ restarts \in Nat
    /\ killed \in BOOLEAN /\ killing \in BOOLEAN

\* A handler that waits for batch_event cannot sleep through a call: whenever
\* a run's batch has calls its event is set, whatever take_batch, push_tool
\* and the runner's final batch_event.set() do to it at the same time.
NoLostWakeup == \A n \in Runs : batch[n] # {} => batchEvent[n]

\* Hermes is asked to execute a tool call at most once: a call in a batch was
\* never handed out, no two answers carry the same call, and an answer carries
\* none that the client has open or has executed already.
OfferedOnce ==
    /\ \A n \in Runs : \A c \in batch[n] : ~Known(c) /\ callToRun[c] = None
    /\ \A r \in Requests : \A c \in handed[r] : c \notin open /\ c \notin Executed
    /\ \A r1, r2 \in Requests : \A c \in handed[r1] : c \in handed[r2] => r1 = r2
    /\ \A c \in open : c \notin Executed

\* The result of a call the client knows of finds its way back: as long as the
\* call's run is in the driver's table, _call_to_run names that run.
OfferedIsRoutable ==
    \A c \in Calls : Known(c) /\ owner[c] \in Registered => callToRun[c] = owner[c]

\* A tool callback returns a result only if the client executed that call, and
\* the "session closed" error only if its own session was closed.
ReturnsForAReason ==
    \A c \in Calls :
        /\ tool[c] = "answered" => c \in Executed
        /\ tool[c] = "closed" => closed[owner[c]]

\* close_all reaches every session it should: one that is neither closed nor
\* past its TTL and whose runner is alive is in the store.
LiveSessionsStored ==
    \A n \in Registered : ~closed[n] /\ n \notin expired => n \in store

\* No handler waits for a run of a process that is gone, which would never
\* signal its events: results of such a run start a new one.
WaitsForRegisteredRun == \A r \in Requests : Waiting(r) => active[r] \in Registered

\* The tool round trips of a turn share one run: as long as the client sends
\* no request twice and the adapter does not restart, no turn has two runs.
OneRunPerTurn ==
    abandons = 0 /\ restarts = 0 =>
        \A n1, n2 \in Runs :
            turnOf[n1] = turnOf[n2] /\ turnOf[n1] # 0 => n1 = n2

\* The calls whose results are on their way to the adapter: with the client, which
\* posts them next, in the answer it gets, or in its request, not yet delivered.
Coming(c) ==
    \/ cur = None /\ c \in open \cup Executed
    \/ cur # None /\ pc[cur] = "replied" /\ c \in handed[cur] \cup Executed
    \/ cur # None /\ pc[cur] \in {"posted", "admitted"} /\ \E i \in DOMAIN todo[cur] : todo[cur][i] = c

\* The turn that n was started for goes on: its request was not finally answered.
TurnGoesOn(n) ==
    /\ turnOf[n] = turn /\ client # "idle"
    /\ cur # None /\ pc[cur] = "replied" => reply[cur] = "tools"

\* The client's request waits for n, or is sure to: every result leads to n.
Attended(n) ==
    /\ \A c \in Calls : Coming(c) => RunFor(c) = n
    /\ (\E c \in Calls : Coming(c)) \/ (cur # None /\ active[cur] = n)

\* Nobody waits in vain while a turn goes on: as long as the client sends no request
\* twice and the adapter does not restart, a tool callback of that turn that waits for
\* its result is in a batch or its result is on its way, and it is to the callback's
\* run that the client's present or next request comes to take the batch.  (Calls that
\* are pushed after a turn was answered, at the deadline say, wait for their timeout.)
EveryWaitHasResponder ==
    abandons = 0 /\ restarts = 0 =>
        \A c \in Calls :
            tool[c] = "waiting" /\ result[c] = "none" /\ TurnGoesOn(owner[c]) =>
                /\ Attended(owner[c])
                /\ c \in batch[owner[c]] \/ Coming(c)

\* A result the client delivered is never replaced by the error result of a
\* session that is closed later, by the kill switch or by its own runner.
DeliveredResultStays ==
    [][\A c \in Calls : result[c] = "result" => result'[c] = "result"]_result

\* A run answers the turn it was started for and no other.
AnswersItsOwnTurn ==
    \A r \in Requests :
        reply[r] \in {"tools", "stop"} /\ active[r] # None => turnOf[active[r]] = reqTurn[r]
=============================================================================
