--------------------------- MODULE InferenceGuard ---------------------------
(***************************************************************************)
(* What a chat completion goes through around the backend: the kill flag,  *)
(* the budget check against the usage ledger, the answer, and the row that *)
(* is written once the answer is complete (server.py with                  *)
(* home/inference_guard.py, budgets.py, ledger.py and admin.py).           *)
(*                                                                         *)
(* Handlers run in a pool of threads, and the ledger is read long before   *)
(* the row is written.  The kill flag, the budget file and the ledger are  *)
(* files: they survive the process and other processes change them.        *)
(*                                                                         *)
(* Abstractions: the ledger is the two sums the checks read, per agent and *)
(* session, and per agent since midnight; a prompt or an answer is its     *)
(* estimated number of tokens.                                             *)
(***************************************************************************)
EXTENDS Naturals, FiniteSets

CONSTANTS
    Agents, Sessions,
    Requests,          \* handler threads of the server's pool
    BudgetFiles,       \* contents budgets.yaml may have
    MaxPrompt,         \* bound: tokens of a prompt
    MaxCompletion,     \* bound: tokens of an answer
    MaxSpent,          \* bound: no request is posted once an account exceeds it
    MaxEdits,          \* bound: changes of budgets.yaml
    MaxDays,           \* bound: midnights
    MaxCrashes,        \* bound: restarts of the adapter
    None,              \* no session id, no cap, no file
    Day                \* the account of an agent's day

Scopes == {"per_session_tokens", "per_agent_daily_tokens"}

\* per_session_cap, per_agent_daily_cap: the agent's entry, else the default.
Cap(file, a, scope) ==
    IF a \in DOMAIN file.agents /\ scope \in DOMAIN file.agents[a]
    THEN file.agents[a][scope]
    ELSE IF scope \in DOMAIN file.defaults THEN file.defaults[scope] ELSE None

Accounts == Agents \X (Sessions \cup {Day})
Jobs == [agent : Agents, session : Sessions \cup {None}, prompt : 1..MaxPrompt, stream : BOOLEAN]

ASSUME GuardConstants ==
    /\ IsFiniteSet(Requests) /\ Requests # {}
    /\ None \notin Nat \cup Sessions \cup BudgetFiles \cup Jobs
    /\ Day \notin Sessions \cup {None}
    /\ {MaxPrompt, MaxCompletion} \subseteq Nat \ {0}
    /\ {MaxSpent, MaxEdits, MaxDays, MaxCrashes} \subseteq Nat
    /\ \A file \in BudgetFiles :
          /\ file.enforce \in BOOLEAN
          /\ \A a \in Agents, scope \in Scopes : Cap(file, a, scope) \in Nat \cup {None}

VARIABLES
    killed,     \* the kill flag's file exists
    budgets,    \* budgets.yaml
    ledger,     \* account -> SUM(total_tokens) of its rows
    pc,         \* where a handler is
    job,        \* its request: agent, session, prompt tokens, stream
    cfg,        \* the budgets it loaded
    answer,     \* tokens of the answer
    edits, days, crashes

vars == <<killed, budgets, ledger, pc, job, cfg, answer, edits, days, crashes>>

PCs == {"idle", "posted", "admitted", "session", "daily", "inference", "recording",
        "answered", "failed", "refused", "killed"}

SessionAccount(r) == <<job[r].agent, job[r].session>>
DayAccount(r) == <<job[r].agent, Day>>

Init ==
    /\ killed \in BOOLEAN
    /\ budgets \in BudgetFiles \cup {None}
    /\ ledger = [x \in Accounts |-> 0]
    /\ pc = [r \in Requests |-> "idle"]
    /\ job = [r \in Requests |-> None]
    /\ cfg = [r \in Requests |-> None]
    /\ answer = [r \in Requests |-> 0]
    /\ edits = 0 /\ days = 0 /\ crashes = 0

Goto(r, place) == pc' = [pc EXCEPT ![r] = place]

-----------------------------------------------------------------------------
(* The handler.                                                            *)

Post(r) ==
    /\ pc[r] = "idle"
    /\ \A x \in Accounts : ledger[x] <= MaxSpent
    /\ \E j \in Jobs : job' = [job EXCEPT ![r] = j]
    /\ Goto(r, "posted")
    /\ UNCHANGED <<killed, budgets, ledger, cfg, answer, edits, days, crashes>>

\* Mutated: the flag is not looked at.
CheckKilled_Ignored(r) ==
    /\ pc[r] = "posted"
    /\ Goto(r, "admitted")
    /\ UNCHANGED <<killed, budgets, ledger, job, cfg, answer, edits, days, crashes>>

CheckKilled(r) ==
    /\ pc[r] = "posted"
    /\ Goto(r, IF killed THEN "killed" ELSE "admitted")
    /\ UNCHANGED <<killed, budgets, ledger, job, cfg, answer, edits, days, crashes>>

\* check_budget goes on only with a file that enforces its caps.
Enforced(file) == file # None /\ file.enforce

LoadBudgets(r) ==
    /\ pc[r] = "admitted"
    /\ cfg' = [cfg EXCEPT ![r] = budgets]
    /\ Goto(r, IF Enforced(budgets) THEN "session" ELSE "inference")
    /\ UNCHANGED <<killed, budgets, ledger, job, answer, edits, days, crashes>>

\* Mutated: the prompt that is asked for is not counted.
Exceeds_Spent(x, r, cap) == cap # None /\ ledger[x] > cap

\* One sum over the ledger, compared with a cap.
Exceeds(x, r, cap) == cap # None /\ ledger[x] + job[r].prompt > cap

CheckSession(r) ==
    LET cap == Cap(cfg[r], job[r].agent, "per_session_tokens") IN
    /\ pc[r] = "session"
    /\ Goto(r, IF job[r].session # None /\ Exceeds(SessionAccount(r), r, cap)
               THEN "refused" ELSE "daily")
    /\ UNCHANGED <<killed, budgets, ledger, job, cfg, answer, edits, days, crashes>>

CheckDaily(r) ==
    LET cap == Cap(cfg[r], job[r].agent, "per_agent_daily_tokens") IN
    /\ pc[r] = "daily"
    /\ Goto(r, IF Exceeds(DayAccount(r), r, cap) THEN "refused" ELSE "inference")
    /\ UNCHANGED <<killed, budgets, ledger, job, cfg, answer, edits, days, crashes>>

\* The backend answers; for a stream, the last chunk and [DONE] are sent.
Complete(r) ==
    /\ pc[r] = "inference"
    /\ \E n \in 1..MaxCompletion : answer' = [answer EXCEPT ![r] = n]
    /\ Goto(r, "recording")
    /\ UNCHANGED <<killed, budgets, ledger, job, cfg, edits, days, crashes>>

\* The backend raises, or its stream ends without a chunk marked done: no row
\* is written either way.
EndsUnrecorded(r) ==
    /\ pc[r] = "inference"
    /\ \/ Goto(r, "failed")
       \/ job[r].stream /\ Goto(r, "answered")
    /\ UNCHANGED <<killed, budgets, ledger, job, cfg, answer, edits, days, crashes>>

\* The client closes a stream: the generator is not resumed.
Disconnect(r) ==
    /\ pc[r] \in {"inference", "recording"}
    /\ job[r].stream
    /\ Goto(r, "failed")
    /\ UNCHANGED <<killed, budgets, ledger, job, cfg, answer, edits, days, crashes>>

\* The sums the row of a request counts in.
Billed(r) == {SessionAccount(r), DayAccount(r)}

RecordUsage(r) ==
    /\ pc[r] = "recording"
    /\ ledger' = [x \in Accounts |->
                     IF x \in Billed(r) THEN ledger[x] + job[r].prompt + answer[r] ELSE ledger[x]]
    /\ Goto(r, "answered")
    /\ UNCHANGED <<killed, budgets, job, cfg, answer, edits, days, crashes>>

\* SQLite raises (the database is locked): the handler answers 502.
RecordFails(r) ==
    /\ pc[r] = "recording"
    /\ Goto(r, "failed")
    /\ UNCHANGED <<killed, budgets, ledger, job, cfg, answer, edits, days, crashes>>

Receive(r) ==
    /\ pc[r] \in {"answered", "failed", "refused", "killed"}
    /\ Goto(r, "idle")
    /\ job' = [job EXCEPT ![r] = None]
    /\ cfg' = [cfg EXCEPT ![r] = None]
    /\ answer' = [answer EXCEPT ![r] = 0]
    /\ UNCHANGED <<killed, budgets, ledger, edits, days, crashes>>

-----------------------------------------------------------------------------
(* Files, time and the process.                                            *)

SetKilled ==
    /\ ~killed
    /\ killed' = TRUE
    /\ UNCHANGED <<budgets, ledger, pc, job, cfg, answer, edits, days, crashes>>

ClearKilled ==
    /\ killed
    /\ killed' = FALSE
    /\ UNCHANGED <<budgets, ledger, pc, job, cfg, answer, edits, days, crashes>>

EditBudgets ==
    /\ edits < MaxEdits
    /\ edits' = edits + 1
    /\ \E file \in BudgetFiles \cup {None} : budgets' = file
    /\ UNCHANGED <<killed, ledger, pc, job, cfg, answer, days, crashes>>

\* The daily sum counts rows since midnight, UTC.
Midnight ==
    /\ days < MaxDays
    /\ days' = days + 1
    /\ ledger' = [x \in Accounts |-> IF x[2] = Day THEN 0 ELSE ledger[x]]
    /\ UNCHANGED <<killed, budgets, pc, job, cfg, answer, edits, crashes>>

Crash ==
    /\ crashes < MaxCrashes
    /\ crashes' = crashes + 1
    /\ pc' = [r \in Requests |-> IF pc[r] = "idle" THEN "idle" ELSE "failed"]
    /\ UNCHANGED <<killed, budgets, ledger, job, cfg, answer, edits, days>>

Handler(r) ==
    \/ CheckKilled(r) \/ LoadBudgets(r) \/ CheckSession(r) \/ CheckDaily(r)
    \/ Complete(r) \/ EndsUnrecorded(r) \/ RecordUsage(r) \/ RecordFails(r)

Next ==
    \/ \E r \in Requests : Post(r) \/ Handler(r) \/ Disconnect(r) \/ Receive(r)
    \/ SetKilled \/ ClearKilled \/ EditBudgets \/ Midnight \/ Crash

Spec == Init /\ [][Next]_vars

\* Handlers go on, and the backend answers or raises in the end.
FairSpec == Spec /\ \A r \in Requests : WF_vars(Handler(r))

-----------------------------------------------------------------------------
(* Properties.                                                             *)

\* Every variable holds a value of its type; a budget check has a file that
\* enforces caps.
TypeOK ==
    /\ killed \in BOOLEAN
    /\ budgets \in BudgetFiles \cup {None}
    /\ ledger \in [Accounts -> Nat]
    /\ pc \in [Requests -> PCs]
    /\ job \in [Requests -> Jobs \cup {None}]
    /\ cfg \in [Requests -> BudgetFiles \cup {None}]
    /\ answer \in [Requests -> 0..MaxCompletion]
    /\ edits \in Nat /\ days \in Nat /\ crashes \in Nat
    /\ \A r \in Requests :
          /\ pc[r] # "idle" => job[r] # None
          /\ pc[r] \in {"session", "daily"} => cfg[r] # None /\ cfg[r].enforce

CapOn(x) ==
    IF ~Enforced(budgets) THEN None
    ELSE Cap(budgets, x[1],
             IF x[2] = Day THEN "per_agent_daily_tokens" ELSE "per_session_tokens")

\* The cost of a request that has passed the check of its account.
MaxCost == MaxPrompt + MaxCompletion

\* A cap is overshot by no more than what the pool's other threads had admitted
\* when the last request was let in, and that request's own answer: the check
\* counts the prompt it admits, but not the requests in flight.
OvershootBounded ==
    edits = 0 =>
        \A x \in Accounts : CapOn(x) # None =>
            ledger[x] <= CapOn(x) + MaxCost * (Cardinality(Requests) - 1) + MaxCompletion

\* Once the kill switch stays on, the backends fall silent.
KillDrains ==
    <>[]killed => <>[](\A r \in Requests : pc[r] \notin {"inference", "recording"})

\* "Start a new session" helps a request that was refused: the first request of
\* a session is refused only if its own prompt exceeds a cap.
NewSessionIsAdmitted ==
    \A r \in Requests :
        /\ pc[r] = "refused" /\ job[r].session # None
        /\ \A scope \in Scopes : LET cap == Cap(cfg[r], job[r].agent, scope) IN
              cap # None => job[r].prompt <= cap
        => ledger[SessionAccount(r)] > 0
=============================================================================
