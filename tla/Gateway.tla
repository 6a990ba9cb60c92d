------------------------------ MODULE Gateway ------------------------------
(***************************************************************************)
(* The adapter's /v1 endpoints between the client and the backends: which  *)
(* backend a model name goes to (core/registry.py), the drivers that are   *)
(* built for routed names and kept in app.state.route_backends, what the   *)
(* drivers yield, and how server.py turns it into an answer, a stream of   *)
(* lines, an error code and a row of the ledger.                           *)
(*                                                                         *)
(* Endpoints are sync functions: each request runs in a thread of the pool *)
(* and the tables are shared without a lock.  A stream is a generator that *)
(* the server advances for the client; when the client leaves, it is not   *)
(* advanced again.                                                         *)
(*                                                                         *)
(* Abstractions: texts, models and arguments; the kill flag and budgets    *)
(* may refuse any request (InferenceGuard has them); of a Cursor driver's  *)
(* runs only _call_to_run is kept (ToolLoop has the rest).                 *)
(***************************************************************************)
EXTENDS Naturals, Sequences, FiniteSets

CONSTANTS
    Conversations,  \* each a client that posts its requests one at a time
    Lister,         \* the thread of GET /v1/models
    Default,        \* inference.backend
    Routing,        \* inference.routing
    Names,          \* conversation -> the model names its client may use:
                    \* [left, right] around the colon
    ErrorStatuses,  \* HTTP errors an upstream answers with
    Texts,          \* what an upstream or a library may say of an error: sets of Words
    MaxRequests,    \* bound: requests in all
    MaxPieces       \* bound: pieces of an answer in a stream

Backends == {"claude_code", "cursor", "mock", "openai_compat"}
Sorted == <<"claude_code", "cursor", "mock", "openai_compat">>

\* _register_builtins
Aliases ==
    [cursor        |-> {"hcx", "construct-zero", "cz"},
     mock          |-> {},
     claude_code   |-> {"claude-code", "claude"},
     openai_compat |-> {"byo", "company", "openai-compatible"}]
SupportsTools(b) == b # "claude_code"

Known(name) == \E b \in Backends : name = b \/ name \in Aliases[b]
Resolve(name) == CHOOSE b \in Backends : name = b \/ name \in Aliases[b]

\* parse_routed_model: without a colon, with an empty side, or with an unknown
\* left side the whole name is a model of the default backend.
RoutedTo(n) ==
    IF Routing /\ n.left # "" /\ n.right # "" /\ Known(n.left)
    THEN Resolve(n.left) ELSE "default"

\* The words by which openai_http_exception tells one error from another: "upstream",
\* anywhere or first, "HTTP 401", "Missing", and "Tools are not supported".
Words == {"upstream", "upstream first", "HTTP 401", "Missing", "no tools"}

ASSUME GatewayConstants ==
    /\ Lister \notin Conversations
    /\ Default \in Backends /\ Routing \in BOOLEAN
    /\ \A c \in Conversations : Names[c] \subseteq [left : STRING, right : STRING]
    /\ ErrorStatuses \subseteq 400..999 /\ Texts \subseteq SUBSET Words
    /\ {MaxRequests, MaxPieces} \subseteq Nat

\* A driver is its backend and a number; app.state.backend is built first.
Main == <<Default, 1>>

Threads == Conversations \cup {Lister}
Lines == {"text", "calls", "finish", "id", "error", "[DONE]"}

VARIABLES
    built,     \* backend -> how many drivers were built for it
    cache,     \* app.state.route_backends: backend -> its driver's number, or 0
    offered,   \* pairs of a Cursor driver and a conversation in its _call_to_run
    pc, want,  \* where a thread is; the routed backend it looks up
    todo,      \* backends that list_models has still to ask
    req,       \* a conversation's request: tools, stream
    home,      \* the backend its first request went to
    owes,      \* it has tool results to post
    using,     \* the driver of its request
    stage,     \* where the driver's generator is
    out,       \* lines streamed
    result,    \* what complete returned
    answer,    \* status, error code, and the words its detail has
    rows,      \* rows of the ledger for the request
    sent,
    raced,     \* history: backends that two threads were about to build at once
    cause,     \* history: why a request failed
    cutoff,    \* history: the client left
    orphaned   \* history: results came to a driver that never offered the call

tables == <<built, cache, offered, raced>>
request == <<req, home, sent>>
history == <<cause, cutoff, orphaned>>
vars == <<built, cache, offered, pc, want, todo, req, home, owes, using, stage, out,
          result, answer, rows, sent, raced, cause, cutoff, orphaned>>

Answer(status, code) == [status |-> status, code |-> code, says |-> {}]
NoAnswer == Answer(0, "none")
Ok == Answer(200, "none")

Init ==
    /\ built = [b \in Backends |-> IF b = Default THEN 1 ELSE 0]
    /\ cache = [b \in Backends |-> 0]
    /\ offered = {}
    /\ pc = [t \in Threads |-> "idle"]
    /\ want = [t \in Threads |-> "default"]
    /\ todo = <<>>
    /\ req = [c \in Conversations |-> [tools |-> FALSE, stream |-> FALSE]]
    /\ home = [c \in Conversations |-> "none"]
    /\ owes = [c \in Conversations |-> FALSE]
    /\ using = [c \in Conversations |-> Main]
    /\ stage = [c \in Conversations |-> "start"]
    /\ out = [c \in Conversations |-> <<>>]
    /\ result = [c \in Conversations |-> "none"]
    /\ answer = [c \in Conversations |-> NoAnswer]
    /\ rows = [c \in Conversations |-> 0]
    /\ sent = 0
    /\ raced = {}
    /\ cause = [c \in Conversations |-> "none"]
    /\ cutoff = [c \in Conversations |-> FALSE]
    /\ orphaned = [c \in Conversations |-> FALSE]

Backend(c) == using[c][1]
Move(t, from, to) == pc[t] = from /\ pc' = [pc EXCEPT ![t] = to]

-----------------------------------------------------------------------------
(* Errors *)

\* The status of an answer to a failed request: UpstreamError or any other.
ErrorStatus(why, status) ==
    CASE why = "upstream" -> IF status > 599 THEN 599 ELSE status
      [] why = "timeout"  -> 504
      [] why = "address"  -> status
      [] OTHER            -> 502

\* What the detail of an error says: the adapter's own words, and an upstream's or a
\* library's after or instead of them.
OwnWords(why, status) ==
    CASE why = "upstream" -> {"upstream", "upstream first"} \cup (IF status = 401 THEN {"HTTP 401"} ELSE {})
      [] why = "timeout"  -> {"upstream", "upstream first"}
      [] why = "missing"  -> {"Missing"}
      [] why = "tools"    -> {"no tools"}
      [] OTHER            -> {}
Details(why, status) ==
    {OwnWords(why, status) \cup text : text \in IF why \in {"upstream", "local"} THEN Texts ELSE {{}}}

\* Mutated: any 401 is the client's own.
Code_Plain401(status, says) ==
    IF status = 401
    THEN IF "Missing" \in says THEN "cz_auth_missing" ELSE "cz_auth_invalid"
    ELSE IF status = 501 /\ "no tools" \in says THEN "cz_unsupported_tools"
    ELSE IF status = 504 THEN "cz_upstream_timeout"
    ELSE IF status \in 400..599 /\ "upstream first" \in says THEN "cz_upstream"
    ELSE "cz_error"

\* openai_http_exception: the code is told from the status and words of the detail.
Code(status, says) ==
    IF status = 401
    THEN IF "upstream" \in says /\ "HTTP 401" \in says THEN "cz_upstream"
         ELSE IF "Missing" \in says THEN "cz_auth_missing" ELSE "cz_auth_invalid"
    ELSE IF status = 501 /\ "no tools" \in says THEN "cz_unsupported_tools"
    ELSE IF status = 504 THEN "cz_upstream_timeout"
    ELSE IF status \in 400..599 /\ "upstream first" \in says THEN "cz_upstream"
    ELSE "cz_error"

Fails(c, why, status) ==
    /\ \E says \in Details(why, status) :
          answer' = [answer EXCEPT ![c] =
                        [status |-> status, code |-> Code(status, says), says |-> says]]
    /\ cause' = [cause EXCEPT ![c] = why]

-----------------------------------------------------------------------------
(* Posting and routing *)

\* A client keeps to one backend, by whichever of its names, and answers the
\* tool calls it was given.
Post(c) ==
    /\ pc[c] \in {"idle", "over"} /\ sent < MaxRequests
    /\ \E n \in Names[c], tools, stream \in BOOLEAN :
          /\ home[c] \in {"none", RoutedTo(n)}
          /\ owes[c] => tools
          /\ home' = [home EXCEPT ![c] = RoutedTo(n)]
          /\ req' = [req EXCEPT ![c] = [tools |-> tools, stream |-> stream]]
          /\ want' = [want EXCEPT ![c] = RoutedTo(n)]
          /\ pc' = [pc EXCEPT ![c] = IF RoutedTo(n) = "default" THEN "admit" ELSE "lookup"]
    /\ using' = [using EXCEPT ![c] = Main]
    /\ stage' = [stage EXCEPT ![c] = "start"]
    /\ out' = [out EXCEPT ![c] = <<>>]
    /\ result' = [result EXCEPT ![c] = "none"]
    /\ answer' = [answer EXCEPT ![c] = NoAnswer]
    /\ rows' = [rows EXCEPT ![c] = 0]
    /\ sent' = sent + 1
    /\ cause' = [cause EXCEPT ![c] = "none"]
    /\ cutoff' = [cutoff EXCEPT ![c] = FALSE]
    /\ UNCHANGED <<tables, todo, owes, orphaned>>

\* LoopbackHostMiddleware and require_auth, in this order: what they answer to
\* a request of a foreign host or origin, or without the right token.
Gate(host, origin, token) ==
    IF host = "foreign" \/ origin = "foreign" THEN "forbidden"
    ELSE IF token \in {"missing", "invalid"} THEN token ELSE "pass"

TurnedAway(c) ==
    /\ pc[c] \in {"idle", "over"} /\ sent < MaxRequests
    /\ \E host \in {"loopback", "foreign"}, origin \in {"none", "loopback", "foreign"},
          token \in {"missing", "invalid", "right"} :
          LET why == Gate(host, origin, token) IN
          /\ why # "pass"
          /\ IF why = "forbidden"
             THEN /\ answer' = [answer EXCEPT ![c] = Answer(403, "cz_forbidden")]
                  /\ cause' = [cause EXCEPT ![c] = why]
             ELSE Fails(c, why, 401)
    /\ pc' = [pc EXCEPT ![c] = "over"]
    /\ req' = [req EXCEPT ![c].stream = FALSE]
    /\ rows' = [rows EXCEPT ![c] = 0]
    /\ out' = [out EXCEPT ![c] = <<>>]
    /\ sent' = sent + 1
    /\ cutoff' = [cutoff EXCEPT ![c] = FALSE]
    /\ UNCHANGED <<tables, want, todo, home, owes, using, stage, result, orphaned>>

\* _get_routed_backend.
\* Mutated: the table is not looked at.
Cached_Never(b) == FALSE
Cached(b) == cache[b] # 0

Lookup(t) ==
    /\ Move(t, "lookup", IF Cached(want[t]) THEN "fetch" ELSE "build")
    /\ raced' = IF ~Cached(want[t])
                   /\ \E u \in Threads \ {t} : pc[u] = "build" /\ want[u] = want[t]
                THEN raced \cup {want[t]} ELSE raced
    /\ UNCHANGED <<built, cache, offered, want, todo, request, owes, using, stage, out,
                   result, answer, rows, history>>

Build(t) ==
    /\ Move(t, "build", "fetch")
    /\ built' = [built EXCEPT ![want[t]] = @ + 1]
    /\ cache' = [cache EXCEPT ![want[t]] = built[want[t]] + 1]
    /\ UNCHANGED <<offered, want, todo, request, owes, using, stage, out, result, answer,
                   rows, raced, history>>

\* The HTTP client of openai_compat cannot load its ca_bundle: outside the
\* handler's try.
BuildFails(c) ==
    /\ want[c] = "openai_compat"
    /\ Move(c, "build", "over")
    /\ answer' = [answer EXCEPT ![c] = Answer(500, "none")]
    /\ cause' = [cause EXCEPT ![c] = "local"]
    /\ UNCHANGED <<tables, want, todo, request, owes, using, stage, out, result, rows,
                   cutoff,
                   orphaned>>

\* The entry is read again after it was set.
Fetch(c) ==
    /\ Move(c, "fetch", "admit")
    /\ using' = [using EXCEPT ![c] = <<want[c], cache[want[c]]>>]
    /\ UNCHANGED <<tables, want, todo, request, owes, stage, out, result, answer, rows,
                   history>>

-----------------------------------------------------------------------------
(* GET /v1/models: every other backend's driver is built *)

PassDefault(rest) == IF rest # <<>> /\ Head(rest) = Default THEN Tail(rest) ELSE rest

\* The lister looks up the next backend, or answers.
ListFrom(rest) ==
    LET next == PassDefault(rest) IN
    /\ todo' = next
    /\ IF next = <<>>
       THEN pc' = [pc EXCEPT ![Lister] = "over"] /\ UNCHANGED want
       ELSE /\ pc' = [pc EXCEPT ![Lister] = "lookup"]
            /\ want' = [want EXCEPT ![Lister] = Head(next)]

List ==
    /\ pc[Lister] = "idle" /\ sent < MaxRequests
    /\ ListFrom(IF Routing THEN Sorted ELSE <<>>)
    /\ sent' = sent + 1
    /\ UNCHANGED <<tables, req, home, owes, using, stage, out, result, answer, rows,
                   history>>

ListNext ==
    /\ pc[Lister] = "fetch"
    /\ ListFrom(Tail(todo))
    /\ UNCHANGED <<tables, request, owes, using, stage, out, result, answer, rows, history>>

\* list_models passes over a backend it cannot build.
ListSkips ==
    /\ pc[Lister] = "build" /\ want[Lister] = "openai_compat"
    /\ ListFrom(Tail(todo))
    /\ UNCHANGED <<tables, request, owes, using, stage, out, result, answer, rows, history>>

-----------------------------------------------------------------------------
(* Admission, in the handler's order *)

NoTools(c) ==
    /\ req[c].tools /\ ~SupportsTools(Backend(c))
    /\ Move(c, "admit", "over")
    /\ Fails(c, "tools", 501)
    /\ UNCHANGED <<tables, want, todo, request, owes, using, stage, out, result, rows,
                   cutoff, orphaned>>

Killed(c) ==
    /\ req[c].tools => SupportsTools(Backend(c))
    /\ Move(c, "admit", "over")
    /\ answer' = [answer EXCEPT ![c] = Answer(503, "cz_killed")]
    /\ cause' = [cause EXCEPT ![c] = "killed"]
    /\ UNCHANGED <<tables, want, todo, request, owes, using, stage, out, result, rows,
                   cutoff, orphaned>>

\* _budget_stream: a stream is told in the stream.
OverBudget(c) ==
    /\ req[c].tools => SupportsTools(Backend(c))
    /\ Move(c, "admit", "over")
    /\ cause' = [cause EXCEPT ![c] = "budget"]
    /\ IF req[c].stream
       THEN /\ out' = [out EXCEPT ![c] = <<"error", "[DONE]">>]
            /\ answer' = [answer EXCEPT ![c] = Ok]
       ELSE /\ answer' = [answer EXCEPT ![c] = Answer(429, "cz_budget_exceeded")]
            /\ UNCHANGED out
    /\ UNCHANGED <<tables, want, todo, request, owes, using, stage, result, rows, cutoff,
                   orphaned>>

Admit(c) ==
    /\ req[c].tools => SupportsTools(Backend(c))
    /\ Move(c, "admit", IF req[c].stream THEN "stream" ELSE "complete")
    /\ answer' = IF req[c].stream THEN [answer EXCEPT ![c] = Ok] ELSE answer
    /\ UNCHANGED <<tables, want, todo, request, owes, using, stage, out, result, rows,
                   history>>

-----------------------------------------------------------------------------
(* What the drivers answer *)

\* Ways a driver fails: the cause and the status of the answer.
Failures(b) ==
    CASE b = "openai_compat" ->
            {<<"upstream", ErrorStatus("upstream", s)>> : s \in ErrorStatuses}
            \cup {<<why, ErrorStatus(why, 0)>> : why \in {"timeout", "local"}}
            \cup {<<"address", ErrorStatus("address", s)>> : s \in {400, 503}}
      [] b = "mock" -> {}
      [] OTHER -> {<<"local", ErrorStatus("local", 0)>>}

\* What complete returns.  With tools the mock always calls one.
Replies(c) ==
    CASE Backend(c) = "claude_code" -> {}
      [] Backend(c) = "mock" -> IF req[c].tools THEN {"calls"} ELSE {"text"}
      [] OTHER -> IF req[c].tools THEN {"text", "calls"} ELSE {"text"}

\* A Cursor driver resumes the run whose call it offered; results of another
\* driver's call start a new run.
Serves(c, reply) ==
    LET cursor == Backend(c) = "cursor" IN
    /\ offered' = offered \cup (IF cursor /\ reply = "calls" THEN {<<using[c], c>>} ELSE {})
    /\ orphaned' = [orphaned EXCEPT ![c] =
                       @ \/ (cursor /\ owes[c] /\ <<using[c], c>> \notin offered)]

Complete(c) ==
    /\ Move(c, "complete", "record")
    /\ \E reply \in Replies(c) :
          /\ Serves(c, reply)
          /\ result' = [result EXCEPT ![c] = reply]
    /\ UNCHANGED <<built, cache, raced, want, todo, request, owes, using, stage, out,
                   answer, rows, cause, cutoff>>

CompleteFails(c) ==
    /\ Move(c, "complete", "over")
    /\ \E f \in Failures(Backend(c)) : Fails(c, f[1], f[2])
    /\ UNCHANGED <<tables, want, todo, request, owes, using, stage, out, result, rows,
                   cutoff, orphaned>>

RecordUsage(c) ==
    /\ Move(c, "record", "respond")
    /\ rows' = [rows EXCEPT ![c] = @ + 1]
    /\ UNCHANGED <<tables, want, todo, request, owes, using, stage, out, result, answer, history>>

\* The ledger raises inside the handler's try.
RecordFails(c) ==
    /\ Move(c, "record", "over")
    /\ Fails(c, "ledger", 502)
    /\ UNCHANGED <<tables, want, todo, request, owes, using, stage, out, result, rows,
                   cutoff, orphaned>>

\* _to_openai_response
Respond(c) ==
    /\ Move(c, "respond", "over")
    /\ answer' = [answer EXCEPT ![c] = Ok]
    /\ owes' = [owes EXCEPT ![c] = result[c] = "calls"]
    /\ UNCHANGED <<tables, want, todo, request, using, stage, out, result, rows, history>>

\* What an upstream gave as the finish reason, say, is no text: the answer is refused
\* after its row was written.
RespondFails(c) ==
    /\ Backend(c) = "openai_compat"
    /\ Move(c, "respond", "over")
    /\ Fails(c, "response", 502)
    /\ UNCHANGED <<tables, want, todo, request, owes, using, stage, out, result, rows,
                   cutoff, orphaned>>

-----------------------------------------------------------------------------
(* Streams: the driver's generator yields a line and goes to its next stage; *)
(* "done" is a chunk marked done                                             *)

Send(c, lines) == out' = [out EXCEPT ![c] = @ \o lines]
Pieces(c) == Cardinality({i \in DOMAIN out[c] : out[c][i] \in {"text", "calls"}})

Yields(c, line, next) ==
    /\ pc[c] = "stream"
    /\ line \in {"text", "calls"} => Pieces(c) < MaxPieces
    /\ Send(c, <<line>>)
    /\ stage' = [stage EXCEPT ![c] = next]
    /\ pc' = IF next = "done" THEN [pc EXCEPT ![c] = "done"] ELSE pc
    /\ UNCHANGED <<built, cache, raced, want, todo, request, owes, using, result,
                   answer, rows, cause, cutoff>>

\* _stream_buffered_complete: the whole answer first, then its lines.
CursorBuffered(c) ==
    /\ Backend(c) = "cursor" /\ (req[c].tools \/ owes[c])
    /\ \/ /\ stage[c] = "start"
          /\ \E reply \in Replies(c) :
                /\ Serves(c, reply)
                /\ Yields(c, reply, reply)
       \/ /\ stage[c] \in {"text", "calls"}
          /\ \/ stage[c] = "text" /\ Yields(c, "text", "text")
             \/ Yields(c, "finish", "done")
          /\ UNCHANGED <<offered, orphaned>>

\* _stream_native_text
CursorNative(c) ==
    /\ Backend(c) = "cursor" /\ ~req[c].tools /\ ~owes[c]
    /\ \/ Yields(c, "text", "text")
       \/ stage[c] = "text" /\ Yields(c, "finish", "done")
    /\ UNCHANGED <<offered, orphaned>>

\* The mock streams the text of its answer only, and marks no chunk as done.
MockStreams(c) ==
    /\ Backend(c) = "mock" /\ stage[c] # "end"
    /\ \/ Yields(c, "text", "text")
       \/ stage[c] = "text" /\ Yields(c, "finish", "end")
    /\ UNCHANGED <<offered, orphaned>>

\* The upstream's chunks are passed on; its [DONE], or its end without one,
\* becomes a chunk marked done.  Lines that are no data and broken JSON are skipped.
UpstreamStreams(c) ==
    /\ Backend(c) = "openai_compat"
    /\ \/ stage[c] # "tail" /\ Yields(c, "text", "text")
       \/ stage[c] # "tail" /\ req[c].tools /\ Yields(c, "calls", "text")
       \/ stage[c] # "tail" /\ Yields(c, "finish", "tail")
       \/ Yields(c, "id", "done")
       \/ Yields(c, "finish", "done")
    /\ UNCHANGED <<offered, orphaned>>

\* Where a generator may raise: before its answer, and while it reads one.
MayRaise(c) ==
    CASE Backend(c) = "mock" -> FALSE
      [] Backend(c) = "openai_compat" -> TRUE
      [] OTHER -> stage[c] = "start" \/ ~(req[c].tools \/ owes[c])

\* Mutated: the row is written whatever the stream's end (in a finally).
StreamRaises_Billed(c) ==
    /\ MayRaise(c)
    /\ Move(c, "stream", "over")
    /\ Send(c, <<"error", "[DONE]">>)
    /\ \E f \in Failures(Backend(c)) : cause' = [cause EXCEPT ![c] = f[1]]
    /\ rows' = [rows EXCEPT ![c] = @ + 1]
    /\ UNCHANGED <<tables, want, todo, request, owes, using, stage, result, answer,
                   cutoff, orphaned>>
StreamRaises(c) ==
    /\ MayRaise(c)
    /\ Move(c, "stream", "over")
    /\ Send(c, <<"error", "[DONE]">>)
    /\ \E f \in Failures(Backend(c)) : cause' = [cause EXCEPT ![c] = f[1]]
    /\ UNCHANGED <<tables, want, todo, request, owes, using, stage, result, answer, rows,
                   cutoff, orphaned>>

\* The generator ended without a chunk marked done.
StreamEnds(c) ==
    /\ stage[c] = "end"
    /\ Move(c, "stream", "over")
    /\ Send(c, <<"[DONE]">>)
    /\ UNCHANGED <<tables, want, todo, request, owes, using, stage, result, answer, rows,
                   history>>

SendDone(c) ==
    /\ Move(c, "done", "billing")
    /\ Send(c, <<"[DONE]">>)
    /\ UNCHANGED <<tables, want, todo, request, owes, using, stage, result, answer, rows,
                   history>>

HasCalls(c) == \E i \in DOMAIN out[c] : out[c][i] = "calls"

\* Mutated: no return after the row, so the loop comes to its end as well.
RecordStream_NoReturn(c) ==
    /\ Move(c, "billing", "over")
    /\ rows' = [rows EXCEPT ![c] = @ + 1]
    /\ owes' = [owes EXCEPT ![c] = HasCalls(c)]
    /\ Send(c, <<"[DONE]">>)
    /\ UNCHANGED <<tables, want, todo, request, using, stage, result, answer, history>>
RecordStream(c) ==
    /\ Move(c, "billing", "over")
    /\ rows' = [rows EXCEPT ![c] = @ + 1]
    /\ owes' = [owes EXCEPT ![c] = HasCalls(c)]
    /\ UNCHANGED <<tables, want, todo, request, using, stage, out, result, answer,
                   history>>

\* The ledger raises after [DONE] was sent: an error and another [DONE] follow.
RecordStreamFails(c) ==
    /\ Move(c, "billing", "over")
    /\ Send(c, <<"error", "[DONE]">>)
    /\ cause' = [cause EXCEPT ![c] = "ledger"]
    /\ owes' = [owes EXCEPT ![c] = HasCalls(c)]
    /\ UNCHANGED <<tables, want, todo, request, using, stage, result, answer, rows,
                   cutoff, orphaned>>

\* The client closes the connection; at [DONE] it has the whole answer.
Leave(c) ==
    /\ pc[c] \in {"stream", "done", "billing"}
    /\ owes' = [owes EXCEPT ![c] = IF pc[c] = "billing" THEN HasCalls(c) ELSE @]
    /\ pc' = [pc EXCEPT ![c] = "over"]
    /\ cutoff' = [cutoff EXCEPT ![c] = TRUE]
    /\ UNCHANGED <<tables, want, todo, request, using, stage, out, result, answer, rows,
                   cause, orphaned>>

-----------------------------------------------------------------------------
Handler(c) ==
    \/ BuildFails(c) \/ Fetch(c) \/ NoTools(c) \/ Killed(c) \/ OverBudget(c) \/ Admit(c)
    \/ Complete(c) \/ CompleteFails(c) \/ RecordUsage(c) \/ RecordFails(c)
    \/ Respond(c) \/ RespondFails(c)
    \/ CursorBuffered(c) \/ CursorNative(c) \/ MockStreams(c) \/ UpstreamStreams(c)
    \/ StreamRaises(c) \/ StreamEnds(c) \/ SendDone(c)
    \/ RecordStream(c) \/ RecordStreamFails(c)

Next ==
    \/ \E c \in Conversations : Post(c) \/ TurnedAway(c) \/ Handler(c) \/ Leave(c)
    \/ \E t \in Threads : Lookup(t) \/ Build(t)
    \/ List \/ ListNext \/ ListSkips

Spec == Init /\ [][Next]_vars

-----------------------------------------------------------------------------
(* Properties *)

PCs == {"idle", "lookup", "build", "fetch", "admit", "complete", "record", "respond", "stream",
        "done", "billing", "over"}
Causes == {"none", "forbidden", "missing", "invalid", "tools", "killed", "budget",
           "upstream", "timeout", "address", "local", "ledger", "response"}

Drivers == UNION {{b} \X (1..built[b]) : b \in Backends}

\* Every variable keeps its type, and a thread uses a driver that was built for
\* the backend it asked for (_get_routed_backend).
TypeOK ==
    /\ built \in [Backends -> Nat]
    /\ cache \in [Backends -> Nat]
    /\ \A b \in Backends : cache[b] # 0 => <<b, cache[b]>> \in Drivers
    /\ offered \subseteq Drivers \X Conversations
    /\ pc \in [Threads -> PCs]
    /\ want \in [Threads -> Backends \cup {"default"}]
    /\ todo \in Seq(Backends)
    /\ req \in [Conversations -> [tools : BOOLEAN, stream : BOOLEAN]]
    /\ home \in [Conversations -> Backends \cup {"default", "none"}]
    /\ owes \in [Conversations -> BOOLEAN]
    /\ using \in [Conversations -> Drivers]
    /\ stage \in [Conversations -> {"start", "text", "calls", "tail", "end", "done"}]
    /\ out \in [Conversations -> Seq(Lines)]
    /\ result \in [Conversations -> {"none", "text", "calls"}]
    /\ answer \in [Conversations -> [status : Nat,
          code : {"none", "cz_forbidden", "cz_auth_missing", "cz_auth_invalid",
                  "cz_unsupported_tools", "cz_killed", "cz_budget_exceeded", "cz_upstream",
                  "cz_upstream_timeout", "cz_error"},
          says : SUBSET Words]]
    /\ rows \in [Conversations -> Nat] /\ sent \in Nat
    /\ raced \subseteq Backends
    /\ cause \in [Conversations -> Causes]
    /\ cutoff \in [Conversations -> BOOLEAN] /\ orphaned \in [Conversations -> BOOLEAN]
    /\ \A t \in Threads : pc[t] \in {"lookup", "build", "fetch"} => want[t] \in Backends
    /\ \A t \in Threads : pc[t] = "fetch" => cache[want[t]] # 0

\* A stream has one [DONE] and nothing after it, and whoever reads on gets it:
\* whether the driver marks a chunk as done, ends without one, raises, or the
\* request is over its budget (_stream_response, _budget_stream).  The one
\* exception is a ledger that raises after [DONE].
StreamsEndOnce ==
    \A c \in Conversations :
        /\ \A i \in DOMAIN out[c] :
              out[c][i] = "[DONE]" /\ i < Len(out[c]) => cause[c] = "ledger"
        /\ pc[c] = "over" /\ ~cutoff[c] /\ out[c] # <<>> => out[c][Len(out[c])] = "[DONE]"

Delivered(c) ==
    /\ answer[c].status = 200
    /\ req[c].stream => \E i \in DOMAIN out[c] : out[c][i] = "[DONE]"
    /\ \A i \in DOMAIN out[c] : out[c][i] # "error"

\* Only an answer that was delivered, or is about to be, has a row, and it has one, in
\* both the plain and the streamed path (record_adapter_usage's two calls), unless the
\* client left, or the driver is the mock, whose stream has no chunk marked done.  The
\* one row for nothing is that of an upstream's answer that cannot be put together.
AnswersAreBilledOnce ==
    \A c \in Conversations :
        /\ rows[c] <= 1
        /\ rows[c] = 1 => Delivered(c) \/ pc[c] = "respond" \/ cause[c] = "response"
        /\ pc[c] = "over" /\ ~cutoff[c] /\ Delivered(c) /\ rows[c] = 0 =>
              req[c].stream /\ Backend(c) = "mock"

\* The results of a tool call come to the driver that offered it, by whichever
\* of the backend's names the conversation is routed (_get_routed_backend),
\* unless two threads built that backend's driver at the same time.
ResultsFindTheirDriver ==
    \A c \in Conversations :
        orphaned[c] => home[c] \in raced

UpstreamCodes == {"cz_upstream", "cz_upstream_timeout"}

\* The code of an error answer names who is to blame (openai_http_exception, which goes
\* by status and words).  Whatever an upstream or a library says, a refusal of the
\* client's token is reported as the client's, and nothing else is.  Upstream errors
\* are reported as such, but for a 501 that speaks of unsupported tools; nothing else
\* is, but for an error of a library that begins with "upstream".
CodeNamesTheCulprit ==
    \A c \in Conversations :
        answer[c].code # "none" =>
            /\ answer[c].code \in {"cz_auth_missing", "cz_auth_invalid"} <=>
                  cause[c] \in {"missing", "invalid"}
            /\ cause[c] \in {"upstream", "timeout"} =>
                  answer[c].code \in UpstreamCodes \/ (answer[c].status = 501 /\ "no tools" \in answer[c].says)
            /\ answer[c].code \in UpstreamCodes =>
                  \/ cause[c] \in {"upstream", "timeout"}
                  \/ cause[c] = "local" /\ "upstream first" \in answer[c].says

=============================================================================
