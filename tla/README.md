# Construct Zero in TLA+

TLA+ models of the Construct Zero adapter and its companions, model-checked with
TLC and, for the parts named below, proved with TLAPS.

## 1. Inventory

| Part | Code | State | Operations | Hard behaviour | What makes it correct |
|---|---|---|---|---|---|
| Tool loop | `drivers/cursor.py`, `core/sessions.py` | runs, parked calls, batches, events, `_runs`, `_call_to_run`, session store | complete, push/take batch, deliver, wait, close, purge, close_all | four kinds of threads on shared tables; deadlines; retries; kill; restart | no lost wake-up, a call offered once, a result returned to the call it is for, everything released in the end, a run answers its own turn |
| Inference guard | `server.py`, `home/inference_guard.py`, `budgets.py`, `ledger.py`, `admin.py`, `identity.py` | kill flag (file), budgets (file), ledger (SQLite), requests in flight | check_killed, check_budget, complete/stream, record usage, kill, unkill | check and record far apart, concurrent requests, failures and disconnects unrecorded | caps hold up to the requests in flight; a killed adapter admits nobody |
| `.cz` store | `home/store.py`, `lockfile.py`, `checkpoint.py`, `importers/` | MEMORY.md, lock file, conflict files, checkpoint archive | add, supersede, expire, write_memory, write_checkpoint, import | several processes; reads before the lock | no entry lost, ids unique |
| Agent registry and keys | `home/registry.py`, `identity.py` | registry.json, agent-keys.json | sync, register, issue key | unlocked load-modify-save from CLI and server, a temporary file that all share | a project stays registered, the last key verifies, the files can be read |
| Agent runner | `home/runner.py`, `kill_registry.py`, `quota.py`, `runtime_cli.py` | child processes, pid table, hand-off chain | run, watch for quota, fall back, kill | the kill may come from another process | kill ends every child; a fallback starts after the checkpoint and the stop; no next step is lost |
| Pointers | `home/pointers.py`, `home/cli.py` | pointer blocks in agent files | apply, remove | one of several files fails | the user's lines survive, one current block or none |
| Voice navigator | `src/vpl` | dialogue state, plan position | begin, step, read, next | long sequences of utterances | an item is read out once and in order |
| Voice server | `src/voice` | sessions with a TTL, the pages and their local storage | route transcript, ask Hermes, expire | expiry in the middle of a dialogue | an answer belongs to its session |
| Backends and routing | `server.py`, `core/registry.py`, `core/streaming.py`, `drivers/{openai_compat,mock,acp,claude_code,stub_backend}.py` | table of drivers, each driver's offered calls, the lines of a stream, the ledger row | route, look up and build, complete, stream, list models | check-then-build without a lock; failures, closes and a raising ledger between two lines; a row written after [DONE] | tool results meet the driver that asked; one [DONE]; a row for what was delivered, once; codes that name who failed |
| Supervisors | `scripts/start-adapter.sh`, `start-voice.sh`, `start.sh` | PID files, restart loops and their counters | start, stop the earlier, restart, give up | a loop in the background, stale PID files, a port that others hold | a running adapter has its loop; a refused start stops nothing; a start stops its own folder's servers only |
| Setup and installers | `scripts/install.sh`, `init.sh`, `setup.sh`, `setup-voice.sh`, `ensure-hermes.sh`, `lib/*.sh` | checkout, `.env`, virtual environments, Hermes's clone and config | install, isolate, write keys, make environments, write the config | a kill or failure at any step, reruns, two folders on one machine | setting up again converges; Hermes's config names the adapter's port |
| Security helpers | `security/middleware.py`, `server.py` (`require_auth`) | none | gate a request by host, origin and key | the order of the gates | an error code that names the caller's fault, and only then |
| Configuration, API types, doctor, tests and release checks, plugin, docs | the rest | none, or files written once | | | |

How they interact: Hermes posts to the adapter's `chat_completions`, in a pool of
threads.  The handler asks the inference guard (kill flag, budget), then the
backend.  The Cursor backend starts a run in a thread of its own or resumes one;
the SDK calls tools back in further threads, which park in a session and wait for
the results that later requests bring.  The admin endpoints set the kill flag,
close all sessions and terminate wrapped children.  CLIs, importers and hooks of
wrapped agents work on the `.cz` directory at the same time, under a file lock.
The voice server asks Hermes and steers the navigator.  Before the backend, the
server routes the model name to a driver in a table that all threads, that of the
model list included, fill without a lock; a Cursor driver can resume only the runs
it has started itself.  The start scripts keep the adapter and the voice server
running, find what they once started through PID files, and read the ports that
the installer wrote; the installer of a second folder looks at the ports that the
first one's servers hold.

## 2. The tool loop

`ToolLoop.tla` models the Cursor driver's tool runs with the sessions, the
handlers and the kill switch, and closes the system with a client that holds a
conversation as Hermes does: it posts the whole conversation each time, the tool
results of earlier turns included.

| Variables | Code |
|---|---|
| `store`, `expired`, `closed` | `SessionStore._sessions`, age against `_ttl`, `ToolLoopSession.closed` |
| `owner`, `result` | the pending tables; `PendingToolCall.result`, set with its event |
| `phase`, `outcome`, `batch`, `batchEvent`, `doneEvent` | the runner thread and its `ActiveRun` |
| `tool` | the thread of a tool callback (`execute`): parked, pushed and waiting, returned |
| `callToRun` | `CursorDriver._call_to_run`; `_runs` is `Registered` |
| `pc`, `todo`, `active`, `reply`, `handed` | a handler thread and its request |
| `client`, `turn`, `cur`, `open`, `hist`, `abandons` | the client (external) |
| `killed`, `killing`, `kills`, `restarts` | the kill flag, the admin handler between `set_killed` and `close_all` |

Each action is one step between two points where another thread can interfere:
a critical section of `batch_lock`, `lock` or `_lock`, a wake-up, a check of an
event.  Where the handler's code has several such steps (`_wait_outcome`: wake,
sleep, take, check `done_event`, loop), the model has as many actions.

Abstractions: texts, names, arguments and models are left out; a text answer is
`stop`, an answer without the run's final text (deadline passed) is `cut`; a
result is `result` or the error of a close; a timeout can expire whenever its
thread waits (a superset of real timings); call ids are unique; the API key is
present.  `SessionStore.get` has no caller and is left out.

`ToolPassthrough.tla` is the contract: the agent asks for a call, the client gets
it once, executes it, and the agent gets the result or a failure, never a result
nobody produced.  `ToolLoopRefines.tla` maps the tool loop to it (`AgentView`,
`ClientView`), and `ImplementsContract` is checked as a property and proved.

### Runs

| Run | Bounds beyond 2 calls | Shows |
|---|---|---|
| `tool_threads` | 2 handlers, 2 runs, 2 turns, 1 abandoned request | `TypeOK`, `NoLostWakeup`, `OfferedOnce`, `OneRunPerTurn`, `ReturnsForAReason` |
| `tool_crashes` | 1 handler, 2 runs, 1 turn with or without tools, 1 kill, 1 restart, sessions may expire | `LiveSessionsStored`, `EveryWaitHasResponder`, `DeliveredResultStays`, `ImplementsContract` |
| `tool_live` | 1 run, 1 turn, 1 kill, `LiveSpec` | `RequestsAnswered`, `ToolCallsReturn`, `EndReleasesHandlers` |
| `tool_stale` | 2 turns | a counterexample to `AnswersItsOwnTurn` |

Two calls are the least that have parallel calls, a late call and calls of two
runs; two handlers the least that compete for a run (one must belong to an
abandoned request, since the client posts one request at a time); two turns the
least that carry old results.  `EveryWaitHasResponder` is about the turn that goes
on: a call is in a batch or its result is on its way, and the request that comes for
it comes to its run.  Calls that are pushed after the turn was answered (the deadline
passed, `cut`) have nobody and wait for their timeout, which is `ToolCallsReturn`.  Calls, runs and handlers are symmetric and are
declared so where no liveness is checked.  The client stops after its bounded
turns, so deadlock is not checked.

### Fairness

Threads run on (`ThreadFairness`): the interpreter schedules all of them.  In
`MCToolLoopLive.tla` the constant variable `timed` splits the behaviours: in half
of them the two timeouts are sure to expire (`TimerFairness`), in the others they
may and nobody can rely on them.  The deadline is strongly fair because the
handler's loop returns to its head again and again and the deadline, once passed,
stays passed.  `EndReleasesHandlers` holds in both halves: the runner's end is what
releases its waiters (`EndReleasesCalls`, the same of the callbacks, follows from
`ToolCallsReturn` in the first half and is not run).  Nothing is assumed of the client,
of the SDK, of the TTL or of the operator.

### Finding

`tool_stale`: a finished run is never removed from `_runs`, nor its calls from
`_call_to_run`, and a request's tool results are taken from the whole
conversation.  In a conversation whose first turn used a tool, the second turn
resumes the first turn's run and is answered with the first turn's text at once.

### Proofs

`ToolLoopProofs.tla` proves, for all sets of runs, calls and handlers and all
bounds, `TypeOK`, `NoLostWakeup`, `OfferedOnce`, `OfferedIsRoutable`,
`ReturnsForAReason`, `LiveSessionsStored`, `WaitsForRegisteredRun` as invariants
(two of them, being proved, are in no run) and `DeliveredResultStays` as an action property, from `ConstantsAssumption` alone.

The inductive invariant `IInv` adds to them what they rest on:
`ActiveRegistered` (a waiting handler has a run of this process; without it
`batch[active[r]]` need not be in the function's domain), `CallsOwned` (a call has
an owner from `park` on; its callback and its table entry die with the owner's
process), `BatchesOwned` (a batch holds pushed calls of its own run: so two runs
never offer the same call), `Reasons` (results come from requests and requests
carry what was executed) and `Once` (a call is unknown to the client until it is
pushed).  Frame lemmas say which actions touch the variables of each part, so
each step lemma treats only these.

`OneRunPerTurn` and `EveryWaitHasResponder` are stated for a client that sends no
request twice and a process that is not restarted.  They follow from `CalmInv`, which
adds to `IInv` what these conditions bring: `Orderly` (one request at a time, whose
calls are routed; a request of a turn that has a run carries the result of one of
its calls, so it is resumed and no second run starts), `Directed` (while a turn goes
on, all results on their way lead to its run, and there is one, or a request has it)
and for each waiting callback, `Responded` (its call is in a batch, in an answer on
its way, or with the client).

`AdapterKeepsContract` is the refinement: `Simulation` maps every action of the tool
loop to a step of `ToolPassthrough` or to a stutter of the two views, call by call
(`Views`).  It needs `IInv`, from which a call the client knew of and lost shows as
lost (`KnownLost`), and `HandedInAnswers`: only an answer on its way holds calls.

Only model-checked: the liveness properties, which are out of the prover's reach.


## 3. The inference guard

`InferenceGuard.tla` follows one chat completion around the backend: kill flag
(`CheckKilled`), the budget file (`LoadBudgets`), the session's and the day's sum
(`CheckSession`, `CheckDaily`), the answer (`Complete`, or `EndsUnrecorded` and
`Disconnect`, which leave no row), the row (`RecordUsage`, `RecordFails`).  The
ledger is the sum of each account, (agent, session) or (agent, day); `Midnight`
starts the days anew, `EditBudgets` replaces the file, `SetKilled` and
`ClearKilled` are the admin's, `Crash` ends the handlers and keeps the files.

| Run | Bounds | Shows |
|---|---|---|
| `guard` | 1 agent, 1 session, 2 handlers, prompts and answers of 1 token, caps 2 and 3, 1 edit, 1 midnight, 1 restart; `FairSpec` | `OvershootBounded`, `KillDrains` |

Two handlers are the least that check before either has written.  Nobody posts
once an account exceeds `MaxSpent`, which is above every cap plus the overshoot.
`FairSpec`: a handler goes on, and the backend answers or raises in the end; it
assumes nothing of clients or of the operator, so `KillDrains` is conditional on
the flag staying set.

*Proved* (`InferenceGuardProofs.tla`), for all agents, sessions, pools, budget
files and token bounds: `TypeOK`, and `OvershootBounded` from
`GuardInv == TypeOK /\ Loaded /\ AccountsBounded`.  A cap that requests overshoot
is not inductive: the invariant must know what the requests in flight may still
add.  `AccountsBounded` bounds a ledger account together with the costs of the
handlers that have passed its check, counting them as a finite set; `Loaded` says
that, before any edit, what a handler has loaded is the file.  `KillDrains` is
only model-checked.

## 4. The shared memory

`MemoryStore.tla` has the operations on `.cz/MEMORY.md` by several processes.
`MemoryAdd`, `MemorySupersede`, `MemoryExpire` and `WriteExpecting` read the file
and compute a text before the lock is taken, as the code does; `Write` has the
steps of `write_memory`: take the lock, read again and copy changed entries to
the conflicts file one at a time, write the shared temporary file, rename it,
unlock.  `AgentEdits` is an agent that edits the file without the lock, `Crash`
kills a process at any of these steps (the kernel frees its lock; a torn temporary
file stays), `Midnight` changes the date that ids are made from.

| Run | Bounds | Shows |
|---|---|---|
| `memory` | 2 processes, 3 operations, 2 edits, 1 midnight; `FairSpec` | `AckedFactsKept`, `EndedStayInactive`, `OwnTextPublished`, `ChangedEntriesCopied`, `OperationsEnd` |

`raced` records that a text replaced another than the one it was computed from.
The first two invariants are conditional on it: together with the counterexample to
`FactsAreDurable` (section 10) they say that the read before the lock is the only way to lose a fact or revive an
entry; crashes, the scaffold, expiry, midnight and the temporary file are not.
Three operations are the least in which two race and a third builds on the result.
`FairSpec`: processes run on, and a free lock is given to a waiter.

*Proved* (`MemoryStoreProofs.tla`): `OwnTextPublished`, from `Exclusion` (a process
inside the lock's region owns it, so no two are inside, and the temporary file of
the one that has written is its own), and `ChangedEntriesCopied`, from `Copies`
(what was copied so far, for each entry in the order of the loop).  `TypeOK`,
`AckedFactsKept` and `EndedStayInactive` follow from
`StoreInv == TypeOK /\ Exclusion /\ Numbers /\ Computations /\ Scaffolds /\ Facts /\ Kept`.
None of the three is inductive: what a rename does depends on how its text was
computed long before.  `Computations` relates each waiting text to the text it was
read from (the other entries are where they were and none is active again, the new
fact is there, the target has ended, ids stay unique), so when the text read is the
text replaced, everything promised stays (`KeepFacts`).  `Scaffolds` says that an
empty text is written only where no file is, `Facts` that no two jobs have one fact,
and `Numbers`, that today's serials are bounded, is what makes the largest of them
exist and the next id a new one (`MaxFacts`, `NextIdFacts`).  All hold for any number
of processes and operations.

## 5. Voice

`SpeechDocument.tla` says what the parser finds in a reply (items, sections,
groups); `SpeechParser.tla` is the parser's loop, line by line.  `VoiceNav.tla` is
the voice server with its session store, the presentation engine and the pages.
A page asks (`Ask`), says or presses something (`Speak`, `PressChip`), and gets
the answer later (`Deliver`); sessions expire (`Expire`), a page is loaded anew
(`Load`) and takes the session id that all pages share.  The endpoints have no
`await` between reading the session and answering, so a turn is one action; that
is the code's own atomicity, not an assumption.  That a page takes one turn at a time
is an assumption in one case: `sendTurn` does not look at `busy` (app.js:133), so a
recording that goes on while a chip is pressed is sent along with it; this is left
out.

| Run | Bounds | Shows |
|---|---|---|
| `speech_parse` | all replies of up to 7 lines of 5 kinds (97 656), 3 groups | `FindsSections`, `GroupsAreSound` |
| `voice_turns` | 2 pages, 2 session ids, 4 replies (named groups, a list cut into groups, a short list, a question back), 6 turns | `GroupReadInOrder`, `ScreenIsSession` |

A heading may have a title or none: one without closes the section and opens none.
Seven lines hold one section more than there are groups, and sections of two
items.  `FindsSections` compares the loop with the definition at every prefix of
every reply.  `GroupReadInOrder` relates the server's place in a group to what the
page has actually heard, a history variable.  `behind` marks pages that missed an
answer, because another page with the same session or a lost answer came between.

*Proved* (`SpeechProofs.tla`), for replies of any length and any number of groups,
pages, sessions and turns: both properties of the parser, both of the navigator,
and its type invariant.  A heading's rank among the sections is the number of
headings before it; the lemmas on ranks, on cutting a list into groups and on what
a group holds are about the definitions of `SpeechDocument.tla` alone.
`ParserInv` says that the loop has closed the sections of all headings but the
last one, which is open with the items read since if it has a title; if not, all
sections are closed and none grows.  `NavInv` says what a session
holds (`Shape`: a document whose groups are sound, and a place in it), that an
answer on its way is of the session its page shows, of none, or of a new one that
nobody else knows (`AnswersAreOwn`), and that such an answer would leave the
screen true (`AnswerIsSession`).  The last two are what makes `ScreenIsSession`
inductive: a page shows what the server said some turns ago.

## 6. The agent runner

`AgentRunner.tla` has `construct-zero run` with pipes (`Collect`) and with a
terminal (`Select`, `Poll`, `InputEnds`), the import, which reads the checkpoint
(`Import`) and reads it again for Cursor (`RunImporter`), and the writing of the
checkpoint, the launch of a fallback, `handoff` and `kill`; each command is a
process with its own table of children.  The agents are external: they reach their
limit, update the checkpoint, exit, or go on after SIGTERM.  A limited agent is told
to stop and not waited for, so it may go on beside its successor: `HandoffIsPrepared`
asks that it was told, and that the checkpoint was written (`written`, set by the
write itself).  `NextStepKept` is about imports after which nobody changed the file;
where somebody did, what was read first overwrites it.

| Run | Bounds | Shows |
|---|---|---|
| `runner_runs` | 2 commands of any kind and agent, 3 registries | `HandoffIsPrepared`, `NextStepKept` |

Two commands suffice because they meet only in the checkpoint.  There is no bound
on steps; the commands end, so deadlock is not checked.

`_pids` is local to the process that runs the agent, and `construct-zero kill` is
another process, so `KillEndsAgents` fails (section 10).

*Proved* (`AgentRunnerProofs.tla`), for any set of commands and registries:
`TypeOK` and `HandoffIsPrepared` from `RunnerInv == TypeOK /\ Prepared /\ Launched
/\ HandoffIsPrepared` (`Prepared`: at `launch`, the limit was read, the checkpoint
was written, the agent was told to stop; `Launched`: a command that has a successor is past
its launch, so none of this is undone), and the action property `NextStepKept`
from `Merged` (what a command is about to write keeps the next step of what it
imported).

## 7. Pointers, registry and keys

`AgentHome.tla` has `home init`, `uninstall`, `sync` and `agents key`.  The pointer
files are sequences of the user's lines and the block's parts; `Inserted` and
`Removed` are what `_insert_or_replace` and `_remove_block` make of them.  A file is
read (`ReadPointer`, or `KeepPointer` when nothing is to change), truncated
(`OpenPointer`) and written in place (`WritePointer`), by each process for itself.  The registry is saved
through `registry.tmp`, which all processes share: the model has its open
(truncate), its write through a descriptor that follows the file when another
process renames it, and the rename.  The keys are written in place.  A process may
be killed between any two steps; the user adds lines, deletes the end marker,
edits the block, and adds files to git.

| Run | Bounds | Shows |
|---|---|---|
| `home` | 2 processes, 2 agents, AGENTS.md, 3 commands, 1 edit | `UserLinesKept`, `RegistryReadable`, `RegistrationKept`, `KeyVerifies`, `BlockFollowsCommand` |

`overlapped` and `raced` record two races the code has (two processes in the
shared temporary file; a file replaced that had changed since it was loaded), and
`upset` the pointer files that changed while a command had them in hand or were left
truncated by a kill.  In these histories registrations, keys and the user's lines are
lost: the properties say that nothing else, no other kill, failed init or order of
commands, does such harm.  `LinesSurviveKills`, which leaves no history out, fails
(section 10).  Three commands are the least in which two race and a third reads.
`MCAgentHome_files.cfg` checks `UserLinesKept` and `BlockFollowsCommand` on two pointer
files, AGENTS.md and the rule file, whose block has a front matter, with two commands
(636 325 states, no error): the files do not depend on each other, and three commands
on both are too many states.

*Proved* (`AgentHomeProofs.tla`), for any processes, agents, files and bounds:
`RegistryReadable`, `RegistrationKept` and `KeyVerifies`, from `HomeInv`.  It has what
a process carries from step to step (`Work`: the registry it loaded and will write,
the keys it loaded with its own added), who has the temporary file (`Saving`: without
`overlapped`, one process at a time, whose descriptor is at that file, and which is
torn until it is written), and what a whole key file contains (`Keying`: without a
race, the keys last printed, and a process that is about to write has them all).

`UserLinesKept` and `BlockFollowsCommand` are proved there too, from `PointerInv`: a
file that is neither damaged nor upset is absent, or has lines of the user and of the
front matter only, or has one block among such lines, and as many lines of the user
as were written (`Kept`); or it is empty, and the one process that is about to write
it has such lines in hand (`FileOk`, `Handed`).  `Replaced` is a recursive function over a file's lines.  Where the
part to replace is there once (`OnlyAt`), `ReplacedFacts` gives a function that
satisfies its equation, and shows that any other is equal to it, by the last line
where they would differ; `BlockIsReplaced` and `TextIsReplaced` apply it to the block
and its text, and `CountAdds` counts the user's lines in what is put together.

`TypeOK` is proved from `HomeTypes`, which adds to these invariants what the files,
the commands and the keys are.  Here a file's markers may be damaged, and a block may
be there many times: `ReplacedType` shows of `Replaced` with any part that is not
empty that its equation has a solution, and that it has lines only.

## 8. Backends, routing and streams

`Gateway.tla` is `server.py` between the client and the backends.  A conversation
is a client that posts its requests one at a time; `Lister` is the thread of
`GET /v1/models`, which builds the other backends' drivers one after the other.

| Variables | Code |
|---|---|
| `built`, `cache` | the drivers `build` has made; `app.state.route_backends` |
| `offered` | `CursorDriver._call_to_run`, as pairs of a driver and a conversation |
| `pc`, `want`, `todo` | where a thread is: `_get_routed_backend` (look up, build, read again), admission, the driver, the row |
| `req`, `using`, `stage`, `out` | the request, its driver, the driver's generator, the lines streamed |
| `result`, `answer`, `rows` | what `complete` returned, status and error code, ledger rows of the request |
| `home`, `owes`, `sent` | the client (external): the backend it talks to, the tool results it has to post |

| Actions | Code |
|---|---|
| `Post`, `TurnedAway` | `_backend_for_request`, `parse_routed_model`; `LoopbackHostMiddleware` and `require_auth` |
| `Lookup`, `Build`, `BuildFails`, `Fetch` | `_get_routed_backend` |
| `List`, `ListNext`, `ListSkips` | `list_models` |
| `NoTools`, `Killed`, `OverBudget`, `Admit` | the order of `chat_completions` before the backend |
| `Complete`, `CompleteFails`, `RecordUsage`, `RecordFails`, `Respond`, `RespondFails` | the plain path: the result, its row, the response built from it |
| `CursorBuffered`, `CursorNative`, `MockStreams`, `UpstreamStreams` | the drivers' `stream` |
| `StreamRaises`, `StreamEnds`, `SendDone`, `RecordStream`, `RecordStreamFails`, `Leave` | `_stream_response`, a client that closes |

A line of a stream is one of six kinds; `id` is the chunk without choices that a
driver yields for an upstream's [DONE].  `Code` is `openai_http_exception`, which
tells the code from the status and from five phrases of the message (`Words`).  A
message has the adapter's own phrases (`OwnWords`) and any that an upstream's or a
library's text brings with it (`Texts`): who failed is in `cause`, which `Code` does
not see.  Of a
Cursor driver only `_call_to_run` is kept (section 2 has its runs); the kill flag
and the budgets may refuse any request (section 3 has them).  `raced` (two threads
were about to build one backend), `cause`, `cutoff` and `orphaned` are history.

| Run | Bounds | Shows |
|---|---|---|
| `gateway` | 2 clients (one that names Cursor in two ways, one that uses any name), the lister, default backend `mock`, upstream statuses 401 and 501, upstream texts with all of the phrases or none, 3 requests, 1 piece to a stream | `StreamsEndOnce`, `AnswersAreBilledOnce`, `ResultsFindTheirDriver`, `CodeNamesTheCulprit` |

Two clients and the lister are three threads at the table, one more than a race
needs.  Three requests are the least in which one conversation gets a call and
posts its result while another thread fills the table.  401 and 501 are the statuses
whose code depends on the message before it is asked whether an upstream failed.  The names meet every branch of
`parse_routed_model`.

`MCGateway_errors.cfg` has a counterexample to `UpstreamErrorsHaveCodes`: an upstream that answers 501 with a text that says "Tools are not
supported" is reported as `cz_unsupported_tools`, where the recipe promises
`cz_upstream_<status>` (docs/recipes/backend-openai-compat.md:55).
`CodeNamesTheCulprit` is what words can do: whatever an upstream says, the client's
token is blamed exactly when it was refused, an upstream's error is reported as one
but for that 501, and nothing else is but a library's error that begins with
"upstream".  `AnswersAreBilledOnce` has one exception too: the row is written before
the response is built, so a result no response can be built from is billed.

*Proved* (`GatewayProofs.tla`), for any clients, names, statuses, texts and bounds:
all four.  Those about streams, rows and codes rest on `Inv`: routes are typed, and each
request is `Fine`: nothing is sent before the request is admitted, a stream has
neither error nor [DONE] until its end, its row comes last, and only the mock ends
without a chunk marked done.  A request is seen as one record (`View`), so that a
step is shown to make one fine record of another (`Becoming`).
`ResultsFindTheirDriver` needs `DriverInv` as well: outside a race, a backend being
built is not in the table and has one builder (`TableInv`), so its entry is never
replaced, and a conversation is served by the entry, which offered what the client
owes (`Bound`).

## 9. Installing, starting and supervising

`Supervisor.tla` has the restart loops of `start-adapter.sh` and `start-voice.sh`
and their PID files.  A loop (`loops`) has an owner, a PID file, a port, its phase,
how many servers it has started and the state of the last; `Spawn`, `GivesUp`,
`Boots`, `Crash` and `Exits` are its and its server's steps; `Stopped` is the
script's "Stop existing".  The scripts differ in who writes the file: the adapter's
has its server, the voice's has its server (written by the loop) or the loop
(written by the script), whoever comes last.  Two things are taken together or left
out here: a server's start and the writing of its pid are one step, and pids are
never reused, so a stale PID file names nobody.  A start script that meets the pid of
a stranger would stop the stranger (start-adapter.sh:71); `StartsStopOwnOnly` does
not speak of that.

`Deployment.tla` composes it with the scripts, on several folders of one machine.

| Variables | Code |
|---|---|
| `code`, `hermes`, `venv` | the checkout, Hermes's clone, the virtual environments, and how much of them a failure has left |
| `env`, `conf` | the keys of `.env`; the port in a Hermes home's `config.yaml` |
| `script`, `opts`, `picked` | the folder's running script and its shell variables |
| `commands`, `faults` | bounds |
| `refused`, `stopped`, `victims`, `untold` | history |

| Actions | Code |
|---|---|
| `Command`, `Retry`, `Clears`, `EditPort` | the user runs `install.sh`, `init.sh` or `start.sh`, sets up again, clears a refused folder, sets `CZ_PORT` |
| `Clone`, `Isolate`, `WriteState`, `WritePort` | `install.sh`, `cz_apply_isolation`, `cz_find_free_port`, `cz_set_env` |
| `EnsureHermes`, `Make`, `Pip`, `WriteConfig` | `ensure-hermes.sh`, `setup.sh`, `setup-voice.sh`, `cz_write_hermes_config` |
| `Check`, `Stop`, `StartLoop`, `ParentPid` | the two start scripts |
| `Fault` | a step fails or is killed, and leaves what it leaves |
| `Process`, `CrashesServer` | the loops and servers of `Supervisor` |

| Run | Bounds | Shows |
|---|---|---|
| `deploy` | one folder made by `install.sh`, with everything asked for, one cloned by hand and set up earlier, without uv; port 8766 held by another program; 2 restarts, 2 commands, 1 script at a time, 1 fault, crash or edit | `AdapterSupervised`, `RefusalStopsNothing`, `StartsStopOwnOnly`, `HermesFindsAdapter`, `AdapterComesBack`, `SetupConverges` |

`WriteState` stands for the keys of `.env` that name the folder's own directories and
PID files (isolate.sh:91-101): they are one key, present or not.

Two commands are the least in which one stops what another has started, in its own
folder or in another; the held port lies between the two ports that are probed
from, so the search has to skip it; one fault can hit any step, and the setups that
follow it are not bounded.  One script at a time is a bound of this run only: the
theorems allow any number.

Fairness: a script runs on, the user sets up again until the adapter is installed
and clears a folder that `install.sh` refuses (`SetupConverges` is about what the
scripts make of that), and loops and servers run on.  Commands, edits, crashes and
faults are not assumed to happen.  `AdapterComesBack` is conditional on the
restarts that are left.

*Proved* (`DeploymentProofs.tla`), for any folders, ports, wishes and bounds:
`TypeOK` and the four safety properties, from `DeploymentInv`.  It adds to them
`PidsFit` (a PID file names a loop that writes to it, and the adapter's never names
a loop: so a stop never ends the adapter's loop, which is `AdapterSupervised`),
`LoopsFit` (a loop that writes into a folder is this folder's, whence
`StartsStopOwnOnly`), `ScriptsFit` (what a script has stopped and whether it may
still be refused, by its step) and `ConfigsFit` (a config was written with the port
of `.env`, and the port is kept from then on).  The two liveness properties are
only model-checked.

## 10. Further counterexamples

These configurations are kept beside the runs.  Each checks one statement of the
code, its documents or its tests that does not hold.

| Configuration | Property | What happens |
|---|---|---|
| `MCInferenceGuard_hint.cfg` | `NewSessionIsAdmitted` | the daily cap's refusal says "start a new session" (budgets.py:58), and the new session is refused too |
| `MCMemoryStore_lost.cfg` | `FactsAreDurable` | two adds read the same text; the second to take the lock overwrites the first's entry, and both return the same id |
| `MCGateway_errors.cfg` | `UpstreamErrorsHaveCodes` | an upstream's 501 that says "Tools are not supported" is reported as `cz_unsupported_tools`, where the recipe promises `cz_upstream_<status>` (docs/recipes/backend-openai-compat.md:55) |
| `MCDeployment_ports.cfg` | `PortsStayLocal` | two folders installed while neither runs are given the same port (install.sh:19: "ports stay local") |
| `MCDeployment_loops.cfg` | `OneLoopPerService` | "Stop existing" (start-adapter.sh:68) stops the adapter's server and not its loop, which competes with the new one for the port |
| `MCSpeechParser_groups.cfg` | `ItemsAreInGroups` | items of sections beyond `max_buckets` are counted aloud and cannot be reached |
| `MCVoiceNav_continue.cfg` | `NextContinuesReading` | "Say next to continue" after three items: next reads the second, since the place was set to the first |
| `MCAgentRunner_kill.cfg` | `KillEndsAgents` | `construct-zero kill` is another process than the one whose table has the child |
| `MCAgentRunner_noticed.cfg` | `LimitIsNoticed` | with a terminal, the loop ends at the agent's exit with its last output unread |
| `MCAgentRunner_reported.cfg` | `LimitIsReported` | without a handoff, the wait of five seconds for an agent that nobody stopped ends the command in an exception |
| `MCAgentRunner_done.cfg` | `DoneIsKept` | the import keeps an agent's next step but not its Done section |
| `MCAgentRunner_sender.cfg` | `FindsSendersCheckpoint` | two handoffs overlap and a successor reads the other's checkpoint |
| `MCAgentHome_claims.cfg` | `LinesSurviveKills` | an init is killed between truncating AGENTS.md and writing it, or a line is added between its read and its write: the line is gone |
| `MCAgentHome_claims.cfg`, with `-continue` | `InitIsIdempotent` | the rule file never equals its block, whose front matter is outside the markers: each init adds another front matter (`test_pointer_idempotent` looks at AGENTS.md only) |

Five more statements have no configuration of their own; put in the place of the
INVARIANT of `MCVoiceNav_continue.cfg`, `MCGateway_errors.cfg` or
`MCDeployment_loops.cfg`, TLC refutes them: `NextSpeaksTheRest` of `VoiceNav` (a cut
item ends in "Say next for the rest", and next goes to the following item),
`StreamErrorsHaveCodes` of `MCGateway` (a stream that times out ends in an error line
without a code, where the recipe promises `cz_upstream_timeout`),
`LinesAreChunks` of `MCGateway` (for an upstream's [DONE] a line without choices is
sent), `OneDriverPerName` of `MCGateway` (the race at the table), and
`RerunIsAccepted` of `MCDeployment` (docs/features/onboarding.md:61 says to run init
again; its start is refused, since the folder's own adapter holds the port).

`MCAgentRunner_live.cfg` holds and says less than the runs: under `FairSpec`, the
wrapper runs on and its timeout expires, every run ends after its agent's exit or
its limit.

## 11. Proofs in general

The proof modules extend the models and rest on the models' named `ASSUME`s only.
What TLAPS has for every value of the constants, TLC has checked first on the runs
above: every safety invariant and every action property of the passing runs, and
the refinement of the tool loop.  The type invariants of the tool loop, the guard,
the memory, the navigator, the runner, the pointers and the deployment are proved;
those of the parser and the gateway hold within the bounds of their runs when they are
added to the configuration.

Liveness (`KillDrains`, `OperationsEnd`, `AdapterComesBack`, `SetupConverges`, the
properties of `tool_live`, `RunsEnd`) is out of the prover's reach and only
model-checked.  The induction theorems of the library are too, whose parameter is an
operator.  Where a proof needs an induction over numbers (what `Replaced` computes, a
largest entry, a free port), it takes the least one instead: a set of numbers that is
not empty has one (`WFMin`), and for a set of counterexamples the equation at that
place contradicts it.

No run checks deadlock: every model stops where its bounds, or its client, user
or agents, stop.  That somebody waits forever is what the liveness properties say.

## 12. Not modelled

Configuration, types and headers have no state that changes.  The doctor only
reports.  Tests, release checks and the guard rails of the repository are tools of
its development.  Speech recognition, synthesis and the Hermes bridge are inputs of
`VoiceNav`.  Redaction, permissions and the checks of paths and addresses are
functions of a text.

Left out of modelled parts.  Backends: the content of `/health` and of the model
list, the stub backend (no factory raises the ImportError it stands for), the
stream helpers that nothing calls, what the wrapped CLIs of `acp` and `claude_code`
print.  Setup: the update of Hermes, the plugin's link and its profile, the
adapter's `config.yaml`, the prompt for the key, the installer of uv, the
dispatcher `construct-zero`.  Elsewhere: texts and patterns, the reports of usage
and status, the detected agents' versions, the copies of checkpoints, the
temporary file of the conflicts file (written and renamed under the lock, and read by
nobody).

## 13. Plan

Done, in this order: the tool loop with its contract and proofs, the inference
guard with proofs, the shared memory with proofs, parser and navigator with proofs,
the agent runner with proofs, pointers, registry and keys with proofs, the gateway
with proofs, supervisors and deployment with proofs, the refinement of the tool loop
with its proof.

Next models:

1. The tool loop with several conversations on one session store, and composed with
   the gateway's table: what a second Cursor driver does with results of the first.
2. The page of the voice server (`app.js`): recording, asking, playing.
3. The update of an installed folder.

Next proofs: type correctness of the gateway and of the parser, and an abstract
specification of the shared memory (a map from entries to their facts) that the store
implements.
