---------------------------- MODULE AgentRunner ----------------------------
(***************************************************************************)
(* construct-zero run, handoff and kill (home/runner.py, kill_registry.py, *)
(* checkpoint.py, importers/, runtime_cli.py): an agent's CLI is wrapped,  *)
(* its output is searched for the message that a limit is reached, the     *)
(* checkpoint of the project is written and another agent is launched.     *)
(*                                                                         *)
(* Every command is a process of its own; all of them work on one project. *)
(* The agents are external: they print, update the checkpoint, and exit.   *)
(*                                                                         *)
(* Abstractions: a checkpoint is who sent it, the runs whose work its Done *)
(* section lists, and whether its next step is an agent's own or a stock   *)
(* phrase; the copies under handoffs/ are left out, and so are limits on   *)
(* the size of output.                                                     *)
(***************************************************************************)
EXTENDS Naturals, Sequences, FiniteSets

CONSTANTS
    Runs,              \* commands, one process each
    Registries,        \* what registry.json and the PATH may hold: [order, installed]
    None

Agents == {"claude-code", "cursor", "hermes"}
Commands ==
    [kind : {"run"}, agent : Agents, pty : BOOLEAN, auto : BOOLEAN, to : {None}]
    \cup [kind : {"handoff"}, agent : Agents \cup {"manual"}, pty : {FALSE}, auto : BOOLEAN, to : Agents]
Checkpoints == [from : Agents \cup {"manual", None}, done : SUBSET Runs, next : {"none", "stock", "own"}]

ASSUME RunnerConstants ==
    /\ None \notin Runs \cup Agents \cup Commands \cup Checkpoints
    /\ \A reg \in Registries : reg.order \in Seq(Agents) /\ reg.installed \subseteq Agents

VARIABLES
    registry,
    checkpoint,        \* .cz/checkpoint.md
    pc, cmd,           \* where a command is, and its arguments
    child,             \* the wrapped agent; told: it was sent SIGTERM
    out,               \* its message that a limit is reached
    quota,             \* quota
    base,              \* existing: the checkpoint its import has read
    partial,           \* the checkpoint it is going to write
    tracked,           \* process -> _pids, the children registered in it
    successors,        \* agents launched, by which command, and the checkpoint they find
    written,           \* history: the commands that have written their checkpoint
    killed

vars == <<registry, checkpoint, pc, cmd, child, out, quota, base, partial, tracked, successors, written, killed>>

PCs == {"idle", "waiting", "select", "poll", "import", "importer", "write", "launch", "reap",
        "returned", "failed", "crashed"}
Ended == {"returned", "failed", "crashed"}

Init ==
    /\ registry \in Registries
    /\ checkpoint \in {None, [from |-> None, done |-> {}, next |-> "none"]}
    /\ pc = [r \in Runs |-> "idle"]
    /\ cmd = [r \in Runs |-> None]
    /\ child = [r \in Runs |-> "none"]
    /\ out = [r \in Runs |-> "unprinted"]
    /\ quota = [r \in Runs |-> FALSE]
    /\ base = [r \in Runs |-> None] /\ partial = [r \in Runs |-> None]
    /\ tracked = [p \in Runs \cup {"kill", "adapter"} |-> {}]
    /\ successors = {} /\ written = {} /\ killed = FALSE

Goto(r, place) == pc' = [pc EXCEPT ![r] = place]

-----------------------------------------------------------------------------
(* The wrapper.                                                            *)

\* run_agent: the agent is found, started and registered, with pipes or a terminal.
Run(r) ==
    /\ pc[r] = "idle"
    /\ \E c \in Commands :
          /\ c.kind = "run"
          /\ cmd' = [cmd EXCEPT ![r] = c]
          /\ IF c.agent \in registry.installed
             THEN /\ Goto(r, IF c.pty THEN "select" ELSE "waiting")
                  /\ child' = [child EXCEPT ![r] = "running"]
                  /\ tracked' = [tracked EXCEPT ![r] = {r}]
             ELSE Goto(r, "failed") /\ UNCHANGED <<child, tracked>>
    /\ UNCHANGED <<registry, checkpoint, out, quota, base, partial, successors, written, killed>>

\* communicate: with pipes the output is read once the agent has exited.
Collect(r) ==
    /\ pc[r] = "waiting" /\ child[r] = "exited"
    /\ tracked' = [tracked EXCEPT ![r] = {}]
    /\ quota' = [quota EXCEPT ![r] = (out[r] = "unread")]
    /\ out' = [out EXCEPT ![r] = IF @ = "unread" THEN "read" ELSE @]
    /\ Goto(r, IF out[r] = "unread" THEN "import" ELSE "returned")
    /\ UNCHANGED <<registry, checkpoint, cmd, child, base, partial, successors, written, killed>>

\* select: what the terminal holds is read in chunks; the message may come later.
Select(r) ==
    /\ pc[r] = "select"
    /\ \/ /\ out[r] = "unread"
          /\ out' = [out EXCEPT ![r] = "read"]
          /\ quota' = [quota EXCEPT ![r] = TRUE]
          /\ Goto(r, "import")
       \/ Goto(r, "poll") /\ UNCHANGED <<out, quota>>
    /\ UNCHANGED <<registry, checkpoint, cmd, child, base, partial, tracked, successors, written, killed>>

Poll(r) ==
    /\ pc[r] = "poll"
    /\ Goto(r, IF child[r] = "exited" THEN "reap" ELSE "select")
    /\ UNCHANGED <<registry, checkpoint, cmd, child, out, quota, base, partial, tracked, successors, written, killed>>

\* Standard input ends.
InputEnds(r) ==
    /\ pc[r] = "poll"
    /\ Goto(r, "reap")
    /\ UNCHANGED <<registry, checkpoint, cmd, child, out, quota, base, partial, tracked, successors, written, killed>>

-----------------------------------------------------------------------------
(* Checkpoint and handoff.                                                 *)

\* import_checkpoint reads the checkpoint that is there, and asks git.
Import(r) ==
    /\ pc[r] = "import"
    /\ base' = [base EXCEPT ![r] = checkpoint]
    /\ Goto(r, "importer")
    /\ UNCHANGED <<registry, checkpoint, cmd, child, out, quota, partial, tracked, successors, written, killed>>

\* What an agent's importer finds: for Cursor and for manual handoffs the checkpoint,
\* read again; else an empty one with a stock phrase, or, for a Claude Code without
\* a transcript, with nothing.
Found(agent) ==
    IF agent \in {"cursor", "manual"} /\ checkpoint # None THEN {checkpoint}
    ELSE {[from |-> None, done |-> {}, next |-> next] :
             next \in IF agent = "claude-code" THEN {"none", "stock"} ELSE {"stock"}}

\* Mutated: the next step of the checkpoint that was read first is not looked at.
Imported_Fresh(r, found) == [found EXCEPT !.from = cmd[r].agent]

\* The next step that was read first, unless it is empty, replaces the importer's.
Imported(r, found) ==
    [found EXCEPT !.from = cmd[r].agent,
                  !.next = IF base[r] # None /\ base[r].next # "none" THEN base[r].next ELSE @]

RunImporter(r) ==
    /\ pc[r] = "importer"
    /\ \E found \in Found(cmd[r].agent) : partial' = [partial EXCEPT ![r] = Imported(r, found)]
    /\ Goto(r, "write")
    /\ UNCHANGED <<registry, checkpoint, cmd, child, out, quota, base, tracked, successors, written, killed>>

\* The agent after the first place of this one in the fallback order.
NextFallback(agent) ==
    LET places == {i \in DOMAIN registry.order : registry.order[i] = agent}
        i == CHOOSE i \in places : \A j \in places : i <= j
    IN  IF places = {} \/ i = Len(registry.order) THEN None ELSE registry.order[i + 1]

Successor(r) == IF cmd[r].kind = "handoff" THEN cmd[r].to ELSE NextFallback(cmd[r].agent)
HandsOff(r) == cmd[r].kind = "handoff" \/ (cmd[r].auto /\ Successor(r) # None)

\* Mutated: the agent is left running.
Stopped_Left(r) == child

\* A wrapped agent that still runs is sent SIGTERM, and not waited for.
Stopped(r) == IF child[r] = "running" THEN [child EXCEPT ![r] = "told"] ELSE child

\* Mutated: a handoff goes on to the launch first.
WriteCheckpoint_Later(r) ==
    /\ pc[r] = "write"
    /\ IF HandsOff(r)
       THEN Goto(r, "launch") /\ child' = Stopped(r) /\ UNCHANGED <<checkpoint, written>>
       ELSE /\ checkpoint' = partial[r] /\ written' = written \cup {r}
            /\ Goto(r, "returned") /\ UNCHANGED child
    /\ UNCHANGED <<registry, cmd, out, quota, base, partial, tracked, successors, killed>>

\* write_checkpoint, under the lock; then the fallback is looked up.
WriteCheckpoint(r) ==
    /\ pc[r] = "write"
    /\ checkpoint' = partial[r]
    /\ written' = written \cup {r}
    /\ IF HandsOff(r)
       THEN Goto(r, "launch") /\ child' = Stopped(r)
       ELSE Goto(r, IF cmd[r].pty THEN "reap" ELSE "returned") /\ UNCHANGED child
    /\ UNCHANGED <<registry, cmd, out, quota, base, partial, tracked, successors, killed>>

\* The successor is found or not; it is launched with the prompt, unless the
\* command line is only to be printed.
Launch(r) ==
    /\ pc[r] = "launch"
    /\ IF Successor(r) \in registry.installed
       THEN /\ Goto(r, "returned")
            /\ successors' =
                   IF cmd[r].auto
                   THEN successors \cup {[by |-> r, agent |-> Successor(r), finds |-> checkpoint]}
                   ELSE successors
       ELSE Goto(r, "failed") /\ UNCHANGED successors
    /\ UNCHANGED <<registry, checkpoint, cmd, child, out, quota, base, partial, tracked, written, killed>>

Reap(r) ==
    /\ pc[r] = "reap" /\ child[r] = "exited"
    /\ Goto(r, IF quota[r] /\ HandsOff(r) THEN "launch" ELSE "returned")
    /\ UNCHANGED <<registry, checkpoint, cmd, child, out, quota, base, partial, tracked, successors, written, killed>>

\* The wait for the agent's exit has a timeout.
WaitExpires(r) == child[r] # "exited"

\* TimeoutExpired is not caught: the command ends with a traceback.
ReapFails(r) ==
    /\ pc[r] = "reap" /\ WaitExpires(r)
    /\ Goto(r, "crashed")
    /\ UNCHANGED <<registry, checkpoint, cmd, child, out, quota, base, partial, tracked, successors, written, killed>>

\* construct-zero handoff.
HandoffTo(r) ==
    /\ pc[r] = "idle"
    /\ \E c \in Commands : c.kind = "handoff" /\ cmd' = [cmd EXCEPT ![r] = c]
    /\ Goto(r, "import")
    /\ UNCHANGED <<registry, checkpoint, child, out, quota, base, partial, tracked, successors, written, killed>>

-----------------------------------------------------------------------------
(* The kill switch and the agents.                                         *)

\* construct-zero kill: terminate_all in its own process, then in the adapter's.
Kill ==
    LET targets == tracked["kill"] \cup tracked["adapter"] IN
    /\ ~killed
    /\ killed' = TRUE
    /\ child' = [r \in Runs |-> IF r \in targets THEN "exited" ELSE child[r]]
    /\ tracked' = [tracked EXCEPT !["kill"] = {}, !["adapter"] = {}]
    /\ UNCHANGED <<registry, checkpoint, pc, cmd, out, quota, base, partial, successors, written>>

Lives(r) == child[r] \in {"running", "told"}

ReachesLimit(r) ==
    /\ Lives(r) /\ out[r] = "unprinted"
    /\ out' = [out EXCEPT ![r] = "unread"]
    /\ UNCHANGED <<registry, checkpoint, pc, cmd, child, quota, base, partial, tracked, successors, written, killed>>

\* "Update .cz/checkpoint.md before you stop".
UpdatesCheckpoint(r) ==
    /\ Lives(r) /\ checkpoint # None
    /\ checkpoint' = [checkpoint EXCEPT !.done = @ \cup {r}, !.next = "own"]
    /\ UNCHANGED <<registry, pc, cmd, child, out, quota, base, partial, tracked, successors, written, killed>>

Exits(r) ==
    /\ Lives(r)
    /\ child' = [child EXCEPT ![r] = "exited"]
    /\ UNCHANGED <<registry, checkpoint, pc, cmd, out, quota, base, partial, tracked, successors, written, killed>>

Step(r) ==
    \/ Collect(r) \/ Select(r) \/ Poll(r) \/ Import(r) \/ RunImporter(r) \/ WriteCheckpoint(r) \/ Launch(r)
    \/ Reap(r) \/ ReapFails(r)

Next ==
    \/ \E r \in Runs :
          \/ Run(r) \/ HandoffTo(r) \/ InputEnds(r) \/ Step(r)
          \/ ReachesLimit(r) \/ UpdatesCheckpoint(r) \/ Exits(r)
    \/ Kill

Spec == Init /\ [][Next]_vars

\* The wrapper runs on, and its timeout expires; nothing is assumed of the agents.
FairSpec == Spec /\ \A r \in Runs : WF_vars(Step(r))

-----------------------------------------------------------------------------
(* Properties.                                                             *)

\* Every variable holds a value of its type; whoever imports, writes or launches
\* has a command, and whoever writes has something to write.
TypeOK ==
    /\ registry \in Registries /\ checkpoint \in Checkpoints \cup {None}
    /\ pc \in [Runs -> PCs] /\ cmd \in [Runs -> Commands \cup {None}]
    /\ child \in [Runs -> {"none", "running", "told", "exited"}]
    /\ out \in [Runs -> {"unprinted", "unread", "read"}]
    /\ quota \in [Runs -> BOOLEAN]
    /\ base \in [Runs -> Checkpoints \cup {None}] /\ partial \in [Runs -> Checkpoints \cup {None}]
    /\ tracked \in [Runs \cup {"kill", "adapter"} -> SUBSET Runs]
    /\ successors \subseteq [by : Runs, agent : Agents, finds : Checkpoints]
    /\ written \subseteq Runs /\ killed \in BOOLEAN
    /\ \A r \in Runs : /\ pc[r] # "idle" => cmd[r] # None
                       /\ pc[r] \in {"write", "launch"} => partial[r] # None

\* No successor is launched before the command that launches it has written its
\* checkpoint.  For a run, the limit was read and the agent has exited or was told to:
\* told only, for nobody waits for its end.
HandoffIsPrepared ==
    \A s \in successors :
        /\ s.by \in written
        /\ cmd[s.by].kind = "run" => out[s.by] = "read" /\ child[s.by] \in {"told", "exited"}

\* A checkpoint that nobody changed since it was imported keeps the next step an
\* agent has left in it.
NextStepKept ==
    [][\A r \in Runs :
          WriteCheckpoint(r) /\ base[r] = checkpoint /\ checkpoint # None /\ checkpoint.next = "own"
          => checkpoint'.next = "own"]_vars

\* A run ends once its agent has exited or its limit was noticed, whether that agent
\* goes on or not.
RunsEnd ==
    \A r \in Runs : (child[r] = "exited" \/ quota[r]) ~> pc[r] \in Ended

\* "Quota detection": a run that returns after its agent exited has noticed the
\* message that a limit was reached.
LimitIsNoticed ==
    \A r \in Runs : pc[r] = "returned" /\ cmd[r].kind = "run" /\ out[r] # "unprinted" => quota[r]

\* "Quota/limit detected; checkpoint written.": a run that noticed a limit returns
\* its result.
LimitIsReported == \A r \in Runs : quota[r] => pc[r] # "crashed"

\* "Do not redo 'Done'": a checkpoint that nobody changed since it was imported keeps
\* the work listed as done.
DoneIsKept ==
    [][\A r \in Runs :
          WriteCheckpoint(r) /\ base[r] = checkpoint /\ checkpoint # None
          => checkpoint.done \subseteq checkpoint'.done]_vars

\* "Handed off from": the checkpoint a successor finds is the one its prompt speaks of.
FindsSendersCheckpoint == \A s \in successors : s.finds.from = cmd[s.by].agent

\* "Track wrapped child processes for construct-zero kill": a kill ends the agents
\* that are wrapped.
KillEndsAgents == [][Kill => \A r \in Runs : child'[r] \notin {"running", "told"}]_vars
=============================================================================
