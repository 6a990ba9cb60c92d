------------------------- MODULE AgentRunnerProofs -------------------------
(***************************************************************************)
(* Type correctness of the agent runner, and that handoffs are prepared.   *)
(***************************************************************************)
EXTENDS AgentRunner, TLAPS

\* Where a command is says what it has done: who looks for a limit has noticed none
\* and wraps an agent; who imports or writes for a run has read the limit message;
\* who launches has written a checkpoint and stopped its agent.
Prepared ==
    \A r \in Runs :
        /\ pc[r] \in {"idle", "select", "poll"} => ~quota[r]
        /\ pc[r] = "launch" \/ (pc[r] = "reap" /\ quota[r]) =>
              partial[r] # None /\ checkpoint # None /\ r \in written
        /\ pc[r] # "idle" /\ cmd[r].kind = "run" =>
              /\ pc[r] \notin {"idle", "failed"} => child[r] # "none"
              /\ pc[r] \in {"import", "importer", "write", "launch"} => out[r] = "read"
              /\ pc[r] = "reap" /\ quota[r] => out[r] = "read"
              /\ pc[r] = "launch" => child[r] \in {"told", "exited"}

\* A command that has a successor has returned.
Launched == \A s \in successors : pc[s.by] = "returned"

RunnerInv == TypeOK /\ Prepared /\ Launched /\ HandoffIsPrepared

\* What the two kinds of commands have for arguments.
LEMMA CommandFacts ==
  ASSUME NEW c \in Commands
  PROVE  /\ c.kind \in {"run", "handoff"}
         /\ c.agent \in Agents \cup {"manual"}
         /\ c.pty \in BOOLEAN /\ c.auto \in BOOLEAN
         /\ c.kind = "run" => c.agent \in Agents
         /\ c.kind = "handoff" => c.pty = FALSE
  BY DEF Commands

\* An importer finds checkpoints only.
LEMMA FoundFacts ==
  ASSUME checkpoint \in Checkpoints \cup {None}, NEW agent, NEW found \in Found(agent)
  PROVE  found \in Checkpoints
  BY DEF Found, Checkpoints

\* An import yields a checkpoint, and keeps the next step that was read.
LEMMA ImportFacts ==
  ASSUME TypeOK, NEW r \in Runs, pc[r] # "idle", NEW found \in Checkpoints
  PROVE  /\ Imported(r, found) \in Checkpoints
         /\ base[r] # None /\ base[r].next = "own" => Imported(r, found).next = "own"
  <1> DEFINE next == IF base[r] # None /\ base[r].next # "none" THEN base[r].next ELSE found.next
  <1>1. cmd[r] \in Commands BY DEF TypeOK
  <1>2. cmd[r].agent \in Agents \cup {"manual"} BY <1>1, CommandFacts
  <1>3. base[r] \in Checkpoints \cup {None} BY DEF TypeOK
  <1>4. next \in {"none", "stock", "own"} BY <1>3 DEF Checkpoints
  <1>5. Imported(r, found) = [found EXCEPT !.from = cmd[r].agent, !.next = next] BY DEF Imported
  <1>6. base[r] # None /\ base[r].next = "own" => next = "own" OBVIOUS
  <1> HIDE DEF next
  <1>7. Imported(r, found) = [from |-> cmd[r].agent, done |-> found.done, next |-> next]
    BY <1>5 DEF Checkpoints
  <1>8. Imported(r, found) \in Checkpoints BY <1>2, <1>4, <1>7 DEF Checkpoints
  <1> QED BY <1>6, <1>7, <1>8

\* Every action preserves the types.
LEMMA TypeStep == TypeOK /\ Prepared /\ [Next]_vars => TypeOK'
  <1> SUFFICES ASSUME TypeOK, Prepared, [Next]_vars PROVE TypeOK'
    OBVIOUS
  <1> USE RunnerConstants
  <1>1. ASSUME NEW r \in Runs, Run(r) PROVE TypeOK'
    <2>1. PICK c \in Commands : c.kind = "run" /\ cmd' = [cmd EXCEPT ![r] = c] BY <1>1 DEF Run
    <2>2. c # None BY DEF Commands
    <2> QED BY <1>1, <2>1, <2>2 DEF Run, Goto, PCs, TypeOK
  <1>2. ASSUME NEW r \in Runs, HandoffTo(r) PROVE TypeOK'
    <2>1. PICK c \in Commands : cmd' = [cmd EXCEPT ![r] = c] BY <1>2 DEF HandoffTo
    <2>2. c # None BY DEF Commands
    <2> QED BY <1>2, <2>1, <2>2 DEF HandoffTo, Goto, PCs, TypeOK
  <1>3. ASSUME NEW r \in Runs, Collect(r) PROVE TypeOK'
    BY <1>3 DEF Collect, Goto, PCs, TypeOK
  <1>4. ASSUME NEW r \in Runs, Select(r) \/ Poll(r) \/ InputEnds(r) PROVE TypeOK'
    <2>1. CASE Select(r)
      <3>1. PICK place \in {"import", "poll"} : pc' = [pc EXCEPT ![r] = place]
        BY <2>1 DEF Select, Goto
      <3>2. pc' \in [Runs -> PCs] BY <3>1 DEF PCs, TypeOK
      <3>3. out' \in [Runs -> {"unprinted", "unread", "read"}] BY <2>1 DEF Select, TypeOK
      <3>4. quota' \in [Runs -> BOOLEAN] BY <2>1 DEF Select, TypeOK
      <3>5. \A s \in Runs : /\ pc'[s] # "idle" => cmd[s] # None
                            /\ pc'[s] \in {"write", "launch"} => partial[s] # None
        BY <2>1, <3>1 DEF Select, TypeOK
      <3>6. UNCHANGED <<registry, checkpoint, cmd, child, base, partial, tracked, successors, written, killed>>
        BY <2>1 DEF Select
      <3> QED BY <3>2, <3>3, <3>4, <3>5, <3>6 DEF TypeOK
    <2>2. CASE Poll(r) BY <2>2 DEF Poll, Goto, PCs, TypeOK
    <2>3. CASE InputEnds(r) BY <2>3 DEF InputEnds, Goto, PCs, TypeOK
    <2> QED BY <1>4, <2>1, <2>2, <2>3
  <1>5. ASSUME NEW r \in Runs, Import(r) \/ RunImporter(r) PROVE TypeOK'
    <2>1. CASE Import(r) BY <2>1 DEF Import, Goto, PCs, TypeOK
    <2>2. CASE RunImporter(r)
      <3>1. PICK found \in Found(cmd[r].agent) : partial' = [partial EXCEPT ![r] = Imported(r, found)]
        BY <2>2 DEF RunImporter
      <3>2. found \in Checkpoints BY <3>1, FoundFacts DEF TypeOK
      <3>3. Imported(r, found) \in Checkpoints BY <2>2, <3>2, ImportFacts DEF RunImporter
      <3>4. Imported(r, found) # None BY <3>3
      <3> QED BY <2>2, <3>1, <3>3, <3>4 DEF RunImporter, Goto, PCs, TypeOK
    <2> QED BY <1>5, <2>1, <2>2
  <1>6. ASSUME NEW r \in Runs, WriteCheckpoint(r) PROVE TypeOK'
    BY <1>6 DEF WriteCheckpoint, Stopped, Goto, PCs, TypeOK
  <1>7. ASSUME NEW r \in Runs, Launch(r) PROVE TypeOK'
    <2>1. checkpoint \in Checkpoints BY <1>7 DEF Launch, Prepared, TypeOK
    <2>2. Successor(r) \in registry.installed => Successor(r) \in Agents BY DEF TypeOK
    <2>3. successors' \subseteq [by : Runs, agent : Agents, finds : Checkpoints]
      BY <1>7, <2>1, <2>2 DEF Launch, TypeOK
    <2> QED BY <1>7, <2>3 DEF Launch, Goto, PCs, TypeOK
  <1>8. ASSUME NEW r \in Runs, Reap(r) \/ ReapFails(r) PROVE TypeOK'
    BY <1>8 DEF Reap, ReapFails, Goto, PCs, Prepared, TypeOK
  <1>9. ASSUME NEW r \in Runs, ReachesLimit(r) \/ Exits(r) PROVE TypeOK'
    BY <1>9 DEF ReachesLimit, Exits, TypeOK
  <1>10. ASSUME NEW r \in Runs, UpdatesCheckpoint(r) PROVE TypeOK'
    <2>1. checkpoint' \in Checkpoints BY <1>10 DEF UpdatesCheckpoint, Checkpoints, TypeOK
    <2> QED BY <1>10, <2>1 DEF UpdatesCheckpoint, TypeOK
  <1>11. ASSUME Kill PROVE TypeOK'
    BY <1>11 DEF Kill, TypeOK
  <1>12. CASE UNCHANGED vars
    BY <1>12 DEF vars, TypeOK
  <1> QED BY <1>1, <1>2, <1>3, <1>4, <1>5, <1>6, <1>7, <1>8, <1>9, <1>10, <1>11, <1>12 DEF Next, Step

\* Every action leaves what a command's place says true.
LEMMA PreparedStep == TypeOK /\ Prepared /\ [Next]_vars => Prepared'
  <1> SUFFICES ASSUME TypeOK, Prepared, [Next]_vars PROVE Prepared'
    OBVIOUS
  <1> USE RunnerConstants
  <1>1. ASSUME NEW r \in Runs, Run(r) PROVE Prepared'
    <2>1. PICK c \in Commands : cmd' = [cmd EXCEPT ![r] = c] BY <1>1 DEF Run
    <2>2. /\ \A q \in Runs \ {r} : pc'[q] = pc[q] /\ cmd'[q] = cmd[q] /\ child'[q] = child[q]
          /\ pc'[r] = "failed" \/ (pc'[r] \in {"select", "waiting"} /\ child'[r] = "running")
          /\ pc[r] = "idle"
          /\ UNCHANGED <<checkpoint, out, quota, partial, written>>
      BY <1>1, <2>1 DEF Run, Goto, TypeOK
    <2>3. ~quota[r] BY <2>2 DEF Prepared
    <2> QED BY <2>2, <2>3 DEF Prepared
  <1>2. ASSUME NEW r \in Runs, HandoffTo(r) PROVE Prepared'
    BY <1>2 DEF HandoffTo, Goto, TypeOK, Prepared
  <1>3. ASSUME NEW r \in Runs, Collect(r) PROVE Prepared'
    BY <1>3 DEF Collect, Goto, TypeOK, Prepared
  <1>4. ASSUME NEW r \in Runs, Select(r) PROVE Prepared'
    BY <1>4 DEF Select, Goto, TypeOK, Prepared
  <1>5. ASSUME NEW r \in Runs, Poll(r) \/ InputEnds(r) PROVE Prepared'
    BY <1>5 DEF Poll, InputEnds, Goto, TypeOK, Prepared
  <1>6. ASSUME NEW r \in Runs, Import(r) \/ RunImporter(r) PROVE Prepared'
    <2>1. CASE Import(r) BY <2>1 DEF Import, Goto, TypeOK, Prepared
    <2>2. CASE RunImporter(r)
      <3>1. PICK found : partial' = [partial EXCEPT ![r] = Imported(r, found)] BY <2>2 DEF RunImporter
      <3>2. /\ pc[r] = "importer" /\ pc' = [pc EXCEPT ![r] = "write"]
            /\ UNCHANGED <<checkpoint, cmd, child, out, quota, written>>
        BY <2>2 DEF RunImporter, Goto
      <3> QED BY <3>1, <3>2 DEF TypeOK, Prepared
    <2> QED BY <1>6, <2>1, <2>2
  <1>7. ASSUME NEW r \in Runs, WriteCheckpoint(r) PROVE Prepared'
    <2>1. checkpoint' # None /\ partial[r] # None BY <1>7 DEF WriteCheckpoint, TypeOK
    <2>2. cmd[r] # None /\ cmd[r] \in Commands BY <1>7 DEF WriteCheckpoint, TypeOK
    <2>3. /\ pc' = [pc EXCEPT ![r] = IF HandsOff(r) THEN "launch" ELSE IF cmd[r].pty THEN "reap" ELSE "returned"]
          /\ child' = IF HandsOff(r) THEN Stopped(r) ELSE child
          /\ written' = written \cup {r} /\ UNCHANGED <<cmd, out, quota, partial>>
      BY <1>7 DEF WriteCheckpoint, Goto
    <2>4. \A q \in Runs : child'[q] = child[q] \/ (q = r /\ child'[q] = "told")
      BY <2>3 DEF Stopped, TypeOK
    <2>5. HandsOff(r) => (child'[r] = child[r] /\ child[r] # "running") \/ child'[r] = "told"
      BY <2>3 DEF Stopped, TypeOK
    <2> QED BY <1>7, <2>1, <2>2, <2>3, <2>4, <2>5 DEF WriteCheckpoint, TypeOK, Prepared
  <1>8. ASSUME NEW r \in Runs, Launch(r) PROVE Prepared'
    BY <1>8 DEF Launch, Goto, TypeOK, Prepared
  <1>9. ASSUME NEW r \in Runs, Reap(r) \/ ReapFails(r) PROVE Prepared'
    BY <1>9 DEF Reap, ReapFails, Goto, TypeOK, Prepared
  <1>10. ASSUME NEW r \in Runs, ReachesLimit(r) \/ UpdatesCheckpoint(r) \/ Exits(r) PROVE Prepared'
    <2>1. CASE ReachesLimit(r) BY <2>1 DEF ReachesLimit, Lives, TypeOK, Prepared
    <2>2. CASE UpdatesCheckpoint(r)
      <3>1. checkpoint' \in Checkpoints BY <2>2 DEF UpdatesCheckpoint, Checkpoints, TypeOK
      <3>2. checkpoint' # None BY <3>1
      <3> QED BY <2>2, <3>2 DEF UpdatesCheckpoint, Prepared
    <2>3. CASE Exits(r) BY <2>3 DEF Exits, Lives, TypeOK, Prepared
    <2> QED BY <1>10, <2>1, <2>2, <2>3
  <1>11. ASSUME Kill PROVE Prepared'
    BY <1>11 DEF Kill, TypeOK, Prepared
  <1>12. CASE UNCHANGED vars
    BY <1>12 DEF vars, Prepared
  <1> QED BY <1>1, <1>2, <1>3, <1>4, <1>5, <1>6, <1>7, <1>8, <1>9, <1>10, <1>11, <1>12 DEF Next, Step

\* A command that has returned stays so, and keeps what was read.
LEMMA ReturnedStep ==
  ASSUME TypeOK, [Next]_vars, NEW q \in Runs, pc[q] = "returned"
  PROVE  /\ pc'[q] = "returned" /\ cmd'[q] = cmd[q] /\ (q \in written => q \in written')
         /\ out[q] = "read" => out'[q] = "read"
         /\ child[q] \in {"told", "exited"} => child'[q] \in {"told", "exited"}
  <1> DEFINE Goal == /\ pc'[q] = "returned" /\ cmd'[q] = cmd[q] /\ (q \in written => q \in written')
                     /\ out[q] = "read" => out'[q] = "read"
                     /\ child[q] \in {"told", "exited"} => child'[q] \in {"told", "exited"}
  <1>1. ASSUME NEW r \in Runs, Run(r) \/ HandoffTo(r) PROVE Goal
    BY <1>1 DEF Run, HandoffTo, Goto, TypeOK
  <1>2. ASSUME NEW r \in Runs, Collect(r) \/ Select(r) \/ Poll(r) \/ InputEnds(r) PROVE Goal
    BY <1>2 DEF Collect, Select, Poll, InputEnds, Goto, TypeOK
  <1>3. ASSUME NEW r \in Runs, Import(r) \/ RunImporter(r) \/ Launch(r) \/ Reap(r) \/ ReapFails(r) PROVE Goal
    BY <1>3 DEF Import, RunImporter, Launch, Reap, ReapFails, Goto, TypeOK
  <1>4. ASSUME NEW r \in Runs, WriteCheckpoint(r) PROVE Goal
    BY <1>4 DEF WriteCheckpoint, Stopped, Goto, TypeOK
  <1>5. ASSUME NEW r \in Runs, ReachesLimit(r) \/ UpdatesCheckpoint(r) \/ Exits(r) PROVE Goal
    BY <1>5 DEF ReachesLimit, UpdatesCheckpoint, Exits, TypeOK
  <1>6. CASE Kill BY <1>6 DEF Kill, TypeOK
  <1>7. CASE UNCHANGED vars BY <1>7 DEF vars
  <1> QED BY <1>1, <1>2, <1>3, <1>4, <1>5, <1>6, <1>7 DEF Next, Step

\* Only a launch adds a successor, and its command has prepared it.
LEMMA LaunchStep ==
  ASSUME TypeOK, Prepared, [Next]_vars, NEW s \in successors', s \notin successors
  PROVE  /\ s.by \in Runs /\ pc'[s.by] = "returned" /\ cmd'[s.by] = cmd[s.by]
         /\ s.by \in written'
         /\ cmd[s.by].kind = "run" => out'[s.by] = "read" /\ child'[s.by] \in {"told", "exited"}
  <1>1. PICK r \in Runs : Launch(r)
    BY DEF Next, Step, vars, Run, HandoffTo, InputEnds, Collect, Select, Poll, Import,
           RunImporter, WriteCheckpoint, Reap, ReapFails, ReachesLimit, UpdatesCheckpoint, Exits, Kill
  <1>2. s.by = r /\ pc'[r] = "returned" BY <1>1 DEF Launch, Goto, TypeOK
  <1>3. pc[r] = "launch" /\ UNCHANGED <<cmd, written, out, child>> BY <1>1 DEF Launch
  <1>4. r \in written BY <1>3 DEF Prepared
  <1>5. cmd[r].kind = "run" => out[r] = "read" /\ child[r] \in {"told", "exited"}
    BY <1>3 DEF Prepared
  <1> QED BY <1>2, <1>3, <1>4, <1>5

\* Every step preserves the invariant.
LEMMA RunnerStep == RunnerInv /\ [Next]_vars => RunnerInv'
  <1> SUFFICES ASSUME RunnerInv, [Next]_vars PROVE RunnerInv'
    OBVIOUS
  <1>1. TypeOK' /\ Prepared' BY TypeStep, PreparedStep DEF RunnerInv
  <1>2. ASSUME NEW s \in successors'
        PROVE  /\ pc'[s.by] = "returned"
               /\ s.by \in written'
               /\ cmd'[s.by].kind = "run" =>
                      out'[s.by] = "read" /\ child'[s.by] \in {"told", "exited"}
    <2>1. CASE s \notin successors BY <2>1, LaunchStep DEF RunnerInv
    <2>2. CASE s \in successors
      <3>1. s.by \in Runs /\ pc[s.by] = "returned" BY <2>2 DEF RunnerInv, TypeOK, Launched
      <3>2. /\ s.by \in written
            /\ cmd[s.by].kind = "run" => out[s.by] = "read" /\ child[s.by] \in {"told", "exited"}
        BY <2>2 DEF RunnerInv, HandoffIsPrepared
      <3>3. /\ pc'[s.by] = "returned" /\ cmd'[s.by] = cmd[s.by] /\ (s.by \in written => s.by \in written')
            /\ out[s.by] = "read" => out'[s.by] = "read"
            /\ child[s.by] \in {"told", "exited"} => child'[s.by] \in {"told", "exited"}
        BY <3>1, ReturnedStep DEF RunnerInv
      <3> QED BY <3>2, <3>3
    <2> QED BY <2>1, <2>2
  <1> QED BY <1>1, <1>2 DEF RunnerInv, Launched, HandoffIsPrepared

\* The invariant holds from the start.
LEMMA RunnerInit == Init => RunnerInv
  <1> SUFFICES ASSUME Init PROVE RunnerInv
    OBVIOUS
  <1>1. [from |-> None, done |-> {}, next |-> "none"] \in Checkpoints BY DEF Checkpoints
  <1>2. TypeOK BY <1>1 DEF Init, TypeOK, PCs
  <1> QED BY <1>2 DEF Init, RunnerInv, Prepared, Launched, HandoffIsPrepared

\* Every variable keeps its type.
THEOREM RunnerTypeCorrect == Spec => []TypeOK
  <1>1. RunnerInv => TypeOK BY DEF RunnerInv
  <1> QED BY <1>1, RunnerInit, RunnerStep, PTL DEF Spec

\* Whatever the fallback order, no successor is launched before the checkpoint was
\* written, or, by a run, before the limit was read and the agent has ended or was told to.
THEOREM HandoffsArePrepared == Spec => []HandoffIsPrepared
  <1>1. RunnerInv => HandoffIsPrepared BY DEF RunnerInv
  <1> QED BY <1>1, RunnerInit, RunnerStep, PTL DEF Spec

\* What a command is going to write has the next step of what it has read.
Merged ==
    \A r \in Runs :
        pc[r] = "write" /\ base[r] # None /\ base[r].next = "own" => partial[r].next = "own"

\* Only an import changes what a command has read and is going to write.
LEMMA MergedStep == TypeOK /\ Merged /\ [Next]_vars => Merged'
  <1> SUFFICES ASSUME TypeOK, Merged, [Next]_vars PROVE Merged'
    OBVIOUS
  <1>1. ASSUME NEW r \in Runs, Import(r) \/ RunImporter(r) PROVE Merged'
    <2>1. CASE Import(r) BY <2>1 DEF Import, Goto, TypeOK, Merged
    <2>2. CASE RunImporter(r)
      <3>1. PICK found \in Found(cmd[r].agent) : partial' = [partial EXCEPT ![r] = Imported(r, found)]
        BY <2>2 DEF RunImporter
      <3>2. found \in Checkpoints BY <3>1, FoundFacts DEF TypeOK
      <3>3. base[r] # None /\ base[r].next = "own" => Imported(r, found).next = "own"
        BY <2>2, <3>2, ImportFacts DEF RunImporter
      <3>4. pc' = [pc EXCEPT ![r] = "write"] /\ base' = base BY <2>2 DEF RunImporter, Goto
      <3> QED BY <3>1, <3>3, <3>4 DEF Merged, TypeOK
    <2> QED BY <1>1, <2>1, <2>2
  <1>2. ASSUME NEW r \in Runs,
               \/ Run(r) \/ HandoffTo(r) \/ InputEnds(r) \/ Collect(r) \/ Select(r) \/ Poll(r)
               \/ WriteCheckpoint(r) \/ Launch(r) \/ Reap(r) \/ ReapFails(r)
        PROVE  Merged'
    <2>1. \A q \in Runs : pc'[q] = "write" => pc[q] = "write"
      BY <1>2 DEF Run, HandoffTo, InputEnds, Collect, Select, Poll, WriteCheckpoint, Launch,
                  Reap, ReapFails, Goto, TypeOK
    <2>2. UNCHANGED <<base, partial>>
      BY <1>2 DEF Run, HandoffTo, InputEnds, Collect, Select, Poll, WriteCheckpoint, Launch,
                  Reap, ReapFails
    <2> QED BY <2>1, <2>2 DEF Merged
  <1>3. ASSUME NEW r \in Runs, ReachesLimit(r) \/ UpdatesCheckpoint(r) \/ Exits(r) PROVE Merged'
    BY <1>3 DEF ReachesLimit, UpdatesCheckpoint, Exits, Merged
  <1>4. CASE Kill BY <1>4 DEF Kill, Merged
  <1>5. CASE UNCHANGED vars BY <1>5 DEF vars, Merged
  <1> QED BY <1>1, <1>2, <1>3, <1>4, <1>5 DEF Next, Step

\* An agent's next step survives the import, in whatever order commands and agents
\* read and write.
THEOREM NextStepIsKept == Spec => NextStepKept
  <1>1. Init => Merged BY DEF Init, Merged
  <1>2. Merged =>
            \A r \in Runs :
                WriteCheckpoint(r) /\ base[r] = checkpoint /\ checkpoint # None /\ checkpoint.next = "own"
                => checkpoint'.next = "own"
    BY DEF Merged, WriteCheckpoint
  <1> QED BY <1>1, <1>2, RunnerTypeCorrect, MergedStep, PTL DEF Spec, NextStepKept
=============================================================================
