----------------------------- MODULE Deployment -----------------------------
(***************************************************************************)
(* Installing and starting Construct-Zero: install.sh, lib/isolate.sh,     *)
(* init.sh, setup.sh, setup-voice.sh, ensure-hermes.sh, start.sh and the   *)
(* two start scripts, for several folders of one machine.                  *)
(*                                                                         *)
(* A script is killed, or its command fails, at any step; the user runs    *)
(* one again.  The scripts run under set -e: a failed step ends them.      *)
(* The servers they have started go on (Supervisor).                       *)
(*                                                                         *)
(* Abstractions: of .env the keys HERMES_HOME and CZ_STATE_DIR (as one),   *)
(* CZ_PORT and CZ_VOICE_PORT; git, uv and pip by what they leave behind;   *)
(* prompts are free choices;                                               *)
(* config.yaml of the adapter, the plugin's link and doctor are left out.  *)
(***************************************************************************)
EXTENDS Supervisor

CONSTANTS
    Uv,            \* uv is installed
    Isolated,      \* installs made by install.sh; the others are cloned by hand
    Earlier,       \* installs that were set up, without Hermes and voice, before
    Wishes,       \* install -> what its user asks of a script:
                   \* [voice, start, hermes, config]
    Minimal,       \* the choice of a user who only wants the setup done
    MaxCommands,   \* bound: scripts the user runs, retries of a setup apart
    MaxFaults,     \* bound: steps that fail or are killed, servers that crash, and
                   \* edits of CZ_PORT by hand
    EditPorts,     \* ports that the user may choose
    MaxScripts     \* bound: scripts that run at a time

Venvs == {"adapter", "hermes", "voice"}

ASSUME DeploymentConstants ==
    /\ "home" \notin Installs
    /\ Uv \in BOOLEAN
    /\ Isolated \subseteq Installs /\ Earlier \subseteq Installs \ Isolated
    /\ Wishes \in [Installs -> SUBSET [voice : BOOLEAN, start : BOOLEAN,
                                           hermes : BOOLEAN, config : BOOLEAN]]
    /\ Minimal \in [voice : {FALSE}, start : {FALSE},
                    hermes : BOOLEAN, config : BOOLEAN]
    /\ {MaxCommands, MaxFaults, MaxScripts} \subseteq Nat
    /\ EditPorts \subseteq Nat \ {0, 1}

VARIABLES
    code,      \* the checkout
    env,       \* .env: which keys it has; 0 is an unset port
    conf,      \* the port in the config.yaml of a Hermes home
    hermes,    \* the clone of Hermes
    venv,      \* virtual environments
    script,    \* the install's running script: its step, what the step is on, and
               \* supervisor_pid
    opts,      \* its wishes
    picked,    \* ports chosen by cz_apply_isolation
    refused,   \* its last script found the port busy
    commands, faults,
    stopped,   \* history: the script has stopped something
    victims,   \* history: <<install, owner>> of what an isolated install stopped
    untold     \* history: its .env was cut short or edited by hand, or had no
               \* port yet when Hermes's config was written

files == <<code, env, conf, hermes, venv>>
history == <<victims, untold>>
counters == <<commands, faults>>
running == <<opts, picked, refused, stopped>>
vars == <<supervision, files, script, running, counters, victims, untold>>

Homes == Installs \cup {"home"}
NoConf == 0
CutShort == 1
NoKeys == [state |-> FALSE, adapter |-> 0, voice |-> 0]
NoPorts == [s \in Services |-> 0]
Idle == [at |-> "idle", on |-> "adapter", loop |-> 0]

Init ==
    /\ SupervisorInit
    /\ code = [i \in Installs |-> IF i \in Isolated THEN "none" ELSE "cloned"]
    /\ env = [i \in Installs |-> NoKeys]
    /\ conf = [h \in Homes |-> NoConf]
    /\ hermes = [i \in Installs |-> "none"]
    /\ venv = [i \in Installs |-> [v \in Venvs |->
                 IF i \in Earlier /\ v = "adapter" THEN "ready" ELSE "none"]]
    /\ script = [i \in Installs |-> Idle]
    /\ opts = [i \in Installs |-> Minimal]
    /\ picked = [i \in Installs |-> NoPorts]
    /\ refused = [i \in Installs |-> FALSE]
    /\ commands = 0 /\ faults = 0
    /\ stopped = [i \in Installs |-> FALSE]
    /\ victims = {}
    /\ untold = [i \in Installs |-> FALSE]

\* What the scripts take when .env has no such key.
Default(s) == IF s = "adapter" THEN 8765 ELSE 8767
Port(i, s) == IF env[i][s] # 0 THEN env[i][s] ELSE Default(s)

\* $STATE_DIR/adapter.pid, $STATE_DIR/voice.pid.
\* Mutated: the state directory is always the one under the home directory.
File_Home(i, s) == <<"home", s>>
File(i, s) == <<IF env[i].state THEN i ELSE "home", s>>

\* HERMES_HOME
HermesHome(i) == IF env[i].state THEN i ELSE "home"

Moves(i, at, on) == script' = [script EXCEPT ![i] = [at |-> at, on |-> on, loop |-> 0]]
Goto(i, at, on) == Moves(i, at, on) /\ UNCHANGED running

\* The script exits, and what it had in its variables is gone.
Leaves(i, busy) ==
    /\ script' = [script EXCEPT ![i] = Idle]
    /\ opts' = [opts EXCEPT ![i] = Minimal]
    /\ picked' = [picked EXCEPT ![i] = NoPorts]
    /\ refused' = [refused EXCEPT ![i] = busy]
    /\ stopped' = [stopped EXCEPT ![i] = busy /\ @]
Exit(i) == Leaves(i, FALSE)

-----------------------------------------------------------------------------
(* The user *)

Begins(i, at, choice) ==
    /\ script[i] = Idle
    /\ Cardinality({j \in Installs : script[j] # Idle}) < MaxScripts
    /\ Moves(i, at, "adapter")
    /\ opts' = [opts EXCEPT ![i] = choice]
    /\ refused' = [refused EXCEPT ![i] = FALSE]
    /\ stopped' = [stopped EXCEPT ![i] = FALSE]
    /\ UNCHANGED <<supervision, files, picked, faults, history>>

SetupEntry(choice) == IF choice.hermes THEN "hermes" ELSE "make"

\* install.sh, init.sh or start.sh
Command(i) ==
    /\ commands < MaxCommands
    /\ \E choice \in Wishes[i] :
          \/ i \in Isolated /\ Begins(i, "clone", choice)
          \/ code[i] = "cloned" /\ Begins(i, SetupEntry(choice), choice)
          \/ code[i] = "cloned" /\ choice.start /\ Begins(i, "check", choice)
    /\ commands' = commands + 1

\* While the adapter is not installed, the user sets it up again.
Retry(i) ==
    /\ venv[i]["adapter"] # "ready" /\ code[i] # "partial"
    /\ Begins(i, IF i \in Isolated THEN "clone" ELSE SetupEntry(Minimal), Minimal)
    /\ UNCHANGED commands

\* "Create a blank directory, cd into it, then re-run."
Clears(i) ==
    /\ code[i] = "partial"
    /\ code' = [code EXCEPT ![i] = "none"]
    /\ UNCHANGED <<supervision, env, conf, hermes, venv, script, running,
                   counters, history>>

\* "Set CZ_PORT to a free loopback port."
EditPort(i) ==
    /\ script[i] = Idle /\ code[i] = "cloned" /\ faults < MaxFaults
    /\ \E p \in EditPorts :
          /\ ~Busy(p)
          /\ env' = [env EXCEPT ![i].adapter = p]
    /\ faults' = faults + 1
    /\ untold' = [untold EXCEPT ![i] = TRUE]
    /\ UNCHANGED <<supervision, code, conf, hermes, venv, script, opts, picked,
                   refused, stopped, commands, victims>>

-----------------------------------------------------------------------------
(* install.sh and cz_apply_isolation *)

\* A folder with a checkout is taken as it is; one with anything else is refused.
Clone(i) ==
    /\ script[i].at = "clone"
    /\ IF code[i] = "partial" THEN Exit(i) ELSE Goto(i, "isolate", "adapter")
    /\ code' = [code EXCEPT ![i] = IF @ = "none" THEN "cloned" ELSE @]
    /\ UNCHANGED <<supervision, env, conf, hermes, venv, counters,
                   history>>

\* cz_find_free_port: the first port that can be bound now, if there is one.
Free(p, skip) == p # skip /\ ~Busy(p)
Probed(start) == start..(start + 199)
FreePort(start, skip) ==
    CHOOSE p \in Probed(start) : Free(p, skip) /\ \A q \in start..(p - 1) : ~Free(q, skip)

\* A port that .env has was loaded and is kept.
\* Mutated: .env is not loaded, and what it holds is written over.
Kept_Fresh(i, s) == FALSE
Kept(i, s) == env[i][s] # 0

Isolate(i) ==
    /\ script[i].at = "isolate"
    /\ LET port == IF Kept(i, "adapter") THEN env[i].adapter ELSE FreePort(8765, 0)
           voicePort == IF Kept(i, "voice") THEN env[i].voice ELSE FreePort(8767, port)
       IN IF \/ ~Kept(i, "adapter") /\ \A p \in Probed(8765) : ~Free(p, 0)
             \/ ~Kept(i, "voice") /\ \A p \in Probed(8767) : ~Free(p, port)
          THEN Exit(i)
          ELSE /\ picked' = [picked EXCEPT ![i] = [s \in Services |->
                   IF s = "adapter" THEN port ELSE voicePort]]
               /\ Moves(i, "state", "adapter")
               /\ UNCHANGED <<opts, refused, stopped>>
    /\ UNCHANGED <<supervision, files, counters, history>>

\* One key after the other, each in a .env of its own that replaces the last.
WriteState(i) ==
    /\ script[i].at = "state"
    /\ env' = [env EXCEPT ![i].state = TRUE]
    /\ Goto(i, "port", "adapter")
    /\ UNCHANGED <<supervision, code, conf, hermes, venv, counters,
                   history>>

WritePort(i) ==
    /\ script[i].at = "port"
    /\ LET s == script[i].on IN
       /\ env' = [env EXCEPT ![i][s] = IF Kept(i, s) THEN @ ELSE picked[i][s]]
       /\ IF s = "adapter" THEN Goto(i, "port", "voice")
          ELSE Goto(i, SetupEntry(opts[i]), "adapter")
    /\ UNCHANGED <<supervision, code, conf, hermes, venv, counters,
                   history>>

-----------------------------------------------------------------------------
(* setup.sh and setup-voice.sh *)

\* ensure-hermes.sh: a folder with a .git is taken as a clone.
EnsureHermes(i) ==
    /\ script[i].at = "hermes"
    /\ hermes' = [hermes EXCEPT ![i] = IF @ = "none" THEN "cloned" ELSE @]
    /\ Goto(i, "make", "adapter")
    /\ UNCHANGED <<supervision, code, env, conf, venv, counters, history>>

\* What is left of a virtual environment before it is made: a broken one has
\* no python, a bare one no pip ("nopip") or one, but not the package.
\* Mutated: setup.sh does not look for pip, like setup-voice.sh.
Repaired_Python(v, s) == IF s = "broken" THEN "none" ELSE s
Repaired(v, s) ==
    IF s = "broken" \/ (v = "adapter" /\ s = "nopip" /\ ~Uv) THEN "none" ELSE s

\* Hermes's is made anew whenever it lacks the hermes command.
Made(v, s) ==
    IF Repaired(v, s) = "none" \/ (v = "hermes" /\ s # "ready")
    THEN IF Uv THEN "nopip" ELSE "bare"
    ELSE Repaired(v, s)

Make(i) ==
    /\ script[i].at = "make"
    /\ LET v == script[i].on IN
       /\ venv' = [venv EXCEPT ![i][v] = Made(v, @)]
       /\ Goto(i, "pip", v)
    /\ UNCHANGED <<supervision, code, env, conf, hermes, counters, history>>

\* cz_pip_editable: uv needs no pip in the environment; Hermes needs its sources.
Installable(i, v) ==
    /\ Uv \/ venv[i][v] \in {"bare", "ready"}
    /\ v = "hermes" => hermes[i] = "cloned"

Pip(i) ==
    /\ script[i].at = "pip"
    /\ LET v == script[i].on IN
       IF Installable(i, v)
       THEN /\ venv' = [venv EXCEPT ![i][v] = "ready"]
            /\ IF v = "adapter" /\ opts[i].hermes THEN Goto(i, "make", "hermes")
               ELSE IF v # "voice" /\ opts[i].voice THEN Goto(i, "make", "voice")
               ELSE Goto(i, "config", "adapter")
       ELSE Exit(i) /\ UNCHANGED venv
    /\ UNCHANGED <<supervision, code, env, conf, hermes, counters, history>>

\* cz_write_hermes_config, if the user wants it; an existing file is overwritten
\* if the user says so.
WriteConfig(i) ==
    /\ script[i].at = "config"
    /\ LET h == HermesHome(i) IN
       \/ /\ opts[i].config
          /\ conf' = [conf EXCEPT ![h] = Port(i, "adapter")]
          /\ untold' = [untold EXCEPT ![i] = @ \/ env[i].adapter = 0]
       \/ /\ opts[i].config => conf[h] # NoConf
          /\ UNCHANGED <<conf, untold>>
    /\ IF opts[i].start THEN Goto(i, "check", "adapter") ELSE Exit(i)
    /\ UNCHANGED <<supervision, code, env, hermes, venv, counters,
                   victims>>

-----------------------------------------------------------------------------
(* Faults: the step of a script fails or is killed, leaving what it leaves *)

\* A virtual environment that was being made, or installed into.
Remains(at, s) ==
    IF at = "make" THEN {"none", "broken", "nopip"}
    ELSE {s} \cup (IF s = "ready" THEN {IF Uv THEN "nopip" ELSE "bare"} ELSE {})

\* mv replaces .env; from another file system it copies, and may be cut short.
Remnants(e) == [state : {FALSE, e.state}, adapter : {0, e.adapter}, voice : {0, e.voice}]

Fault(i) ==
    /\ script[i] # Idle /\ faults < MaxFaults
    /\ LET at == script[i].at v == script[i].on IN
       /\ \/ at = "clone" /\ code[i] = "none"
             /\ code' = [code EXCEPT ![i] = "partial"]
             /\ UNCHANGED <<env, conf, hermes, venv, untold>>
          \/ at \in {"state", "port"}
             /\ \E e \in Remnants(env[i]) :
                   /\ env' = [env EXCEPT ![i] = e]
                   /\ untold' = [untold EXCEPT ![i] = @ \/ e # env[i]]
             /\ UNCHANGED <<code, conf, hermes, venv>>
          \/ at = "hermes" /\ hermes[i] = "none"
             /\ hermes' = [hermes EXCEPT ![i] = "partial"]
             /\ UNCHANGED <<code, env, conf, venv, untold>>
          \/ at \in {"make", "pip"} /\ (at = "make" => Made(v, venv[i][v]) # venv[i][v])
             /\ \E s \in Remains(at, venv[i][v]) : venv' = [venv EXCEPT ![i][v] = s]
             /\ UNCHANGED <<code, env, conf, hermes, untold>>
          \/ at = "config" /\ opts[i].config
             /\ conf' = [conf EXCEPT ![HermesHome(i)] = CutShort]
             /\ UNCHANGED <<code, env, hermes, venv, untold>>
          \/ UNCHANGED <<code, env, conf, hermes, venv, untold>>
    /\ faults' = faults + 1
    /\ Exit(i)
    /\ UNCHANGED <<supervision, commands, victims>>

-----------------------------------------------------------------------------
(* start.sh, start-adapter.sh, start-voice.sh *)

\* Both want a python in the virtual environment.  The adapter's refuses a
\* busy port before it stops anything; the voice's does not look.
\* Mutated: the port is looked at after the old server was stopped.
RefusesBusyAt_Late == "fork"
RefusesBusyAt == "check"

Refused(i, at) ==
    /\ at = RefusesBusyAt /\ script[i].on = "adapter" /\ Busy(Port(i, "adapter"))

Check(i) ==
    /\ script[i].at = "check"
    /\ LET s == script[i].on IN
       IF venv[i][s] \in {"none", "broken"} THEN Exit(i)
       ELSE IF Refused(i, "check") THEN Leaves(i, TRUE)
       ELSE Goto(i, "stop", s)
    /\ UNCHANGED <<supervision, files, counters, history>>

Stop(i) ==
    /\ script[i].at = "stop"
    /\ LET s == script[i].on  pid == pidfile[File(i, s)] IN
       /\ loops' = Stopped(File(i, s))
       /\ IF Alive(pid)
          THEN /\ stopped' = [stopped EXCEPT ![i] = TRUE]
               /\ victims' = IF env[i].state
                             THEN victims \cup {<<i, loops[pid.loop].owner>>} ELSE victims
          ELSE UNCHANGED <<stopped, victims>>
       /\ pidfile' = [pidfile EXCEPT ![File(i, s)] = NoPid]
       /\ Moves(i, "fork", s)
    /\ UNCHANGED <<files, opts, picked, refused, counters, untold>>

StartLoop(i) ==
    /\ script[i].at = "fork"
    /\ LET s == script[i].on IN
       IF Refused(i, "fork") THEN Leaves(i, TRUE) /\ UNCHANGED supervision
       ELSE /\ Fork(i, File(i, s), Port(i, s))
            /\ script' = [script EXCEPT ![i] = [at |-> "parent", on |-> s, loop |-> Len(loops) + 1]]
            /\ UNCHANGED running
    /\ UNCHANGED <<files, counters, history>>

\* The voice's script writes its loop's pid.
\* Mutated: so does the adapter's.
ParentWrites_Both(s) == TRUE
ParentWrites(s) == s = "voice"

ParentPid(i) ==
    /\ script[i].at = "parent"
    /\ LET s == script[i].on  mine == script[i].loop IN
       /\ pidfile' = IF ParentWrites(s)
                     THEN [pidfile EXCEPT ![loops[mine].file] = [loop |-> mine, n |-> 0]]
                     ELSE pidfile
       /\ IF s = "adapter" /\ opts[i].voice THEN Goto(i, "check", "voice")
          ELSE Exit(i)
    /\ UNCHANGED <<loops, files, counters, history>>

-----------------------------------------------------------------------------
Script(i) ==
    \/ Clone(i) \/ Isolate(i) \/ WriteState(i) \/ WritePort(i)
    \/ EnsureHermes(i) \/ Make(i) \/ Pip(i) \/ WriteConfig(i)
    \/ Check(i) \/ Stop(i) \/ StartLoop(i) \/ ParentPid(i)

others == <<files, script, running, counters, history>>

RunsLoop(l) == l \in DOMAIN loops /\ Loop(l) /\ UNCHANGED others
BootsServer(l) ==
    /\ l \in DOMAIN loops
    /\ Boots(l, venv[loops[l].owner][loops[l].file[2]] = "ready")
    /\ UNCHANGED others
ExitsServer(l) == l \in DOMAIN loops /\ Exits(l) /\ UNCHANGED others
CrashesServer(l) ==
    /\ Crash(l) /\ faults < MaxFaults
    /\ faults' = faults + 1
    /\ UNCHANGED <<files, script, running, commands, history>>
Process(l) == RunsLoop(l) \/ BootsServer(l) \/ ExitsServer(l)

Next ==
    \/ \E i \in Installs : \/ Command(i) \/ Retry(i) \/ Clears(i) \/ EditPort(i)
                           \/ Script(i) \/ Fault(i)
    \/ \E l \in DOMAIN loops : Process(l) \/ CrashesServer(l)

\* Two loops at most for each command the user runs.
LoopIds == 1..(2 * MaxCommands)

\* Scripts run on; the user sets up again until it is done, and clears a folder
\* that install.sh refuses.  Loops and servers run on: each takes finitely many
\* steps, so fairness to all of them is fairness to each.
Fairness ==
    /\ \A i \in Installs : WF_vars(Script(i) \/ Retry(i) \/ Clears(i))
    /\ WF_vars(\E l \in LoopIds : Process(l))

Spec == Init /\ [][Next]_vars /\ Fairness

-----------------------------------------------------------------------------
(* Properties *)

Ports == {0} \cup EditPorts \cup Probed(8765) \cup Probed(8767)
Steps == {"idle", "clone", "isolate", "state", "port", "hermes", "make", "pip", "config",
          "check", "stop", "fork", "parent"}

FilesTypeOK ==
    /\ code \in [Installs -> {"none", "partial", "cloned"}]
    /\ env \in [Installs -> [state : BOOLEAN, adapter : Ports, voice : Ports]]
    /\ conf \in [Homes -> Ports \cup {CutShort}]
    /\ hermes \in [Installs -> {"none", "partial", "cloned"}]
    /\ venv \in [Installs -> [Venvs -> {"none", "broken", "nopip", "bare", "ready"}]]

ScriptTypeOK ==
    /\ script \in [Installs -> [at : Steps, on : Venvs, loop : Nat]]
    /\ opts \in [Installs -> [voice : BOOLEAN, start : BOOLEAN, hermes : BOOLEAN, config : BOOLEAN]]
    /\ picked \in [Installs -> [Services -> Ports]]
    /\ stopped \in [Installs -> BOOLEAN] /\ refused \in [Installs -> BOOLEAN]

\* Every variable keeps its type.
TypeOK ==
    /\ SupervisorTypeOK /\ FilesTypeOK /\ ScriptTypeOK
    /\ commands \in 0..MaxCommands /\ faults \in 0..MaxFaults
    /\ untold \in [Installs -> BOOLEAN]
    /\ victims \subseteq Installs \X Installs

Runs(l) == loops[l].child \in {"booting", "serving"}

\* An adapter that runs has its loop, which starts it again when it crashes: the
\* adapter's PID file only ever names servers, however often the start script
\* has stopped what it names (start-adapter.sh, "Stop existing").
AdapterSupervised ==
    \A l \in DOMAIN loops : loops[l].file[2] = "adapter" /\ Runs(l) => loops[l].phase # "gone"

\* A start that is refused because the adapter's port is busy has stopped
\* nothing: the port is looked at before anything is stopped, and a voice is
\* only started after the adapter (start-adapter.sh, start.sh).
RefusalStopsNothing ==
    \A i \in Installs : refused[i] => ~stopped[i]

\* A start in an isolated folder stops no server of another folder, even when
\* both were given the same port (cz_apply_isolation, PID files).
StartsStopOwnOnly == \A v \in victims : v[1] = v[2]

\* The config of a folder's own Hermes names the port that its scripts start the
\* adapter on, through reruns of install.sh and init.sh after faults at any step
\* (cz_apply_isolation, cz_write_hermes_config).  Not so if .env lost a key, was
\* edited, or had no port yet, or the config itself was cut short.
HermesFindsAdapter ==
    \A i \in Installs :
        env[i].state /\ conf[i] \notin {NoConf, CutShort} /\ ~untold[i] =>
            conf[i] = Port(i, "adapter")

\* Again and again, every adapter loop has its port served, by its server or by
\* another, unless it has tried as often as it may: no crash, stop or lost port
\* ends a loop early (the loop of start-adapter.sh).
AdapterComesBack ==
    []<>(\A l \in DOMAIN loops : loops[l].file[2] = "adapter" =>
            Busy(loops[l].port) \/ loops[l].started = MaxRestarts)

\* Whatever a fault has left of the folders, setting up again comes to an
\* installed adapter (install.sh, setup.sh).
SetupConverges == <>[](\A i \in Installs : venv[i]["adapter"] = "ready")

=============================================================================
