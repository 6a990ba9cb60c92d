-------------------------- MODULE DeploymentProofs --------------------------
(***************************************************************************)
(* Type correctness of installing and starting, and its safety properties. *)
(***************************************************************************)
EXTENDS Deployment, TLAPS, WellFoundedInduction

\* Records of loops.
Loops == [owner : Installs, file : Files, port : Nat, phase : {"turns", "gone"},
          started : 0..MaxRestarts, child : {"none", "booting", "serving", "stopping"}]

\* A PID file names a loop that writes to it, or its server; the adapter's file
\* names servers only.
PidsFit ==
    \A f \in Files : pidfile[f] # NoPid =>
        /\ pidfile[f].loop \in DOMAIN loops
        /\ loops[pidfile[f].loop].file = f
        /\ pidfile[f].n = 0 => f[2] = "voice"

\* A loop that uses a PID file in a folder belongs to this folder.
LoopsFit ==
    \A l \in DOMAIN loops : loops[l].file[1] \in Installs => loops[l].file[1] = loops[l].owner

\* A starting script is about a service and knows its loop; only a script that
\* is past stopping has stopped something, and only one that is over was refused.
ScriptsFit ==
    \A i \in Installs :
        /\ script[i].at \in {"port", "check", "stop", "fork", "parent"} => script[i].on \in Services
        /\ script[i].at = "parent" =>
              /\ script[i].loop \in DOMAIN loops
              /\ loops[script[i].loop].owner = i
              /\ loops[script[i].loop].file[2] = script[i].on
        /\ script[i].at # "idle" => ~refused[i]
        /\ (script[i].at \in {"clone", "isolate", "state", "port", "hermes", "make", "pip", "config"}
               \/ (script[i].at \in {"check", "stop"} /\ script[i].on = "adapter"))
           => ~stopped[i]

\* A config that was written for a folder has the port of its .env.
ConfigsFit ==
    \A i \in Installs : conf[i] \notin {NoConf, CutShort} /\ ~untold[i] =>
        env[i].state /\ env[i].adapter # 0 /\ conf[i] = env[i].adapter

DeploymentInv ==
    /\ TypeOK /\ PidsFit /\ LoopsFit /\ ScriptsFit /\ ConfigsFit
    /\ AdapterSupervised /\ RefusalStopsNothing /\ StartsStopOwnOnly

-----------------------------------------------------------------------------

\* Ports are numbers.
LEMMA PortsAreNumbers == Ports \subseteq Nat
  BY DeploymentConstants DEF Ports, Probed

\* What the scripts read from .env.
LEMMA SettingFacts ==
  ASSUME TypeOK, NEW i \in Installs, NEW s \in Services
  PROVE  /\ Port(i, s) \in Ports \cap Nat
         /\ File(i, s) \in Files
         /\ File(i, s)[2] = s
         /\ File(i, s)[1] \in Installs => File(i, s)[1] = i
         /\ env[i].state => File(i, s)[1] = i
  <1>1. env[i][s] \in Ports BY DEF TypeOK, FilesTypeOK, Services
  <1>2. Default(s) \in Ports BY DEF Default, Ports, Probed
  <1>3. Port(i, s) \in Ports \cap Nat BY <1>1, <1>2, PortsAreNumbers DEF Port
  <1>4. File(i, s) = <<IF env[i].state THEN i ELSE "home", s>> BY DEF File
  <1>5. "home" \notin Installs BY DeploymentConstants
  <1> QED BY <1>3, <1>4, <1>5 DEF Files

\* The first free port, if there is one, is among those that were probed.
LEMMA FreePortFacts ==
  ASSUME NEW start \in Nat, NEW skip, \E p \in Probed(start) : Free(p, skip)
  PROVE  FreePort(start, skip) \in Probed(start)
  <1> DEFINE T == {p \in Probed(start) : Free(p, skip)}
             R == OpToRel(<, Nat)
  <1>1. T \subseteq Nat /\ T # {} BY DEF Probed
  <1>2. IsWellFoundedOn(R, Nat) BY NatLessThanWellFounded
  <1>3. PICK x \in T : \A y \in T : ~ (<<y, x>> \in R)
    <2> HIDE DEF T, R
    <2> QED BY <1>1, <1>2, WFMin
  <1>4. \A y \in T : ~ (y < x)
    <2> SUFFICES ASSUME NEW y \in T, y < x PROVE FALSE OBVIOUS
    <2>1. <<y, x>> \in Nat \X Nat BY <1>1
    <2>2. <<y, x>> \in R BY <2>1, Zenon DEF OpToRel
    <2> QED BY <1>3, <2>2
  <1>5. x \in Probed(start) /\ Free(x, skip) OBVIOUS
  <1>6. \A q \in start..(x - 1) : ~Free(q, skip)
    <2> SUFFICES ASSUME NEW q \in start..(x - 1), Free(q, skip) PROVE FALSE OBVIOUS
    <2>1. q \in Probed(start) /\ q < x BY <1>5 DEF Probed
    <2> QED BY <1>4, <2>1
  <1> QED BY <1>5, <1>6 DEF FreePort

\* What a signal leaves of the loops.
LEMMA SignalledFacts ==
  ASSUME SupervisorTypeOK, PidsFit, NEW f \in Files
  PROVE  /\ Stopped(f) \in Seq(Loops)
         /\ DOMAIN Stopped(f) = DOMAIN loops
         /\ \A l \in DOMAIN loops :
               /\ Stopped(f)[l].owner = loops[l].owner
               /\ Stopped(f)[l].file = loops[l].file
               /\ Stopped(f)[l].child \in {"booting", "serving"} => Stopped(f)[l].child = loops[l].child
               /\ Stopped(f)[l].phase = "gone" => loops[l].phase = "gone" \/ loops[l].file[2] = "voice"
  <1> DEFINE pid == pidfile[f]
  <1>0. loops \in Seq(Loops) BY DEF SupervisorTypeOK, Loops
  <1>1. CASE ~Alive(pid) BY <1>0, <1>1 DEF Stopped
  <1>2. CASE Alive(pid)
    <2>1. pid.loop \in DOMAIN loops BY <1>2 DEF Alive
    <2>2. pid # NoPid BY <2>1, <1>0 DEF NoPid
    <2>3. loops[pid.loop].file = f /\ (pid.n = 0 => f[2] = "voice") BY <2>2 DEF PidsFit
    <2>4. Stopped(f) = Signalled(pid) BY <1>2 DEF Stopped
    <2> HIDE DEF pid
    <2>5. CASE pid.n = 0
      <3>1. Signalled(pid) = [loops EXCEPT ![pid.loop].phase = "gone"] BY <2>5 DEF Signalled
      <3>2. loops[pid.loop] \in Loops BY <1>0, <2>1
      <3>3. [loops[pid.loop] EXCEPT !.phase = "gone"] \in Loops BY <3>2 DEF Loops
      <3>4. Stopped(f) = [loops EXCEPT ![pid.loop] = [loops[pid.loop] EXCEPT !.phase = "gone"]]
        BY <2>4, <3>1
      <3> QED BY <1>0, <2>1, <2>3, <2>5, <3>2, <3>3, <3>4 DEF Loops
    <2>6. CASE pid.n # 0
      <3>1. Signalled(pid) = [loops EXCEPT ![pid.loop].child =
                                IF @ = "booting" THEN "none" ELSE "stopping"] BY <2>6 DEF Signalled
      <3> DEFINE left == IF loops[pid.loop].child = "booting" THEN "none" ELSE "stopping"
      <3>2. loops[pid.loop] \in Loops BY <1>0, <2>1
      <3>3. left \in {"none", "stopping"} OBVIOUS
      <3>4. Stopped(f) = [loops EXCEPT ![pid.loop] = [loops[pid.loop] EXCEPT !.child = left]]
        BY <2>4, <3>1
      <3> HIDE DEF left
      <3>5. [loops[pid.loop] EXCEPT !.child = left] \in Loops BY <3>2, <3>3 DEF Loops
      <3> QED BY <1>0, <2>1, <3>2, <3>3, <3>4, <3>5 DEF Loops
    <2> QED BY <2>5, <2>6
  <1> QED BY <1>1, <1>2

\* A step of a loop or its server keeps the loop what it is, but for its phase,
\* its servers and their state.
LEMMA ProcessFacts ==
  ASSUME SupervisorTypeOK, PidsFit, NEW l \in DOMAIN loops, NEW installed,
         Loop(l) \/ Boots(l, installed) \/ Exits(l) \/ Crash(l)
  PROVE  /\ SupervisorTypeOK'
         /\ PidsFit'
         /\ DOMAIN loops' = DOMAIN loops
         /\ \A k \in DOMAIN loops :
               /\ loops'[k].owner = loops[k].owner
               /\ loops'[k].file = loops[k].file
               /\ loops'[k].child \in {"booting", "serving"} =>
                     loops[k].child \in {"booting", "serving"} \/ loops'[k].phase = "turns"
               /\ loops'[k].phase = "gone" =>
                     loops[k].phase = "gone" \/ loops'[k].child = "none"
  <1>0. loops \in Seq(Loops) /\ loops[l] \in Loops
    <2>1. loops \in Seq(Loops) BY DEF SupervisorTypeOK, Loops
    <2> QED BY <2>1
  <1>1. CASE Spawn(l)
    <2> DEFINE n == loops[l].started + 1
               new == [loops[l] EXCEPT !.child = "booting", !.started = n]
               f == loops[l].file
    <2>1. n \in 1..MaxRestarts BY <1>0, <1>1, SupervisorConstants DEF Spawn, Again, Loops
    <2>2. loops' = [loops EXCEPT ![l] = new] BY <1>1 DEF Spawn
    <2>3. pidfile' = [pidfile EXCEPT ![f] = [loop |-> l, n |-> n]] BY <1>1 DEF Spawn
    <2>4. loops[l].phase = "turns" BY <1>1 DEF Spawn
    <2> HIDE DEF n
    <2>5. new \in Loops /\ new.owner = loops[l].owner /\ new.file = loops[l].file
          /\ new.phase = "turns"
      <3> DEFINE booting == [loops[l] EXCEPT !.child = "booting"]
      <3>1. booting \in Loops /\ booting.owner = loops[l].owner /\ booting.file = loops[l].file
            /\ booting.phase = "turns"
        BY <1>0, <2>4 DEF Loops
      <3>2. new = [booting EXCEPT !.started = n] OBVIOUS
      <3> HIDE DEF booting, new
      <3> QED BY <2>1, <3>1, <3>2 DEF Loops
    <2>6. f \in Files BY <1>0 DEF Loops
    <2> HIDE DEF new, f
    <2>7. loops' \in Seq(Loops) /\ DOMAIN loops' = DOMAIN loops BY <1>0, <2>2, <2>5
    <2>8. pidfile' \in [Files -> [loop : Nat, n : 0..MaxRestarts]]
      BY <1>0, <2>1, <2>3, <2>6 DEF SupervisorTypeOK
    <2>9. \A k \in DOMAIN loops : loops'[k] = IF k = l THEN new ELSE loops[k] BY <1>0, <2>2
    <2>10. PidsFit'
      <3> SUFFICES ASSUME NEW g \in Files, pidfile'[g] # NoPid
                   PROVE  /\ pidfile'[g].loop \in DOMAIN loops'
                          /\ loops'[pidfile'[g].loop].file = g
                          /\ pidfile'[g].n = 0 => g[2] = "voice"
        BY DEF PidsFit
      <3>1. CASE g = f
        <4>1. pidfile'[g] = [loop |-> l, n |-> n] BY <2>3, <2>6, <3>1 DEF SupervisorTypeOK
        <4> QED BY <2>1, <2>5, <2>7, <2>9, <3>1, <4>1 DEF f
      <3>2. CASE g # f
        <4>1. pidfile'[g] = pidfile[g] BY <2>3, <3>2 DEF SupervisorTypeOK
        <4> QED BY <2>5, <2>7, <2>9, <4>1 DEF PidsFit
      <3> QED BY <3>1, <3>2
    <2> QED BY <2>5, <2>7, <2>8, <2>9, <2>10 DEF SupervisorTypeOK, Loops
  <1>2. ASSUME NEW new \in Loops, loops' = [loops EXCEPT ![l] = new], UNCHANGED pidfile,
               new.owner = loops[l].owner, new.file = loops[l].file,
               new.child \in {"booting", "serving"} =>
                  loops[l].child \in {"booting", "serving"} \/ new.phase = "turns",
               new.phase = "gone" => loops[l].phase = "gone" \/ new.child = "none"
        PROVE  /\ SupervisorTypeOK'
               /\ PidsFit'
               /\ DOMAIN loops' = DOMAIN loops
               /\ \A k \in DOMAIN loops :
                     /\ loops'[k].owner = loops[k].owner
                     /\ loops'[k].file = loops[k].file
                     /\ loops'[k].child \in {"booting", "serving"} =>
                           loops[k].child \in {"booting", "serving"} \/ loops'[k].phase = "turns"
                     /\ loops'[k].phase = "gone" =>
                           loops[k].phase = "gone" \/ loops'[k].child = "none"
    <2>1. loops' \in Seq(Loops) /\ DOMAIN loops' = DOMAIN loops BY <1>0, <1>2
    <2>2. \A k \in DOMAIN loops : loops'[k] = IF k = l THEN new ELSE loops[k] BY <1>0, <1>2
    <2>3. PidsFit' BY <1>2, <2>1, <2>2 DEF PidsFit
    <2> QED BY <1>2, <2>1, <2>2, <2>3 DEF SupervisorTypeOK, Loops
  <1>3. CASE GivesUp(l)
    <2> DEFINE new == [loops[l] EXCEPT !.phase = "gone"]
    <2>1. loops' = [loops EXCEPT ![l] = new] /\ UNCHANGED pidfile /\ loops[l].child = "none"
      BY <1>3 DEF GivesUp
    <2>2. new \in Loops /\ new.owner = loops[l].owner /\ new.file = loops[l].file /\ new.child = "none"
      BY <1>0, <2>1 DEF Loops
    <2> HIDE DEF new
    <2> QED BY <1>2, <2>1, <2>2
  <1>4. CASE Boots(l, installed) \/ Exits(l) \/ Crash(l)
    <2>1. PICK c \in {"none", "serving"} :
             /\ loops' = [loops EXCEPT ![l] = [loops[l] EXCEPT !.child = c]]
             /\ UNCHANGED pidfile
             /\ c = "serving" => loops[l].child = "booting"
      <3>1. CASE Boots(l, installed)
        <4> DEFINE b == IF installed /\ ~Busy(loops[l].port) THEN "serving" ELSE "none"
        <4>1. loops' = [loops EXCEPT ![l] = [loops[l] EXCEPT !.child = b]]
          BY <3>1 DEF Boots
        <4>2. UNCHANGED pidfile /\ loops[l].child = "booting" BY <3>1 DEF Boots
        <4>3. b \in {"none", "serving"} OBVIOUS
        <4> HIDE DEF b
        <4> QED BY <4>1, <4>2, <4>3
      <3>2. CASE Exits(l) \/ Crash(l)
        <4>1. loops' = [loops EXCEPT ![l] = [loops[l] EXCEPT !.child = "none"]] /\ UNCHANGED pidfile
          BY <3>2 DEF Exits, Crash
        <4> QED BY <4>1
      <3> QED BY <1>4, <3>1, <3>2
    <2>2. [loops[l] EXCEPT !.child = c] \in Loops BY <1>0 DEF Loops
    <2>3. /\ [loops[l] EXCEPT !.child = c].owner = loops[l].owner
          /\ [loops[l] EXCEPT !.child = c].file = loops[l].file
          /\ [loops[l] EXCEPT !.child = c].phase = loops[l].phase
          /\ [loops[l] EXCEPT !.child = c].child = c
      BY <1>0 DEF Loops
    <2> QED BY <1>2, <2>1, <2>2, <2>3
  <1> QED BY <1>1, <1>3, <1>4 DEF Loop

-----------------------------------------------------------------------------

\* What a script in a folder is left with when it goes on, and when it ends.
LEMMA ScriptFacts ==
  ASSUME ScriptTypeOK, NEW i \in Installs
  PROVE  /\ \A at \in Steps, on \in Venvs : Moves(i, at, on) =>
               script' \in [Installs -> [at : Steps, on : Venvs, loop : Nat]]
         /\ \A at \in Steps, on \in Venvs : Goto(i, at, on) => ScriptTypeOK'
         /\ \A busy \in BOOLEAN : Leaves(i, busy) => ScriptTypeOK'
  <1>1. ASSUME NEW at \in Steps, NEW on \in Venvs, Moves(i, at, on)
        PROVE  script' \in [Installs -> [at : Steps, on : Venvs, loop : Nat]]
    BY <1>1 DEF Moves, ScriptTypeOK
  <1>2. ASSUME NEW at \in Steps, NEW on \in Venvs, Goto(i, at, on)
        PROVE  ScriptTypeOK'
    <2>1. Moves(i, at, on) /\ UNCHANGED running BY <1>2 DEF Goto
    <2> QED BY <1>1, <2>1 DEF ScriptTypeOK, running
  <1>3. ASSUME NEW busy \in BOOLEAN, Leaves(i, busy)
        PROVE  ScriptTypeOK'
    <2>1. Idle \in [at : Steps, on : Venvs, loop : Nat] BY DEF Idle, Steps, Venvs
    <2>2. Minimal \in [voice : BOOLEAN, start : BOOLEAN, hermes : BOOLEAN, config : BOOLEAN]
      <3>1. Minimal \in [voice : {FALSE}, start : {FALSE}, hermes : BOOLEAN, config : BOOLEAN]
        BY DeploymentConstants
      <3> QED BY <3>1
    <2>3. NoPorts \in [Services -> Ports] BY DEF NoPorts, Ports
    <2> QED BY <1>3, <2>1, <2>2, <2>3 DEF Leaves, ScriptTypeOK
  <1> QED BY <1>1, <1>2, <1>3

\* Every action but those of the servers keeps the types of the scripts.
LEMMA ScriptTypeStep ==
  ASSUME TypeOK, ScriptsFit, [Next]_vars PROVE ScriptTypeOK'
  <1> USE DEF TypeOK
  <1>1. CASE UNCHANGED <<script, running>> BY <1>1 DEF ScriptTypeOK, running
  <1>2. ASSUME NEW i \in Installs, NEW at \in Steps,
               NEW choice \in [voice : BOOLEAN, start : BOOLEAN, hermes : BOOLEAN, config : BOOLEAN],
               Begins(i, at, choice)
        PROVE  ScriptTypeOK'
    <2>1. "adapter" \in Venvs BY DEF Venvs
    <2>2. Moves(i, at, "adapter") BY <1>2 DEF Begins
    <2>3. script' \in [Installs -> [at : Steps, on : Venvs, loop : Nat]] BY <2>1, <2>2, ScriptFacts
    <2> QED BY <1>2, <2>3 DEF Begins, ScriptTypeOK
  <1>3. ASSUME NEW i \in Installs, Command(i) \/ Retry(i) PROVE ScriptTypeOK'
    <2> DEFINE Record == [voice : BOOLEAN, start : BOOLEAN, hermes : BOOLEAN, config : BOOLEAN]
    <2>1. Wishes[i] \subseteq Record /\ Minimal \in Record
      <3>1. /\ Minimal \in [voice : {FALSE}, start : {FALSE}, hermes : BOOLEAN, config : BOOLEAN]
            /\ Wishes \in [Installs -> SUBSET Record]
        BY DeploymentConstants
      <3> QED BY <3>1
    <2>2. \A choice \in Record : SetupEntry(choice) \in Steps BY DEF SetupEntry, Steps
    <2>3. {"clone", "check"} \subseteq Steps BY DEF Steps
    <2>4. PICK at \in Steps, choice \in Record : Begins(i, at, choice)
      BY <1>3, <2>1, <2>2, <2>3 DEF Command, Retry
    <2> QED BY <1>2, <2>4
  <1>4. ASSUME NEW i \in Installs, Script(i) \/ Fault(i) PROVE ScriptTypeOK'
    <2> DEFINE on == script[i].on
    <2>1. on \in Venvs BY DEF ScriptTypeOK
    <2>2. Services \subseteq Venvs /\ {"adapter", "voice", "hermes"} \subseteq Venvs BY DEF Services, Venvs
    <2>3. {"clone", "isolate", "state", "port", "hermes", "make", "pip", "config",
           "check", "stop", "fork", "parent"} \subseteq Steps BY DEF Steps
    <2>4. SetupEntry(opts[i]) \in Steps BY DEF SetupEntry, Steps
    <2>5. CASE \E at \in Steps, o \in Venvs : Goto(i, at, o) BY <2>5, ScriptFacts
    <2>6. CASE \E busy \in BOOLEAN : Leaves(i, busy) BY <2>6, ScriptFacts
    <2>7. CASE Isolate(i)
      <3> DEFINE port == IF Kept(i, "adapter") THEN env[i].adapter ELSE FreePort(8765, 0)
                 voicePort == IF Kept(i, "voice") THEN env[i].voice ELSE FreePort(8767, port)
      <3>1. CASE Exit(i) BY <2>6, <3>1 DEF Exit
      <3>2. CASE ~Exit(i)
        <4>1. /\ ~Kept(i, "adapter") => \E p \in Probed(8765) : Free(p, 0)
              /\ ~Kept(i, "voice") => \E p \in Probed(8767) : Free(p, port)
              /\ picked' = [picked EXCEPT ![i] = [s \in Services |-> IF s = "adapter" THEN port ELSE voicePort]]
              /\ Moves(i, "state", "adapter")
              /\ UNCHANGED <<opts, refused, stopped>>
          BY <2>7, <3>2 DEF Isolate
        <4>2. env[i].adapter \in Ports /\ env[i].voice \in Ports BY DEF FilesTypeOK
        <4>3. port \in Ports BY <4>1, <4>2, FreePortFacts DEF Ports
        <4> HIDE DEF port
        <4>4. voicePort \in Ports BY <4>1, <4>2, FreePortFacts DEF Ports
        <4> HIDE DEF voicePort
        <4>5. script' \in [Installs -> [at : Steps, on : Venvs, loop : Nat]]
          BY <2>2, <2>3, <4>1, ScriptFacts DEF Steps
        <4> DEFINE ports == [s \in Services |-> IF s = "adapter" THEN port ELSE voicePort]
        <4>6. ports \in [Services -> Ports] BY <4>3, <4>4
        <4>7. picked' = [picked EXCEPT ![i] = ports] BY <4>1
        <4> HIDE DEF ports
        <4>8. picked' \in [Installs -> [Services -> Ports]] BY <4>6, <4>7 DEF ScriptTypeOK
        <4> QED BY <4>1, <4>5, <4>8 DEF ScriptTypeOK
      <3> QED BY <3>1, <3>2
    <2>8. CASE Stop(i)
      <3>1. Moves(i, "fork", on) /\ UNCHANGED <<opts, picked, refused>> BY <2>8 DEF Stop
      <3>2. stopped' \in [Installs -> BOOLEAN] BY <2>8 DEF Stop, ScriptTypeOK
      <3>3. script' \in [Installs -> [at : Steps, on : Venvs, loop : Nat]]
        BY <2>1, <2>3, <3>1, ScriptFacts
      <3> QED BY <3>1, <3>2, <3>3 DEF ScriptTypeOK
    <2>9. CASE StartLoop(i)
      <3>1. CASE Refused(i, "fork") BY <2>6, <2>9, <3>1 DEF StartLoop
      <3>2. CASE ~Refused(i, "fork")
        <4>1. /\ script' = [script EXCEPT ![i] = [at |-> "parent", on |-> on, loop |-> Len(loops) + 1]]
              /\ UNCHANGED running
          BY <2>9, <3>2 DEF StartLoop
        <4>2. Len(loops) + 1 \in Nat BY DEF SupervisorTypeOK
        <4>3. script' \in [Installs -> [at : Steps, on : Venvs, loop : Nat]]
          BY <2>1, <2>3, <4>1, <4>2 DEF ScriptTypeOK
        <4> QED BY <4>1, <4>3 DEF ScriptTypeOK, running
      <3> QED BY <3>1, <3>2
    <2>10. CASE Clone(i) BY <2>2, <2>3, <2>5, <2>6, <2>10 DEF Clone, Exit
    <2>11. CASE WriteState(i) BY <2>2, <2>3, <2>5, <2>11 DEF WriteState
    <2>12. CASE WritePort(i) BY <2>2, <2>3, <2>4, <2>5, <2>12 DEF WritePort
    <2>13. CASE EnsureHermes(i) BY <2>2, <2>3, <2>5, <2>13 DEF EnsureHermes
    <2>14. CASE Make(i) BY <2>1, <2>3, <2>5, <2>14 DEF Make
    <2>15. CASE Pip(i) BY <2>2, <2>3, <2>5, <2>6, <2>15 DEF Pip, Exit
    <2>16. CASE WriteConfig(i) BY <2>2, <2>3, <2>5, <2>6, <2>16 DEF WriteConfig, Exit
    <2>17. CASE Check(i) BY <2>1, <2>3, <2>5, <2>6, <2>17 DEF Check, Exit
    <2>18. CASE ParentPid(i) BY <2>2, <2>3, <2>5, <2>6, <2>18 DEF ParentPid, Exit
    <2>19. CASE Fault(i) BY <2>6, <2>19 DEF Fault, Exit
    <2> QED BY <1>4, <2>7, <2>8, <2>9, <2>10, <2>11, <2>12, <2>13, <2>14, <2>15, <2>16, <2>17, <2>18, <2>19
          DEF Script
  <1>5. ASSUME NEW i \in Installs, Clears(i) \/ EditPort(i) PROVE ScriptTypeOK'
    BY <1>1, <1>5 DEF Clears, EditPort, running
  <1>6. ASSUME NEW l \in DOMAIN loops, Process(l) \/ CrashesServer(l) PROVE ScriptTypeOK'
    BY <1>1, <1>6 DEF Process, RunsLoop, BootsServer, ExitsServer, CrashesServer, others, running
  <1> QED BY <1>1, <1>3, <1>4, <1>5, <1>6 DEF Next, vars

\* What faults and edits leave in the files is of the files' types.
LEMMA FilesTypeStep ==
  ASSUME TypeOK, ScriptsFit, [Next]_vars PROVE FilesTypeOK'
  <1> USE DEF TypeOK
  <1> DEFINE Envs == [state : BOOLEAN, adapter : Ports, voice : Ports]
             VenvStates == {"none", "broken", "nopip", "bare", "ready"}
  <1>1. CASE UNCHANGED files BY <1>1 DEF FilesTypeOK, files
  <1>2. ASSUME NEW i \in Installs, Command(i) \/ Retry(i) PROVE FilesTypeOK'
    BY <1>1, <1>2 DEF Command, Retry, Begins
  <1>3. ASSUME NEW i \in Installs, NEW e \in Envs, env' = [env EXCEPT ![i] = e],
               UNCHANGED <<code, conf, hermes, venv>>
        PROVE  FilesTypeOK'
    BY <1>3 DEF FilesTypeOK
  <1>4. ASSUME NEW i \in Installs, NEW v \in Venvs, NEW s \in VenvStates,
               venv' = [venv EXCEPT ![i][v] = s], UNCHANGED <<code, env, conf, hermes>>
        PROVE  FilesTypeOK'
    <2>1. venv[i] \in [Venvs -> VenvStates] BY DEF FilesTypeOK
    <2>2. [venv[i] EXCEPT ![v] = s] \in [Venvs -> VenvStates] BY <2>1
    <2>3. venv' = [venv EXCEPT ![i] = [venv[i] EXCEPT ![v] = s]] BY <1>4
    <2> QED BY <1>4, <2>2, <2>3 DEF FilesTypeOK
  <1>5. ASSUME NEW i \in Installs, NEW p \in Ports \cup {CutShort},
               conf' = [conf EXCEPT ![HermesHome(i)] = p], UNCHANGED <<code, env, hermes, venv>>
        PROVE  FilesTypeOK'
    BY <1>5 DEF FilesTypeOK
  <1>6. ASSUME NEW i \in Installs, Clears(i) \/ Clone(i) PROVE FilesTypeOK'
    BY <1>6 DEF Clears, Clone, FilesTypeOK
  <1>7. ASSUME NEW i \in Installs, EditPort(i) PROVE FilesTypeOK'
    <2>1. env[i] \in Envs BY DEF FilesTypeOK
    <2>2. PICK p \in EditPorts : env' = [env EXCEPT ![i].adapter = p] BY <1>7 DEF EditPort
    <2>3. p \in Ports BY DEF Ports
    <2>4. [env[i] EXCEPT !.adapter = p] \in Envs BY <2>1, <2>3
    <2>5. env' = [env EXCEPT ![i] = [env[i] EXCEPT !.adapter = p]] BY <2>2
    <2> QED BY <1>3, <1>7, <2>4, <2>5 DEF EditPort
  <1>8. ASSUME NEW i \in Installs, WriteState(i) PROVE FilesTypeOK'
    <2>1. env[i] \in Envs BY DEF FilesTypeOK
    <2>2. env' = [env EXCEPT ![i] = [env[i] EXCEPT !.state = TRUE]] BY <1>8 DEF WriteState
    <2>3. [env[i] EXCEPT !.state = TRUE] \in Envs BY <2>1
    <2> QED BY <1>3, <1>8, <2>2, <2>3 DEF WriteState
  <1>9. ASSUME NEW i \in Installs, WritePort(i) PROVE FilesTypeOK'
    <2> DEFINE s == script[i].on
               p == IF Kept(i, s) THEN env[i][s] ELSE picked[i][s]
    <2>1. env[i] \in Envs BY DEF FilesTypeOK
    <2>2. s \in Services BY <1>9 DEF WritePort, ScriptsFit
    <2>3. env' = [env EXCEPT ![i] = [env[i] EXCEPT ![s] = p]] BY <1>9 DEF WritePort
    <2>4. p \in Ports BY <2>1, <2>2 DEF ScriptTypeOK, Services
    <2> HIDE DEF s, p
    <2>5. [env[i] EXCEPT ![s] = p] \in Envs BY <2>1, <2>2, <2>4 DEF Services
    <2> QED BY <1>3, <1>9, <2>3, <2>5 DEF WritePort
  <1>10. ASSUME NEW i \in Installs, EnsureHermes(i) PROVE FilesTypeOK'
    BY <1>10 DEF EnsureHermes, FilesTypeOK
  <1>11. ASSUME NEW i \in Installs, Make(i) PROVE FilesTypeOK'
    <2> DEFINE v == script[i].on
    <2>1. v \in Venvs /\ venv[i][v] \in VenvStates BY DEF ScriptTypeOK, FilesTypeOK
    <2>2. Made(v, venv[i][v]) \in VenvStates BY <2>1 DEF Made, Repaired
    <2>3. venv' = [venv EXCEPT ![i][v] = Made(v, venv[i][v])] BY <1>11 DEF Make
    <2> QED BY <1>4, <1>11, <2>1, <2>2, <2>3 DEF Make
  <1>12. ASSUME NEW i \in Installs, Pip(i) PROVE FilesTypeOK'
    <2> DEFINE v == script[i].on
    <2>1. v \in Venvs BY DEF ScriptTypeOK
    <2>2. UNCHANGED <<code, env, conf, hermes>> BY <1>12 DEF Pip
    <2>3. CASE UNCHANGED venv BY <1>1, <2>2, <2>3 DEF files
    <2>4. CASE venv' = [venv EXCEPT ![i][v] = "ready"] BY <1>4, <2>1, <2>2, <2>4
    <2> QED BY <1>12, <2>3, <2>4 DEF Pip
  <1>13. ASSUME NEW i \in Installs, WriteConfig(i) PROVE FilesTypeOK'
    <2>1. UNCHANGED <<code, env, hermes, venv>> BY <1>13 DEF WriteConfig
    <2>2. CASE UNCHANGED conf BY <1>1, <2>1, <2>2 DEF files
    <2>3. CASE conf' = [conf EXCEPT ![HermesHome(i)] = Port(i, "adapter")]
      <3>1. Port(i, "adapter") \in Ports BY SettingFacts DEF Services
      <3> QED BY <1>5, <2>1, <2>3, <3>1
    <2> QED BY <1>13, <2>2, <2>3 DEF WriteConfig
  <1>14. ASSUME NEW i \in Installs, Fault(i) PROVE FilesTypeOK'
    <2> DEFINE v == script[i].on
    <2>1. v \in Venvs /\ venv[i][v] \in VenvStates BY DEF ScriptTypeOK, FilesTypeOK
    <2>2. CASE UNCHANGED <<env, conf, hermes, venv>> /\ code' = [code EXCEPT ![i] = "partial"]
      BY <2>2 DEF FilesTypeOK
    <2>3. CASE UNCHANGED <<code, conf, hermes, venv>> /\ \E e \in Remnants(env[i]) : env' = [env EXCEPT ![i] = e]
      <3>1. env[i] \in Envs BY DEF FilesTypeOK
      <3>2. 0 \in Ports BY DEF Ports
      <3>3. Remnants(env[i]) \subseteq Envs BY <3>1, <3>2 DEF Remnants
      <3> QED BY <1>3, <2>3, <3>3
    <2>4. CASE UNCHANGED <<code, env, conf, venv>> /\ hermes' = [hermes EXCEPT ![i] = "partial"]
      BY <2>4 DEF FilesTypeOK
    <2>5. CASE /\ UNCHANGED <<code, env, conf, hermes>>
               /\ \E s \in Remains(script[i].at, venv[i][v]) : venv' = [venv EXCEPT ![i][v] = s]
      <3>1. Remains(script[i].at, venv[i][v]) \subseteq VenvStates BY <2>1 DEF Remains
      <3> QED BY <1>4, <2>1, <2>5, <3>1
    <2>6. CASE UNCHANGED <<code, env, hermes, venv>> /\ conf' = [conf EXCEPT ![HermesHome(i)] = CutShort]
      BY <1>5, <2>6
    <2>7. CASE UNCHANGED files BY <1>1, <2>7
    <2> QED BY <1>14, <2>2, <2>3, <2>4, <2>5, <2>6, <2>7 DEF Fault, files
  <1>15. ASSUME NEW i \in Installs,
                Isolate(i) \/ Check(i) \/ Stop(i) \/ StartLoop(i) \/ ParentPid(i)
         PROVE  FilesTypeOK'
    <2>1. Isolate(i) => UNCHANGED files BY DEF Isolate
    <2>2. Check(i) => UNCHANGED files BY DEF Check
    <2>3. Stop(i) => UNCHANGED files BY DEF Stop
    <2>4. StartLoop(i) => UNCHANGED files BY DEF StartLoop
    <2>5. ParentPid(i) => UNCHANGED files BY DEF ParentPid
    <2> QED BY <1>1, <1>15, <2>1, <2>2, <2>3, <2>4, <2>5
  <1>16. ASSUME NEW l \in DOMAIN loops, Process(l) \/ CrashesServer(l) PROVE FilesTypeOK'
    BY <1>1, <1>16 DEF Process, RunsLoop, BootsServer, ExitsServer, CrashesServer, others
  <1> QED BY <1>1, <1>2, <1>6, <1>7, <1>8, <1>9, <1>10, <1>11, <1>12, <1>13, <1>14, <1>15, <1>16
        DEF Next, Script, vars

\* Every variable keeps its type.
LEMMA TypeStep ==
  ASSUME DeploymentInv, [Next]_vars, SupervisorTypeOK' PROVE TypeOK'
  <1>0. TypeOK /\ ScriptsFit BY DEF DeploymentInv
  <1>1. FilesTypeOK' /\ ScriptTypeOK' BY <1>0, FilesTypeStep, ScriptTypeStep
  <1>2. commands' \in 0..MaxCommands /\ faults' \in 0..MaxFaults
    <2>1. commands \in 0..MaxCommands /\ faults \in 0..MaxFaults BY <1>0 DEF TypeOK
    <2>2. MaxCommands \in Nat /\ MaxFaults \in Nat BY DeploymentConstants
    <2>3. ASSUME NEW i \in Installs, Command(i) \/ Retry(i) \/ EditPort(i) \/ Fault(i)
          PROVE  commands' \in 0..MaxCommands /\ faults' \in 0..MaxFaults
      BY <2>1, <2>2, <2>3 DEF Command, Retry, Begins, EditPort, Fault
    <2>4. ASSUME NEW i \in Installs, Script(i) \/ Clears(i) PROVE UNCHANGED counters
      <3>1. Clone(i) => UNCHANGED counters BY DEF Clone
      <3>2. Isolate(i) => UNCHANGED counters BY DEF Isolate
      <3>3. WriteState(i) => UNCHANGED counters BY DEF WriteState
      <3>4. WritePort(i) => UNCHANGED counters BY DEF WritePort
      <3>5. EnsureHermes(i) => UNCHANGED counters BY DEF EnsureHermes
      <3>6. Make(i) => UNCHANGED counters BY DEF Make
      <3>7. Pip(i) => UNCHANGED counters BY DEF Pip
      <3>8. WriteConfig(i) => UNCHANGED counters BY DEF WriteConfig
      <3>9. Check(i) => UNCHANGED counters BY DEF Check
      <3>10. Stop(i) => UNCHANGED counters BY DEF Stop
      <3>11. StartLoop(i) => UNCHANGED counters BY DEF StartLoop
      <3>12. ParentPid(i) => UNCHANGED counters BY DEF ParentPid
      <3>13. Clears(i) => UNCHANGED counters BY DEF Clears
      <3> QED BY <2>4, <3>1, <3>2, <3>3, <3>4, <3>5, <3>6, <3>7, <3>8, <3>9, <3>10, <3>11, <3>12, <3>13 DEF Script
    <2>5. ASSUME NEW l \in DOMAIN loops, Process(l) PROVE UNCHANGED counters
      BY <2>5 DEF Process, RunsLoop, BootsServer, ExitsServer, others
    <2>6. ASSUME NEW l \in DOMAIN loops, CrashesServer(l)
          PROVE  commands' \in 0..MaxCommands /\ faults' \in 0..MaxFaults
      BY <2>1, <2>2, <2>6 DEF CrashesServer
    <2>7. CASE UNCHANGED vars BY <2>1, <2>7 DEF vars, counters
    <2>8. UNCHANGED counters => commands' \in 0..MaxCommands /\ faults' \in 0..MaxFaults
      BY <2>1 DEF counters
    <2> QED BY <2>3, <2>4, <2>5, <2>6, <2>7, <2>8 DEF Next
  <1>3. untold' \in [Installs -> BOOLEAN] /\ victims' \subseteq Installs \X Installs
    <2> DEFINE P == untold' \in [Installs -> BOOLEAN] /\ victims' \subseteq Installs \X Installs
    <2>1. untold \in [Installs -> BOOLEAN] /\ victims \subseteq Installs \X Installs BY <1>0 DEF TypeOK
    <2>2. ASSUME NEW i \in Installs, NEW b \in BOOLEAN, untold' = [untold EXCEPT ![i] = b],
                 UNCHANGED victims
          PROVE  P
      BY <2>1, <2>2
    <2>3. ASSUME UNCHANGED history PROVE P BY <2>1, <2>3 DEF history
    <2>4. ASSUME NEW i \in Installs, Command(i) \/ Retry(i) \/ Clears(i) PROVE UNCHANGED history
      BY <2>4 DEF Command, Retry, Begins, Clears
    <2>5. ASSUME NEW i \in Installs, EditPort(i) PROVE P BY <2>2, <2>5 DEF EditPort
    <2>6. ASSUME NEW i \in Installs, WriteConfig(i) PROVE P
      BY <2>1, <2>2, <2>3, <2>6 DEF WriteConfig, history
    <2>7. ASSUME NEW i \in Installs, Fault(i) PROVE P
      <3>1. UNCHANGED victims BY <2>7 DEF Fault
      <3>2. UNCHANGED untold \/ \E b \in BOOLEAN : untold' = [untold EXCEPT ![i] = b]
        BY <2>1, <2>7 DEF Fault
      <3> QED BY <2>2, <2>3, <3>1, <3>2 DEF history
    <2>8. ASSUME NEW i \in Installs, Stop(i) PROVE P
      <3>1. UNCHANGED untold BY <2>8 DEF Stop
      <3>2. CASE UNCHANGED victims BY <2>3, <3>1, <3>2 DEF history
      <3>3. CASE ~UNCHANGED victims
        <4> DEFINE pid == pidfile[File(i, script[i].on)]
        <4>1. Alive(pid) /\ env[i].state /\ victims' = victims \cup {<<i, loops[pid.loop].owner>>}
          BY <2>8, <3>3 DEF Stop
        <4>2. loops \in Seq(Loops) BY <1>0 DEF TypeOK, SupervisorTypeOK, Loops
        <4>3. pid.loop \in DOMAIN loops BY <4>1 DEF Alive
        <4>4. loops[pid.loop] \in Loops BY <4>2, <4>3
        <4>5. loops[pid.loop].owner \in Installs BY <4>4 DEF Loops
        <4> QED BY <2>1, <3>1, <4>1, <4>5
      <3> QED BY <3>2, <3>3
    <2>9. ASSUME NEW i \in Installs, Script(i), ~WriteConfig(i), ~Stop(i) PROVE UNCHANGED history
      <3>1. Clone(i) => UNCHANGED history BY DEF Clone
      <3>2. Isolate(i) => UNCHANGED history BY DEF Isolate
      <3>3. WriteState(i) => UNCHANGED history BY DEF WriteState
      <3>4. WritePort(i) => UNCHANGED history BY DEF WritePort
      <3>5. EnsureHermes(i) => UNCHANGED history BY DEF EnsureHermes
      <3>6. Make(i) => UNCHANGED history BY DEF Make
      <3>7. Pip(i) => UNCHANGED history BY DEF Pip
      <3>8. Check(i) => UNCHANGED history BY DEF Check
      <3>9. StartLoop(i) => UNCHANGED history BY DEF StartLoop
      <3>10. ParentPid(i) => UNCHANGED history BY DEF ParentPid
      <3> QED BY <2>9, <3>1, <3>2, <3>3, <3>4, <3>5, <3>6, <3>7, <3>8, <3>9, <3>10 DEF Script
    <2>10. ASSUME NEW l \in DOMAIN loops, Process(l) \/ CrashesServer(l) PROVE UNCHANGED history
      BY <2>10 DEF Process, RunsLoop, BootsServer, ExitsServer, CrashesServer, others
    <2>11. UNCHANGED vars => P BY <2>1 DEF vars
    <2> HIDE DEF P
    <2>12. ASSUME NEW i \in Installs, Script(i) PROVE P BY <2>3, <2>6, <2>8, <2>9, <2>12
    <2>13. ASSUME NEW i \in Installs,
                  Command(i) \/ Retry(i) \/ Clears(i) \/ EditPort(i) \/ Script(i) \/ Fault(i)
           PROVE  P
      BY <2>3, <2>4, <2>5, <2>7, <2>12, <2>13
    <2>14. ASSUME NEW l \in DOMAIN loops, Process(l) \/ CrashesServer(l) PROVE P
      BY <2>3, <2>10, <2>14
    <2>15. P BY <2>11, <2>13, <2>14 DEF Next
    <2> QED BY <2>15 DEF P
  <1> QED BY <1>1, <1>2, <1>3 DEF TypeOK

\* A step keeps the loops and the PID files sound, and every loop what it is.
LEMMA SupervisionStep ==
  ASSUME DeploymentInv, [Next]_vars
  PROVE  /\ SupervisorTypeOK' /\ PidsFit' /\ LoopsFit' /\ AdapterSupervised'
         /\ \A l \in DOMAIN loops :
               l \in DOMAIN loops' /\ loops'[l].owner = loops[l].owner /\ loops'[l].file = loops[l].file
  <1> DEFINE Sound == /\ SupervisorTypeOK' /\ PidsFit' /\ LoopsFit' /\ AdapterSupervised'
                      /\ \A l \in DOMAIN loops : /\ l \in DOMAIN loops'
                                                 /\ loops'[l].owner = loops[l].owner
                                                 /\ loops'[l].file = loops[l].file
  <1>0. TypeOK /\ SupervisorTypeOK /\ PidsFit /\ LoopsFit /\ ScriptsFit /\ AdapterSupervised
    BY DEF DeploymentInv, TypeOK
  <1>00. loops \in Seq(Loops) BY <1>0 DEF SupervisorTypeOK, Loops
  <1>1. CASE UNCHANGED supervision
    BY <1>0, <1>1 DEF supervision, SupervisorTypeOK, PidsFit, LoopsFit, AdapterSupervised, Runs
  <1>2. ASSUME NEW l \in DOMAIN loops, Process(l) \/ CrashesServer(l) PROVE Sound
    <2>1. \E installed : Loop(l) \/ Boots(l, installed) \/ Exits(l) \/ Crash(l)
      BY <1>2 DEF Process, RunsLoop, BootsServer, ExitsServer, CrashesServer
    <2>2. /\ SupervisorTypeOK' /\ PidsFit' /\ DOMAIN loops' = DOMAIN loops
          /\ \A k \in DOMAIN loops :
                /\ loops'[k].owner = loops[k].owner
                /\ loops'[k].file = loops[k].file
                /\ loops'[k].child \in {"booting", "serving"} =>
                      loops[k].child \in {"booting", "serving"} \/ loops'[k].phase = "turns"
                /\ loops'[k].phase = "gone" =>
                      loops[k].phase = "gone" \/ loops'[k].child = "none"
      BY <1>0, <2>1, ProcessFacts
    <2>3. LoopsFit' BY <1>0, <2>2 DEF LoopsFit
    <2>4. AdapterSupervised' BY <1>0, <2>2 DEF AdapterSupervised, Runs
    <2> QED BY <2>2, <2>3, <2>4
  <1>3. ASSUME NEW i \in Installs, Stop(i) PROVE Sound
    <2> DEFINE f == File(i, script[i].on)
    <2>1. script[i].on \in Services BY <1>0, <1>3 DEF Stop, ScriptsFit
    <2>2. f \in Files BY <1>0, <2>1, SettingFacts
    <2>3. loops' = Stopped(f) /\ pidfile' = [pidfile EXCEPT ![f] = NoPid] BY <1>3 DEF Stop
    <2> HIDE DEF f
    <2>4. /\ loops' \in Seq(Loops) /\ DOMAIN loops' = DOMAIN loops
          /\ \A l \in DOMAIN loops :
               /\ loops'[l].owner = loops[l].owner
               /\ loops'[l].file = loops[l].file
               /\ loops'[l].child \in {"booting", "serving"} => loops'[l].child = loops[l].child
               /\ loops'[l].phase = "gone" => loops[l].phase = "gone" \/ loops[l].file[2] = "voice"
      BY <1>0, <2>2, <2>3, SignalledFacts
    <2>5. NoPid \in [loop : Nat, n : 0..MaxRestarts] BY SupervisorConstants DEF NoPid
    <2>6. SupervisorTypeOK' BY <1>0, <2>3, <2>4, <2>5 DEF SupervisorTypeOK, Loops
    <2>7. PidsFit'
      <3> SUFFICES ASSUME NEW g \in Files, pidfile'[g] # NoPid PROVE pidfile'[g] = pidfile[g]
        BY <1>0, <2>4 DEF PidsFit
      <3> QED BY <1>0, <2>2, <2>3 DEF SupervisorTypeOK
    <2>8. LoopsFit' BY <1>0, <2>4 DEF LoopsFit
    <2>9. AdapterSupervised' BY <1>0, <2>4 DEF AdapterSupervised, Runs
    <2> QED BY <2>4, <2>6, <2>7, <2>8, <2>9
  <1>4. ASSUME NEW i \in Installs, StartLoop(i) PROVE Sound
    <2> DEFINE s == script[i].on
               new == [owner |-> i, file |-> File(i, s), port |-> Port(i, s),
                       phase |-> "turns", started |-> 0, child |-> "none"]
    <2>1. s \in Services BY <1>0, <1>4 DEF StartLoop, ScriptsFit
    <2>2. CASE UNCHANGED supervision BY <1>1, <2>2
    <2>3. CASE loops' = Append(loops, new) /\ UNCHANGED pidfile
      <3>1. 0 \in 0..MaxRestarts BY SupervisorConstants
      <3>2. new \in Loops BY <1>0, <2>1, <3>1, SettingFacts DEF Loops
      <3>3. new.file[1] \in Installs => new.file[1] = new.owner BY <1>0, <2>1, SettingFacts
      <3>4. new.child = "none" OBVIOUS
      <3> HIDE DEF new
      <3>5. /\ loops' \in Seq(Loops) /\ DOMAIN loops' = DOMAIN loops \cup {Len(loops) + 1}
            /\ \A l \in DOMAIN loops : loops'[l] = loops[l]
            /\ loops'[Len(loops) + 1] = new
        BY <1>00, <2>3, <3>2
      <3>6. SupervisorTypeOK' BY <1>0, <2>3, <3>5 DEF SupervisorTypeOK, Loops
      <3>7. PidsFit' BY <1>0, <2>3, <3>5 DEF PidsFit
      <3>8. LoopsFit' BY <1>0, <3>3, <3>5 DEF LoopsFit
      <3>9. AdapterSupervised' BY <1>0, <3>4, <3>5 DEF AdapterSupervised, Runs
      <3> QED BY <3>5, <3>6, <3>7, <3>8, <3>9
    <2> QED BY <1>4, <2>2, <2>3 DEF StartLoop, Fork
  <1>5. ASSUME NEW i \in Installs, ParentPid(i) PROVE Sound
    <2> DEFINE mine == script[i].loop
               f == loops[mine].file
               pid == [loop |-> mine, n |-> 0]
    <2>1. /\ script[i].on \in Services /\ mine \in DOMAIN loops
          /\ f[2] = script[i].on
      BY <1>0, <1>5 DEF ParentPid, ScriptsFit
    <2>2. CASE UNCHANGED supervision BY <1>1, <2>2
    <2>3. CASE ~UNCHANGED supervision
      <3>1. UNCHANGED loops /\ pidfile' = [pidfile EXCEPT ![f] = pid] /\ f[2] = "voice"
        BY <1>5, <2>1, <2>3 DEF ParentPid, ParentWrites, supervision
      <3>2. pid \in [loop : Nat, n : 0..MaxRestarts]
        BY <1>00, <2>1, SupervisorConstants
      <3>3. loops[mine] \in Loops BY <1>00, <2>1
      <3>4. f \in Files BY <3>3 DEF Loops
      <3>5. pid.loop = mine /\ pid.n = 0 OBVIOUS
      <3>6. f = loops[mine].file OBVIOUS
      <3> HIDE DEF pid, f, mine
      <3>7. SupervisorTypeOK' BY <1>0, <3>1, <3>2 DEF SupervisorTypeOK
      <3>8. PidsFit'
        <4> SUFFICES ASSUME NEW g \in Files, pidfile'[g] # NoPid
                     PROVE  /\ pidfile'[g].loop \in DOMAIN loops
                            /\ loops[pidfile'[g].loop].file = g
                            /\ pidfile'[g].n = 0 => g[2] = "voice"
          BY <3>1 DEF PidsFit
        <4>1. CASE g = f BY <1>0, <2>1, <3>1, <3>4, <3>5, <3>6, <4>1 DEF SupervisorTypeOK
        <4>2. CASE g # f BY <1>0, <3>1, <4>2 DEF SupervisorTypeOK, PidsFit
        <4> QED BY <4>1, <4>2
      <3>9. LoopsFit' /\ AdapterSupervised' BY <1>0, <3>1 DEF LoopsFit, AdapterSupervised, Runs
      <3> QED BY <3>1, <3>7, <3>8, <3>9
    <2> QED BY <2>2, <2>3
  <1>6. ASSUME NEW i \in Installs, Script(i) PROVE Sound
    <2>1. Clone(i) => UNCHANGED supervision BY DEF Clone
    <2>2. Isolate(i) => UNCHANGED supervision BY DEF Isolate
    <2>3. WriteState(i) => UNCHANGED supervision BY DEF WriteState
    <2>4. WritePort(i) => UNCHANGED supervision BY DEF WritePort
    <2>5. EnsureHermes(i) => UNCHANGED supervision BY DEF EnsureHermes
    <2>6. Make(i) => UNCHANGED supervision BY DEF Make
    <2>7. Pip(i) => UNCHANGED supervision BY DEF Pip
    <2>8. WriteConfig(i) => UNCHANGED supervision BY DEF WriteConfig
    <2>9. Check(i) => UNCHANGED supervision BY DEF Check
    <2> HIDE DEF Sound
    <2> QED BY <1>1, <1>3, <1>4, <1>5, <1>6, <2>1, <2>2, <2>3, <2>4, <2>5, <2>6, <2>7, <2>8, <2>9
          DEF Script, Sound
  <1>7. ASSUME NEW i \in Installs, Command(i) \/ Retry(i) \/ Clears(i) \/ EditPort(i) \/ Fault(i)
        PROVE  UNCHANGED supervision
    <2>1. Command(i) => UNCHANGED supervision BY DEF Command, Begins
    <2>2. Retry(i) => UNCHANGED supervision BY DEF Retry, Begins
    <2>3. Clears(i) => UNCHANGED supervision BY DEF Clears
    <2>4. EditPort(i) => UNCHANGED supervision BY DEF EditPort
    <2>5. Fault(i) => UNCHANGED supervision BY DEF Fault
    <2> QED BY <1>7, <2>1, <2>2, <2>3, <2>4, <2>5
  <1>8. UNCHANGED vars => UNCHANGED supervision BY DEF vars
  <1>9. UNCHANGED supervision => Sound BY <1>1
  <1> HIDE DEF Sound
  <1>10. Sound BY <1>2, <1>6, <1>7, <1>8, <1>9 DEF Next
  <1> QED BY <1>10 DEF Sound

\* The steps of a script that stop nothing say nothing about what was stopped.
LEMMA OwnStep ==
  ASSUME DeploymentInv, [Next]_vars PROVE StartsStopOwnOnly'
  <1>0. /\ TypeOK /\ SupervisorTypeOK /\ PidsFit /\ LoopsFit /\ ScriptsFit
        /\ StartsStopOwnOnly
    BY DEF DeploymentInv, TypeOK
  <1>1. CASE UNCHANGED victims BY <1>0, <1>1 DEF StartsStopOwnOnly
  <1>2. ASSUME NEW i \in Installs, Stop(i) PROVE StartsStopOwnOnly'
    <2> DEFINE f == File(i, script[i].on)
               pid == pidfile[f]
    <2>1. CASE UNCHANGED victims BY <1>1, <2>1
    <2>2. CASE ~UNCHANGED victims
      <3>1. /\ Alive(pid) /\ env[i].state
            /\ victims' = victims \cup {<<i, loops[pid.loop].owner>>}
        BY <1>2, <2>2 DEF Stop
      <3>2. script[i].on \in Services BY <1>0, <1>2 DEF Stop, ScriptsFit
      <3>3. f \in Files /\ f[1] = i BY <1>0, <3>1, <3>2, SettingFacts
      <3>4. loops \in Seq(Loops) BY <1>0 DEF SupervisorTypeOK, Loops
      <3>5. pid.loop \in DOMAIN loops BY <3>1 DEF Alive
      <3>6. pid # NoPid BY <3>4, <3>5 DEF NoPid
      <3>7. loops[pid.loop].file = f BY <1>0, <3>3, <3>6 DEF PidsFit
      <3>8. loops[pid.loop].owner = i BY <1>0, <3>3, <3>5, <3>7 DEF LoopsFit
      <3> QED BY <1>0, <3>1, <3>8 DEF StartsStopOwnOnly
    <2> QED BY <2>1, <2>2
  <1>3. ASSUME NEW i \in Installs, Script(i), ~Stop(i) PROVE UNCHANGED victims
    <2>1. Clone(i) => UNCHANGED victims BY DEF Clone, history
    <2>2. Isolate(i) => UNCHANGED victims BY DEF Isolate, history
    <2>3. WriteState(i) => UNCHANGED victims BY DEF WriteState, history
    <2>4. WritePort(i) => UNCHANGED victims BY DEF WritePort, history
    <2>5. EnsureHermes(i) => UNCHANGED victims BY DEF EnsureHermes, history
    <2>6. Make(i) => UNCHANGED victims BY DEF Make, history
    <2>7. Pip(i) => UNCHANGED victims BY DEF Pip, history
    <2>8. WriteConfig(i) => UNCHANGED victims BY DEF WriteConfig, history
    <2>9. Check(i) => UNCHANGED victims BY DEF Check, history
    <2>10. StartLoop(i) => UNCHANGED victims BY DEF StartLoop, history
    <2>11. ParentPid(i) => UNCHANGED victims BY DEF ParentPid, history
    <2> QED BY <1>3, <2>1, <2>2, <2>3, <2>4, <2>5, <2>6, <2>7, <2>8, <2>9, <2>10, <2>11 DEF Script
  <1>4. ASSUME NEW i \in Installs, Command(i) \/ Retry(i) \/ Clears(i) \/ EditPort(i) \/ Fault(i)
        PROVE  UNCHANGED victims
    <2>1. Command(i) => UNCHANGED victims BY DEF Command, Begins, history
    <2>2. Retry(i) => UNCHANGED victims BY DEF Retry, Begins, history
    <2>3. Clears(i) => UNCHANGED victims BY DEF Clears, history
    <2>4. EditPort(i) => UNCHANGED victims BY DEF EditPort
    <2>5. Fault(i) => UNCHANGED victims BY DEF Fault
    <2> QED BY <1>4, <2>1, <2>2, <2>3, <2>4, <2>5
  <1>5. ASSUME NEW l \in DOMAIN loops, Process(l) \/ CrashesServer(l) PROVE UNCHANGED victims
    BY <1>5 DEF Process, RunsLoop, BootsServer, ExitsServer, CrashesServer, others, history
  <1>6. UNCHANGED vars => UNCHANGED victims BY DEF vars
  <1>7. UNCHANGED victims => StartsStopOwnOnly' BY <1>1
  <1>8. ASSUME NEW i \in Installs, Script(i) PROVE StartsStopOwnOnly' BY <1>2, <1>3, <1>7, <1>8
  <1> QED BY <1>4, <1>5, <1>6, <1>7, <1>8 DEF Next

\* A config keeps naming the port of its .env.
LEMMA ConfigsStep ==
  ASSUME DeploymentInv, [Next]_vars PROVE ConfigsFit'
  <1>0. TypeOK /\ FilesTypeOK /\ ScriptsFit /\ ConfigsFit /\ untold \in [Installs -> BOOLEAN]
    BY DEF DeploymentInv, TypeOK
  <1>1. CASE UNCHANGED <<env, conf, untold>> BY <1>0, <1>1 DEF ConfigsFit
  <1>2. ASSUME NEW i \in Installs, UNCHANGED conf,
               \A j \in Installs : j # i => env'[j] = env[j] /\ untold'[j] = untold[j],
               ~untold'[i] => /\ ~untold[i] /\ env'[i].adapter = env[i].adapter
                              /\ env[i].state => env'[i].state
        PROVE  ConfigsFit'
    <2> SUFFICES ASSUME NEW j \in Installs, conf[j] \notin {NoConf, CutShort}, ~untold'[j]
                 PROVE  env'[j].state /\ env'[j].adapter # 0 /\ conf[j] = env'[j].adapter
      BY <1>2 DEF ConfigsFit
    <2> QED BY <1>0, <1>2 DEF ConfigsFit
  <1>3. ASSUME NEW i \in Installs, EditPort(i) PROVE ConfigsFit'
    <2>1. untold'[i] /\ UNCHANGED conf BY <1>0, <1>3 DEF EditPort
    <2>2. \A j \in Installs : j # i => env'[j] = env[j] /\ untold'[j] = untold[j]
      BY <1>0, <1>3 DEF EditPort, FilesTypeOK
    <2>3. ~untold'[i] => /\ ~untold[i] /\ env'[i].adapter = env[i].adapter
                         /\ env[i].state => env'[i].state
      BY <2>1
    <2>4. UNCHANGED conf BY <2>1
    <2> QED BY <1>2, <2>2, <2>3, <2>4, Zenon
  <1>4. ASSUME NEW i \in Installs, WriteState(i) PROVE ConfigsFit'
    <2>1. UNCHANGED <<conf, untold>> /\ env' = [env EXCEPT ![i].state = TRUE]
      BY <1>4 DEF WriteState, history
    <2>2. \A j \in Installs : j # i => env'[j] = env[j] BY <1>0, <2>1 DEF FilesTypeOK
    <2>3. env'[i].adapter = env[i].adapter /\ env'[i].state BY <1>0, <2>1 DEF FilesTypeOK
    <2>4. ~untold'[i] => /\ ~untold[i] /\ env'[i].adapter = env[i].adapter
                         /\ env[i].state => env'[i].state
      BY <2>1, <2>3
    <2>5. \A j \in Installs : j # i => env'[j] = env[j] /\ untold'[j] = untold[j] BY <2>1, <2>2
    <2> QED BY <1>2, <2>1, <2>4, <2>5, Zenon
  <1>5. ASSUME NEW i \in Installs, WritePort(i) PROVE ConfigsFit'
    <2> DEFINE s == script[i].on
               p == IF Kept(i, s) THEN env[i][s] ELSE picked[i][s]
    <2>1. UNCHANGED <<conf, untold>> /\ env' = [env EXCEPT ![i] = [env[i] EXCEPT ![s] = p]]
      BY <1>5 DEF WritePort, history
    <2>2. \A j \in Installs : j # i => env'[j] = env[j] BY <1>0, <2>1 DEF FilesTypeOK
    <2>3. s \in Services BY <1>0, <1>5 DEF WritePort, ScriptsFit
    <2>4. env'[i].state = env[i].state BY <1>0, <2>1, <2>3 DEF FilesTypeOK, Services
    <2>5. CASE env[i].adapter = 0
      <3> SUFFICES ASSUME NEW j \in Installs, conf[j] \notin {NoConf, CutShort}, ~untold[j]
                   PROVE  env'[j].state /\ env'[j].adapter # 0 /\ conf[j] = env'[j].adapter
        BY <2>1 DEF ConfigsFit
      <3> QED BY <1>0, <2>2, <2>5 DEF ConfigsFit
    <2>6. CASE env[i].adapter # 0
      <3>1. s = "adapter" => p = env[i].adapter BY <2>6 DEF Kept
      <3> HIDE DEF p, s
      <3>2. env'[i].adapter = env[i].adapter
        BY <1>0, <2>1, <2>3, <3>1 DEF FilesTypeOK, Services
      <3>3. ~untold'[i] => /\ ~untold[i] /\ env'[i].adapter = env[i].adapter
                           /\ env[i].state => env'[i].state
        BY <2>1, <2>4, <3>2
      <3>4. \A j \in Installs : j # i => env'[j] = env[j] /\ untold'[j] = untold[j] BY <2>1, <2>2
      <3> QED BY <1>2, <2>1, <3>3, <3>4, Zenon
    <2> QED BY <2>5, <2>6
  <1>6. ASSUME NEW i \in Installs, WriteConfig(i) PROVE ConfigsFit'
    <2>1. UNCHANGED env BY <1>6 DEF WriteConfig
    <2>2. CASE UNCHANGED <<conf, untold>> BY <1>1, <2>1, <2>2
    <2>3. CASE /\ conf' = [conf EXCEPT ![HermesHome(i)] = Port(i, "adapter")]
               /\ untold' = [untold EXCEPT ![i] = @ \/ env[i].adapter = 0]
      <3> SUFFICES ASSUME NEW j \in Installs, conf'[j] \notin {NoConf, CutShort}, ~untold'[j]
                   PROVE  env[j].state /\ env[j].adapter # 0 /\ conf'[j] = env[j].adapter
        BY <2>1 DEF ConfigsFit
      <3>1. ~untold[j] /\ (j = i => env[i].adapter # 0) BY <1>0, <2>3
      <3>2. CASE j = HermesHome(i)
        <4>1. j = i /\ env[i].state BY <3>2, DeploymentConstants DEF HermesHome
        <4>2. conf'[j] = Port(i, "adapter") BY <1>0, <2>3, <3>2 DEF FilesTypeOK, Homes
        <4> QED BY <3>1, <4>1, <4>2 DEF Port
      <3>3. CASE j # HermesHome(i)
        <4>1. conf'[j] = conf[j] BY <1>0, <2>3, <3>3 DEF FilesTypeOK, Homes
        <4> QED BY <1>0, <3>1, <4>1 DEF ConfigsFit
      <3> QED BY <3>2, <3>3
    <2> QED BY <1>6, <2>2, <2>3 DEF WriteConfig
  <1>7. ASSUME NEW i \in Installs, Fault(i) PROVE ConfigsFit'
    <2>1. CASE UNCHANGED <<env, conf, untold>> BY <1>1, <2>1
    <2>2. CASE UNCHANGED conf /\ \E e \in Remnants(env[i]) :
                   /\ env' = [env EXCEPT ![i] = e]
                   /\ untold' = [untold EXCEPT ![i] = @ \/ e # env[i]]
      <3>1. PICK e \in Remnants(env[i]) : /\ env' = [env EXCEPT ![i] = e]
                                          /\ untold' = [untold EXCEPT ![i] = @ \/ e # env[i]]
        BY <2>2
      <3>2. env'[i] = e /\ (untold'[i] = (untold[i] \/ e # env[i]))
            /\ \A j \in Installs : j # i => env'[j] = env[j] /\ untold'[j] = untold[j]
        BY <1>0, <3>1 DEF FilesTypeOK
      <3>3. ~untold'[i] => ~untold[i] /\ env'[i] = env[i] BY <3>2
      <3>4. ~untold'[i] => /\ ~untold[i] /\ env'[i].adapter = env[i].adapter
                           /\ env[i].state => env'[i].state
        BY <3>3
      <3>5. \A j \in Installs : j # i => env'[j] = env[j] /\ untold'[j] = untold[j] BY <3>2
      <3> QED BY <1>2, <2>2, <3>4, <3>5, Zenon
    <2>3. CASE UNCHANGED <<env, untold>> /\ conf' = [conf EXCEPT ![HermesHome(i)] = CutShort]
      BY <1>0, <2>3 DEF ConfigsFit, FilesTypeOK, Homes
    <2> QED BY <1>7, <2>1, <2>2, <2>3 DEF Fault
  <1>8. ASSUME NEW i \in Installs, Script(i), ~WriteState(i), ~WritePort(i), ~WriteConfig(i)
        PROVE  UNCHANGED <<env, conf, untold>>
    <2>1. Clone(i) => UNCHANGED <<env, conf, untold>> BY DEF Clone, history
    <2>2. Isolate(i) => UNCHANGED <<env, conf, untold>> BY DEF Isolate, history, files
    <2>3. EnsureHermes(i) => UNCHANGED <<env, conf, untold>> BY DEF EnsureHermes, history
    <2>4. Make(i) => UNCHANGED <<env, conf, untold>> BY DEF Make, history
    <2>5. Pip(i) => UNCHANGED <<env, conf, untold>> BY DEF Pip, history
    <2>6. Check(i) => UNCHANGED <<env, conf, untold>> BY DEF Check, history, files
    <2>7. Stop(i) => UNCHANGED <<env, conf, untold>> BY DEF Stop, files
    <2>8. StartLoop(i) => UNCHANGED <<env, conf, untold>> BY DEF StartLoop, history, files
    <2>9. ParentPid(i) => UNCHANGED <<env, conf, untold>> BY DEF ParentPid, history, files
    <2> QED BY <1>8, <2>1, <2>2, <2>3, <2>4, <2>5, <2>6, <2>7, <2>8, <2>9 DEF Script
  <1>9. ASSUME NEW i \in Installs, Command(i) \/ Retry(i) \/ Clears(i)
        PROVE  UNCHANGED <<env, conf, untold>>
    <2>1. Command(i) => UNCHANGED <<env, conf, untold>> BY DEF Command, Begins, history, files
    <2>2. Retry(i) => UNCHANGED <<env, conf, untold>> BY DEF Retry, Begins, history, files
    <2>3. Clears(i) => UNCHANGED <<env, conf, untold>> BY DEF Clears, history
    <2> QED BY <1>9, <2>1, <2>2, <2>3
  <1>10. ASSUME NEW l \in DOMAIN loops, Process(l) \/ CrashesServer(l)
         PROVE  UNCHANGED <<env, conf, untold>>
    BY <1>10 DEF Process, RunsLoop, BootsServer, ExitsServer, CrashesServer, others, history, files
  <1>11. UNCHANGED vars => UNCHANGED <<env, conf, untold>> BY DEF vars, files
  <1>12. UNCHANGED <<env, conf, untold>> => ConfigsFit' BY <1>1
  <1>13. ASSUME NEW i \in Installs, Script(i) PROVE ConfigsFit'
    BY <1>4, <1>5, <1>6, <1>8, <1>12, <1>13
  <1> QED BY <1>3, <1>7, <1>9, <1>10, <1>11, <1>12, <1>13 DEF Next

\* What a script knows stays true of it, and what it has stopped is remembered.
LEMMA ScriptsStep ==
  ASSUME DeploymentInv, [Next]_vars PROVE ScriptsFit' /\ RefusalStopsNothing'
  <1> DEFINE Early == {"clone", "isolate", "state", "port", "hermes", "make", "pip", "config"}
             Fit(i, r, b, c) ==
                /\ r.at \in {"port", "check", "stop", "fork", "parent"} => r.on \in Services
                /\ r.at = "parent" => /\ r.loop \in DOMAIN loops'
                                      /\ loops'[r.loop].owner = i
                                      /\ loops'[r.loop].file[2] = r.on
                /\ r.at # "idle" => ~b
                /\ (r.at \in Early \/ (r.at \in {"check", "stop"} /\ r.on = "adapter")) => ~c
                /\ b => ~c
             Goal == ScriptsFit' /\ RefusalStopsNothing'
  <1>0. /\ ScriptTypeOK /\ ScriptsFit /\ RefusalStopsNothing /\ SupervisorTypeOK
    BY DEF DeploymentInv, TypeOK
  <1>00. \A l \in DOMAIN loops :
            l \in DOMAIN loops' /\ loops'[l].owner = loops[l].owner /\ loops'[l].file = loops[l].file
    BY SupervisionStep
  <1>1. \A i \in Installs : Fit(i, script[i], refused[i], stopped[i])
    BY <1>0, <1>00 DEF ScriptsFit, RefusalStopsNothing
  <1>2. (\A i \in Installs : Fit(i, script'[i], refused'[i], stopped'[i])) => Goal
    <2> SUFFICES ASSUME \A i \in Installs : Fit(i, script'[i], refused'[i], stopped'[i])
                 PROVE  ScriptsFit' /\ RefusalStopsNothing'
      OBVIOUS
    <2>1. ScriptsFit'
      <3> SUFFICES ASSUME NEW i \in Installs
                   PROVE  /\ script'[i].at \in {"port", "check", "stop", "fork", "parent"} =>
                                script'[i].on \in Services
                          /\ script'[i].at = "parent" =>
                                /\ script'[i].loop \in DOMAIN loops'
                                /\ loops'[script'[i].loop].owner = i
                                /\ loops'[script'[i].loop].file[2] = script'[i].on
                          /\ script'[i].at # "idle" => ~refused'[i]
                          /\ (script'[i].at \in Early
                                 \/ (script'[i].at \in {"check", "stop"} /\ script'[i].on = "adapter"))
                             => ~stopped'[i]
        BY Zenon DEF ScriptsFit
      <3>1. Fit(i, script'[i], refused'[i], stopped'[i]) OBVIOUS
      <3>2. script'[i].at # "idle" => ~refused'[i] BY <3>1, Zenon
      <3>3. (script'[i].at \in Early \/ (script'[i].at \in {"check", "stop"} /\ script'[i].on = "adapter"))
               => ~stopped'[i]
        BY <3>1, Zenon
      <3>4. /\ script'[i].at \in {"port", "check", "stop", "fork", "parent"} =>
                  script'[i].on \in Services
            /\ script'[i].at = "parent" =>
                  /\ script'[i].loop \in DOMAIN loops'
                  /\ loops'[script'[i].loop].owner = i
                  /\ loops'[script'[i].loop].file[2] = script'[i].on
        BY <3>1, Zenon
      <3> QED BY <3>2, <3>3, <3>4, Zenon
    <2>2. RefusalStopsNothing' BY Zenon DEF RefusalStopsNothing
    <2> QED BY <2>1, <2>2
  <1>3. UNCHANGED <<script, refused, stopped>> => Goal BY <1>1, <1>2
  <1>4. ASSUME NEW i \in Installs, NEW r, NEW b \in BOOLEAN, NEW c \in BOOLEAN, Fit(i, r, b, c),
               script' = [script EXCEPT ![i] = r], refused' = [refused EXCEPT ![i] = b],
               stopped' = [stopped EXCEPT ![i] = c]
        PROVE  Goal
    <2> HIDE DEF Fit, Goal
    <2> SUFFICES ASSUME NEW j \in Installs PROVE Fit(j, script'[j], refused'[j], stopped'[j])
      BY <1>2
    <2>1. CASE j = i
      <3>1. script'[j] = r /\ refused'[j] = b /\ stopped'[j] = c BY <1>0, <1>4, <2>1 DEF ScriptTypeOK
      <3> QED BY <1>4, <2>1, <3>1
    <2>2. CASE j # i
      <3>1. script'[j] = script[j] /\ refused'[j] = refused[j] /\ stopped'[j] = stopped[j]
        BY <1>0, <1>4, <2>2 DEF ScriptTypeOK
      <3> QED BY <1>1, <3>1
    <2> QED BY <2>1, <2>2
  <1>5. ASSUME NEW i \in Installs, NEW at \in Early \cup {"check", "stop"}, NEW on, Goto(i, at, on),
               at \in {"port", "check", "stop"} => on \in Services,
               ~refused[i], (at \in {"check", "stop"} /\ on = "voice") \/ ~stopped[i]
        PROVE  Goal
    <2> DEFINE r == [at |-> at, on |-> on, loop |-> 0]
    <2>1. script' = [script EXCEPT ![i] = r] /\ UNCHANGED <<refused, stopped>>
      BY <1>5 DEF Goto, Moves, running
    <2>2. stopped' = [stopped EXCEPT ![i] = stopped[i]] /\ stopped[i] \in BOOLEAN
      BY <1>0, <2>1 DEF ScriptTypeOK
    <2>3. refused' = [refused EXCEPT ![i] = FALSE] BY <1>0, <1>5, <2>1 DEF ScriptTypeOK
    <2>4. CASE ~stopped[i]
      <3>1. stopped' = [stopped EXCEPT ![i] = FALSE] BY <1>0, <2>1, <2>4 DEF ScriptTypeOK
      <3>2. Fit(i, r, FALSE, FALSE) BY <1>5
      <3> HIDE DEF Fit, r, Goal
      <3> QED BY <1>4, <2>1, <2>3, <3>1, <3>2
    <2>5. CASE at \in {"check", "stop"} /\ on = "voice"
      <3>1. \A c \in BOOLEAN : Fit(i, r, FALSE, c) BY <1>5, <2>5
      <3> HIDE DEF Fit, r, Goal
      <3> QED BY <1>4, <2>1, <2>2, <2>3, <3>1
    <2> QED BY <1>5, <2>4, <2>5
  <1>55. \A i \in Installs : script[i].at \in Early => ~refused[i] /\ ~stopped[i]
    <2> SUFFICES ASSUME NEW i \in Installs, script[i].at \in Early PROVE ~refused[i] /\ ~stopped[i]
      OBVIOUS
    <2>1. ~refused[i] BY <1>0 DEF ScriptsFit
    <2>2. ~stopped[i]
      <3>1. Fit(i, script[i], refused[i], stopped[i]) BY <1>1
      <3> QED BY <3>1, Zenon
    <2> QED BY <2>1, <2>2
  <1>6. ASSUME NEW i \in Installs, NEW busy \in BOOLEAN, Leaves(i, busy), busy => ~stopped[i]
        PROVE  Goal
    <2>1. /\ script' = [script EXCEPT ![i] = Idle] /\ refused' = [refused EXCEPT ![i] = busy]
          /\ stopped' = [stopped EXCEPT ![i] = busy /\ stopped[i]]
      BY <1>6 DEF Leaves
    <2>2. (busy /\ stopped[i]) \in BOOLEAN OBVIOUS
    <2>3. Fit(i, Idle, busy, busy /\ stopped[i]) BY <1>6 DEF Idle
    <2> HIDE DEF Fit, Goal
    <2> QED BY <1>4, <2>1, <2>2, <2>3
  <1>7. ASSUME NEW i \in Installs, NEW at, NEW choice, Begins(i, at, choice),
               at \in Early \cup {"check"}
        PROVE  Goal
    <2> DEFINE r == [at |-> at, on |-> "adapter", loop |-> 0]
    <2>1. /\ script' = [script EXCEPT ![i] = r] /\ refused' = [refused EXCEPT ![i] = FALSE]
          /\ stopped' = [stopped EXCEPT ![i] = FALSE]
      BY <1>7 DEF Begins, Moves
    <2>2. Fit(i, r, FALSE, FALSE) BY <1>7 DEF Services
    <2> HIDE DEF Fit, r, Goal
    <2> QED BY <1>4, <2>1, <2>2
  <1>8. ASSUME NEW i \in Installs, Exit(i) PROVE Goal BY <1>6, <1>8 DEF Exit
  <1>9. ASSUME NEW i \in Installs, Command(i) \/ Retry(i) PROVE Goal
    <2>1. \A choice : SetupEntry(choice) \in Early BY DEF SetupEntry
    <2>2. {"clone", "check"} \subseteq Early \cup {"check"} OBVIOUS
    <2> HIDE DEF Early, Goal
    <2>3. PICK at \in Early \cup {"check"} : \E choice : Begins(i, at, choice)
      BY <1>9, <2>1, <2>2 DEF Command, Retry
    <2> QED BY <1>7, <2>3
  <1>10. ASSUME NEW i \in Installs, Clone(i) PROVE Goal
    <2>1. ~refused[i] /\ ~stopped[i] BY <1>10, <1>55 DEF Clone
    <2>2. Exit(i) \/ Goto(i, "isolate", "adapter") BY <1>10 DEF Clone
    <2> HIDE DEF Goal
    <2> QED BY <1>5, <1>8, <2>1, <2>2
  <1>11. ASSUME NEW i \in Installs, Isolate(i) PROVE Goal
    <2>1. CASE Exit(i) BY <1>8, <2>1
    <2>2. CASE ~Exit(i)
      <3> DEFINE r == [at |-> "state", on |-> "adapter", loop |-> 0]
      <3>1. script' = [script EXCEPT ![i] = r] /\ UNCHANGED <<refused, stopped>>
        BY <1>11, <2>2 DEF Isolate, Moves
      <3>2. ~refused[i] /\ ~stopped[i] BY <1>11, <1>55 DEF Isolate
      <3>3. refused' = [refused EXCEPT ![i] = FALSE] /\ stopped' = [stopped EXCEPT ![i] = FALSE]
        BY <1>0, <3>1, <3>2 DEF ScriptTypeOK
      <3>4. Fit(i, r, FALSE, FALSE) OBVIOUS
      <3> HIDE DEF Fit, r, Goal
      <3> QED BY <1>4, <3>1, <3>3, <3>4
    <2> QED BY <2>1, <2>2
  <1>12. ASSUME NEW i \in Installs, WriteState(i) PROVE Goal
    <2>1. ~refused[i] /\ ~stopped[i] BY <1>12, <1>55 DEF WriteState
    <2>2. Goto(i, "port", "adapter") /\ "adapter" \in Services BY <1>12 DEF WriteState, Services
    <2> HIDE DEF Goal
    <2> QED BY <1>5, <2>1, <2>2
  <1>13. ASSUME NEW i \in Installs, WritePort(i) PROVE Goal
    <2>1. ~refused[i] /\ ~stopped[i] BY <1>13, <1>55 DEF WritePort
    <2>2. Goto(i, "port", "voice") \/ \E at \in {"hermes", "make"} : Goto(i, at, "adapter")
      BY <1>13 DEF WritePort, SetupEntry
    <2>3. "voice" \in Services BY DEF Services
    <2> HIDE DEF Goal
    <2> QED BY <1>5, <2>1, <2>2, <2>3
  <1>14. ASSUME NEW i \in Installs, EnsureHermes(i) PROVE Goal
    <2>1. ~refused[i] /\ ~stopped[i] BY <1>14, <1>55 DEF EnsureHermes
    <2>2. Goto(i, "make", "adapter") BY <1>14 DEF EnsureHermes
    <2> HIDE DEF Goal
    <2> QED BY <1>5, <2>1, <2>2
  <1>15. ASSUME NEW i \in Installs, Make(i) PROVE Goal
    <2>1. ~refused[i] /\ ~stopped[i] BY <1>15, <1>55 DEF Make
    <2>2. \E on : Goto(i, "pip", on) BY <1>15 DEF Make
    <2> HIDE DEF Goal
    <2> QED BY <1>5, <2>1, <2>2
  <1>16. ASSUME NEW i \in Installs, Pip(i) PROVE Goal
    <2>1. ~refused[i] /\ ~stopped[i] BY <1>16, <1>55 DEF Pip
    <2>2. Exit(i) \/ \E at \in {"make", "config"}, on \in Venvs : Goto(i, at, on)
      BY <1>16 DEF Pip, Venvs
    <2> HIDE DEF Goal
    <2> QED BY <1>5, <1>8, <2>1, <2>2
  <1>17. ASSUME NEW i \in Installs, WriteConfig(i) PROVE Goal
    <2>1. ~refused[i] /\ ~stopped[i] BY <1>17, <1>55 DEF WriteConfig
    <2>2. Exit(i) \/ Goto(i, "check", "adapter") BY <1>17 DEF WriteConfig
    <2>3. "adapter" \in Services BY DEF Services
    <2> HIDE DEF Goal
    <2> QED BY <1>5, <1>8, <2>1, <2>2, <2>3
  <1>18. ASSUME NEW i \in Installs, Check(i) PROVE Goal
    <2>1. script[i].at = "check" BY <1>18 DEF Check
    <2>2. script[i].on \in Services BY <1>0, <2>1 DEF ScriptsFit
    <2>3. CASE Exit(i) BY <1>8, <2>3
    <2>4. CASE Goto(i, "stop", script[i].on)
      <3>1. ~refused[i] /\ (script[i].on = "voice" \/ ~stopped[i])
        BY <1>0, <2>1, <2>2 DEF ScriptsFit, Services
      <3> HIDE DEF Goal
      <3> QED BY <1>5, <2>2, <2>4, <3>1
    <2>5. CASE Leaves(i, TRUE) /\ Refused(i, "check")
      <3>1. ~stopped[i] BY <1>0, <2>1, <2>5 DEF ScriptsFit, Refused
      <3> QED BY <1>6, <2>5, <3>1
    <2> QED BY <1>18, <2>3, <2>4, <2>5 DEF Check
  <1>19. ASSUME NEW i \in Installs, Stop(i) PROVE Goal
    <2> DEFINE r == [at |-> "fork", on |-> script[i].on, loop |-> 0]
    <2>1. script[i].at = "stop" /\ script' = [script EXCEPT ![i] = r] /\ UNCHANGED refused
      BY <1>19 DEF Stop, Moves
    <2>2. \E c \in BOOLEAN : stopped' = [stopped EXCEPT ![i] = c]
      <3>1. stopped' = [stopped EXCEPT ![i] = TRUE] \/ UNCHANGED stopped BY <1>19 DEF Stop
      <3>2. UNCHANGED stopped => stopped' = [stopped EXCEPT ![i] = stopped[i]] /\ stopped[i] \in BOOLEAN
        BY <1>0 DEF ScriptTypeOK
      <3> QED BY <3>1, <3>2
    <2>3. PICK c \in BOOLEAN : stopped' = [stopped EXCEPT ![i] = c] BY <2>2
    <2>4. script[i].on \in Services /\ ~refused[i] BY <1>0, <2>1 DEF ScriptsFit
    <2>5. refused' = [refused EXCEPT ![i] = FALSE] BY <1>0, <2>1, <2>4 DEF ScriptTypeOK
    <2>6. Fit(i, r, FALSE, c) BY <2>4
    <2> HIDE DEF Fit, r, Goal
    <2> QED BY <1>4, <2>1, <2>3, <2>5, <2>6
  <1>20. ASSUME NEW i \in Installs, StartLoop(i) PROVE Goal
    <2> DEFINE s == script[i].on
               r == [at |-> "parent", on |-> s, loop |-> Len(loops) + 1]
               new == [owner |-> i, file |-> File(i, s), port |-> Port(i, s),
                       phase |-> "turns", started |-> 0, child |-> "none"]
    <2>1. script[i].at = "fork" /\ ~Refused(i, "fork") BY <1>20 DEF StartLoop, Refused, RefusesBusyAt
    <2>2. /\ loops' = Append(loops, new) /\ script' = [script EXCEPT ![i] = r]
          /\ UNCHANGED <<refused, stopped>>
      BY <1>20, <2>1 DEF StartLoop, Fork, running
    <2>3. s \in Services /\ ~refused[i] /\ stopped[i] \in BOOLEAN
      BY <1>0, <2>1 DEF ScriptsFit, ScriptTypeOK
    <2>4. File(i, s)[2] = s BY <2>3, SettingFacts DEF DeploymentInv
    <2>5. loops \in Seq(Loops) BY <1>0 DEF SupervisorTypeOK, Loops
    <2>6. new.owner = i /\ new.file[2] = s BY <2>4
    <2>7. refused' = [refused EXCEPT ![i] = FALSE] /\ stopped' = [stopped EXCEPT ![i] = stopped[i]]
      BY <1>0, <2>2, <2>3 DEF ScriptTypeOK
    <2>8. r.at = "parent" /\ r.on = s /\ r.loop = Len(loops) + 1 OBVIOUS
    <2> HIDE DEF new, r, s
    <2>9. Len(loops) + 1 \in DOMAIN loops' /\ loops'[Len(loops) + 1] = new BY <2>2, <2>5
    <2>10. Fit(i, r, FALSE, stopped[i]) BY <2>3, <2>6, <2>8, <2>9
    <2> HIDE DEF Fit, Goal
    <2> QED BY <1>4, <2>2, <2>3, <2>7, <2>10
  <1>21. ASSUME NEW i \in Installs, ParentPid(i) PROVE Goal
    <2>1. Exit(i) \/ Goto(i, "check", "voice") BY <1>21 DEF ParentPid
    <2>2. ~refused[i] BY <1>0, <1>21 DEF ParentPid, ScriptsFit
    <2>3. "voice" \in Services BY DEF Services
    <2> HIDE DEF Goal
    <2> QED BY <1>5, <1>8, <2>1, <2>2, <2>3
  <1>22. ASSUME NEW i \in Installs, Fault(i) PROVE Goal BY <1>8, <1>22 DEF Fault
  <1>23. ASSUME NEW i \in Installs, Clears(i) \/ EditPort(i) PROVE Goal
    <2>1. Clears(i) => UNCHANGED <<script, refused, stopped>> BY DEF Clears, running
    <2>2. EditPort(i) => UNCHANGED <<script, refused, stopped>> BY DEF EditPort
    <2> QED BY <1>3, <1>23, <2>1, <2>2
  <1>24. ASSUME NEW l \in DOMAIN loops, Process(l) \/ CrashesServer(l) PROVE Goal
    <2>1. UNCHANGED <<script, refused, stopped>>
      BY <1>24 DEF Process, RunsLoop, BootsServer, ExitsServer, CrashesServer, others, running
    <2> QED BY <1>3, <2>1
  <1>25. UNCHANGED vars => Goal BY <1>3 DEF vars, running
  <1> HIDE DEF Goal
  <1>26. ASSUME NEW i \in Installs, Script(i) PROVE Goal
    BY <1>10, <1>11, <1>12, <1>13, <1>14, <1>15, <1>16, <1>17, <1>18, <1>19, <1>20, <1>21, <1>26
       DEF Script
  <1>27. Goal BY <1>9, <1>22, <1>23, <1>24, <1>25, <1>26 DEF Next
  <1> QED BY <1>27 DEF Goal

-----------------------------------------------------------------------------

\* The machine starts sound.
LEMMA InitSound == Init => DeploymentInv
  <1> SUFFICES ASSUME Init PROVE DeploymentInv OBVIOUS
  <1> USE DEF Init, SupervisorInit
  <1>1. SupervisorTypeOK
    <2>1. NoPid \in [loop : Nat, n : 0..MaxRestarts] BY SupervisorConstants DEF NoPid
    <2>2. loops = <<>> BY Zenon
    <2> QED BY <2>1, <2>2 DEF SupervisorTypeOK
  <1>2. FilesTypeOK
    <2>1. 0 \in Ports BY DEF Ports
    <2>2. NoKeys \in [state : BOOLEAN, adapter : Ports, voice : Ports] BY <2>1 DEF NoKeys
    <2> HIDE DEF NoKeys
    <2> QED BY <2>1, <2>2 DEF FilesTypeOK, NoConf
  <1>3. ScriptTypeOK
    <2>1. 0 \in Ports BY DEF Ports
    <2>2. Idle \in [at : Steps, on : Venvs, loop : Nat] BY DEF Idle, Steps, Venvs
    <2>3. NoPorts \in [Services -> Ports] BY <2>1 DEF NoPorts
    <2>4. Minimal \in [voice : BOOLEAN, start : BOOLEAN, hermes : BOOLEAN, config : BOOLEAN]
      <3>1. Minimal \in [voice : {FALSE}, start : {FALSE}, hermes : BOOLEAN, config : BOOLEAN]
        BY DeploymentConstants
      <3> QED BY <3>1
    <2> QED BY <2>2, <2>3, <2>4 DEF ScriptTypeOK
  <1>4. TypeOK BY <1>1, <1>2, <1>3, DeploymentConstants DEF TypeOK
  <1>5. DOMAIN loops = {} BY <1>1 DEF SupervisorTypeOK
  <1>6. PidsFit BY DEF PidsFit
  <1>7. LoopsFit /\ AdapterSupervised BY <1>5 DEF LoopsFit, AdapterSupervised
  <1>8. ScriptsFit BY DEF ScriptsFit, Idle
  <1>9. ConfigsFit BY DEF ConfigsFit, Homes
  <1>10. RefusalStopsNothing /\ StartsStopOwnOnly BY DEF RefusalStopsNothing, StartsStopOwnOnly
  <1> QED BY <1>4, <1>6, <1>7, <1>8, <1>9, <1>10 DEF DeploymentInv

\* Every step keeps it sound.
LEMMA NextSound == DeploymentInv /\ [Next]_vars => DeploymentInv'
  <1> SUFFICES ASSUME DeploymentInv, [Next]_vars PROVE DeploymentInv' OBVIOUS
  <1>1. SupervisorTypeOK' /\ PidsFit' /\ LoopsFit' /\ AdapterSupervised' BY SupervisionStep
  <1>2. TypeOK' BY <1>1, TypeStep
  <1>3. ScriptsFit' /\ RefusalStopsNothing' BY ScriptsStep
  <1>4. ConfigsFit' BY ConfigsStep
  <1>5. StartsStopOwnOnly' BY OwnStep
  <1> QED BY <1>1, <1>2, <1>3, <1>4, <1>5 DEF DeploymentInv

\* Every state is sound.
LEMMA AlwaysSound == Spec => []DeploymentInv
  BY InitSound, NextSound, PTL DEF Spec

\* Every variable keeps its type.
THEOREM DeploymentTypeCorrect == Spec => []TypeOK
  <1>1. DeploymentInv => TypeOK BY DEF DeploymentInv
  <1> QED BY <1>1, AlwaysSound, PTL

\* However scripts, crashes and edits interleave, on any number of folders and
\* with any number of restarts, a running adapter has the loop that starts it
\* again (start-adapter.sh).
THEOREM AdapterStaysSupervised == Spec => []AdapterSupervised
  <1>1. DeploymentInv => AdapterSupervised BY DEF DeploymentInv
  <1> QED BY <1>1, AlwaysSound, PTL

\* A start that a busy port refuses leaves everything running (start-adapter.sh,
\* start.sh).
THEOREM RefusedStartsStopNothing == Spec => []RefusalStopsNothing
  <1>1. DeploymentInv => RefusalStopsNothing BY DEF DeploymentInv
  <1> QED BY <1>1, AlwaysSound, PTL

\* An isolated folder's start stops only what the folder has started
\* (cz_apply_isolation, the PID files of the start scripts).
THEOREM StartsStopTheirOwn == Spec => []StartsStopOwnOnly
  <1>1. DeploymentInv => StartsStopOwnOnly BY DEF DeploymentInv
  <1> QED BY <1>1, AlwaysSound, PTL

\* Through reruns and faults, a folder's own Hermes is told the port that its
\* adapter starts on (cz_write_hermes_config).
THEOREM HermesFindsItsAdapter == Spec => []HermesFindsAdapter
  <1>1. DeploymentInv => HermesFindsAdapter
    BY DEF DeploymentInv, ConfigsFit, HermesFindsAdapter, Port
  <1> QED BY <1>1, AlwaysSound, PTL

=============================================================================
