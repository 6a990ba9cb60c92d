----------------------------- MODULE Supervisor -----------------------------
(***************************************************************************)
(* The supervisors of start-adapter.sh and start-voice.sh: a loop in a     *)
(* subshell that starts a server, writes its pid to the PID file, waits    *)
(* for it and starts it again, and the part of the scripts that stops the  *)
(* loop of an earlier start.                                               *)
(*                                                                         *)
(* The two scripts differ in who writes the PID file: the adapter's holds  *)
(* its server, the voice's is written by the loop (its server) and by the  *)
(* script (the loop), whoever comes last.                                  *)
(*                                                                         *)
(* Abstractions: the 2 s between restarts are an interleaving, during      *)
(* which no server runs; a pid is written as the server starts, and is     *)
(* never used twice.                                                       *)
(***************************************************************************)
EXTENDS Naturals, Sequences, FiniteSets

CONSTANTS
    Installs,      \* folders with a checkout
    Foreign,       \* ports that other programs hold
    MaxRestarts    \* CZ_MAX_RESTARTS, CZ_VOICE_MAX_RESTARTS

ASSUME SupervisorConstants ==
    /\ Foreign \subseteq Nat
    /\ MaxRestarts \in Nat

Services == {"adapter", "voice"}

\* Where PID files may be: under an install's own state directory, or under
\* the home directory.
Files == (Installs \cup {"home"}) \X Services

VARIABLES
    loops,     \* the loops ever started: owner, service, PID file, port, phase,
               \* servers started, and the state of the last one
    pidfile    \* pid: [loop, n], its n-th server, or the loop itself for 0

supervision == <<loops, pidfile>>

NoPid == [loop |-> 0, n |-> 0]

SupervisorInit ==
    /\ loops = <<>>
    /\ pidfile = [f \in Files |-> NoPid]

\* kill -0
Alive(pid) ==
    /\ pid.loop \in DOMAIN loops
    /\ IF pid.n = 0 THEN loops[pid.loop].phase # "gone"
       ELSE loops[pid.loop].started = pid.n /\ loops[pid.loop].child # "none"

Serves(l) == loops[l].child \in {"serving", "stopping"}

\* cz_port_busy
Busy(port) == port \in Foreign \/ \E l \in DOMAIN loops : Serves(l) /\ loops[l].port = port

-----------------------------------------------------------------------------
(* The loop *)

\* "wait || true": an exit, whatever its code, leads to the next turn.
\* Mutated: without "|| true" a server that fails ends the loop, under set -e.
Again_Failed(l) == loops[l].started = 0
Again(l) == loops[l].started < MaxRestarts

Spawn(l) ==
    /\ loops[l].phase = "turns" /\ loops[l].child = "none" /\ Again(l)
    /\ loops' = [loops EXCEPT ![l].child = "booting", ![l].started = @ + 1]
    /\ pidfile' = [pidfile EXCEPT ![loops[l].file] =
                      [loop |-> l, n |-> loops[l].started + 1]]

GivesUp(l) ==
    /\ loops[l].phase = "turns" /\ loops[l].child = "none" /\ ~Again(l)
    /\ loops' = [loops EXCEPT ![l].phase = "gone"]
    /\ UNCHANGED pidfile

Loop(l) == Spawn(l) \/ GivesUp(l)

-----------------------------------------------------------------------------
(* The server *)

\* It binds its port, or exits: the port is taken, or the package is not
\* installed.
Boots(l, installed) ==
    /\ loops[l].child = "booting"
    /\ loops' = [loops EXCEPT ![l].child =
                    IF installed /\ ~Busy(loops[l].port) THEN "serving" ELSE "none"]
    /\ UNCHANGED pidfile

Crash(l) ==
    /\ loops[l].child # "none"
    /\ loops' = [loops EXCEPT ![l].child = "none"]
    /\ UNCHANGED pidfile

\* A server that was told to stop closes its connections first.
Exits(l) ==
    /\ loops[l].child = "stopping"
    /\ loops' = [loops EXCEPT ![l].child = "none"]
    /\ UNCHANGED pidfile

-----------------------------------------------------------------------------
(* What a start script does to the loops *)

\* SIGTERM.  A loop dies at once and leaves its server running.
Signalled(pid) ==
    IF pid.n = 0 THEN [loops EXCEPT ![pid.loop].phase = "gone"]
    ELSE [loops EXCEPT ![pid.loop].child = IF @ = "booting" THEN "none" ELSE "stopping"]

\* "Stop existing": whom the PID file names, if it runs.
Stopped(f) == IF Alive(pidfile[f]) THEN Signalled(pidfile[f]) ELSE loops

Fork(install, f, port) ==
    /\ loops' = Append(loops, [owner |-> install, file |-> f, port |-> port,
                               phase |-> "turns", started |-> 0, child |-> "none"])
    /\ UNCHANGED pidfile

SupervisorTypeOK ==
    /\ loops \in Seq([owner : Installs, file : Files, port : Nat,
                      phase : {"turns", "gone"},
                      started : 0..MaxRestarts,
                      child : {"none", "booting", "serving", "stopping"}])
    /\ pidfile \in [Files -> [loop : Nat, n : 0..MaxRestarts]]
=============================================================================
