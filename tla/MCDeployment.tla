---------------------------- MODULE MCDeployment ----------------------------
(* Deployment for TLC: one folder made by install.sh, one cloned by hand. *)
EXTENDS Deployment, TLC

CONSTANTS i1, i2

Everything == [voice |-> TRUE, start |-> TRUE, hermes |-> TRUE, config |-> TRUE]
Start == [voice |-> FALSE, start |-> TRUE, hermes |-> FALSE, config |-> FALSE]
Setup == [voice |-> FALSE, start |-> FALSE, hermes |-> FALSE, config |-> FALSE]
TwoUsers == [i \in Installs |-> IF i = i1 THEN {Everything} ELSE {Start}]

\* "Hermes home, adapter state, and ports stay local" (install.sh:19).
PortsStayLocal ==
    \A i, j \in Installs : i # j => env[i].adapter = 0 \/ env[i].adapter # env[j].adapter

\* "Re-run with ./construct-zero init if you need to" (docs/features/onboarding.md:61).
RerunIsAccepted ==
    \A i \in Installs : refused[i] =>
        \E l \in DOMAIN loops : Serves(l) /\ loops[l].owner # i

\* "Stop existing" (start-adapter.sh:68, start-voice.sh:32): after a start, the
\* loops of earlier ones are gone.
OneLoopPerService ==
    \A k, l \in DOMAIN loops :
        k < l /\ loops[k].owner = loops[l].owner /\ loops[k].file = loops[l].file =>
            loops[k].phase = "gone"
=============================================================================
