-------------------------- MODULE SessionLifecycle --------------------------
(***************************************************************************)
(* What the gateway promises about one Guacamole session, without saying   *)
(* how: a session is attached to at most one client, it may be detached    *)
(* and attached again any number of times, and it is over exactly once.    *)
(* When a recorded session is over, its recording job is handed over in    *)
(* that very step -- or the write fails and is only logged, or the gateway *)
(* process dies and the session is lost with it.                           *)
(*                                                                         *)
(* GuacSession.tla implements this specification.                          *)
(***************************************************************************)
CONSTANTS Sessions   \* guacd connection identifiers

VARIABLES phase,     \* phase[s]: where the session is in its life
          outcome    \* outcome[s]: what became of its recording job

lifecycleVars == <<phase, outcome>>

Phases == {"unused", "attached", "detached", "over"}

\* "none": nothing yet; "unrecorded": over and nothing to hand over;
\* "lost": the gateway died while it held the session.
Outcomes == {"none", "unrecorded", "written", "failed", "lost"}

LifecycleInit ==
    /\ phase = [s \in Sessions |-> "unused"]
    /\ outcome = [s \in Sessions |-> "none"]

Begin(s) ==
    /\ phase[s] = "unused"
    /\ phase' = [phase EXCEPT ![s] = "attached"]
    /\ UNCHANGED outcome

Detach(s) ==
    /\ phase[s] = "attached"
    /\ phase' = [phase EXCEPT ![s] = "detached"]
    /\ UNCHANGED outcome

Attach(s) ==
    /\ phase[s] = "detached"
    /\ phase' = [phase EXCEPT ![s] = "attached"]
    /\ UNCHANGED outcome

Finish(s) ==
    /\ phase[s] \in {"attached", "detached"}
    /\ phase' = [phase EXCEPT ![s] = "over"]
    /\ \E o \in {"unrecorded", "written", "failed"} :
          outcome' = [outcome EXCEPT ![s] = o]

\* The gateway process dies: every session it held is over without a job.
LoseAll ==
    LET held == {s \in Sessions : phase[s] \in {"attached", "detached"}} IN
    /\ phase' = [s \in Sessions |-> IF s \in held THEN "over" ELSE phase[s]]
    /\ outcome' = [s \in Sessions |-> IF s \in held THEN "lost" ELSE outcome[s]]

LifecycleNext ==
    \/ \E s \in Sessions : Begin(s) \/ Detach(s) \/ Attach(s) \/ Finish(s)
    \/ LoseAll

LifecycleSpec == LifecycleInit /\ [][LifecycleNext]_lifecycleVars

\* What this amounts to: the fate of the job is decided exactly when the session is over.
Decided == \A s \in Sessions : outcome[s] # "none" <=> phase[s] = "over"
=============================================================================
