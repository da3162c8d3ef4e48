--------------------------- MODULE EditVisibility ---------------------------
(***************************************************************************)
(* What the portal promises about edits of grants, without generations,    *)
(* caches and processes: edits are announced after they were committed,    *)
(* and Delay after an announcement the edits it covers are in force.  A    *)
(* request works with one version of the grants.  That version has every   *)
(* edit that was in force when the request began, whatever was read,       *)
(* stored or announced by others meanwhile.                                *)
(*                                                                         *)
(* Two exceptions are part of the promise.  A request that could not find  *)
(* out what was announced is excused.  And what was announced may be lost  *)
(* once, with everything it had put in force.                              *)
(*                                                                         *)
(* AuthzCache.tla implements this specification.                           *)
(***************************************************************************)
EXTENDS Naturals

CONSTANTS
    Requests,
    Delay      \* from the announcement of an edit until it is in force

VARIABLES
    ver,       \* edits are numbered in the order of their commits: the last
    announced, \* announcements: which edits they cover, and when they were made
    clock,
    stage,     \* stage[r]: "idle", "open", "read"
    must,      \* must[r]: the edits that were in force when r began
    seen,      \* seen[r]: the version r works with, once it is "read"
    excused,   \* requests that could not find out
    lapsed     \* whether announcements were lost

visVars == <<ver, announced, clock, stage, must, seen, excused, lapsed>>

VisInit ==
    /\ ver = 0 /\ announced = {} /\ clock = 0
    /\ stage = [r \in Requests |-> "idle"]
    /\ must = [r \in Requests |-> {}]
    /\ seen = [r \in Requests |-> 0]
    /\ excused = {} /\ lapsed = FALSE

InForce == {e \in 1 .. ver : \E a \in announced : a.at + Delay <= clock /\ e <= a.ver}

Commit ==
    /\ ver' = ver + 1
    /\ UNCHANGED <<announced, clock, stage, must, seen, excused, lapsed>>

Announce ==
    /\ announced' = announced \cup {[ver |-> ver, at |-> clock]}
    /\ UNCHANGED <<ver, clock, stage, must, seen, excused, lapsed>>

Pass ==
    /\ clock' = clock + 1
    /\ UNCHANGED <<ver, announced, stage, must, seen, excused, lapsed>>

Lapse ==
    /\ ~lapsed
    /\ lapsed' = TRUE
    /\ announced' = {}
    /\ must' = [r \in Requests |-> {}]
    /\ UNCHANGED <<ver, clock, stage, seen, excused>>

Begin(r) ==
    /\ stage[r] = "idle"
    /\ stage' = [stage EXCEPT ![r] = "open"]
    /\ must' = [must EXCEPT ![r] = InForce]
    /\ UNCHANGED <<ver, announced, clock, seen, excused, lapsed>>

Excuse(r) ==
    /\ stage[r] = "open"
    /\ excused' = excused \cup {r}
    /\ UNCHANGED <<ver, announced, clock, stage, must, seen, lapsed>>

\* The one place where a request finds out what it may show.
Read(r) ==
    /\ stage[r] = "open"
    /\ \E v \in 0 .. ver :
          /\ r \in excused \/ must[r] \subseteq 1 .. v
          /\ seen' = [seen EXCEPT ![r] = v]
    /\ stage' = [stage EXCEPT ![r] = "read"]
    /\ UNCHANGED <<ver, announced, clock, must, excused, lapsed>>

End(r) ==
    /\ stage[r] # "idle"
    /\ stage' = [stage EXCEPT ![r] = "idle"]
    /\ must' = [must EXCEPT ![r] = {}]
    /\ seen' = [seen EXCEPT ![r] = 0]
    /\ excused' = excused \ {r}
    /\ UNCHANGED <<ver, announced, clock, lapsed>>

VisNext ==
    \/ Commit \/ Announce \/ Pass \/ Lapse
    \/ \E r \in Requests : Begin(r) \/ Excuse(r) \/ Read(r) \/ End(r)

VisSpec == VisInit /\ [][VisNext]_visVars

\* What this amounts to: as long as a request goes on, the version it works with has the
\* edits that were in force when it began.
Visible == \A r \in Requests : stage[r] = "read" => r \in excused \/ must[r] \subseteq 1 .. seen[r]
=============================================================================
