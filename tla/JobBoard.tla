------------------------------ MODULE JobBoard ------------------------------
(***************************************************************************)
(* What the gateways and the guacrecords of all hosts promise about        *)
(* recording jobs, without files, directories and events: a job that some  *)
(* guacrecord has noticed is not dropped until it is done, unless a host   *)
(* dies or the job cannot be moved; a host that starts notices all there   *)
(* is; a host does a job once in its life, twice if it is stuck; and hosts *)
(* that only watch do not do the same job at the same time.                *)
(*                                                                         *)
(* RecordingJobs.tla implements this specification.                        *)
(***************************************************************************)
EXTENDS Naturals

CONSTANTS Hosts, Jobs, NoJob

VARIABLES
    status,   \* status[j]: "none"; "open", a gateway writes it; "torn", it stopped before
              \*   the job was there; "waiting", there and nobody knows of it; "noticed",
              \*   somebody will do it or does it; "stuck", done and still there; "done"
    rec,      \* rec[n]: what the guacrecord of host n is doing
    cur,      \* cur[n]: the job it works on
    runs      \* runs[n][j]: how often it has done j in its life

boardVars == <<status, rec, cur, runs>>

BoardInit ==
    /\ status = [j \in Jobs |-> "none"]
    /\ rec = [n \in Hosts |-> "down"]
    /\ cur = [n \in Hosts |-> NoJob]
    /\ runs = [n \in Hosts |-> [j \in Jobs |-> 0]]

Becomes(j, from, to) ==
    /\ status[j] \in from
    /\ \E s \in to : status' = [status EXCEPT ![j] = s]

\* A job comes into being, unless its gateway stops half-way; it may be noticed when
\* it is written or when it is closed.
Write(j) ==
    /\ \/ Becomes(j, {"none"}, {"open"})
       \/ Becomes(j, {"open"}, {"torn", "waiting", "noticed"})
       \/ Becomes(j, {"waiting"}, {"noticed"})
    /\ UNCHANGED <<rec, cur, runs>>

\* A guacrecord starts: whatever waits is noticed.
Start(n) ==
    /\ rec[n] = "down"
    /\ rec' = [rec EXCEPT ![n] = "scan"]
    /\ status' = [j \in Jobs |-> IF status[j] = "waiting" THEN "noticed" ELSE status[j]]
    /\ UNCHANGED <<cur, runs>>

Watch(n) ==
    /\ rec[n] = "scan" /\ cur[n] = NoJob
    /\ rec' = [rec EXCEPT ![n] = "watch"]
    /\ UNCHANGED <<status, cur, runs>>

\* A host that watches takes what was noticed only.
Take(n, j) ==
    /\ rec[n] # "down" /\ cur[n] = NoJob
    /\ \/ Becomes(j, {"noticed"}, {"noticed"})
       \/ Becomes(j, {"stuck"}, {"stuck"})
       \/ rec[n] = "scan" /\ Becomes(j, {"waiting"}, {"noticed"})
    /\ \/ runs[n][j] = 0
       \/ runs[n][j] = 1 /\ status[j] = "stuck"
    /\ \A m \in Hosts : cur[m] = j => "scan" \in {rec[n], rec[m]}
    /\ cur' = [cur EXCEPT ![n] = j]
    /\ UNCHANGED <<rec, runs>>

Finish(n, j) ==
    /\ cur[n] = j
    /\ \/ Becomes(j, {"noticed"}, {"stuck", "done"})
       \/ Becomes(j, {"stuck", "done"}, {"done"})
    /\ cur' = [cur EXCEPT ![n] = NoJob]
    /\ runs' = [runs EXCEPT ![n][j] = @ + 1]
    /\ UNCHANGED rec

\* A host dies: what only it had noticed waits again, what it was writing is torn.
Die(n) ==
    /\ rec' = [rec EXCEPT ![n] = "down"]
    /\ cur' = [cur EXCEPT ![n] = NoJob]
    /\ runs' = [runs EXCEPT ![n] = [j \in Jobs |-> 0]]
    /\ \E forgotten \in SUBSET {j \in Jobs : status[j] = "noticed"},
          torn \in SUBSET {j \in Jobs : status[j] = "open"} :
          status' = [j \in Jobs |-> IF j \in forgotten THEN "waiting"
                                    ELSE IF j \in torn THEN "torn" ELSE status[j]]

BoardNext ==
    \/ \E j \in Jobs : Write(j)
    \/ \E n \in Hosts :
          \/ Start(n) \/ Watch(n) \/ Die(n)
          \/ \E j \in Jobs : Take(n, j) \/ Finish(n, j)

BoardSpec == BoardInit /\ [][BoardNext]_boardVars

\* What this amounts to: in the life of a host a job is begun twice at most, a second time
\* only if it was stuck, and two hosts are at one job only if one of them scans.
Restraint ==
    /\ \A n \in Hosts, j \in Jobs :
          /\ runs[n][j] + (IF cur[n] = j THEN 1 ELSE 0) <= 2
          /\ runs[n][j] + (IF cur[n] = j THEN 1 ELSE 0) = 2 => status[j] \in {"stuck", "done"}
    /\ \A n, m \in Hosts :
          cur[n] # NoJob /\ cur[n] = cur[m] /\ n # m => "scan" \in {rec[n], rec[m]}
=============================================================================
