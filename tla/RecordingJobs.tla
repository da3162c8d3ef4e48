--------------------------- MODULE RecordingJobs ---------------------------
(***************************************************************************)
(* Recording jobs between the gateway and guacrecord (fleetshell-gateway:  *)
(* recording.rs, bin/guacrecord.rs, started together by scripts/run.sh).   *)
(*                                                                         *)
(* When a recorded session is over, a gateway writes a job file into the   *)
(* jobs directory.  The guacrecord of every host first processes what it   *)
(* finds there, then watches the directory with inotify and processes the  *)
(* files whose writers close them; a processed file is moved to done/.     *)
(* The directory is shared by all hosts (Dockerfile), but a watch only     *)
(* sees what happens on its own host.                                      *)
(*                                                                         *)
(* What a job makes of the recording (video, transcript, bundle, upload)   *)
(* is one step here: each part of it only logs its failures.               *)
(***************************************************************************)
EXTENDS Naturals, Sequences

CONSTANTS
    Hosts,        \* container instances, each with a gateway and a guacrecord
    Jobs,         \* recorded sessions, one job file each
    NoHost, NoJob,
    MaxCrashes    \* bound: how often hosts die

ASSUME JobsAssumption ==
    /\ NoHost \notin Hosts
    /\ NoJob \notin Jobs
    /\ MaxCrashes \in Nat

VARIABLES
    file,      \* file[j]: the job file, by its content or its place
    writer,    \* writer[j]: the host that has the file open for writing
    rec,       \* rec[n]: what the guacrecord of host n is doing
    listed,    \* listed[n]: there when read_dir began, not returned by it yet
    seen,      \* seen[n]: returned by read_dir
    queue,     \* queue[n]: names from inotify, in the kernel or the channel
    cur,       \* cur[n]: the job process_job works on
    runs,      \* runs[n][j]: how often n processed j since it was started
    unmoved,   \* jobs whose rename to done/ has failed (bound: once each)
    crashes    \* how often a host died

recVars == <<rec, listed, seen, queue, cur, runs>>
vars == <<file, writer, recVars, unmoved, crashes>>

InDirectory(j) == file[j] \in {"empty", "full"}
Complete(j)    == file[j] = "full" /\ writer[j] = NoHost

TypeOK ==
    /\ file \in [Jobs -> {"none", "empty", "full", "done"}]
    /\ writer \in [Jobs -> Hosts \cup {NoHost}]
    /\ rec \in [Hosts -> {"down", "scan", "watch"}]
    /\ listed \in [Hosts -> SUBSET Jobs]
    /\ seen \in [Hosts -> SUBSET Jobs]
    /\ queue \in [Hosts -> Seq(Jobs)]
    /\ cur \in [Hosts -> Jobs \cup {NoJob}]
    /\ runs \in [Hosts -> [Jobs -> Nat]]
    /\ unmoved \subseteq Jobs
    /\ crashes \in 0..MaxCrashes
    /\ \A n \in Hosts : rec[n] # "watch" => queue[n] = <<>>
    /\ \A n \in Hosts : rec[n] # "scan" => listed[n] = {}

Init ==
    /\ file = [j \in Jobs |-> "none"]
    /\ writer = [j \in Jobs |-> NoHost]
    /\ rec = [n \in Hosts |-> "down"]
    /\ listed = [n \in Hosts |-> {}]
    /\ seen = [n \in Hosts |-> {}]
    /\ queue = [n \in Hosts |-> <<>>]
    /\ cur = [n \in Hosts |-> NoJob]
    /\ runs = [n \in Hosts |-> [j \in Jobs |-> 0]]
    /\ unmoved = {}
    /\ crashes = 0

-----------------------------------------------------------------------------
(* write_job_file: one tokio::fs::write, that is open, write, close.       *)

\* The file appears when it is opened.
Create(n, j) ==
    /\ file[j] = "none"
    /\ file' = [file EXCEPT ![j] = "empty"]
    /\ writer' = [writer EXCEPT ![j] = n]
    /\ UNCHANGED <<recVars, unmoved, crashes>>

Write(n, j) ==
    /\ writer[j] = n
    /\ file[j] = "empty"
    /\ file' = [file EXCEPT ![j] = "full"]
    /\ UNCHANGED <<writer, recVars, unmoved, crashes>>

\* Mutant of CloseEvent: the watches of all hosts see the event.
CloseEventEverywhere(n, j) ==
    queue' = [m \in Hosts |->
                IF rec[m] = "watch" /\ InDirectory(j)
                THEN Append(queue[m], j) ELSE queue[m]]

\* IN_CLOSE_WRITE goes to the watch of the writer's host, if there is one and if the
\* file is still in the watched directory.
CloseEvent(n, j) ==
    queue' = IF rec[n] = "watch" /\ InDirectory(j)
             THEN [queue EXCEPT ![n] = Append(@, j)] ELSE queue

\* The writer is done, or its write failed (which the gateway only logs).
Close(n, j) ==
    /\ writer[j] = n
    /\ writer' = [writer EXCEPT ![j] = NoHost]
    /\ CloseEvent(n, j)
    /\ UNCHANGED <<file, rec, listed, seen, cur, runs, unmoved, crashes>>

-----------------------------------------------------------------------------
(* guacrecord.                                                             *)

\* Mutant of Start: left-over files are not looked for.
StartWithoutScan(n) ==
    /\ rec[n] = "down"
    /\ rec' = [rec EXCEPT ![n] = "scan"]
    /\ UNCHANGED <<file, writer, listed, seen, queue, cur, runs, unmoved, crashes>>

\* main: read_dir before anything else.
Start(n) ==
    /\ rec[n] = "down"
    /\ rec' = [rec EXCEPT ![n] = "scan"]
    /\ listed' = [listed EXCEPT ![n] = {j \in Jobs : InDirectory(j)}]
    /\ UNCHANGED <<file, writer, seen, queue, cur, runs, unmoved, crashes>>

\* process_job reads and parses the file; if that fails the job is left alone.
ReadJob(n, j) ==
    cur' = IF file[j] = "full" THEN [cur EXCEPT ![n] = j] ELSE cur

\* The next entry of read_dir.  It is read lazily: what was there in the beginning
\* is returned, a file that appears meanwhile may be.
ProcessEntry(n, j) ==
    /\ rec[n] = "scan"
    /\ cur[n] = NoJob
    /\ j \notin seen[n]
    /\ j \in listed[n] \/ InDirectory(j)
    /\ listed' = [listed EXCEPT ![n] = @ \ {j}]
    /\ seen' = [seen EXCEPT ![n] = @ \cup {j}]
    /\ ReadJob(n, j)
    /\ UNCHANGED <<file, writer, rec, queue, runs, unmoved, crashes>>

\* The end of read_dir: only now the inotify watch is added.
Watch(n) ==
    /\ rec[n] = "scan"
    /\ cur[n] = NoJob
    /\ listed[n] = {}
    /\ rec' = [rec EXCEPT ![n] = "watch"]
    /\ UNCHANGED <<file, writer, listed, seen, queue, cur, runs, unmoved, crashes>>

\* Mutant of ProcessEvent: a job that cannot be parsed is tried again.
ProcessEventUntilParsed(n) ==
    /\ rec[n] = "watch"
    /\ cur[n] = NoJob
    /\ queue[n] # <<>>
    /\ queue' = IF file[Head(queue[n])] = "empty" THEN queue
                ELSE [queue EXCEPT ![n] = Tail(@)]
    /\ ReadJob(n, Head(queue[n]))
    /\ UNCHANGED <<file, writer, rec, listed, seen, runs, unmoved, crashes>>

\* The receive loop takes the next file name.
ProcessEvent(n) ==
    /\ rec[n] = "watch"
    /\ cur[n] = NoJob
    /\ queue[n] # <<>>
    /\ queue' = [queue EXCEPT ![n] = Tail(@)]
    /\ ReadJob(n, Head(queue[n]))
    /\ UNCHANGED <<file, writer, rec, listed, seen, runs, unmoved, crashes>>

\* Mutant of FinishJob: the job file is left where it is.
FinishJobInPlace(n) ==
    /\ cur[n] # NoJob
    /\ cur' = [cur EXCEPT ![n] = NoJob]
    /\ runs' = [runs EXCEPT ![n][cur[n]] = @ + 1]
    /\ UNCHANGED <<file, writer, rec, listed, seen, queue, unmoved, crashes>>

\* The outputs are written and uploaded, then the file is moved to done/.  Another
\* host may have moved it before, and the rename may fail.
FinishJob(n) ==
    /\ cur[n] # NoJob
    /\ cur' = [cur EXCEPT ![n] = NoJob]
    /\ runs' = [runs EXCEPT ![n][cur[n]] = @ + 1]
    /\ \/ file' = [file EXCEPT ![cur[n]] = "done"] /\ UNCHANGED unmoved
       \/ /\ file[cur[n]] = "full" /\ cur[n] \notin unmoved
          /\ unmoved' = unmoved \cup {cur[n]}
          /\ UNCHANGED file
    /\ UNCHANGED <<writer, rec, listed, seen, queue, crashes>>

-----------------------------------------------------------------------------
\* Mutant of Crash: the queue is kept.
CrashKeepsQueue(n) ==
    /\ crashes < MaxCrashes
    /\ crashes' = crashes + 1
    /\ rec' = [rec EXCEPT ![n] = "down"]
    /\ listed' = [listed EXCEPT ![n] = {}]
    /\ seen' = [seen EXCEPT ![n] = {}]
    /\ cur' = [cur EXCEPT ![n] = NoJob]
    /\ runs' = [runs EXCEPT ![n] = [j \in Jobs |-> 0]]
    /\ writer' = [j \in Jobs |-> IF writer[j] = n THEN NoHost ELSE writer[j]]
    /\ UNCHANGED <<file, queue, unmoved>>

\* The container of host n dies and is restarted: what its gateway was writing stays
\* as it is, and guacrecord forgets all it knew.
Crash(n) ==
    /\ crashes < MaxCrashes
    /\ crashes' = crashes + 1
    /\ rec' = [rec EXCEPT ![n] = "down"]
    /\ listed' = [listed EXCEPT ![n] = {}]
    /\ seen' = [seen EXCEPT ![n] = {}]
    /\ queue' = [queue EXCEPT ![n] = <<>>]
    /\ cur' = [cur EXCEPT ![n] = NoJob]
    /\ runs' = [runs EXCEPT ![n] = [j \in Jobs |-> 0]]
    /\ writer' = [j \in Jobs |-> IF writer[j] = n THEN NoHost ELSE writer[j]]
    /\ UNCHANGED <<file, unmoved>>

-----------------------------------------------------------------------------
Gateway(n, j) == Create(n, j) \/ Write(n, j) \/ Close(n, j)

Recorder(n) ==
    \/ Start(n) \/ Watch(n) \/ ProcessEvent(n) \/ FinishJob(n)
    \/ \E j \in Jobs : ProcessEntry(n, j)

Next ==
    \E n \in Hosts :
        \/ Recorder(n) \/ Crash(n)
        \/ \E j \in Jobs : Gateway(n, j)

\* Every host's guacrecord runs, and processing a job comes to an end.
Fairness ==
    /\ \A n \in Hosts : WF_vars(Recorder(n))
    /\ \A n \in Hosts, j \in Jobs : WF_vars(Close(n, j))

Spec == Init /\ [][Next]_vars /\ Fairness

-----------------------------------------------------------------------------
(* Properties.                                                             *)

\* A guacrecord does not do a job twice, although it may meet it both in the
\* directory and as an event -- unless the job could not be moved to done/.
OncePerLife ==
    \A n \in Hosts, j \in Jobs : runs[n][j] <= (IF j \in unmoved THEN 2 ELSE 1)

\* The outputs of a recording have one name on the shared volume.  Two hosts write
\* them at the same time only if one of them has just been started: between hosts
\* that watch, the event of a file decides who does the job.
OverlapNeedsScan ==
    \A n, m \in Hosts :
        cur[n] # NoJob /\ cur[n] = cur[m] /\ n # m => "scan" \in {rec[n], rec[m]}

\* The guacrecord of n will come to j, or works on it.
InReach(n, j) ==
    \/ j \in listed[n]
    \/ \E i \in DOMAIN queue[n] : queue[n][i] = j
    \/ cur[n] = j

\* The job as JobBoard sees it.
Status(j) ==
    IF file[j] \in {"none", "done"} THEN file[j]
    ELSE IF file[j] = "empty" THEN IF writer[j] = NoHost THEN "torn" ELSE "open"
    ELSE IF j \in unmoved THEN "stuck"
    ELSE IF \E n \in Hosts : InReach(n, j) THEN "noticed"
    ELSE "waiting"

Board == INSTANCE JobBoard WITH status <- [j \in Jobs |-> Status(j)]

\* Files, directory listings and events together implement JobBoard: between the scan and
\* the events of any number of hosts no job that was noticed is dropped, and none is done
\* more often than a host's life and a failed rename allow.
ImplementsBoard == Board!BoardSpec

\* guacrecord.rs: "Processing failures are logged and never crash the watcher
\* loop": a job whose event is waiting is done in the end, whatever is in front of
\* it, if the host does not die first and the file can be moved.
QueuedIsDone ==
    \A n \in Hosts, j \in Jobs :
        (file[j] = "full" /\ \E i \in DOMAIN queue[n] : queue[n][i] = j)
        ~> (file[j] = "done" \/ j \in unmoved \/ rec[n] = "down")

\* guacrecord.rs, main: "Process any job files that pre-date this startup": a job
\* that is complete while some host's guacrecord is down is done in the end.
LeftoverIsDone ==
    \A j \in Jobs :
        (Complete(j) /\ \E n \in Hosts : rec[n] = "down")
        ~> (file[j] = "done" \/ j \in unmoved)

\* recording.rs: "The file appearing in the jobs directory is the inotify signal for
\* guacrecord to post-process": every complete job is done in the end.
EveryJobIsDone ==
    \A j \in Jobs : Complete(j) ~> (file[j] = "done" \/ j \in unmoved)
=============================================================================
