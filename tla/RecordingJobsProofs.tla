------------------------- MODULE RecordingJobsProofs -------------------------
(***************************************************************************)
(* Proofs about RecordingJobs for every number of hosts, jobs and crashes.  *)
(*                                                                         *)
(* A guacrecord meets a job at most twice in its life: once in read_dir,    *)
(* and once as the event of the one close of the job's file, which goes to  *)
(* one host only.  Budget counts the two; Events says that the event is     *)
(* still to come, or held by one host, or spent.                            *)
(***************************************************************************)
EXTENDS RecordingJobs, TLAPS

\* 1 for a condition that holds.
One(b) == IF b THEN 1 ELSE 0

\* The closing of the file, and with it its event, is still to come.
Pending(j) == file[j] = "none" \/ writer[j] # NoHost

\* The event of j waits at n.
In(s, j) == \E i \in 1 .. Len(s) : s[i] = j
Waits(n, j) == In(queue[n], j)

\* Host n has the event of j, or works on j because of it.
Held(n, j) == rec[n] = "watch" /\ (cur[n] = j \/ Waits(n, j))

Distinct(s) == \A i, k \in 1 .. Len(s) : s[i] = s[k] => i = k

Events ==
    /\ \A n \in Hosts : Distinct(queue[n])
    /\ \A n \in Hosts : cur[n] # NoJob => rec[n] # "down"
    /\ \A n \in Hosts, j \in Jobs : Held(n, j) => ~Pending(j)
    /\ \A n, m \in Hosts, j \in Jobs : Held(n, j) /\ Held(m, j) => n = m

\* The event of j has come to n and was taken, or will never come.
Spent(n, j) == rec[n] = "watch" /\ ~Pending(j) /\ ~Waits(n, j)

Budget ==
    \A n \in Hosts, j \in Jobs :
        runs[n][j] + One(cur[n] = j) <= One(j \in seen[n]) + One(Spent(n, j))

Moved ==
    \A n \in Hosts, j \in Jobs : j \notin unmoved =>
        /\ runs[n][j] <= 1
        /\ runs[n][j] = 1 => file[j] = "done"
        /\ cur[n] = j => runs[n][j] = 0

IInv == TypeOK /\ Events /\ Budget /\ Moved

--------------------------------------------------------------------------------
(* Queues *)

\* An empty queue has nothing in it.
LEMMA InEmpty == \A j : ~In(<<>>, j) /\ Distinct(<<>>)
BY DEF In, Distinct

\* What an append adds.
LEMMA InAppend ==
  ASSUME NEW s \in Seq(Jobs), NEW x \in Jobs
  PROVE  /\ \A j : In(Append(s, x), j) <=> In(s, j) \/ j = x
         /\ Distinct(s) /\ ~In(s, x) => Distinct(Append(s, x))
<1>1. Len(Append(s, x)) = Len(s) + 1 /\ Len(s) \in Nat
  OBVIOUS
<1>2. \A i \in 1 .. Len(s) : Append(s, x)[i] = s[i]
  OBVIOUS
<1>3. Append(s, x)[Len(s) + 1] = x
  OBVIOUS
<1>4. \A i \in 1 .. Len(Append(s, x)) : i \in 1 .. Len(s) \/ i = Len(s) + 1
  BY <1>1
<1>5. 1 .. Len(s) \subseteq 1 .. Len(Append(s, x)) /\ Len(s) + 1 \in 1 .. Len(Append(s, x))
  BY <1>1
<1> QED BY <1>2, <1>3, <1>4, <1>5 DEF In, Distinct

\* What the tail leaves.
LEMMA InTail ==
  ASSUME NEW s \in Seq(Jobs), s # <<>>, Distinct(s)
  PROVE  /\ \A j : In(Tail(s), j) <=> In(s, j) /\ j # Head(s)
         /\ Distinct(Tail(s)) /\ In(s, Head(s)) /\ Head(s) \in Jobs /\ Tail(s) \in Seq(Jobs)
<1>1. Len(s) \in Nat /\ Len(s) >= 1 /\ Len(Tail(s)) = Len(s) - 1 /\ Head(s) = s[1]
  OBVIOUS
<1>2. \A i \in 1 .. Len(Tail(s)) : Tail(s)[i] = s[i + 1] /\ i + 1 \in 1 .. Len(s) /\ i + 1 # 1
  BY <1>1
<1>3. \A i \in 1 .. Len(s) : i # 1 => i - 1 \in 1 .. Len(Tail(s)) /\ Tail(s)[i - 1] = s[i]
  BY <1>1, <1>2
<1>4. Head(s) \in Jobs /\ Tail(s) \in Seq(Jobs) /\ 1 \in 1 .. Len(s)
  BY <1>1
<1>5. \A j : In(Tail(s), j) => In(s, j) /\ j # Head(s)
  BY <1>1, <1>2, <1>4 DEF In, Distinct
<1>6. \A j : In(s, j) /\ j # Head(s) => In(Tail(s), j)
  BY <1>1, <1>3 DEF In
<1>7. Distinct(Tail(s))
  BY <1>1, <1>2 DEF Distinct
<1> QED BY <1>1, <1>4, <1>5, <1>6, <1>7 DEF In

--------------------------------------------------------------------------------
(* Every step keeps the invariant *)

\* Nothing has been created at first.
LEMMA JobsInit == Init => IInv
<1> SUFFICES ASSUME Init PROVE IInv
  OBVIOUS
<1>1. TypeOK
  BY JobsAssumption DEF Init, TypeOK
<1>2. \A n \in Hosts : queue[n] = <<>> /\ cur[n] = NoJob /\ rec[n] = "down" /\ seen[n] = {}
  BY DEF Init
<1>3. Events
  BY <1>2, InEmpty DEF Events, Held
<1>4. \A n \in Hosts, j \in Jobs : runs[n][j] = 0 /\ cur[n] # j
  BY JobsAssumption DEF Init
<1>5. Budget
  BY <1>2, <1>4 DEF Budget, One, Spent
<1>6. Moved
  BY <1>4 DEF Moved
<1> QED BY <1>1, <1>3, <1>5, <1>6 DEF IInv

\* The budget holds on where an event is not given back.
LEMMA BudgetKept ==
  ASSUME IInv, UNCHANGED <<runs, cur, seen>>,
         \A m \in Hosts, k \in Jobs : Spent(m, k) => Spent(m, k)'
  PROVE  Budget'
<1>1. ASSUME NEW m \in Hosts, NEW k \in Jobs
      PROVE  runs'[m][k] + One(cur'[m] = k) <= One(k \in seen'[m]) + One(Spent(m, k)')
  <2>1. runs[m][k] + One(cur[m] = k) <= One(k \in seen[m]) + One(Spent(m, k))
    BY DEF IInv, Budget
  <2>2. runs[m][k] \in Nat
    BY DEF IInv, TypeOK
  <2> QED BY <2>1, <2>2 DEF One
<1> QED BY <1>1 DEF Budget

\* The gateway's steps: a file is created, written and closed once.
LEMMA JobsGateway ==
  ASSUME IInv, NEW n \in Hosts, NEW j \in Jobs, Gateway(n, j)
  PROVE  IInv'
<1> USE DEF IInv
<1>1. CASE Create(n, j)
  <2>1. TypeOK'
    BY <1>1 DEF Create, TypeOK, recVars
  <2>2. \A k \in Jobs : Pending(k)' <=> Pending(k)
    BY <1>1, JobsAssumption DEF Create, TypeOK, Pending
  <2>3. Events' /\ Budget'
    BY <1>1, <2>2 DEF Create, Events, Budget, Held, Waits, Spent, recVars
  <2>4. Moved'
    BY <1>1 DEF Create, Moved, TypeOK, recVars
  <2> QED BY <2>1, <2>3, <2>4
<1>2. CASE Write(n, j)
  <2>1. TypeOK'
    BY <1>2 DEF Write, TypeOK, recVars
  <2>2. \A k \in Jobs : Pending(k)' <=> Pending(k)
    BY <1>2, JobsAssumption DEF Write, TypeOK, Pending
  <2>3. Events' /\ Budget'
    BY <1>2, <2>2 DEF Write, Events, Budget, Held, Waits, Spent, recVars
  <2>4. Moved'
    BY <1>2 DEF Write, Moved, TypeOK, recVars
  <2> QED BY <2>1, <2>3, <2>4
<1>3. CASE Close(n, j)
  <2>1. Pending(j)
    BY <1>3, JobsAssumption DEF Close, Pending, TypeOK
  <2>2. \A m \in Hosts : ~Held(m, j) /\ ~Waits(m, j)
    BY <2>1, InEmpty DEF Events, Held, Waits, TypeOK
  <2>3. \A k \in Jobs : k # j => (Pending(k)' <=> Pending(k))
    BY <1>3 DEF Close, Pending, TypeOK
  <2>4. UNCHANGED <<file, rec, listed, seen, cur, runs, unmoved, crashes>>
    BY <1>3 DEF Close
  <2>5. Moved'
    BY <2>4 DEF Moved
  <2>6. CASE queue' = queue
    <3>1. TypeOK'
      BY <1>3, <2>4, <2>6 DEF Close, TypeOK
    <3>2. \A m \in Hosts, k \in Jobs : (Held(m, k)' <=> Held(m, k)) /\ (Waits(m, k)' <=> Waits(m, k))
      BY <2>4, <2>6 DEF Held, Waits
    <3>3. \A m \in Hosts, k \in Jobs : Held(m, k) => k # j
      BY <2>2
    <3>4. Events'
      BY <2>3, <2>4, <2>6, <3>2, <3>3 DEF Events
    <3>5. \A m \in Hosts, k \in Jobs : Spent(m, k) => Spent(m, k)'
      BY <2>1, <2>3, <2>4, <3>2 DEF Spent
    <3>6. Budget'
      BY <2>4, <3>5, BudgetKept
    <3> QED BY <2>5, <3>1, <3>4, <3>6
  <2>7. CASE /\ rec[n] = "watch" /\ InDirectory(j)
             /\ queue' = [queue EXCEPT ![n] = Append(@, j)]
    <3>1. TypeOK'
      BY <1>3, <2>4, <2>7 DEF Close, TypeOK
    <3>2. queue[n] \in Seq(Jobs) /\ Distinct(queue[n]) /\ ~In(queue[n], j)
      BY <2>2 DEF TypeOK, Events, Waits
    <3>3. \A m \in Hosts : queue'[m] = IF m = n THEN Append(queue[n], j) ELSE queue[m]
      BY <2>7 DEF TypeOK
    <3>4. \A m \in Hosts : Distinct(queue[m])'
      BY <3>2, <3>3, InAppend DEF Events
    <3>5. \A m \in Hosts, k \in Jobs : Waits(m, k)' <=> Waits(m, k) \/ (m = n /\ k = j)
      BY <3>2, <3>3, InAppend DEF Waits
    <3>6. \A m \in Hosts, k \in Jobs : Held(m, k)' <=> Held(m, k) \/ (m = n /\ k = j)
      BY <2>4, <2>7, <3>5 DEF Held
    <3>7. ~Pending(j)'
      BY <1>3, <2>4, <2>7 DEF Close, Pending, TypeOK, InDirectory
    <3>8. Events'
      BY <2>2, <2>3, <2>4, <3>4, <3>6, <3>7 DEF Events
    <3>9. \A m \in Hosts, k \in Jobs : Spent(m, k) => Spent(m, k)'
      BY <2>1, <2>3, <2>4, <3>5 DEF Spent
    <3>10. Budget'
      BY <2>4, <3>9, BudgetKept
    <3> QED BY <2>5, <3>1, <3>8, <3>10
  <2> QED BY <1>3, <2>6, <2>7 DEF Close, CloseEvent
<1> QED BY <1>1, <1>2, <1>3 DEF Gateway

\* Reading a job makes the host work on it only if the budget has room for it.
LEMMA JobsRead ==
  ASSUME IInv, NEW n \in Hosts, NEW j \in Jobs, ReadJob(n, j), cur[n] = NoJob
  PROVE  /\ cur' \in [Hosts -> Jobs \cup {NoJob}]
         /\ \A m \in Hosts : m # n => cur'[m] = cur[m]
         /\ cur'[n] \in {NoJob, j}
         /\ cur'[n] = j => file[j] = "full"
         /\ cur'[n] = j /\ j \notin unmoved => runs[n][j] = 0
<1>1. runs[n][j] \in Nat /\ NoJob # j
  BY JobsAssumption DEF IInv, TypeOK
<1>2. CASE file[j] = "full"
  BY <1>1, <1>2 DEF ReadJob, IInv, TypeOK, Moved
<1>3. CASE file[j] # "full"
  BY <1>1, <1>3 DEF ReadJob, IInv, TypeOK
<1> QED BY <1>2, <1>3

\* guacrecord begins, reads an entry, begins to watch.
LEMMA JobsScan ==
  ASSUME IInv, NEW n \in Hosts,
         Start(n) \/ Watch(n) \/ \E j \in Jobs : ProcessEntry(n, j)
  PROVE  IInv'
<1> USE DEF IInv
<1>1. CASE Start(n)
  <2>1. TypeOK'
    BY <1>1 DEF Start, TypeOK
  <2>2. \A m \in Hosts : rec'[m] = "watch" <=> rec[m] = "watch"
    BY <1>1 DEF Start, TypeOK
  <2>3. \A m \in Hosts, k \in Jobs : (Held(m, k)' <=> Held(m, k)) /\ (Spent(m, k)' <=> Spent(m, k))
    BY <1>1, <2>2 DEF Start, Held, Waits, Spent, Pending
  <2>4. Events'
    BY <1>1, <2>3 DEF Start, Events, Pending, TypeOK
  <2>5. Budget' /\ Moved'
    BY <1>1, <2>3, BudgetKept DEF Start, Moved
  <2> QED BY <2>1, <2>4, <2>5
<1>2. CASE Watch(n)
  <2>1. TypeOK'
    BY <1>2 DEF Watch, TypeOK
  <2>2. \A m \in Hosts : rec'[m] = "watch" <=> rec[m] = "watch" \/ m = n
    BY <1>2 DEF Watch, TypeOK
  <2>3. \A j \in Jobs : ~Held(n, j)'
    BY <1>2, InEmpty, JobsAssumption DEF Watch, Held, Waits, TypeOK
  <2>4. \A m \in Hosts, k \in Jobs : /\ m # n => (Held(m, k)' <=> Held(m, k))
                                     /\ Spent(m, k) => Spent(m, k)'
    BY <1>2, <2>2 DEF Watch, Held, Waits, Spent, Pending
  <2>5. UNCHANGED <<file, writer, queue, cur, runs, seen, unmoved>> /\ cur[n] = NoJob
    BY <1>2 DEF Watch
  <2>6. \A j \in Jobs : Pending(j)' <=> Pending(j)
    BY <2>5 DEF Pending
  <2>7. \A m \in Hosts : cur'[m] # NoJob => rec'[m] # "down"
    BY <1>2, <2>5 DEF Watch, Events, TypeOK
  <2>8. Events'
    BY <2>3, <2>4, <2>5, <2>6, <2>7 DEF Events
  <2>9. Budget' /\ Moved'
    BY <2>4, <2>5, BudgetKept DEF Moved
  <2> QED BY <2>1, <2>8, <2>9
<1>3. ASSUME NEW j \in Jobs, ProcessEntry(n, j) PROVE IInv'
  <2>0. /\ rec[n] = "scan" /\ cur[n] = NoJob /\ j \notin seen[n]
        /\ seen' = [seen EXCEPT ![n] = @ \cup {j}]
        /\ ReadJob(n, j)
        /\ UNCHANGED <<file, writer, rec, queue, runs, unmoved, crashes>>
    BY <1>3 DEF ProcessEntry
  <2>1. /\ cur' \in [Hosts -> Jobs \cup {NoJob}]
        /\ \A m \in Hosts : m # n => cur'[m] = cur[m]
        /\ cur'[n] \in {NoJob, j}
        /\ cur'[n] = j /\ j \notin unmoved => runs[n][j] = 0
    BY <2>0, JobsRead
  <2>2. TypeOK'
    <3>1. listed' = [listed EXCEPT ![n] = @ \ {j}]
      BY <1>3 DEF ProcessEntry
    <3>2. listed' \in [Hosts -> SUBSET Jobs] /\ seen' \in [Hosts -> SUBSET Jobs]
      BY <2>0, <3>1 DEF TypeOK
    <3>3. \A m \in Hosts : rec'[m] # "scan" => listed'[m] = {}
      BY <2>0, <3>1 DEF TypeOK
    <3> QED BY <2>0, <2>1, <3>2, <3>3 DEF TypeOK
  <2>3. \A m \in Hosts, k \in Jobs : (Held(m, k)' <=> Held(m, k)) /\ (Spent(m, k)' <=> Spent(m, k))
    BY <2>0, <2>1 DEF Held, Waits, Spent, Pending
  <2>4. Events'
    BY <2>0, <2>1, <2>3 DEF Events, Pending
  <2>5. ASSUME NEW m \in Hosts, NEW k \in Jobs
        PROVE  runs'[m][k] + One(cur'[m] = k) <= One(k \in seen'[m]) + One(Spent(m, k)')
    <3>1. runs[m][k] + One(cur[m] = k) <= One(k \in seen[m]) + One(Spent(m, k))
      BY DEF Budget
    <3>2. runs[m][k] \in Nat /\ cur[n] # k /\ seen'[n] = seen[n] \cup {j}
      BY <2>0, JobsAssumption DEF TypeOK
    <3>3. CASE m = n /\ k = j
      BY <2>0, <2>3, <3>1, <3>2, <3>3 DEF One
    <3>4. CASE m = n /\ k # j
      BY <2>0, <2>1, <2>3, <3>1, <3>2, <3>4, JobsAssumption DEF One
    <3>5. CASE m # n
      BY <2>0, <2>1, <2>3, <3>1, <3>5 DEF One, TypeOK
    <3> QED BY <3>3, <3>4, <3>5
  <2>6. Moved'
    BY <2>0, <2>1, JobsAssumption DEF Moved
  <2> QED BY <2>2, <2>4, <2>5, <2>6 DEF Budget
<1> QED BY <1>1, <1>2, <1>3

\* guacrecord takes an event.
LEMMA JobsEvent ==
  ASSUME IInv, NEW n \in Hosts, ProcessEvent(n)
  PROVE  IInv'
<1> USE DEF IInv
<1> DEFINE j == Head(queue[n])
<1>0. /\ rec[n] = "watch" /\ cur[n] = NoJob /\ queue[n] # <<>>
      /\ queue' = [queue EXCEPT ![n] = Tail(@)]
      /\ ReadJob(n, j)
      /\ UNCHANGED <<file, writer, rec, listed, seen, runs, unmoved, crashes>>
  BY DEF ProcessEvent
<1>1. queue[n] \in Seq(Jobs) /\ Distinct(queue[n])
  BY DEF TypeOK, Events
<1>2. /\ \A k : In(Tail(queue[n]), k) <=> In(queue[n], k) /\ k # j
      /\ Distinct(Tail(queue[n])) /\ In(queue[n], j) /\ j \in Jobs /\ Tail(queue[n]) \in Seq(Jobs)
  BY <1>0, <1>1, InTail
<1> HIDE DEF j
<1>3. /\ cur' \in [Hosts -> Jobs \cup {NoJob}]
      /\ \A m \in Hosts : m # n => cur'[m] = cur[m]
      /\ cur'[n] \in {NoJob, j}
      /\ cur'[n] = j /\ j \notin unmoved => runs[n][j] = 0
  BY <1>0, <1>2, JobsRead
<1>4. \A m \in Hosts : queue'[m] = IF m = n THEN Tail(queue[n]) ELSE queue[m]
  BY <1>0 DEF TypeOK
<1>5. TypeOK'
  <2>1. queue' \in [Hosts -> Seq(Jobs)]
    BY <1>0, <1>2 DEF TypeOK
  <2>2. \A m \in Hosts : rec'[m] # "watch" => queue'[m] = <<>>
    BY <1>0, <1>4 DEF TypeOK
  <2> QED BY <1>0, <1>3, <2>1, <2>2 DEF TypeOK
<1>6. \A m \in Hosts, k \in Jobs : Waits(m, k)' <=> Waits(m, k) /\ ~(m = n /\ k = j)
  BY <1>2, <1>4 DEF Waits
<1>7. Held(n, j) /\ \A k \in Jobs : Pending(k)' <=> Pending(k)
  BY <1>0, <1>2 DEF Held, Waits, Pending
<1>8. \A m \in Hosts, k \in Jobs : Held(m, k)' => Held(m, k)
  <2>1. ASSUME NEW m \in Hosts, NEW k \in Jobs, Held(m, k)' PROVE Held(m, k)
    <3>1. CASE m = n /\ cur'[m] = k
      BY <1>3, <1>7, <2>1, <3>1, JobsAssumption
    <3>2. CASE ~(m = n /\ cur'[m] = k)
      BY <1>0, <1>3, <1>6, <2>1, <3>2 DEF Held
    <3> QED BY <3>1, <3>2
  <2> QED BY <2>1
<1>9. Events'
  <2>1. \A m \in Hosts : Distinct(queue'[m])
    BY <1>2, <1>4 DEF Events
  <2>2. \A m \in Hosts : cur'[m] # NoJob => rec'[m] # "down"
    BY <1>0, <1>3 DEF Events
  <2> QED BY <1>7, <1>8, <2>1, <2>2 DEF Events
<1>10. Budget'
  <2>1. ASSUME NEW m \in Hosts, NEW k \in Jobs
        PROVE  runs'[m][k] + One(cur'[m] = k) <= One(k \in seen'[m]) + One(Spent(m, k)')
    <3>1. runs[m][k] + One(cur[m] = k) <= One(k \in seen[m]) + One(Spent(m, k))
      BY DEF Budget
    <3>2. runs[m][k] \in Nat /\ cur[n] # k /\ runs' = runs /\ seen' = seen
      BY <1>0, JobsAssumption DEF TypeOK
    <3>3. CASE m = n /\ k = j
      <4>1. ~Spent(m, k) /\ Spent(m, k)'
        BY <1>0, <1>2, <1>6, <1>7, <3>3 DEF Spent, Waits, Events
      <4> QED BY <3>1, <3>2, <3>3, <4>1 DEF One
    <3>4. CASE ~(m = n /\ k = j)
      <4>1. (Spent(m, k)' <=> Spent(m, k)) /\ (cur'[m] = k <=> cur[m] = k)
        BY <1>0, <1>3, <1>6, <1>7, <3>2, <3>4, JobsAssumption DEF Spent
      <4> QED BY <3>1, <3>2, <4>1 DEF One
    <3> QED BY <3>3, <3>4
  <2> QED BY <2>1 DEF Budget
<1>11. Moved'
  BY <1>0, <1>3, JobsAssumption DEF Moved
<1> QED BY <1>5, <1>9, <1>10, <1>11

\* A job is done, and moved unless the rename fails.
LEMMA JobsFinish ==
  ASSUME IInv, NEW n \in Hosts, FinishJob(n)
  PROVE  IInv'
<1> USE DEF IInv
<1> DEFINE j == cur[n]
<1>0. /\ j # NoJob /\ j \in Jobs
      /\ cur' = [cur EXCEPT ![n] = NoJob]
      /\ runs' = [runs EXCEPT ![n][j] = @ + 1]
      /\ \/ file' = [file EXCEPT ![j] = "done"] /\ UNCHANGED unmoved
         \/ /\ file[j] = "full" /\ j \notin unmoved
            /\ unmoved' = unmoved \cup {j} /\ UNCHANGED file
      /\ UNCHANGED <<writer, rec, listed, seen, queue, crashes>>
  BY DEF FinishJob, TypeOK
<1>1. cur[n] = j
  OBVIOUS
<1> HIDE DEF j
<1>2. /\ cur'[n] = NoJob /\ \A m \in Hosts : m # n => cur'[m] = cur[m]
      /\ runs[n][j] \in Nat /\ runs'[n][j] = runs[n][j] + 1
      /\ \A m \in Hosts, k \in Jobs : ~(m = n /\ k = j) => runs'[m][k] = runs[m][k]
  BY <1>0 DEF TypeOK
<1>3. TypeOK'
  <2>1. runs' \in [Hosts -> [Jobs -> Nat]]
    <3>1. runs[n] \in [Jobs -> Nat] /\ runs[n][j] + 1 \in Nat
      BY <1>2 DEF TypeOK
    <3>2. [runs[n] EXCEPT ![j] = @ + 1] \in [Jobs -> Nat]
      BY <3>1
    <3> QED BY <1>0, <3>2 DEF TypeOK
  <2>2. file' \in [Jobs -> {"none", "empty", "full", "done"}] /\ unmoved' \subseteq Jobs
    BY <1>0 DEF TypeOK
  <2> QED BY <1>0, <2>1, <2>2 DEF TypeOK
<1>4. \A k \in Jobs : Pending(k)' => Pending(k)
  BY <1>0 DEF Pending, TypeOK
<1>5. \A m \in Hosts, k \in Jobs : (Held(m, k)' => Held(m, k)) /\ (Spent(m, k) => Spent(m, k)')
  BY <1>0, <1>2, <1>4, JobsAssumption DEF Held, Waits, Spent
<1>6. Events'
  BY <1>0, <1>2, <1>4, <1>5 DEF Events
<1>7. Budget'
  <2>1. ASSUME NEW m \in Hosts, NEW k \in Jobs
        PROVE  runs'[m][k] + One(cur'[m] = k) <= One(k \in seen'[m]) + One(Spent(m, k)')
    <3>1. /\ runs[m][k] + One(cur[m] = k) <= One(k \in seen[m]) + One(Spent(m, k))
          /\ runs[m][k] \in Nat /\ seen' = seen /\ (Spent(m, k) => Spent(m, k)') /\ k # NoJob
      BY <1>0, <1>5, JobsAssumption DEF Budget, TypeOK
    <3>2. CASE m = n /\ k = j
      BY <1>1, <1>2, <3>1, <3>2 DEF One
    <3>3. CASE m = n /\ k # j
      BY <1>1, <1>2, <3>1, <3>3 DEF One
    <3>4. CASE m # n
      BY <1>2, <3>1, <3>4 DEF One
    <3> QED BY <3>2, <3>3, <3>4
  <2> QED BY <2>1 DEF Budget
<1>8. Moved'
  <2>1. ASSUME NEW m \in Hosts, NEW k \in Jobs, k \notin unmoved'
        PROVE  /\ runs'[m][k] <= 1
               /\ runs'[m][k] = 1 => file'[k] = "done"
               /\ cur'[m] = k => runs'[m][k] = 0
    <3>1. /\ k \notin unmoved /\ k # NoJob
          /\ runs[m][k] <= 1 /\ (runs[m][k] = 1 => file[k] = "done")
          /\ cur[m] = k => runs[m][k] = 0
      BY <1>0, <2>1, JobsAssumption DEF Moved
    <3>2. file[k] = "done" => file'[k] = "done"
      BY <1>0 DEF TypeOK
    <3>3. k = j => file'[k] = "done"
      BY <1>0, <2>1 DEF TypeOK
    <3>4. CASE m = n /\ k = j
      BY <1>1, <1>2, <3>1, <3>3, <3>4
    <3>5. CASE ~(m = n /\ k = j)
      BY <1>1, <1>2, <3>1, <3>2, <3>5
    <3> QED BY <3>4, <3>5
  <2> QED BY <2>1 DEF Moved
<1> QED BY <1>3, <1>6, <1>7, <1>8

\* A host dies: it forgets everything, and what it was writing is never closed.
LEMMA JobsCrash ==
  ASSUME IInv, NEW n \in Hosts, Crash(n)
  PROVE  IInv'
<1> USE DEF IInv
<1>1. \A m \in Hosts : /\ rec'[m] = IF m = n THEN "down" ELSE rec[m]
                       /\ seen'[m] = IF m = n THEN {} ELSE seen[m]
                       /\ queue'[m] = IF m = n THEN <<>> ELSE queue[m]
                       /\ cur'[m] = IF m = n THEN NoJob ELSE cur[m]
                       /\ runs'[m] = IF m = n THEN [j \in Jobs |-> 0] ELSE runs[m]
  BY DEF Crash, TypeOK
<1>2. UNCHANGED <<file, unmoved>>
  BY DEF Crash
<1>3. \A j \in Jobs : Pending(j)' => Pending(j)
  BY DEF Crash, Pending, TypeOK
<1>4. TypeOK'
  <2>1. rec' \in [Hosts -> {"down", "scan", "watch"}] /\ listed' \in [Hosts -> SUBSET Jobs]
        /\ seen' \in [Hosts -> SUBSET Jobs] /\ cur' \in [Hosts -> Jobs \cup {NoJob}]
    BY DEF Crash, TypeOK
  <2>2. writer' \in [Jobs -> Hosts \cup {NoHost}] /\ runs' \in [Hosts -> [Jobs -> Nat]]
    BY DEF Crash, TypeOK
  <2>3. queue' \in [Hosts -> Seq(Jobs)] /\ crashes' \in 0 .. MaxCrashes
    BY JobsAssumption DEF Crash, TypeOK
  <2>4. \A m \in Hosts : listed'[m] = IF m = n THEN {} ELSE listed[m]
    BY DEF Crash, TypeOK
  <2>5. /\ \A m \in Hosts : rec'[m] # "watch" => queue'[m] = <<>>
        /\ \A m \in Hosts : rec'[m] # "scan" => listed'[m] = {}
    BY <1>1, <2>4 DEF TypeOK
  <2> QED BY <1>2, <2>1, <2>2, <2>3, <2>5 DEF TypeOK
<1>5. \A m \in Hosts, k \in Jobs : Held(m, k)' => m # n /\ Held(m, k)
  BY <1>1 DEF Held, Waits
<1>6. Events'
  BY <1>1, <1>3, <1>5, InEmpty DEF Events
<1>7. Budget'
  <2>1. ASSUME NEW m \in Hosts, NEW k \in Jobs
        PROVE  runs'[m][k] + One(cur'[m] = k) <= One(k \in seen'[m]) + One(Spent(m, k)')
    <3>1. /\ runs[m][k] + One(cur[m] = k) <= One(k \in seen[m]) + One(Spent(m, k))
          /\ runs[m][k] \in Nat /\ k # NoJob
      BY JobsAssumption DEF Budget, TypeOK
    <3>2. CASE m = n
      BY <1>1, <3>1, <3>2 DEF One
    <3>3. CASE m # n
      <4>1. Spent(m, k) => Spent(m, k)'
        BY <1>1, <1>3, <3>3 DEF Spent, Waits
      <4> QED BY <1>1, <3>1, <3>3, <4>1 DEF One
    <3> QED BY <3>2, <3>3
  <2> QED BY <2>1 DEF Budget
<1>8. Moved'
  BY <1>1, <1>2, JobsAssumption DEF Moved
<1> QED BY <1>4, <1>6, <1>7, <1>8

\* Every step keeps the invariant.
LEMMA JobsStep == IInv /\ [Next]_vars => IInv'
<1> SUFFICES ASSUME IInv, [Next]_vars PROVE IInv'
  OBVIOUS
<1>1. ASSUME NEW n \in Hosts, Recorder(n) PROVE IInv'
  BY <1>1, JobsScan, JobsEvent, JobsFinish DEF Recorder
<1>2. CASE UNCHANGED vars
  BY <1>2 DEF vars, recVars, IInv, TypeOK, Events, Budget, Moved, Held, Waits, Pending, Spent
<1> QED BY <1>1, <1>2, JobsCrash, JobsGateway DEF Next

--------------------------------------------------------------------------------
(* Theorems *)

\* The invariant holds in every reachable state.
THEOREM JobsInvariant == Spec => []IInv
BY JobsInit, JobsStep, PTL DEF Spec

\* The variables keep their types for every number of hosts, jobs and crashes.
THEOREM JobsTypes == Spec => []TypeOK
<1>1. IInv => TypeOK
  BY DEF IInv
<1> QED BY <1>1, JobsInvariant, PTL

\* A guacrecord does a job at most once in its life, or twice if it could not be moved, however
\* many hosts share the directory.
THEOREM OnceHolds == Spec => []OncePerLife
<1>1. ASSUME IInv, NEW n \in Hosts, NEW j \in Jobs
      PROVE  runs[n][j] <= (IF j \in unmoved THEN 2 ELSE 1)
  <2>1. runs[n][j] \in Nat /\ (j \notin unmoved => runs[n][j] <= 1)
    BY <1>1 DEF IInv, TypeOK, Moved
  <2>2. runs[n][j] + One(cur[n] = j) <= One(j \in seen[n]) + One(Spent(n, j))
    BY <1>1 DEF IInv, Budget
  <2> QED BY <2>1, <2>2 DEF One
<1>2. IInv => OncePerLife
  BY <1>1 DEF OncePerLife
<1> QED BY <1>2, JobsInvariant, PTL

\* Two hosts work on one job only if one of them is still in read_dir, however many hosts there
\* are.
THEOREM OverlapHolds == Spec => []OverlapNeedsScan
<1>1. ASSUME IInv, NEW n \in Hosts, NEW m \in Hosts,
             cur[n] # NoJob, cur[n] = cur[m], n # m
      PROVE  "scan" \in {rec[n], rec[m]}
  <2>1. cur[n] \in Jobs /\ rec[n] # "down" /\ rec[m] # "down"
    BY <1>1 DEF IInv, TypeOK, Events
  <2>2. ~(rec[n] = "watch" /\ rec[m] = "watch")
    BY <1>1, <2>1 DEF IInv, Events, Held
  <2> QED BY <1>1, <2>1, <2>2 DEF IInv, TypeOK
<1>2. IInv => OverlapNeedsScan
  BY <1>1 DEF OverlapNeedsScan
<1> QED BY <1>2, JobsInvariant, PTL

--------------------------------------------------------------------------------
(* RecordingJobs implements JobBoard *)

\* What cannot be moved, or is worked on, was written.
Readable ==
    /\ \A j \in unmoved : file[j] \in {"full", "done"}
    /\ \A n \in Hosts : cur[n] # NoJob => file[cur[n]] \in {"full", "done"}

BInv == IInv /\ Readable

\* A job that was read stays written.
LEMMA ReadableStep == IInv /\ Readable /\ [Next]_vars => Readable'
<1> SUFFICES ASSUME IInv, Readable, [Next]_vars PROVE Readable'
  OBVIOUS
<1>0. TypeOK
  BY DEF IInv
<1>1. ASSUME NEW n \in Hosts, NEW j \in Jobs, Gateway(n, j) PROVE Readable'
  <2>1. cur' = cur /\ unmoved' = unmoved
    BY <1>1 DEF Gateway, Create, Write, Close, recVars
  <2>2. \A k \in Jobs : file[k] \in {"full", "done"} => file'[k] \in {"full", "done"}
    BY <1>0, <1>1 DEF Gateway, Create, Write, Close, TypeOK
  <2> QED BY <1>0, <2>1, <2>2 DEF Readable, TypeOK
<1>2. ASSUME NEW n \in Hosts, NEW j \in Jobs, ReadJob(n, j), UNCHANGED <<file, unmoved>>
      PROVE  Readable'
  <2>1. \A m \in Hosts : cur'[m] = cur[m] \/ (cur'[m] = j /\ file[j] = "full")
    BY <1>0, <1>2 DEF ReadJob, TypeOK
  <2>2. \A m \in Hosts : cur'[m] # NoJob => file[cur'[m]] \in {"full", "done"}
    BY <2>1 DEF Readable
  <2>3. file' = file /\ unmoved' = unmoved
    BY <1>2
  <2> QED BY <2>2, <2>3 DEF Readable
<1>3. ASSUME NEW n \in Hosts, Start(n) \/ Watch(n) PROVE Readable'
  BY <1>3 DEF Start, Watch, Readable
<1>4. ASSUME NEW n \in Hosts, NEW j \in Jobs, ProcessEntry(n, j) PROVE Readable'
  BY <1>2, <1>4 DEF ProcessEntry
<1>5. ASSUME NEW n \in Hosts, ProcessEvent(n) PROVE Readable'
  <2>1. Head(queue[n]) \in Jobs
    BY <1>0, <1>5, InTail DEF ProcessEvent, TypeOK, IInv, Events
  <2> QED BY <1>2, <1>5, <2>1 DEF ProcessEvent
<1>6. ASSUME NEW n \in Hosts, FinishJob(n) PROVE Readable'
  <2>1. cur[n] \in Jobs
    BY <1>0, <1>6 DEF FinishJob, TypeOK
  <2>2. \A m \in Hosts : cur'[m] \in {cur[m], NoJob}
    BY <1>0, <1>6 DEF FinishJob, TypeOK
  <2>3. \A k \in Jobs : file[k] \in {"full", "done"} => file'[k] \in {"full", "done"}
    BY <1>0, <1>6, <2>1 DEF FinishJob, TypeOK
  <2>4. \A k \in unmoved' : k \in unmoved \/ file'[k] \in {"full", "done"}
    BY <1>0, <1>6, <2>1 DEF FinishJob, TypeOK
  <2> QED BY <1>0, <2>2, <2>3, <2>4 DEF Readable, TypeOK
<1>7. ASSUME NEW n \in Hosts, Crash(n) PROVE Readable'
  <2>1. \A m \in Hosts : cur'[m] \in {cur[m], NoJob}
    BY <1>0, <1>7 DEF Crash, TypeOK
  <2> QED BY <1>7, <2>1 DEF Crash, Readable
<1>8. CASE UNCHANGED vars
  BY <1>8 DEF vars, recVars, Readable
<1> QED BY <1>1, <1>3, <1>4, <1>5, <1>6, <1>7, <1>8 DEF Next, Recorder

\* The invariant with what the refinement needs.
LEMMA BoardInvariant == Spec => []BInv
<1>1. Init => BInv
  BY JobsInit DEF Init, Readable, BInv
<1>2. BInv /\ [Next]_vars => BInv'
  BY JobsStep, ReadableStep DEF BInv
<1> QED BY <1>1, <1>2, PTL DEF Spec

\* The board.
Sts       == [j \in Jobs |-> Status(j)]
BoardStep == Board!BoardNext \/ UNCHANGED Board!boardVars

\* InReach in the terms of the queues above.
LEMMA InDomain ==
  ASSUME NEW s \in Seq(Jobs), NEW j
  PROVE  (\E i \in DOMAIN s : s[i] = j) <=> In(s, j)
BY DEF In

\* The status of a job depends on its file, on who writes it and on who will do it.
LEMMA StatusKept ==
  ASSUME NEW j \in Jobs, file'[j] = file[j], writer'[j] = NoHost <=> writer[j] = NoHost,
         j \in unmoved' <=> j \in unmoved,
         file[j] \notin {"none", "empty", "done"} =>
            ((\E n \in Hosts : InReach(n, j)') <=> (\E n \in Hosts : InReach(n, j)))
  PROVE  Status(j)' = Status(j)
BY DEF Status

\* Steps that change the status of no job.
LEMMA StatusesKept ==
  ASSUME \A j \in Jobs : Status(j)' = Status(j)
  PROVE  Sts' = Sts
BY DEF Sts

\* write_job_file: the job comes into being.
LEMMA GatewayOnBoard ==
  ASSUME BInv, NEW n \in Hosts, NEW j \in Jobs, Gateway(n, j)
  PROVE  BoardStep
<1>0. TypeOK /\ Readable /\ NoHost \notin Hosts
  BY JobsAssumption DEF BInv, IInv
<1>1. UNCHANGED <<rec, cur, runs, listed, unmoved>>
  BY DEF Gateway, Create, Write, Close, recVars
<1>2. \A k \in Jobs \ {j} : file'[k] = file[k] /\ writer'[k] = writer[k]
  BY <1>0 DEF Gateway, Create, Write, Close, TypeOK
<1>3. \A m \in Hosts, k \in Jobs : k # j => (InReach(m, k)' <=> InReach(m, k))
  <2>1. CASE queue' = queue
    BY <1>1, <2>1 DEF InReach
  <2>2. CASE queue' = [queue EXCEPT ![n] = Append(queue[n], j)]
    <3> TAKE m \in Hosts, k \in Jobs
    <3> HAVE k # j
    <3>1. queue[m] \in Seq(Jobs) /\ queue'[m] \in Seq(Jobs)
      BY <1>0, <2>2 DEF TypeOK
    <3>2. In(queue'[m], k) <=> In(queue[m], k)
      BY <1>0, <2>2, <3>1, InAppend DEF TypeOK
    <3>3. /\ (\E i \in DOMAIN queue[m] : queue[m][i] = k) <=> In(queue[m], k)
          /\ (\E i \in DOMAIN queue'[m] : queue'[m][i] = k) <=> In(queue'[m], k)
      BY <3>1, InDomain
    <3> QED BY <1>1, <3>2, <3>3 DEF InReach
  <2> QED BY <2>1, <2>2 DEF Gateway, Create, Write, Close, CloseEvent, recVars
<1>4. \A k \in Jobs \ {j} : Status(k)' = Status(k)
  BY <1>1, <1>2, <1>3, StatusKept
<1>5. \/ Status(j)' = Status(j)
      \/ Status(j) = "none" /\ Status(j)' = "open"
      \/ Status(j) = "open" /\ Status(j)' \in {"torn", "waiting", "noticed"}
      \/ Status(j) = "waiting" /\ Status(j)' = "noticed"
  <2>1. CASE Create(n, j)
    BY <1>0, <2>1 DEF Create, Status, TypeOK
  <2>2. CASE Write(n, j)
    <3>1. file[j] = "empty" /\ writer[j] # NoHost /\ j \notin unmoved /\ file'[j] = "full"
      BY <1>0, <2>2 DEF Write, Readable, TypeOK
    <3> QED BY <1>1, <3>1 DEF Status
  <2>3. CASE Close(n, j)
    <3>1. file' = file /\ writer[j] # NoHost /\ writer'[j] = NoHost
      BY <1>0, <2>3 DEF Close, TypeOK
    <3>2. CASE file[j] \in {"none", "done"}
      BY <3>1, <3>2 DEF Status
    <3>3. CASE file[j] = "empty"
      BY <3>1, <3>3 DEF Status
    <3>4. CASE file[j] = "full" /\ j \in unmoved
      BY <1>1, <3>1, <3>4 DEF Status
    <3>5. CASE file[j] = "full" /\ j \notin unmoved
      <4>1. \A m \in Hosts : InReach(m, j) => InReach(m, j)'
        <5> TAKE m \in Hosts
        <5>1. queue[m] \in Seq(Jobs)
          BY <1>0 DEF TypeOK
        <5>2. queue'[m] = queue[m] \/ queue'[m] = Append(queue[m], j)
          BY <1>0, <2>3 DEF Close, CloseEvent, TypeOK
        <5>3. queue'[m] \in Seq(Jobs)
          BY <5>1, <5>2
        <5>4. In(queue[m], j) => In(queue'[m], j)
          BY <5>1, <5>2, InAppend
        <5>5. /\ (\E i \in DOMAIN queue[m] : queue[m][i] = j) <=> In(queue[m], j)
              /\ (\E i \in DOMAIN queue'[m] : queue'[m][i] = j) <=> In(queue'[m], j)
          BY <5>1, <5>3, InDomain
        <5> QED BY <1>1, <5>4, <5>5 DEF InReach
      <4> QED BY <1>1, <3>1, <3>5, <4>1 DEF Status
    <3> QED BY <1>0, <3>2, <3>3, <3>4, <3>5 DEF TypeOK
  <2> QED BY <2>1, <2>2, <2>3 DEF Gateway
<1>6. CASE Status(j)' = Status(j)
  <2>1. Sts' = Sts
    BY <1>4, <1>6, StatusesKept
  <2> QED BY <1>1, <2>1 DEF BoardStep, Board!boardVars, Sts
<1>7. CASE ~(Status(j)' = Status(j))
  <2>1. Sts' = [Sts EXCEPT ![j] = Status(j)'] /\ Sts[j] = Status(j)
    BY <1>4 DEF Sts
  <2>2. Board!Write(j)
    BY <1>1, <1>5, <1>7, <2>1 DEF Board!Write, Board!Becomes, Sts
  <2> QED BY <2>2 DEF BoardStep, Board!BoardNext
<1> QED BY <1>6, <1>7

\* main starts: read_dir will list whatever is there.
LEMMA StartOnBoard ==
  ASSUME BInv, NEW n \in Hosts, Start(n)
  PROVE  BoardStep
<1>0. TypeOK
  BY DEF BInv, IInv
<1>1. UNCHANGED <<file, writer, queue, cur, runs, unmoved>> /\ rec[n] = "down"
      /\ rec' = [rec EXCEPT ![n] = "scan"]
      /\ listed' = [listed EXCEPT ![n] = {j \in Jobs : InDirectory(j)}]
  BY DEF Start
<1>2. ASSUME NEW j \in Jobs
      PROVE  Status(j)' = IF Status(j) = "waiting" THEN "noticed" ELSE Status(j)
  <2>1. CASE file[j] = "full"
    <3>1. InReach(n, j)'
      BY <1>0, <1>1, <2>1 DEF InReach, InDirectory, TypeOK
    <3> QED BY <1>1, <2>1, <3>1 DEF Status
  <2>2. CASE file[j] # "full"
    BY <1>0, <1>1, <2>2 DEF Status, TypeOK
  <2> QED BY <2>1, <2>2
<1>3. Sts' = [j \in Jobs |-> IF Sts[j] = "waiting" THEN "noticed" ELSE Sts[j]]
  BY <1>2 DEF Sts
<1>4. Board!Start(n)
  BY <1>1, <1>3 DEF Board!Start, Sts
<1> QED BY <1>4 DEF BoardStep, Board!BoardNext

\* read_dir is through: nothing changes on the board but the host.
LEMMA WatchOnBoard ==
  ASSUME NEW n \in Hosts, Watch(n)
  PROVE  BoardStep
<1>1. Sts' = Sts
  BY DEF Watch, Sts, Status, InReach
<1>2. Board!Watch(n)
  BY <1>1 DEF Watch, Board!Watch, Sts
<1> QED BY <1>2 DEF BoardStep, Board!BoardNext

\* A host that meets j takes it if it can read it; nothing else changes on the board.  It
\* has not done j in this life, or could not move it, and no two watching hosts do it.
LEMMA MeetOnBoard ==
  ASSUME BInv, BInv', NEW n \in Hosts, NEW j \in Jobs, ReadJob(n, j), cur[n] = NoJob,
         rec[n] # "down", rec[n] = "scan" \/ InReach(n, j),
         UNCHANGED <<file, writer, rec, runs, unmoved>>,
         \A m \in Hosts, k \in Jobs : k # j => (InReach(m, k)' <=> InReach(m, k))
  PROVE  BoardStep
<1>0. TypeOK /\ j # NoJob
  BY JobsAssumption DEF BInv, IInv
<1>1. \A k \in Jobs \ {j} : Status(k)' = Status(k)
  BY StatusKept
<1>2. CASE file[j] # "full"
  <2>1. Status(j)' = Status(j) /\ cur' = cur
    BY <1>0, <1>2, StatusKept DEF ReadJob, TypeOK
  <2>2. Sts' = Sts
    BY <1>1, <2>1, StatusesKept
  <2> QED BY <2>1, <2>2 DEF BoardStep, Board!boardVars, Sts
<1>3. CASE file[j] = "full"
  <2>1. cur' = [cur EXCEPT ![n] = j] /\ cur'[n] = j
    BY <1>0, <1>3 DEF ReadJob, TypeOK
  <2>2. InReach(n, j)'
    BY <2>1 DEF InReach
  <2>3. Status(j)' = IF j \in unmoved THEN "stuck" ELSE "noticed"
    BY <1>3, <2>2 DEF Status
  <2>4. /\ Status(j) = "stuck" <=> j \in unmoved
        /\ Status(j) \in {"stuck", "noticed", "waiting"}
        /\ Status(j) = "waiting" => ~InReach(n, j)
    BY <1>3 DEF Status
  <2>5. Sts' = [Sts EXCEPT ![j] = Status(j)'] /\ Sts[j] = Status(j)
    BY <1>1 DEF Sts
  <2>6. runs[n][j] = 0 \/ (runs[n][j] = 1 /\ Sts[j] = "stuck")
    <3>1. runs[n][j] \in Nat
      BY <1>0 DEF TypeOK
    <3>2. CASE j \notin unmoved
      <4>1. Moved'
        BY DEF BInv, IInv
      <4>2. cur'[n] = j => runs'[n][j] = 0
        BY <3>2, <4>1 DEF Moved
      <4> QED BY <2>1, <4>2
    <3>3. CASE j \in unmoved
      <4>1. runs'[n][j] + One(cur'[n] = j) <= One(j \in seen'[n]) + One(Spent(n, j)')
        BY DEF BInv, IInv, Budget
      <4>2. runs[n][j] <= 1
        BY <2>1, <3>1, <4>1 DEF One
      <4> QED BY <2>4, <2>5, <3>1, <3>3, <4>2
    <3> QED BY <3>2, <3>3
  <2>7. ASSUME NEW m \in Hosts, cur[m] = j
        PROVE  "scan" \in {rec[n], rec[m]}
    <3>1. m # n /\ cur'[m] = j
      BY <1>0, <2>1, <2>7 DEF TypeOK
    <3>2. rec[m] # "down"
      BY <1>0, <2>7 DEF BInv, IInv, Events
    <3>3. ~(rec[n] = "watch" /\ rec[m] = "watch")
      BY <2>1, <3>1 DEF BInv, IInv, Events, Held
    <3> QED BY <1>0, <3>2, <3>3 DEF TypeOK
  <2>8. \/ Board!Becomes(j, {"noticed"}, {"noticed"})
        \/ Board!Becomes(j, {"stuck"}, {"stuck"})
        \/ rec[n] = "scan" /\ Board!Becomes(j, {"waiting"}, {"noticed"})
    BY <2>3, <2>4, <2>5 DEF Board!Becomes, Sts
  <2>9. Board!Take(n, j)
    BY <2>1, <2>6, <2>7, <2>8 DEF Board!Take, Sts
  <2> QED BY <2>9 DEF BoardStep, Board!BoardNext
<1> QED BY <1>2, <1>3

\* The next entry of read_dir.
LEMMA EntryOnBoard ==
  ASSUME BInv, BInv', NEW n \in Hosts, NEW j \in Jobs, ProcessEntry(n, j)
  PROVE  BoardStep
<1>0. TypeOK
  BY DEF BInv, IInv
<1>1. \A m \in Hosts, k \in Jobs : k # j => (k \in listed'[m] <=> k \in listed[m])
  BY <1>0 DEF ProcessEntry, TypeOK
<1>2. \A m \in Hosts, k \in Jobs : k # j => (cur'[m] = k <=> cur[m] = k)
  BY <1>0, JobsAssumption DEF ProcessEntry, ReadJob, TypeOK
<1>3. \A m \in Hosts, k \in Jobs : k # j => (InReach(m, k)' <=> InReach(m, k))
  BY <1>1, <1>2 DEF InReach, ProcessEntry
<1> QED BY <1>3, MeetOnBoard DEF ProcessEntry

\* The next event.
LEMMA EventOnBoard ==
  ASSUME BInv, BInv', NEW n \in Hosts, ProcessEvent(n)
  PROVE  BoardStep
<1>0. TypeOK
  BY DEF BInv, IInv
<1>1. queue[n] \in Seq(Jobs) /\ queue[n] # <<>> /\ Distinct(queue[n])
  BY <1>0 DEF ProcessEvent, TypeOK, BInv, IInv, Events
<1>j. PICK j \in Jobs : j = Head(queue[n])
  BY <1>1, InTail
<1>2. /\ \A k \in Jobs : k # j => (In(Tail(queue[n]), k) <=> In(queue[n], k))
      /\ In(queue[n], j) /\ Tail(queue[n]) \in Seq(Jobs)
  BY <1>1, <1>j, InTail
<1>3. \A m \in Hosts : queue'[m] = IF m = n THEN Tail(queue[n]) ELSE queue[m]
  BY <1>0 DEF ProcessEvent, TypeOK
<1>4. ReadJob(n, j) /\ UNCHANGED <<file, writer, rec, listed, runs, unmoved>>
      /\ cur[n] = NoJob /\ rec[n] = "watch"
  BY <1>j DEF ProcessEvent
<1>5. \A m \in Hosts, k \in Jobs : k # j => (cur'[m] = k <=> cur[m] = k)
  BY <1>0, <1>4, JobsAssumption DEF ReadJob, TypeOK
<1>6. \A m \in Hosts, k \in Jobs : k # j => (InReach(m, k)' <=> InReach(m, k))
  <2> TAKE m \in Hosts, k \in Jobs
  <2> HAVE k # j
  <2>1. queue[m] \in Seq(Jobs) /\ queue'[m] \in Seq(Jobs)
    BY <1>0, <1>2, <1>3 DEF TypeOK
  <2>2. In(queue'[m], k) <=> In(queue[m], k)
    BY <1>2, <1>3
  <2>3. /\ (\E i \in DOMAIN queue[m] : queue[m][i] = k) <=> In(queue[m], k)
        /\ (\E i \in DOMAIN queue'[m] : queue'[m][i] = k) <=> In(queue'[m], k)
    BY <2>1, InDomain
  <2> QED BY <1>4, <1>5, <2>2, <2>3 DEF InReach
<1>7. InReach(n, j)
  BY <1>1, <1>2, InDomain DEF InReach
<1> QED BY <1>4, <1>6, <1>7, MeetOnBoard

\* The end of process_job.
LEMMA FinishOnBoard ==
  ASSUME BInv, NEW n \in Hosts, FinishJob(n)
  PROVE  BoardStep
<1>0. TypeOK /\ Readable
  BY DEF BInv, IInv
<1>j. PICK j \in Jobs : j = cur[n]
  BY <1>0 DEF FinishJob, TypeOK
<1>1. /\ cur' = [cur EXCEPT ![n] = NoJob] /\ j # NoJob
      /\ runs' = [runs EXCEPT ![n][j] = @ + 1]
      /\ UNCHANGED <<writer, rec, listed, queue>>
      /\ \/ file' = [file EXCEPT ![j] = "done"] /\ UNCHANGED unmoved
         \/ /\ file[j] = "full" /\ j \notin unmoved
            /\ unmoved' = unmoved \cup {j}
            /\ UNCHANGED file
  BY <1>j DEF FinishJob
<1>2. \A m \in Hosts, k \in Jobs : k # j => (InReach(m, k)' <=> InReach(m, k))
  BY <1>0, <1>1, <1>j, JobsAssumption DEF InReach, TypeOK
<1>3. \A k \in Jobs \ {j} : /\ file'[k] = file[k]
                            /\ k \in unmoved' <=> k \in unmoved
  BY <1>0, <1>1 DEF TypeOK
<1>4. \A k \in Jobs \ {j} : Status(k)' = Status(k)
  BY <1>1, <1>2, <1>3, StatusKept
<1>5. file[j] \in {"full", "done"} /\ InReach(n, j)
  BY <1>0, <1>1, <1>j DEF Readable, InReach
<1>6. Status(j) \in {"noticed", "stuck", "done"}
  BY <1>5 DEF Status
<1>7. \/ Status(j)' = "done"
      \/ Status(j) = "noticed" /\ Status(j)' = "stuck"
  <2>1. CASE file'[j] = "done"
    BY <2>1 DEF Status
  <2>2. CASE file[j] = "full" /\ j \notin unmoved /\ j \in unmoved' /\ file' = file
    BY <1>5, <2>2 DEF Status
  <2> QED BY <1>0, <1>1, <2>1, <2>2 DEF TypeOK
<1>8. Sts' = [Sts EXCEPT ![j] = Status(j)'] /\ Sts[j] = Status(j)
  BY <1>4 DEF Sts
<1>9. \/ Board!Becomes(j, {"noticed"}, {"stuck", "done"})
      \/ Board!Becomes(j, {"stuck", "done"}, {"done"})
  BY <1>6, <1>7, <1>8 DEF Board!Becomes, Sts
<1>10. Board!Finish(n, j)
  BY <1>1, <1>9, <1>j DEF Board!Finish, Sts
<1> QED BY <1>10 DEF BoardStep, Board!BoardNext

\* A host dies.
LEMMA CrashOnBoard ==
  ASSUME BInv, NEW n \in Hosts, Crash(n)
  PROVE  BoardStep
<1>0. TypeOK
  BY DEF BInv, IInv
<1>1. UNCHANGED <<file, unmoved>>
  BY DEF Crash
<1>2. /\ \A j \in Jobs : writer'[j] \in {writer[j], NoHost}
      /\ \A m \in Hosts : /\ listed'[m] = IF m = n THEN {} ELSE listed[m]
                          /\ queue'[m] = IF m = n THEN <<>> ELSE queue[m]
                          /\ cur'[m] = IF m = n THEN NoJob ELSE cur[m]
  BY <1>0 DEF Crash, TypeOK
<1>3. \A m \in Hosts, j \in Jobs : InReach(m, j)' => InReach(m, j)
  BY <1>2, JobsAssumption DEF InReach
<1> DEFINE forgotten == {j \in Jobs : Status(j) = "noticed" /\ Status(j)' = "waiting"}
           torn      == {j \in Jobs : Status(j) = "open" /\ Status(j)' = "torn"}
<1>4. \A j \in Jobs : Status(j)' = IF j \in forgotten THEN "waiting"
                                   ELSE IF j \in torn THEN "torn" ELSE Status(j)
  <2> TAKE j \in Jobs
  <2>1. \/ Status(j)' = Status(j)
        \/ Status(j) = "noticed" /\ Status(j)' = "waiting"
        \/ Status(j) = "open" /\ Status(j)' = "torn"
    BY <1>0, <1>1, <1>2, <1>3 DEF Status, TypeOK
  <2> QED BY <2>1
<1> HIDE DEF forgotten, torn
<1>5. PICK F \in SUBSET {j \in Jobs : Sts[j] = "noticed"} : F = forgotten
  BY DEF forgotten, Sts
<1>6. PICK T \in SUBSET {j \in Jobs : Sts[j] = "open"} : T = torn
  BY DEF torn, Sts
<1>7. Sts' = [j \in Jobs |-> IF j \in F THEN "waiting"
                             ELSE IF j \in T THEN "torn" ELSE Sts[j]]
  BY <1>4, <1>5, <1>6 DEF Sts
<1>8. Board!Die(n)
  BY <1>5, <1>6, <1>7 DEF Crash, Board!Die, Sts
<1> QED BY <1>8 DEF BoardStep, Board!BoardNext

\* Every step of gateways and guacrecords is a step of JobBoard or a stutter.
LEMMA EveryStepOfBoard == BInv /\ BInv' /\ [Next]_vars => BoardStep
<1> SUFFICES ASSUME BInv, BInv', [Next]_vars PROVE BoardStep
  OBVIOUS
<1>1. CASE UNCHANGED vars
  <2>1. Sts' = Sts
    BY <1>1 DEF vars, recVars, Sts, Status, InReach
  <2> QED BY <1>1, <2>1 DEF vars, recVars, BoardStep, Board!boardVars, Sts
<1> QED BY <1>1, GatewayOnBoard, StartOnBoard, WatchOnBoard, EntryOnBoard, EventOnBoard,
           FinishOnBoard, CrashOnBoard DEF Next, Recorder

\* Gateways, directory scans and inotify events together implement JobBoard, for any number of
\* hosts, jobs and crashes: what a host has noticed it does not drop while it lives, and it does
\* no job twice that could be moved (write_job_file, main and process_job of guacrecord.rs).
THEOREM ImplementsTheBoard == Spec => ImplementsBoard
<1>1. Init => Board!BoardInit
  BY DEF Init, Board!BoardInit, Status
<1>2. BInv /\ BInv' /\ [Next]_vars => [Board!BoardNext]_(Board!boardVars)
  BY EveryStepOfBoard DEF BoardStep
<1> QED BY <1>1, <1>2, BoardInvariant, PTL DEF Spec, ImplementsBoard, Board!BoardSpec

\* JobBoard promises Restraint: no third time in a host's life, no second time but for a job
\* that was stuck, and never two hosts that watch at one job.
THEOREM BoardRestraint == Board!BoardSpec => []Board!Restraint
<1> DEFINE At(n, j) == IF cur[n] = j THEN 1 ELSE 0
           Types    == /\ runs \in [Hosts -> [Jobs -> Nat]]
                       /\ cur \in [Hosts -> Jobs \cup {NoJob}]
                       /\ rec \in [Hosts -> {"down", "scan", "watch"}]
           Twice    == \A n \in Hosts, j \in Jobs :
                          /\ runs[n][j] + At(n, j) <= 2
                          /\ runs[n][j] + At(n, j) = 2 => Sts[j] \in {"stuck", "done"}
           Apart    == \A n, m \in Hosts :
                          cur[n] # NoJob /\ cur[n] = cur[m] /\ n # m => "scan" \in {rec[n], rec[m]}
           Inv      == Types /\ Twice /\ Apart
           Stuck    == {"stuck", "done"}
<1>0. NoJob \notin Jobs
  BY JobsAssumption
<1>r. Board!Restraint <=> Twice /\ Apart
  BY DEF Board!Restraint, Sts
<1>1. Board!BoardInit => Inv
  BY <1>0 DEF Board!BoardInit
<1>2. Inv /\ [Board!BoardNext]_(Board!boardVars) => Inv'
  <2> SUFFICES ASSUME Inv, [Board!BoardNext]_(Board!boardVars) PROVE Inv'
    OBVIOUS
  <2>b. ASSUME NEW j \in Jobs, NEW from, NEW to, Board!Becomes(j, from, to)
        PROVE  /\ Sts[j] \in from /\ Sts'[j] \in to
               /\ \A k \in Jobs \ {j} : Sts'[k] = Sts[k]
    BY <2>b DEF Board!Becomes, Sts
  <2>1. ASSUME NEW j \in Jobs, Board!Write(j) PROVE Inv'
    <3>1. UNCHANGED <<rec, cur, runs>>
      BY <2>1 DEF Board!Write
    <3>2. Sts[j] \notin Stuck /\ \A k \in Jobs \ {j} : Sts'[k] = Sts[k]
      BY <2>1, <2>b DEF Board!Write
    <3> QED BY <3>1, <3>2
  <2>2. ASSUME NEW n \in Hosts, Board!Start(n) PROVE Inv'
    <3>1. rec' = [rec EXCEPT ![n] = "scan"] /\ UNCHANGED <<cur, runs>>
      BY <2>2 DEF Board!Start
    <3>2. \A k \in Jobs : Sts[k] \in Stuck => Sts'[k] = Sts[k]
      BY <2>2 DEF Board!Start, Sts
    <3>3. Types' /\ Apart'
      BY <3>1
    <3> QED BY <3>1, <3>2, <3>3
  <2>3. ASSUME NEW n \in Hosts, Board!Watch(n) PROVE Inv'
    <3>1. cur[n] = NoJob /\ rec' = [rec EXCEPT ![n] = "watch"] /\ UNCHANGED <<cur, runs>>
      BY <2>3 DEF Board!Watch
    <3>2. Sts' = Sts
      BY <2>3 DEF Board!Watch, Sts
    <3>3. Types' /\ Apart'
      BY <3>1
    <3> QED BY <3>1, <3>2, <3>3
  <2>4. ASSUME NEW n \in Hosts, Board!Die(n) PROVE Inv'
    <3>1. /\ rec' = [rec EXCEPT ![n] = "down"] /\ cur' = [cur EXCEPT ![n] = NoJob]
          /\ runs' = [runs EXCEPT ![n] = [j \in Jobs |-> 0]]
      BY <2>4 DEF Board!Die
    <3>2. \A k \in Jobs : Sts[k] \in Stuck => Sts'[k] = Sts[k]
      <4>1. PICK forgotten \in SUBSET {k \in Jobs : Sts[k] = "noticed"},
                 torn \in SUBSET {k \in Jobs : Sts[k] = "open"} :
               Sts' = [k \in Jobs |-> IF k \in forgotten THEN "waiting"
                                      ELSE IF k \in torn THEN "torn" ELSE Sts[k]]
        BY <2>4 DEF Board!Die, Sts
      <4> QED BY <4>1
    <3>3. Types' /\ Apart'
      BY <3>1
    <3>4. ASSUME NEW m \in Hosts, NEW j \in Jobs
          PROVE  runs'[m][j] + At(m, j)' = 0 \/ runs'[m][j] + At(m, j)' = runs[m][j] + At(m, j)
      BY <1>0, <3>1
    <3>5. Twice'
      BY <3>2, <3>4
    <3> QED BY <3>3, <3>5
  <2>5. ASSUME NEW n \in Hosts, NEW j \in Jobs, Board!Take(n, j) PROVE Inv'
    <3>1. /\ cur[n] = NoJob /\ cur' = [cur EXCEPT ![n] = j] /\ UNCHANGED <<rec, runs>>
          /\ runs[n][j] = 0 \/ (runs[n][j] = 1 /\ Sts[j] = "stuck")
          /\ \A m \in Hosts : cur[m] = j => "scan" \in {rec[n], rec[m]}
      BY <2>5 DEF Board!Take, Sts
    <3>2. \A k \in Jobs : Sts[k] \in Stuck => Sts'[k] = Sts[k]
      BY <2>5, <2>b DEF Board!Take
    <3>3. Types' /\ Apart'
      BY <3>1
    <3>4. ASSUME NEW m \in Hosts, NEW k \in Jobs, m # n \/ k # j
          PROVE  runs'[m][k] + At(m, k)' = runs[m][k] + At(m, k)
      BY <1>0, <3>1, <3>4
    <3>5. runs'[n][j] + At(n, j)' <= 2 /\ (runs'[n][j] + At(n, j)' = 2 => Sts[j] = "stuck")
      BY <3>1
    <3>6. Twice'
      BY <3>2, <3>4, <3>5
    <3> QED BY <3>3, <3>6
  <2>6. ASSUME NEW n \in Hosts, NEW j \in Jobs, Board!Finish(n, j) PROVE Inv'
    <3>1. /\ cur[n] = j /\ cur' = [cur EXCEPT ![n] = NoJob] /\ UNCHANGED rec
          /\ runs' = [runs EXCEPT ![n][j] = @ + 1]
      BY <2>6 DEF Board!Finish
    <3>2. /\ Sts'[j] \in Stuck
          /\ \A k \in Jobs \ {j} : Sts'[k] = Sts[k]
      BY <2>6, <2>b DEF Board!Finish
    <3>3. Types' /\ Apart'
      BY <3>1
    <3>4. ASSUME NEW m \in Hosts, NEW k \in Jobs
          PROVE  runs'[m][k] + At(m, k)' = runs[m][k] + At(m, k)
      BY <1>0, <3>1
    <3>5. Twice'
      BY <3>2, <3>4
    <3> QED BY <3>3, <3>5
  <2>7. CASE UNCHANGED Board!boardVars
    BY <2>7 DEF Board!boardVars, Sts
  <2> QED
    BY <2>1, <2>2, <2>3, <2>4, <2>5, <2>6, <2>7 DEF Board!BoardNext
<1> QED BY <1>r, <1>1, <1>2, PTL DEF Board!BoardSpec

\* The hosts keep what JobBoard promises.
COROLLARY RestraintAlways == Spec => []Board!Restraint
BY ImplementsTheBoard, BoardRestraint, PTL DEF ImplementsBoard
=============================================================================
