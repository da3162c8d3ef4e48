------------------------- MODULE ClientSlotsProofs -------------------------
(***************************************************************************)
(* Proofs about ClientSlots for every number of slots, requests and        *)
(* connections, every plan of the requests and every timeout.              *)
(*                                                                         *)
(* The inductive invariant is IInv.  The properties of ClientSlots need,   *)
(* beside each other, that a group of rows not served yet has touched      *)
(* nothing (Untouched), that whatever is in a pool comes from an open loop *)
(* and whatever is on its way there from one that still runs (HandedOver), *)
(* and that a slot shown as taken has a monitor which will say otherwise   *)
(* in time (ShownHasMonitor).                                              *)
(***************************************************************************)
EXTENDS ClientSlots, TLAPS

\* The rows of claim k are still to be served.
Unserved(k) == req[k[1]] = "none" \/ k[2] \in todo[k[1]]

\* A request that is being served has rows left.
RowsLeft ==
    \A r \in Requests : req[r] \in {"claim", "bind", "release"} => todo[r] # {}

\* Claim k has opened no accept loop and accepted no connection.
NoTasks(k) ==
    \A l \in Loops : l[1] = k => listener[l] = "none" /\ \A c \in Conns : of[c] # l

Untouched ==
    \A k \in Claims : Unserved(k) =>
        /\ monitor[k] = "none"
        /\ NoTasks(k)
        /\ idx[k] # 0 => req[k[1]] \in {"bind", "release", "conflict"}
                         /\ k = Current(k[1])

\* Every monitor has the index of a slot; a connection that exists has a claim.
Indexed ==
    /\ \A k \in Claims : monitor[k] # "none" => idx[k] # 0
    /\ \A c \in Conns : conn[c] = "none" <=> of[c] = Free

HandedOver ==
    \A c \in Conns :
        /\ conn[c] \in {"accepted", "pooled"} => of[c][1][2] = "tunnel"
        /\ conn[c] = "accepted" => listener[of[c]] \in {"open", "caught"}
        /\ conn[c] = "pooled" => listener[of[c]] = "open"

ShownHasMonitor ==
    \A i \in Slots : shown[i] = "active" =>
        \E k \in Claims : idx[k] = i /\ monitor[k] \in {"watching", "expired", "released"}

IInv ==
    /\ TypeOK
    /\ RowsLeft
    /\ Untouched
    /\ Indexed
    /\ OneResponsible
    /\ LoopsEndWithSlot
    /\ HandedOver
    /\ ShownHasMonitor

-----------------------------------------------------------------------------
\* What is used of claims being pairs of a request and a kind.
LEMMA ClaimFacts ==
    /\ Claims \subseteq Requests \X Kinds
    /\ Free \notin Claims
    /\ \A k \in Claims : k[1] \in Requests /\ k[2] \in Kinds /\ k = <<k[1], k[2]>>
  BY DEF Claims, Free

\* What is used of accept loops: each has a claim, each claim has one, and only the claim
\* of tunnel rows has several.
LEMMA LoopFacts ==
    /\ \A l \in Loops : l[1] \in Claims /\ l # Free
    /\ \A k \in Claims : \E l \in Loops : l[1] = k
    /\ \A l, m \in Loops : l[1][2] # "tunnel" /\ l[1] = m[1] => l = m
  <1>1. ASSUME NEW l \in Loops
        PROVE  /\ l[1] \in Claims /\ l # Free
               /\ l[1][2] # "tunnel" => l = <<l[1], 1>>
    BY DEF Loops, PortsOf, Free
  <1>2. ASSUME NEW k \in Claims PROVE \E l \in Loops : l[1] = k
    <2>1. 1 \in PortsOf(k)
      BY SlotsAssumption, ClaimFacts DEF PortsOf
    <2>2. <<k, 1>> \in {k} \X PortsOf(k)
      BY <2>1
    <2>3. <<k, 1>> \in Loops
      BY <2>2 DEF Loops
    <2> QED
      BY <2>3
  <1> QED
    BY <1>1, <1>2

\* What is used of slots being numbers.
LEMMA SlotFacts == Slots \subseteq Nat /\ 0 \notin Slots
  BY SlotsAssumption DEF Slots

\* The group that is served is one of the groups that are left.
LEMMA FirstFacts ==
    ASSUME NEW S \in SUBSET Kinds, S # {}
    PROVE  First(S) \in S
  BY DEF First, Kinds

LEMMA CurrentFacts ==
    ASSUME TypeOK, RowsLeft, NEW r \in Requests, req[r] \in {"claim", "bind", "release"}
    PROVE  /\ Current(r) \in Claims
           /\ Current(r)[1] = r
           /\ Current(r)[2] = First(todo[r])
           /\ First(todo[r]) \in todo[r]
           /\ Unserved(Current(r))
  <1>1. First(todo[r]) \in todo[r]
    BY FirstFacts DEF TypeOK, RowsLeft
  <1>2. <<r, First(todo[r])>> \in {r} \X todo[r]
    BY <1>1
  <1>3. Current(r) \in Claims
    BY <1>2 DEF TypeOK, Current
  <1> QED
    BY <1>1, <1>3 DEF Current, Unserved

\* A release keeps the variables typed.
LEMMA ReleaseType ==
    ASSUME TypeOK, NEW i \in Slots, Release(i)
    PROVE  /\ slots' \in [Slots -> Claims \cup {Free}]
           /\ listener' \in [Loops -> LoopStates]
           /\ conn' \in [Conns -> ConnStates]
           /\ of' \in [Conns -> Loops \cup {Free}]
           /\ idle' \in [Claims -> 0..Timeout]
  BY SlotsAssumption
     DEF TypeOK, Release, EmptySlot, AbortLoops, AbortConns, LoopStates, ConnStates

\* The index a task holds is that of a slot which its claim occupies.
LEMMA OwnerFacts ==
    ASSUME TypeOK, OneResponsible, NEW k \in Claims, HandlerOwns(k) \/ MonitorOwns(k)
    PROVE  idx[k] \in Slots /\ slots[idx[k]] = k
  BY DEF TypeOK, OneResponsible, Claimed

THEOREM TypeInit == Init => TypeOK
  BY SlotsAssumption DEF Init, TypeOK, LoopStates, ConnStates

THEOREM TypeStep == IInv /\ [Next]_vars => TypeOK'
  <1> SUFFICES ASSUME IInv, [Next]_vars PROVE TypeOK'
    OBVIOUS
  <1> USE DEF claimVars, connVars
  <1>0. TypeOK /\ RowsLeft /\ OneResponsible /\ Indexed
    BY DEF IInv
  <1>1. CASE UNCHANGED vars
    BY <1>0, <1>1 DEF vars, TypeOK
  <1>2. ASSUME NEW r \in Requests, Receive(r) PROVE TypeOK'
    <2>1. PICK plan \in Plans[r] :
             /\ todo' = [todo EXCEPT ![r] = plan]
             /\ req' = [req EXCEPT ![r] = IF plan = {} THEN "bad_request" ELSE "claim"]
      BY <1>2 DEF Receive
    <2>2. plan \subseteq Kinds
      BY SlotsAssumption
    <2>3. {r} \X plan \subseteq Claims
      BY <2>2 DEF Claims
    <2> QED
      BY <1>0, <1>2, <2>1, <2>2, <2>3 DEF Receive, TypeOK
  <1>3. ASSUME NEW r \in Requests, Handler(r) PROVE TypeOK'
    <2>0. req[r] \in {"claim", "bind", "release"}
      BY <1>3 DEF Handler, Claim, ClaimFails, Bind, BindFails, GiveBack
    <2>1. Current(r) \in Claims /\ Current(r)[1] = r
      BY <1>0, <2>0, CurrentFacts
    <2>2. CASE Claim(r)
      BY <1>0, <2>1, <2>2, SlotsAssumption DEF Claim, Occupy, TypeOK
    <2>3. CASE ClaimFails(r)
      BY <1>0, <2>3 DEF ClaimFails, TypeOK
    <2>4. CASE Bind(r)
      <3>1. idx[Current(r)] \in Slots
        BY <1>0, <2>1, <2>4, OwnerFacts DEF Bind, HandlerOwns
      <3> QED
        BY <1>0, <2>1, <2>4, <3>1 DEF Bind, OpenLoops, NextGroup, LoopStates, TypeOK
    <2>5. CASE BindFails(r)
      BY <1>0, <2>5 DEF BindFails, TypeOK
    <2>6. CASE GiveBack(r)
      <3>1. idx[Current(r)] \in Slots
        BY <1>0, <2>1, <2>6, OwnerFacts DEF GiveBack, HandlerOwns
      <3> QED
        BY <1>0, <2>6, <3>1, ReleaseType DEF GiveBack, TypeOK
    <2> QED
      BY <1>3, <2>2, <2>3, <2>4, <2>5, <2>6 DEF Handler
  <1>4. ASSUME NEW k \in Claims, MonitorTick(k) \/ MonitorReleases(k) \/ MonitorEnds(k)
        PROVE  TypeOK'
    <2>1. idx[k] \in Slots
      BY <1>0, <1>4 DEF MonitorTick, MonitorReports, MonitorExpires, MonitorReleases,
                        MonitorEnds, Indexed, TypeOK
    <2>2. CASE MonitorTick(k)
      BY <1>0, <2>1, <2>2 DEF MonitorTick, MonitorReports, MonitorExpires, TypeOK
    <2>3. CASE MonitorReleases(k)
      BY <1>0, <2>1, <2>3, ReleaseType DEF MonitorReleases, TypeOK
    <2>4. CASE MonitorEnds(k)
      BY <1>0, <2>1, <2>4 DEF MonitorEnds, TypeOK
    <2> QED
      BY <1>4, <2>2, <2>3, <2>4
  <1>5. ASSUME NEW l \in Loops, LoopDropped(l) \/ LoopBreaks(l) PROVE TypeOK'
    BY <1>0, <1>5 DEF LoopDropped, LoopBreaks, LoopStates, TypeOK
  <1>6. ASSUME NEW c \in Conns, NEW l \in Loops, Accept(c, l) PROVE TypeOK'
    BY <1>0, <1>6 DEF Accept, ConnStates, TypeOK
  <1>7. ASSUME NEW c \in Conns, Push(c) \/ Traffic(c) \/ ConnEnds(c) PROVE TypeOK'
    BY <1>0, <1>7, SlotsAssumption
       DEF Push, Traffic, ConnEnds, Touch, ConnStates, TypeOK
  <1>8. CASE Tick
    BY <1>0, <1>8, SlotsAssumption DEF Tick, TypeOK
  <1> QED
    BY <1>1, <1>2, <1>3, <1>4, <1>5, <1>6, <1>7, <1>8 DEF Next, Monitor
-----------------------------------------------------------------------------
(* How the steps change which claims hold a slot.                          *)

\* Occupying a free slot adds one claim.
LEMMA OccupyFacts ==
    ASSUME TypeOK, NEW i \in Slots, NEW k \in Claims, FirstFree(i), Occupy(i, k),
           idx[k] = 0
    PROVE  /\ slots[i] = Free
           /\ Claimed(k)'
           /\ \A j \in Claims \ {k} : Claimed(j)' <=> Claimed(j)
  BY ClaimFacts, SlotFacts DEF TypeOK, FirstFree, FreeSlots, Occupy, Claimed

\* Releasing the slot of a claim removes this claim, tells its loops to stop, ends what
\* they have pushed, and leaves everything else alone.
LEMMA ReleaseFacts ==
    ASSUME TypeOK, NEW k \in Claims, idx[k] \in Slots, slots[idx[k]] = k,
           Release(idx[k]), idx' = idx
    PROVE  /\ ~Claimed(k)'
           /\ \A j \in Claims \ {k} : Claimed(j)' <=> Claimed(j)
           /\ \A l \in Loops : l[1] # k => listener'[l] = listener[l]
           /\ \A l \in Loops : l[1] = k =>
                 /\ listener'[l] # "open"
                 /\ listener'[l] = "none" <=> listener[l] = "none"
                 /\ listener[l] = "open" /\ Busy(l) => listener'[l] = "caught"
                 /\ listener[l] = "caught" => listener'[l] = "caught"
           /\ \A c \in Conns :
                 \/ /\ conn[c] = "pooled" /\ of[c][1] = k
                    /\ conn'[c] = "none" /\ of'[c] = Free
                 \/ /\ ~(conn[c] = "pooled" /\ of[c][1] = k)
                    /\ conn'[c] = conn[c] /\ of'[c] = of[c]
           /\ slots' = [slots EXCEPT ![idx[k]] = Free]
  <1>1. EmptySlot(idx[k]) /\ AbortLoops(k) /\ AbortConns(k)
    BY DEF Release
  <1>2. slots' = [slots EXCEPT ![idx[k]] = Free]
    BY <1>1 DEF EmptySlot
  <1>3. ~Claimed(k)' /\ \A j \in Claims \ {k} : Claimed(j)' <=> Claimed(j)
    BY <1>2, ClaimFacts, SlotFacts DEF TypeOK, Claimed
  <1>4. PICK caught \in SUBSET {l \in Loops : l[1] = k /\ listener[l] = "open"} :
           /\ \A l \in Loops : l[1] = k /\ listener[l] = "open" /\ Busy(l) => l \in caught
           /\ listener' = [l \in Loops |->
                             IF l[1] # k \/ listener[l] # "open" THEN listener[l]
                             ELSE IF l \in caught THEN "caught" ELSE "closed"]
    BY <1>1 DEF AbortLoops
  <1>5. \A c \in Conns :
           \/ /\ conn[c] = "pooled" /\ of[c][1] = k
              /\ conn'[c] = "none" /\ of'[c] = Free
           \/ /\ ~(conn[c] = "pooled" /\ of[c][1] = k)
              /\ conn'[c] = conn[c] /\ of'[c] = of[c]
    BY <1>1 DEF AbortConns, InPool
  <1> QED
    BY <1>2, <1>3, <1>4, <1>5

THEOREM ClaimsInit == Init => RowsLeft /\ Untouched /\ Indexed /\ OneResponsible
  BY ClaimFacts, LoopFacts, SlotFacts
     DEF Init, NoTasks, RowsLeft, Untouched, Indexed, OneResponsible, Claimed, HandlerOwns,
         MonitorOwns

\* The steps of a handler, of a monitor and of the connections each preserve what is
\* known about the claims.
ClaimsInv == RowsLeft /\ Untouched /\ Indexed /\ OneResponsible

LEMMA ClaimStep ==
    ASSUME IInv, NEW r \in Requests, Claim(r)
    PROVE  ClaimsInv'
  <1>0. TypeOK /\ RowsLeft /\ Untouched /\ Indexed /\ OneResponsible
    BY DEF IInv
  <1>k. PICK k \in Claims : k = Current(r)
    BY <1>0, CurrentFacts DEF Claim
  <1>1. req[r] = "claim" /\ k[1] = r /\ k[2] = First(todo[r]) /\ Unserved(k)
    BY <1>0, <1>k, CurrentFacts DEF Claim
  <1>2. idx[k] = 0 /\ monitor[k] = "none"
    BY <1>0, <1>1 DEF Untouched, TypeOK
  <1>3. PICK i \in Slots : FirstFree(i) /\ Occupy(i, k)
    BY <1>k DEF Claim
  <1>4. req' = [req EXCEPT ![r] = "bind"] /\ todo' = todo
        /\ listener' = listener /\ monitor' = monitor /\ conn' = conn /\ of' = of
    BY DEF Claim, connVars
  <1>5. idx' = [idx EXCEPT ![k] = i] /\ slots' = [slots EXCEPT ![i] = k]
    BY <1>3 DEF Occupy
  <1>6. /\ slots[i] = Free /\ Claimed(k)'
        /\ \A j \in Claims \ {k} : Claimed(j)' <=> Claimed(j)
    BY <1>0, <1>1, <1>2, <1>3, OccupyFacts
  <1>7. \A j \in Claims : Current(j[1])' = Current(j[1])
    BY <1>4 DEF Current
  <1>8. /\ HandlerOwns(k)'
        /\ \A j \in Claims \ {k} : HandlerOwns(j)' <=> HandlerOwns(j)
    BY <1>0, <1>k, <1>1, <1>4, <1>7, ClaimFacts DEF HandlerOwns, TypeOK
  <1>9. \A j \in Claims : MonitorOwns(j)' <=> MonitorOwns(j)
    BY <1>4 DEF MonitorOwns
  <1>10. \A j \in Claims : Unserved(j)' => Unserved(j)
    BY <1>0, <1>4, ClaimFacts DEF Unserved, TypeOK
  <1>11. \A j \in Claims : NoTasks(j)' <=> NoTasks(j)
    BY <1>4 DEF NoTasks
  <1>a. RowsLeft'
    BY <1>0, <1>1, <1>4 DEF RowsLeft, TypeOK
  <1>b. Untouched'
    <2> SUFFICES ASSUME NEW j \in Claims, Unserved(j)'
                 PROVE  /\ monitor'[j] = "none" /\ NoTasks(j)'
                        /\ idx'[j] # 0 =>
                              /\ req'[j[1]] \in {"bind", "release", "conflict"}
                              /\ j = Current(j[1])'
      BY DEF Untouched
    <2>1. Unserved(j)
      BY <1>10
    <2>2. CASE j = k
      BY <1>0, <1>k, <1>1, <1>4, <1>7, <1>11, <2>1, <2>2 DEF Untouched, TypeOK
    <2>3. CASE j # k
      BY <1>0, <1>1, <1>4, <1>5, <1>7, <1>11, <2>1, <2>3, ClaimFacts
         DEF Untouched, TypeOK
    <2> QED
      BY <2>2, <2>3
  <1>c. Indexed'
    BY <1>0, <1>1, <1>2, <1>4, <1>5 DEF Indexed, TypeOK
  <1>d. OneResponsible'
    <2>1. \A j \in Claims : Claimed(j)' <=> HandlerOwns(j)' \/ MonitorOwns(j)'
      BY <1>0, <1>6, <1>8, <1>9 DEF OneResponsible
    <2>2. \A j \in Claims : ~(HandlerOwns(j)' /\ MonitorOwns(j)')
      BY <1>0, <1>2, <1>8, <1>9 DEF OneResponsible, MonitorOwns
    <2>3. \A j \in Slots : slots'[j] # Free => idx'[slots'[j]] = j
      BY <1>0, <1>1, <1>2, <1>5, SlotFacts DEF OneResponsible, TypeOK
    <2> QED
      BY <2>1, <2>2, <2>3 DEF OneResponsible
  <1> QED
    BY <1>a, <1>b, <1>c, <1>d DEF ClaimsInv

LEMMA ReceiveStep ==
    ASSUME IInv, NEW r \in Requests, Receive(r)
    PROVE  ClaimsInv'
  <1>0. TypeOK /\ RowsLeft /\ Untouched /\ Indexed /\ OneResponsible
    BY DEF IInv
  <1>1. PICK plan \in Plans[r] :
           /\ todo' = [todo EXCEPT ![r] = plan]
           /\ req' = [req EXCEPT ![r] = IF plan = {} THEN "bad_request" ELSE "claim"]
    BY DEF Receive
  <1>2. req[r] = "none" /\ UNCHANGED <<slots, idx, listener, monitor, conn, of>>
    BY DEF Receive, claimVars, connVars
  <1>3. \A k \in Claims : k[1] # r => Current(k[1])' = Current(k[1])
    BY <1>0, <1>1, ClaimFacts DEF Current, TypeOK
  <1>4. \A k \in Claims : Unserved(k)' => Unserved(k)
    BY <1>0, <1>1, <1>2, ClaimFacts DEF Unserved, TypeOK
  <1>5. \A k \in Claims : HandlerOwns(k)' <=> HandlerOwns(k)
    <2> SUFFICES ASSUME NEW k \in Claims PROVE HandlerOwns(k)' <=> HandlerOwns(k)
      OBVIOUS
    <2>1. CASE k[1] = r
      BY <1>0, <1>1, <1>2, <2>1 DEF HandlerOwns, TypeOK
    <2>2. CASE k[1] # r
      BY <1>0, <1>1, <1>3, <2>2, ClaimFacts DEF HandlerOwns, TypeOK
    <2> QED
      BY <2>1, <2>2
  <1>6. \A k \in Claims : NoTasks(k)' <=> NoTasks(k)
    BY <1>2 DEF NoTasks
  <1>a. RowsLeft'
    BY <1>0, <1>1 DEF RowsLeft, TypeOK
  <1>b. Untouched'
    <2> SUFFICES ASSUME NEW k \in Claims, Unserved(k)'
                 PROVE  /\ monitor'[k] = "none" /\ NoTasks(k)'
                        /\ idx'[k] # 0 =>
                              /\ req'[k[1]] \in {"bind", "release", "conflict"}
                              /\ k = Current(k[1])'
      BY DEF Untouched
    <2>1. Unserved(k)
      BY <1>4
    <2>2. CASE k[1] = r
      BY <1>0, <1>2, <1>6, <2>1, <2>2 DEF Untouched, TypeOK
    <2>3. CASE k[1] # r
      BY <1>0, <1>1, <1>2, <1>3, <1>6, <2>1, <2>3, ClaimFacts
         DEF Untouched, TypeOK
    <2> QED
      BY <2>2, <2>3
  <1>c. Indexed'
    BY <1>0, <1>2 DEF Indexed
  <1>d. OneResponsible'
    BY <1>0, <1>2, <1>5 DEF OneResponsible, Claimed, MonitorOwns
  <1> QED
    BY <1>a, <1>b, <1>c, <1>d DEF ClaimsInv

\* A handler that only answers, or goes from a failed bind to the release.
LEMMA RefusalStep ==
    ASSUME IInv, NEW r \in Requests, ClaimFails(r) \/ BindFails(r)
    PROVE  ClaimsInv'
  <1>0. TypeOK /\ RowsLeft /\ Untouched /\ Indexed /\ OneResponsible
    BY DEF IInv
  <1>1. UNCHANGED <<todo, slots, idx, listener, monitor, conn, of>>
    BY DEF ClaimFails, BindFails, claimVars, connVars
  <1>2. \/ req[r] = "claim" /\ req' = [req EXCEPT ![r] = "unavailable"]
        \/ req[r] = "bind" /\ req' = [req EXCEPT ![r] = "release"]
    BY DEF ClaimFails, BindFails
  <1>3. \A k \in Claims : Current(k[1])' = Current(k[1])
    BY <1>1 DEF Current
  <1>4. \A k \in Claims : Unserved(k)' <=> Unserved(k)
    BY <1>0, <1>1, <1>2, ClaimFacts DEF Unserved, TypeOK
  <1>5. \A k \in Claims : HandlerOwns(k)' <=> HandlerOwns(k)
    BY <1>0, <1>2, <1>3, ClaimFacts DEF HandlerOwns, TypeOK
  <1>6. \A k \in Claims : NoTasks(k)' <=> NoTasks(k)
    BY <1>1 DEF NoTasks
  <1>a. RowsLeft'
    BY <1>0, <1>1, <1>2 DEF RowsLeft, TypeOK
  <1>b. Untouched'
    BY <1>0, <1>1, <1>2, <1>3, <1>4, <1>6, ClaimFacts DEF Untouched, TypeOK
  <1>c. Indexed'
    BY <1>0, <1>1 DEF Indexed
  <1>d. OneResponsible'
    BY <1>0, <1>1, <1>5 DEF OneResponsible, Claimed, MonitorOwns
  <1> QED
    BY <1>a, <1>b, <1>c, <1>d DEF ClaimsInv

\* The monitor takes the claim over from the handler.
LEMMA BindStep ==
    ASSUME IInv, NEW r \in Requests, Bind(r)
    PROVE  ClaimsInv'
  <1>0. TypeOK /\ RowsLeft /\ Untouched /\ Indexed /\ OneResponsible
    BY DEF IInv
  <1>k. PICK k \in Claims : k = Current(r)
    BY <1>0, CurrentFacts DEF Bind
  <1>1. /\ req[r] = "bind" /\ k[1] = r /\ k[2] = First(todo[r])
        /\ First(todo[r]) \in todo[r] /\ Unserved(k)
    BY <1>0, <1>k, CurrentFacts DEF Bind
  <1>2. /\ OpenLoops(k)
        /\ monitor' = [monitor EXCEPT ![k] = "watching"]
        /\ UNCHANGED <<slots, idx, conn, of>>
    BY <1>k DEF Bind, claimVars, connVars
  <1>3. /\ todo' = [todo EXCEPT ![r] = todo[r] \ {k[2]}]
        /\ req' = [req EXCEPT ![r] = IF todo[r] \ {k[2]} = {} THEN "ok" ELSE "claim"]
    BY <1>0, <1>1 DEF Bind, NextGroup, TypeOK
  <1>4. HandlerOwns(k) /\ Claimed(k) /\ idx[k] # 0
    BY <1>0, <1>k, <1>1 DEF HandlerOwns, OneResponsible, Claimed
  <1>5. \A j \in Claims : j[1] # r => Current(j[1])' = Current(j[1])
    BY <1>0, <1>3, ClaimFacts DEF Current, TypeOK
  <1>6. ~Unserved(k)' /\ \A j \in Claims : Unserved(j)' => Unserved(j)
    BY <1>0, <1>1, <1>3, ClaimFacts DEF Unserved, TypeOK
  <1>7. ~HandlerOwns(k)' /\ \A j \in Claims \ {k} : HandlerOwns(j)' <=> HandlerOwns(j)
    <2>1. \A j \in Claims : j[1] = r => ~HandlerOwns(j)'
      BY <1>0, <1>3 DEF HandlerOwns, TypeOK
    <2>2. \A j \in Claims \ {k} : j[1] = r => ~HandlerOwns(j)
      BY <1>k DEF HandlerOwns
    <2>3. \A j \in Claims : j[1] # r => (HandlerOwns(j)' <=> HandlerOwns(j))
      BY <1>0, <1>3, <1>5, ClaimFacts DEF HandlerOwns, TypeOK
    <2> QED
      BY <1>1, <2>1, <2>2, <2>3
  <1>8. MonitorOwns(k)' /\ \A j \in Claims \ {k} : MonitorOwns(j)' <=> MonitorOwns(j)
    BY <1>0, <1>2 DEF MonitorOwns, TypeOK
  <1>9. \A j \in Claims \ {k} : NoTasks(j) => NoTasks(j)'
    BY <1>2 DEF NoTasks, OpenLoops
  <1>a. RowsLeft'
    BY <1>0, <1>3 DEF RowsLeft, TypeOK
  <1>b. Untouched'
    <2> SUFFICES ASSUME NEW j \in Claims, Unserved(j)'
                 PROVE  /\ monitor'[j] = "none" /\ NoTasks(j)'
                        /\ idx'[j] # 0 =>
                              /\ req'[j[1]] \in {"bind", "release", "conflict"}
                              /\ j = Current(j[1])'
      BY DEF Untouched
    <2>1. Unserved(j) /\ j # k
      BY <1>6
    <2>2. CASE j[1] = r
      BY <1>0, <1>k, <1>2, <1>9, <2>1, <2>2 DEF Untouched, TypeOK
    <2>3. CASE j[1] # r
      BY <1>0, <1>2, <1>3, <1>5, <1>9, <2>1, <2>3, ClaimFacts DEF Untouched, TypeOK
    <2> QED
      BY <2>2, <2>3
  <1>c. Indexed'
    BY <1>0, <1>2, <1>4 DEF Indexed, TypeOK
  <1>d. OneResponsible'
    <2>1. \A j \in Claims : Claimed(j)' <=> Claimed(j)
      BY <1>2 DEF Claimed
    <2> QED
      BY <1>0, <1>2, <1>4, <1>7, <1>8, <2>1 DEF OneResponsible
  <1> QED
    BY <1>a, <1>b, <1>c, <1>d DEF ClaimsInv

\* The two releases: by the handler whose bind failed, and by the monitor.
LEMMA GiveBackStep ==
    ASSUME IInv, NEW r \in Requests, GiveBack(r)
    PROVE  ClaimsInv'
  <1>0. TypeOK /\ RowsLeft /\ Untouched /\ Indexed /\ OneResponsible
    BY DEF IInv
  <1>k. PICK k \in Claims : k = Current(r)
    BY <1>0, CurrentFacts DEF GiveBack
  <1>1. req[r] = "release" /\ k[1] = r /\ Unserved(k)
    BY <1>0, <1>k, CurrentFacts DEF GiveBack
  <1>2. HandlerOwns(k)
    BY <1>k, <1>1 DEF HandlerOwns
  <1>3. idx[k] \in Slots /\ slots[idx[k]] = k
    BY <1>0, <1>2, OwnerFacts
  <1>4. /\ Release(idx[k])
        /\ req' = [req EXCEPT ![r] = "conflict"]
        /\ UNCHANGED <<todo, idx, monitor>>
    BY <1>k DEF GiveBack
  <1>5. /\ ~Claimed(k)'
        /\ \A j \in Claims \ {k} : Claimed(j)' <=> Claimed(j)
        /\ \A j \in Claims : NoTasks(j) => NoTasks(j)'
        /\ \A c \in Conns : conn'[c] = "none" <=> of'[c] = Free
        /\ slots' = [slots EXCEPT ![idx[k]] = Free]
    BY <1>0, <1>3, <1>4, ReleaseFacts, LoopFacts DEF NoTasks, Indexed
  <1>6. \A j \in Claims : Current(j[1])' = Current(j[1])
    BY <1>4 DEF Current
  <1>7. ~HandlerOwns(k)' /\ \A j \in Claims \ {k} : HandlerOwns(j)' <=> HandlerOwns(j)
    <2>1. \A j \in Claims : j[1] = r => ~HandlerOwns(j)'
      BY <1>0, <1>4 DEF HandlerOwns, TypeOK
    <2>2. \A j \in Claims \ {k} : j[1] = r => ~HandlerOwns(j)
      BY <1>k DEF HandlerOwns
    <2>3. \A j \in Claims : j[1] # r => (HandlerOwns(j)' <=> HandlerOwns(j))
      BY <1>0, <1>4, <1>6, ClaimFacts DEF HandlerOwns, TypeOK
    <2> QED
      BY <1>1, <2>1, <2>2, <2>3
  <1>8. \A j \in Claims : Unserved(j)' <=> Unserved(j)
    BY <1>0, <1>1, <1>4, ClaimFacts DEF Unserved, TypeOK
  <1>a. RowsLeft'
    BY <1>0, <1>4 DEF RowsLeft, TypeOK
  <1>b. Untouched'
    <2> SUFFICES ASSUME NEW j \in Claims, Unserved(j)'
                 PROVE  /\ monitor'[j] = "none" /\ NoTasks(j)'
                        /\ idx'[j] # 0 =>
                              /\ req'[j[1]] \in {"bind", "release", "conflict"}
                              /\ j = Current(j[1])'
      BY DEF Untouched
    <2>1. Unserved(j)
      BY <1>8
    <2>2. monitor'[j] = "none" /\ NoTasks(j)'
      BY <1>0, <1>4, <1>5, <2>1 DEF Untouched
    <2>3. idx[j] # 0 => /\ req[j[1]] \in {"bind", "release", "conflict"}
                        /\ j = Current(j[1])
      BY <1>0, <2>1 DEF Untouched
    <2> QED
      BY <1>0, <1>4, <1>6, <2>2, <2>3, ClaimFacts DEF TypeOK
  <1>c. Indexed'
    BY <1>0, <1>4, <1>5 DEF Indexed
  <1>d. OneResponsible'
    <2>1. \A j \in Claims : MonitorOwns(j)' <=> MonitorOwns(j)
      BY <1>4 DEF MonitorOwns
    <2>2. \A j \in Slots : slots'[j] # Free => idx'[slots'[j]] = j
      BY <1>0, <1>3, <1>4, <1>5 DEF OneResponsible, TypeOK
    <2> QED
      BY <1>0, <1>2, <1>5, <1>7, <2>1, <2>2 DEF OneResponsible
  <1> QED
    BY <1>a, <1>b, <1>c, <1>d DEF ClaimsInv

LEMMA MonitorReleasesStep ==
    ASSUME IInv, NEW k \in Claims, MonitorReleases(k)
    PROVE  ClaimsInv'
  <1>0. TypeOK /\ RowsLeft /\ Untouched /\ Indexed /\ OneResponsible
    BY DEF IInv
  <1>1. MonitorOwns(k) /\ idx[k] \in Slots /\ slots[idx[k]] = k
    BY <1>0, OwnerFacts DEF MonitorReleases, MonitorOwns
  <1>2. /\ Release(idx[k])
        /\ monitor' = [monitor EXCEPT ![k] = "released"]
        /\ UNCHANGED <<req, todo, idx>>
    BY DEF MonitorReleases
  <1>3. /\ ~Claimed(k)'
        /\ \A j \in Claims \ {k} : Claimed(j)' <=> Claimed(j)
        /\ \A j \in Claims : NoTasks(j) => NoTasks(j)'
        /\ \A c \in Conns : conn'[c] = "none" <=> of'[c] = Free
        /\ slots' = [slots EXCEPT ![idx[k]] = Free]
    BY <1>0, <1>1, <1>2, ReleaseFacts, LoopFacts DEF NoTasks, Indexed
  <1>4. ~MonitorOwns(k)' /\ \A j \in Claims \ {k} : MonitorOwns(j)' <=> MonitorOwns(j)
    BY <1>0, <1>2 DEF MonitorOwns, TypeOK
  <1>5. \A j \in Claims : /\ HandlerOwns(j)' <=> HandlerOwns(j)
                          /\ Unserved(j)' <=> Unserved(j)
                          /\ Current(j[1])' = Current(j[1])
    BY <1>2 DEF HandlerOwns, Unserved, Current
  <1>a. RowsLeft'
    BY <1>0, <1>2 DEF RowsLeft
  <1>b. Untouched'
    <2>1. ~Unserved(k)
      BY <1>0, <1>1 DEF Untouched, MonitorOwns
    <2> QED
      BY <1>0, <1>2, <1>3, <1>5, <2>1 DEF Untouched, TypeOK
  <1>c. Indexed'
    BY <1>0, <1>1, <1>2, <1>3, SlotFacts DEF Indexed, TypeOK
  <1>d. OneResponsible'
    <2>1. \A j \in Slots : slots'[j] # Free => idx'[slots'[j]] = j
      BY <1>0, <1>1, <1>2, <1>3 DEF OneResponsible, TypeOK
    <2> QED
      BY <1>0, <1>1, <1>3, <1>4, <1>5, <2>1 DEF OneResponsible
  <1> QED
    BY <1>a, <1>b, <1>c, <1>d DEF ClaimsInv

\* A monitor that only reads the clock or tells the frontend.
LEMMA MonitorStep ==
    ASSUME IInv, NEW k \in Claims, MonitorTick(k) \/ MonitorEnds(k)
    PROVE  ClaimsInv'
  <1>0. TypeOK /\ RowsLeft /\ Untouched /\ Indexed /\ OneResponsible
    BY DEF IInv
  <1>1. UNCHANGED <<req, todo, slots, idx, listener, conn, of>>
    BY DEF MonitorTick, MonitorReports, MonitorExpires, MonitorEnds, claimVars, connVars
  <1>2. /\ monitor[k] # "none" /\ monitor'[k] # "none"
        /\ \A j \in Claims \ {k} : monitor'[j] = monitor[j]
        /\ \A j \in Claims : MonitorOwns(j)' <=> MonitorOwns(j)
    BY <1>0 DEF MonitorTick, MonitorReports, MonitorExpires, MonitorEnds, MonitorOwns,
                TypeOK
  <1>3. \A j \in Claims : /\ HandlerOwns(j)' <=> HandlerOwns(j)
                          /\ Unserved(j)' <=> Unserved(j)
                          /\ Current(j[1])' = Current(j[1])
                          /\ Claimed(j)' <=> Claimed(j)
    BY <1>1 DEF HandlerOwns, Unserved, Current, Claimed
  <1>a. RowsLeft'
    BY <1>0, <1>1 DEF RowsLeft
  <1>b. Untouched'
    BY <1>0, <1>1, <1>2, <1>3 DEF Untouched, NoTasks
  <1>c. Indexed'
    BY <1>0, <1>1, <1>2 DEF Indexed
  <1>d. OneResponsible'
    BY <1>0, <1>1, <1>2, <1>3 DEF OneResponsible
  <1> QED
    BY <1>a, <1>b, <1>c, <1>d DEF ClaimsInv

\* Accept loops, connections and the clock do not touch the claims.
LEMMA TaskStep ==
    ASSUME IInv,
           \/ \E l \in Loops : LoopDropped(l) \/ LoopBreaks(l)
           \/ \E l \in Loops, c \in Conns : Accept(c, l)
           \/ \E c \in Conns : Push(c) \/ Traffic(c) \/ ConnEnds(c)
           \/ Tick
    PROVE  ClaimsInv'
  <1>0. TypeOK /\ RowsLeft /\ Untouched /\ Indexed /\ OneResponsible
    BY DEF IInv
  <1>1. UNCHANGED <<req, todo, slots, idx, monitor>>
    BY DEF LoopDropped, LoopBreaks, Accept, Push, Traffic, ConnEnds, Tick, claimVars
  <1>2. \A j \in Claims : NoTasks(j) => NoTasks(j)'
    <2>1. CASE \E l \in Loops, c \in Conns : Accept(c, l)
      BY <1>0, <2>1 DEF Accept, NoTasks, TypeOK
    <2>2. CASE \E l \in Loops : LoopDropped(l) \/ LoopBreaks(l)
      BY <1>0, <2>2 DEF LoopDropped, LoopBreaks, connVars, NoTasks, TypeOK
    <2>3. CASE \E c \in Conns : ConnEnds(c)
      BY <1>0, <2>3, LoopFacts DEF ConnEnds, NoTasks, TypeOK
    <2>4. CASE UNCHANGED <<listener, of>>
      BY <2>4 DEF NoTasks
    <2> QED
      BY <2>1, <2>2, <2>3, <2>4 DEF Push, Traffic, Tick, connVars
  <1>4. \A c \in Conns : conn'[c] = "none" <=> of'[c] = Free
    BY <1>0, LoopFacts
       DEF LoopDropped, LoopBreaks, Accept, Push, Traffic, ConnEnds, Tick, connVars,
           Indexed, TypeOK
  <1>5. \A j \in Claims : /\ HandlerOwns(j)' <=> HandlerOwns(j)
                          /\ Unserved(j)' <=> Unserved(j)
                          /\ Current(j[1])' = Current(j[1])
                          /\ Claimed(j)' <=> Claimed(j)
                          /\ MonitorOwns(j)' <=> MonitorOwns(j)
    BY <1>1 DEF HandlerOwns, Unserved, Current, Claimed, MonitorOwns
  <1>a. RowsLeft'
    BY <1>0, <1>1 DEF RowsLeft
  <1>b. Untouched'
    BY <1>0, <1>1, <1>2, <1>5 DEF Untouched
  <1>c. Indexed'
    BY <1>0, <1>1, <1>4 DEF Indexed
  <1>d. OneResponsible'
    BY <1>0, <1>1, <1>5 DEF OneResponsible
  <1> QED
    BY <1>a, <1>b, <1>c, <1>d DEF ClaimsInv

\* OneResponsible, with what it needs, is preserved by every step.
THEOREM ClaimsStep == IInv /\ [Next]_vars => ClaimsInv'
  <1> SUFFICES ASSUME IInv, [Next]_vars PROVE ClaimsInv'
    OBVIOUS
  <1>1. CASE UNCHANGED vars
    BY <1>1 DEF vars, claimVars, connVars, IInv, ClaimsInv, RowsLeft, Untouched, NoTasks, Indexed,
                OneResponsible, Unserved, Current, Claimed, HandlerOwns, MonitorOwns
  <1>2. ASSUME NEW r \in Requests, Handler(r) PROVE ClaimsInv'
    BY <1>2, ClaimStep, RefusalStep, BindStep, GiveBackStep DEF Handler
  <1> QED
    BY <1>1, <1>2, ReceiveStep, MonitorStep, MonitorReleasesStep, TaskStep
       DEF Next, Monitor

-----------------------------------------------------------------------------
(* Tasks, the frontend, and the theorems.                                  *)

TasksInv == LoopsEndWithSlot /\ HandedOver

THEOREM TasksInit == Init => TasksInv /\ ShownHasMonitor
  BY DEF Init, TasksInv, LoopsEndWithSlot, HandedOver, ShownHasMonitor

\* A release tells the loops of the claim to stop and aborts its pooled connections; the
\* loop of a connection that is about to be pushed is caught.
LEMMA ReleaseTasks ==
    ASSUME IInv, NEW k \in Claims, idx[k] \in Slots, slots[idx[k]] = k,
           Release(idx[k]), idx' = idx
    PROVE  TasksInv'
  <1>0. TypeOK /\ LoopsEndWithSlot /\ HandedOver /\ Indexed
    BY DEF IInv
  <1>1. /\ \A j \in Claims \ {k} : Claimed(j)' <=> Claimed(j)
        /\ \A l \in Loops : l[1] # k => listener'[l] = listener[l]
        /\ \A l \in Loops : l[1] = k =>
              /\ listener'[l] # "open"
              /\ listener[l] = "open" /\ Busy(l) => listener'[l] = "caught"
              /\ listener[l] = "caught" => listener'[l] = "caught"
        /\ \A c \in Conns :
              \/ conn'[c] = "none"
              \/ /\ ~(conn[c] = "pooled" /\ of[c][1] = k)
                 /\ conn'[c] = conn[c] /\ of'[c] = of[c]
    BY <1>0, ReleaseFacts
  <1>2. LoopsEndWithSlot'
    BY <1>0, <1>1, LoopFacts DEF LoopsEndWithSlot
  <1>3. HandedOver'
    <2> SUFFICES ASSUME NEW c \in Conns, conn'[c] \in {"accepted", "pooled"}
                 PROVE  /\ of'[c][1][2] = "tunnel"
                        /\ conn'[c] = "accepted" => listener'[of'[c]] \in {"open", "caught"}
                        /\ conn'[c] = "pooled" => listener'[of'[c]] = "open"
      BY DEF HandedOver
    <2>1. /\ conn'[c] = conn[c] /\ of'[c] = of[c]
          /\ ~(conn[c] = "pooled" /\ of[c][1] = k)
      BY <1>1
    <2>2. of[c] \in Loops
      BY <1>0, <2>1 DEF Indexed, TypeOK
    <2>3. conn[c] = "accepted" => Busy(of[c])
      BY DEF Busy
    <2>4. CASE of[c][1] = k
      BY <1>0, <1>1, <2>1, <2>2, <2>3, <2>4 DEF HandedOver
    <2>5. CASE of[c][1] # k
      BY <1>0, <1>1, <2>1, <2>2, <2>5 DEF HandedOver
    <2> QED
      BY <2>4, <2>5
  <1> QED
    BY <1>2, <1>3 DEF TasksInv

\* Steps that leave accept loops and connections alone, and take no claim's slot.
LEMMA QuietTasks ==
    ASSUME IInv, UNCHANGED <<listener, conn, of>>,
           \A k \in Claims : Claimed(k) => Claimed(k)'
    PROVE  TasksInv'
  BY LoopFacts DEF IInv, TasksInv, LoopsEndWithSlot, HandedOver

\* The loops of a claim whose listeners are bound open; it has no connection yet.
LEMMA BindTasks ==
    ASSUME IInv, NEW r \in Requests, Bind(r)
    PROVE  TasksInv'
  <1>0. TypeOK /\ RowsLeft /\ Untouched /\ OneResponsible /\ LoopsEndWithSlot
        /\ HandedOver /\ Indexed
    BY DEF IInv
  <1>k. PICK k \in Claims : k = Current(r)
    BY <1>0, CurrentFacts DEF Bind
  <1>1. Claimed(k) /\ NoTasks(k)
    BY <1>0, <1>k, CurrentFacts DEF Bind, HandlerOwns, OneResponsible, Untouched
  <1>2. /\ listener' = [l \in Loops |-> IF l[1] = k THEN "open" ELSE listener[l]]
        /\ UNCHANGED <<slots, idx, conn, of>>
    BY <1>k DEF Bind, OpenLoops, claimVars, connVars
  <1>3. \A j \in Claims : Claimed(j)' <=> Claimed(j)
    BY <1>2 DEF Claimed
  <1>4. LoopsEndWithSlot'
    BY <1>0, <1>1, <1>2, <1>3, LoopFacts DEF LoopsEndWithSlot
  <1>5. \A c \in Conns : conn[c] # "none" => of[c] \in Loops /\ of[c][1] # k
    BY <1>0, <1>1 DEF Indexed, NoTasks, TypeOK
  <1>6. HandedOver'
    BY <1>0, <1>2, <1>5 DEF HandedOver
  <1> QED
    BY <1>4, <1>6 DEF TasksInv

\* The steps of accept loops and connections.
LEMMA LoopTasks ==
    ASSUME IInv, NEW l \in Loops, LoopDropped(l) \/ LoopBreaks(l)
    PROVE  TasksInv'
  <1>0. TypeOK /\ LoopsEndWithSlot /\ HandedOver /\ Indexed
    BY DEF IInv
  <1>1. /\ listener' = [listener EXCEPT ![l] = "closed"]
        /\ UNCHANGED <<slots, idx, conn, of>>
    BY DEF LoopDropped, LoopBreaks, claimVars, connVars
  <1>2. LoopsEndWithSlot'
    BY <1>0, <1>1 DEF LoopsEndWithSlot, Claimed, TypeOK
  <1>3. ASSUME NEW c \in Conns, conn[c] \in {"accepted", "pooled"} PROVE of[c] # l
    <2>1. CASE LoopDropped(l)
      BY <1>0, <1>3, <2>1 DEF LoopDropped, HandedOver, Busy
    <2>2. CASE LoopBreaks(l)
      BY <1>0, <1>3, <2>2 DEF LoopBreaks, HandedOver
    <2> QED
      BY <2>1, <2>2
  <1>4. HandedOver'
    BY <1>0, <1>1, <1>3 DEF HandedOver, Indexed, TypeOK
  <1> QED
    BY <1>2, <1>4 DEF TasksInv

LEMMA AcceptTasks ==
    ASSUME IInv, NEW c \in Conns, NEW l \in Loops, Accept(c, l)
    PROVE  TasksInv'
  <1>0. TypeOK /\ LoopsEndWithSlot /\ HandedOver
    BY DEF IInv
  <1>1. /\ listener[l] \in {"open", "caught"} /\ of' = [of EXCEPT ![c] = l]
        /\ conn' = [conn EXCEPT ![c] = IF l[1][2] = "tunnel" THEN "accepted" ELSE "detached"]
        /\ UNCHANGED <<slots, idx, listener>>
    BY DEF Accept, claimVars
  <1>2. LoopsEndWithSlot'
    BY <1>0, <1>1 DEF LoopsEndWithSlot, Claimed
  <1>3. HandedOver'
    BY <1>0, <1>1 DEF HandedOver, TypeOK
  <1> QED
    BY <1>2, <1>3 DEF TasksInv

LEMMA ConnTasks ==
    ASSUME IInv, NEW c \in Conns, Push(c) \/ ConnEnds(c)
    PROVE  TasksInv'
  <1>0. TypeOK /\ LoopsEndWithSlot /\ HandedOver
    BY DEF IInv
  <1>1. UNCHANGED <<slots, idx, listener>>
    BY DEF Push, ConnEnds, claimVars
  <1>2. LoopsEndWithSlot'
    BY <1>0, <1>1 DEF LoopsEndWithSlot, Claimed
  <1>3. HandedOver'
    BY <1>0, <1>1 DEF Push, ConnEnds, HandedOver, TypeOK
  <1> QED
    BY <1>2, <1>3 DEF TasksInv

\* LoopsEndWithSlot and HandedOver are preserved by every step.
THEOREM TasksStep == IInv /\ [Next]_vars => TasksInv'
  <1> SUFFICES ASSUME IInv, [Next]_vars PROVE TasksInv'
    OBVIOUS
  <1> USE DEF claimVars, connVars
  <1>0. TypeOK /\ RowsLeft /\ Untouched /\ OneResponsible
    BY DEF IInv
  <1>1. ASSUME UNCHANGED <<slots, idx, listener, conn, of>> PROVE TasksInv'
    BY <1>1, QuietTasks DEF Claimed
  <1>2. ASSUME NEW r \in Requests, Handler(r) PROVE TasksInv'
    <2>k. PICK k \in Claims : k = Current(r)
      BY <1>0, <1>2, CurrentFacts
         DEF Handler, Claim, ClaimFails, Bind, BindFails, GiveBack
    <2>1. CASE Claim(r)
      <3>1. PICK i \in Slots : FirstFree(i) /\ Occupy(i, k)
        BY <2>1, <2>k DEF Claim
      <3>2. Unserved(k) /\ req[k[1]] = "claim"
        BY <1>0, <2>1, <2>k, CurrentFacts DEF Claim
      <3>3. idx[k] = 0
        BY <1>0, <3>2 DEF Untouched
      <3>4. \A j \in Claims : Claimed(j) => Claimed(j)'
        BY <1>0, <3>1, <3>3, OccupyFacts
      <3> QED
        BY <2>1, <3>4, QuietTasks DEF Claim
    <2>2. CASE Bind(r)
      BY <2>2, BindTasks
    <2>3. CASE GiveBack(r)
      <3>1. HandlerOwns(k)
        BY <1>0, <2>3, <2>k, CurrentFacts DEF GiveBack, HandlerOwns
      <3> QED
        BY <1>0, <2>3, <2>k, <3>1, OwnerFacts, ReleaseTasks DEF GiveBack
    <2>4. CASE ClaimFails(r) \/ BindFails(r)
      BY <1>1, <2>4 DEF ClaimFails, BindFails
    <2> QED
      BY <1>2, <2>1, <2>2, <2>3, <2>4 DEF Handler
  <1>3. ASSUME NEW k \in Claims, MonitorReleases(k) PROVE TasksInv'
    BY <1>0, <1>3, OwnerFacts, ReleaseTasks DEF MonitorReleases, MonitorOwns
  <1>4. CASE UNCHANGED vars
    BY <1>1, <1>4 DEF vars
  <1>5. ASSUME NEW r \in Requests, Receive(r) PROVE TasksInv'
    BY <1>1, <1>5 DEF Receive
  <1>6. ASSUME NEW k \in Claims, MonitorTick(k) \/ MonitorEnds(k) PROVE TasksInv'
    BY <1>1, <1>6 DEF MonitorTick, MonitorReports, MonitorExpires, MonitorEnds
  <1>7. CASE Tick \/ \E c \in Conns : Traffic(c)
    BY <1>1, <1>7 DEF Tick, Traffic
  <1> QED
    BY <1>2, <1>3, <1>4, <1>5, <1>6, <1>7, LoopTasks, AcceptTasks, ConnTasks
       DEF Next, Monitor

\* A slot that is shown as taken has a monitor: its own, or one whose last event is
\* still to come.
THEOREM ShownStep == IInv /\ [Next]_vars => ShownHasMonitor'
  <1> SUFFICES ASSUME IInv, [Next]_vars, NEW i \in Slots, shown'[i] = "active"
               PROVE  \E k \in Claims : idx'[k] = i
                         /\ monitor'[k] \in {"watching", "expired", "released"}
    BY DEF ShownHasMonitor
  <1> USE DEF claimVars, connVars
  <1>0. TypeOK /\ RowsLeft /\ Untouched /\ OneResponsible /\ ShownHasMonitor /\ Indexed
    BY DEF IInv
  <1>1. ASSUME shown' = shown, idx' = idx, monitor' = monitor
        PROVE  \E k \in Claims : idx'[k] = i
                  /\ monitor'[k] \in {"watching", "expired", "released"}
    BY <1>0, <1>1 DEF ShownHasMonitor
  <1>2. ASSUME NEW r \in Requests, Claim(r)
        PROVE  \E k \in Claims : idx'[k] = i
                  /\ monitor'[k] \in {"watching", "expired", "released"}
    <2>1. PICK k \in Claims : k = Current(r)
      BY <1>0, <1>2, CurrentFacts DEF Claim
    <2>2. monitor[k] = "none"
      BY <1>0, <1>2, <2>1, CurrentFacts DEF Claim, Untouched
    <2>3. PICK j \in Claims : idx[j] = i /\ monitor[j] \in {"watching", "expired", "released"}
      BY <1>0, <1>2 DEF Claim, ShownHasMonitor
    <2>4. idx'[j] = idx[j] /\ monitor' = monitor
      BY <1>0, <1>2, <2>1, <2>2, <2>3 DEF Claim, Occupy, TypeOK
    <2> QED
      BY <2>3, <2>4
  <1>3. ASSUME NEW r \in Requests, Bind(r)
        PROVE  \E k \in Claims : idx'[k] = i
                  /\ monitor'[k] \in {"watching", "expired", "released"}
    <2>1. PICK k \in Claims : k = Current(r)
      BY <1>0, <1>3, CurrentFacts DEF Bind
    <2>2. /\ monitor' = [monitor EXCEPT ![k] = "watching"] /\ idx' = idx
          /\ shown' = [shown EXCEPT ![idx[k]] = "active"]
      BY <1>3, <2>1 DEF Bind
    <2>3. CASE idx[k] = i
      BY <1>0, <2>2, <2>3 DEF TypeOK
    <2>4. CASE idx[k] # i
      <3>1. shown[i] = "active"
        BY <1>0, <2>2, <2>4 DEF TypeOK
      <3> QED
        BY <1>0, <2>2, <3>1 DEF ShownHasMonitor, TypeOK
    <2> QED
      BY <2>3, <2>4
  <1>4. ASSUME NEW k \in Claims, MonitorTick(k)
        PROVE  \E j \in Claims : idx'[j] = i
                  /\ monitor'[j] \in {"watching", "expired", "released"}
    <2>1. CASE MonitorReports(k)
      <3>1. CASE idx[k] = i
        BY <2>1, <3>1 DEF MonitorReports
      <3>2. CASE idx[k] # i
        BY <1>0, <2>1, <3>2 DEF MonitorReports, ShownHasMonitor, TypeOK
      <3> QED
        BY <3>1, <3>2
    <2>2. CASE MonitorExpires(k)
      BY <1>0, <2>2 DEF MonitorExpires, ShownHasMonitor, TypeOK
    <2> QED
      BY <1>4, <2>1, <2>2 DEF MonitorTick
  <1>5. ASSUME NEW k \in Claims, MonitorReleases(k)
        PROVE  \E j \in Claims : idx'[j] = i
                  /\ monitor'[j] \in {"watching", "expired", "released"}
    BY <1>0, <1>5 DEF MonitorReleases, ShownHasMonitor, TypeOK
  <1>6. ASSUME NEW k \in Claims, MonitorEnds(k)
        PROVE  \E j \in Claims : idx'[j] = i
                  /\ monitor'[j] \in {"watching", "expired", "released"}
    <2>1. idx[k] # i /\ shown[i] = "active"
      BY <1>0, <1>6 DEF MonitorEnds, TypeOK
    <2> QED
      BY <1>0, <1>6, <2>1 DEF MonitorEnds, ShownHasMonitor, TypeOK
  <1>7. CASE \/ UNCHANGED vars
             \/ \E r \in Requests : Receive(r) \/ ClaimFails(r) \/ BindFails(r) \/ GiveBack(r)
             \/ \E l \in Loops : LoopDropped(l) \/ LoopBreaks(l)
             \/ \E l \in Loops, c \in Conns : Accept(c, l)
             \/ \E c \in Conns : Push(c) \/ Traffic(c) \/ ConnEnds(c)
             \/ Tick
    <2>1. shown' = shown /\ idx' = idx /\ monitor' = monitor
      BY <1>7 DEF vars, Receive, ClaimFails, BindFails, GiveBack, LoopDropped, LoopBreaks,
                  Accept, Push, Traffic, ConnEnds, Tick
    <2> QED
      BY <1>1, <2>1
  <1> QED
    BY <1>2, <1>3, <1>4, <1>5, <1>6, <1>7 DEF Next, Handler, Monitor

-----------------------------------------------------------------------------
\* IInv is an invariant: together, the parts are inductive.
THEOREM Inductive == Spec => []IInv
  <1>1. Init => IInv
    BY TypeInit, ClaimsInit, TasksInit DEF IInv, TasksInv
  <1>2. IInv /\ [Next]_vars => IInv'
    BY TypeStep, ClaimsStep, TasksStep, ShownStep DEF IInv, ClaimsInv, TasksInv
  <1> QED
    BY <1>1, <1>2, PTL DEF Spec

\* Every variable keeps its type (slot.rs, server.rs, tunnel.rs).
THEOREM TypeCorrect == Spec => []TypeOK
  <1>1. IInv => TypeOK
    BY DEF IInv
  <1> QED
    BY <1>1, Inductive, PTL

\* Every slot that is taken has exactly one task that will release it, and this task
\* owns the slot (SlotManager::claim, release, run_idle_monitor).
THEOREM OneResponsibleAlways == Spec => []OneResponsible
  <1>1. IInv => OneResponsible
    BY DEF IInv
  <1> QED
    BY <1>1, Inductive, PTL

\* Every accept loop of a released slot was told to stop (SlotManager::release).
THEOREM LoopsEndAlways == Spec => []LoopsEndWithSlot
  <1>1. IInv => LoopsEndWithSlot
    BY DEF IInv
  <1> QED
    BY <1>1, Inductive, PTL

\* A release aborts every connection that was in the pool, however many ports the tunnel
\* has; what is pushed later comes from a loop that was being polled (run_accept_loop
\* racing SlotManager::release).
THEOREM OnlyCaughtLoopsLeakAlways == Spec => []OnlyCaughtLoopsLeak
  <1>1. IInv => OnlyCaughtLoopsLeak
    <2> SUFFICES ASSUME IInv, NEW c \in Conns, Running(c), ~Claimed(of[c][1])
                 PROVE  /\ conn[c] # "pooled"
                        /\ conn[c] = "accepted" => listener[of[c]] = "caught"
      BY DEF OnlyCaughtLoopsLeak
    <2>1. of[c] \in Loops
      BY DEF IInv, Running, Indexed, TypeOK
    <2>2. listener[of[c]] # "open"
      BY <2>1 DEF IInv, LoopsEndWithSlot
    <2> QED
      BY <2>2 DEF IInv, HandedOver
  <1> QED
    BY <1>1, Inductive, PTL

\* A free slot is shown as taken only while its "free" event is on its way
\* (the events of run_idle_monitor and of tunnel_handler).
THEOREM FreeIsShownAlways == Spec => []FreeIsShown
  <1>1. IInv => FreeIsShown
    <2> SUFFICES ASSUME IInv, NEW i \in Slots, slots[i] = Free, shown[i] = "active"
                 PROVE  \E k \in Claims : idx[k] = i /\ monitor[k] = "released"
      BY DEF FreeIsShown
    <2>1. PICK k \in Claims : idx[k] = i /\ monitor[k] \in {"watching", "expired", "released"}
      BY DEF IInv, ShownHasMonitor
    <2>2. ~MonitorOwns(k)
      BY <2>1, OwnerFacts, ClaimFacts DEF IInv
    <2> QED
      BY <2>1, <2>2 DEF MonitorOwns
  <1> QED
    BY <1>1, Inductive, PTL

\* A slot is freed only on behalf of the claim that holds it, although release takes
\* an index (tunnel_handler, run_idle_monitor).
THEOREM FreedByOwnerAlways == Spec => FreedByOwner
  <1> DEFINE Freed(i) ==
        LET k == slots[i] IN
        /\ slots'[i] = Free
        /\ \/ monitor[k] = "expired" /\ monitor'[k] = "released"
           \/ req[k[1]] = "release" /\ req'[k[1]] = "conflict"
  <1>1. ASSUME IInv, [Next]_vars, NEW i \in Slots, slots[i] # Free, slots'[i] # slots[i]
        PROVE  Freed(i)
    <2>0. TypeOK /\ RowsLeft /\ OneResponsible
      BY <1>1 DEF IInv
    <2>1. ASSUME NEW r \in Requests, Claim(r) PROVE FALSE
      <3>1. PICK j \in Slots : FirstFree(j) /\ Occupy(j, Current(r))
        BY <2>1 DEF Claim
      <3> QED
        BY <1>1, <2>0, <3>1 DEF FirstFree, FreeSlots, Occupy, TypeOK
    <2>2. ASSUME NEW r \in Requests, GiveBack(r) PROVE Freed(i)
      <3>1. PICK k \in Claims : k = Current(r)
        BY <2>0, <2>2, CurrentFacts DEF GiveBack
      <3>2. k[1] = r /\ HandlerOwns(k)
        BY <2>0, <2>2, <3>1, CurrentFacts DEF GiveBack, HandlerOwns
      <3>3. idx[k] \in Slots /\ slots[idx[k]] = k
        BY <2>0, <3>2, OwnerFacts
      <3>4. i = idx[k] /\ slots'[i] = Free
        BY <1>1, <2>0, <2>2, <3>1, <3>3 DEF GiveBack, Release, EmptySlot, TypeOK
      <3> QED
        BY <2>0, <2>2, <3>2, <3>3, <3>4 DEF GiveBack, TypeOK
    <2>3. ASSUME NEW k \in Claims, MonitorReleases(k) PROVE Freed(i)
      <3>1. idx[k] \in Slots /\ slots[idx[k]] = k
        BY <2>0, <2>3, OwnerFacts DEF MonitorReleases, MonitorOwns
      <3>2. i = idx[k] /\ slots'[i] = Free
        BY <1>1, <2>0, <2>3, <3>1 DEF MonitorReleases, Release, EmptySlot, TypeOK
      <3> QED
        BY <2>0, <2>3, <3>1, <3>2 DEF MonitorReleases, TypeOK
    <2>4. CASE slots' = slots
      BY <1>1, <2>4
    <2> QED
      BY <1>1, <2>1, <2>2, <2>3, <2>4
         DEF Next, vars, claimVars, Handler, Receive, ClaimFails, Bind, BindFails,
             Monitor, MonitorTick, MonitorReports, MonitorExpires, MonitorEnds,
             LoopDropped, LoopBreaks, Accept, Push, Traffic, ConnEnds, Tick
  <1>2. IInv /\ [Next]_vars =>
          [\A i \in Slots : slots[i] # Free /\ slots'[i] # slots[i] => Freed(i)]_vars
    BY <1>1
  <1> QED
    BY <1>2, Inductive, PTL DEF Spec, FreedByOwner

-----------------------------------------------------------------------------
(* ClientSlots implements SlotPool.                                        *)

\* The two variables of SlotPool that are not variables here.
Stages    == [k \in Claims |-> Stage(k)]
Accepting == {k \in Claims : \E l \in Loops : l[1] = k /\ listener[l] = "open"}

PoolStep == Pool!PoolNext \/ UNCHANGED Pool!poolVars

\* A claim's stage depends on its index, its slot and its monitor only.
LEMMA StageKept ==
    ASSUME NEW k \in Claims, idx'[k] = idx[k], Claimed(k)' <=> Claimed(k),
           MonitorOwns(k)' <=> MonitorOwns(k)
    PROVE  Stage(k)' = Stage(k)
  BY DEF Stage

\* Steps that touch neither slots nor accept loops are invisible.
LEMMA PoolStutter ==
    ASSUME UNCHANGED <<slots, idx>>,
           \A k \in Claims : MonitorOwns(k)' <=> MonitorOwns(k),
           \A l \in Loops : listener'[l] = "open" <=> listener[l] = "open"
    PROVE  PoolStep
  <1>1. \A k \in Claims : Stage(k)' = Stage(k)
    BY DEF Stage, Claimed
  <1>2. Stages' = Stages /\ Accepting' = Accepting
    BY <1>1 DEF Stages, Accepting
  <1> QED
    BY <1>2 DEF PoolStep, Pool!poolVars, Stages, Accepting

\* claim() gives a waiting claim a slot nobody holds.
LEMMA ClaimTakes ==
    ASSUME IInv, NEW r \in Requests, Claim(r)
    PROVE  PoolStep
  <1>0. TypeOK /\ RowsLeft /\ Untouched
    BY DEF IInv
  <1>k. PICK k \in Claims : k = Current(r)
    BY <1>0, CurrentFacts DEF Claim
  <1>i. PICK i \in Slots : FirstFree(i) /\ Occupy(i, k)
    BY <1>k DEF Claim
  <1>1. Unserved(k) /\ k[1] = r /\ req[r] = "claim"
    BY <1>0, <1>k, CurrentFacts DEF Claim
  <1>2. idx[k] = 0 /\ ~MonitorOwns(k)
    BY <1>0, <1>1 DEF Untouched, MonitorOwns
  <1>3. /\ slots[i] = Free /\ Claimed(k)'
        /\ \A j \in Claims \ {k} : Claimed(j)' <=> Claimed(j)
    BY <1>0, <1>i, <1>2, OccupyFacts
  <1>4. UNCHANGED <<listener, monitor>>
    BY DEF Claim
  <1>5. slots' = [slots EXCEPT ![i] = k] /\ idx' = [idx EXCEPT ![k] = i]
    BY <1>i DEF Occupy
  <1>6. idx'[k] = i /\ i # 0
    BY <1>0, <1>5, SlotFacts DEF TypeOK
  <1>7. Stage(k) = "waiting" /\ Stage(k)' = "setup"
    BY <1>2, <1>3, <1>4, <1>6 DEF Stage, MonitorOwns
  <1>8. \A j \in Claims \ {k} : Stage(j)' = Stage(j)
    <2> TAKE j \in Claims \ {k}
    <2>1. idx'[j] = idx[j]
      BY <1>0, <1>5 DEF TypeOK
    <2> QED
      BY <1>3, <1>4, <2>1, StageKept DEF MonitorOwns
  <1>9. Stages' = [Stages EXCEPT ![k] = "setup"] /\ Stages[k] = "waiting"
    BY <1>7, <1>8 DEF Stages
  <1>10. Accepting' = Accepting
    BY <1>4 DEF Accepting
  <1>11. Pool!Take(k, i)
    BY <1>3, <1>5, <1>9, <1>10 DEF Pool!Take, Stages, Accepting
  <1> QED
    BY <1>11 DEF PoolStep, Pool!PoolNext

\* tunnel_handler goes on with its listeners bound: the claim is served.
LEMMA BindServes ==
    ASSUME IInv, NEW r \in Requests, Bind(r)
    PROVE  PoolStep
  <1>0. TypeOK /\ RowsLeft /\ OneResponsible
    BY DEF IInv
  <1>k. PICK k \in Claims : k = Current(r)
    BY <1>0, CurrentFacts DEF Bind
  <1>1. req[r] = "bind" /\ k[1] = r
    BY <1>0, <1>k, CurrentFacts DEF Bind
  <1>2. HandlerOwns(k) /\ ~MonitorOwns(k) /\ Claimed(k)
    BY <1>0, <1>k, <1>1 DEF HandlerOwns, OneResponsible
  <1>3. /\ listener' = [l \in Loops |-> IF l[1] = k THEN "open" ELSE listener[l]]
        /\ monitor' = [monitor EXCEPT ![k] = "watching"]
        /\ UNCHANGED <<slots, idx>>
    BY <1>k DEF Bind, OpenLoops, claimVars
  <1>4. \A j \in Claims : Claimed(j)' <=> Claimed(j)
    BY <1>3 DEF Claimed
  <1>5. MonitorOwns(k)' /\ \A j \in Claims \ {k} : MonitorOwns(j)' <=> MonitorOwns(j)
    BY <1>0, <1>3 DEF MonitorOwns, TypeOK
  <1>6. Stage(k) = "setup" /\ Stage(k)' = "served"
    BY <1>2, <1>3, <1>4, <1>5 DEF Stage, Claimed
  <1>7. \A j \in Claims \ {k} : Stage(j)' = Stage(j)
    BY <1>3, <1>4, <1>5, StageKept
  <1>8. Stages' = [Stages EXCEPT ![k] = "served"] /\ Stages[k] = "setup"
    BY <1>6, <1>7 DEF Stages
  <1>9. Accepting' = Accepting \cup {k}
    BY <1>0, <1>3, LoopFacts DEF Accepting, TypeOK
  <1>10. Pool!Serve(k)
    BY <1>3, <1>8, <1>9 DEF Pool!Serve, Stages, Accepting
  <1> QED
    BY <1>10 DEF PoolStep, Pool!PoolNext

\* SlotManager::release, called with the index of a claim that holds its slot, gives up
\* this claim and touches no other.
LEMMA ReleaseGivesUp ==
    ASSUME IInv, NEW k \in Claims, HandlerOwns(k) \/ MonitorOwns(k),
           Release(idx[k]), UNCHANGED idx,
           \A j \in Claims \ {k} : MonitorOwns(j)' <=> MonitorOwns(j)
    PROVE  PoolStep
  <1>0. TypeOK /\ OneResponsible
    BY DEF IInv
  <1>1. idx[k] \in Slots /\ slots[idx[k]] = k
    BY <1>0, OwnerFacts
  <1>2. /\ ~Claimed(k)'
        /\ \A j \in Claims \ {k} : Claimed(j)' <=> Claimed(j)
        /\ \A l \in Loops : listener'[l] = "open" <=> listener[l] = "open" /\ l[1] # k
        /\ slots' = [slots EXCEPT ![idx[k]] = Free]
    BY <1>0, <1>1, ReleaseFacts
  <1>3. Claimed(k) /\ idx[k] # 0
    BY <1>1, SlotFacts DEF Claimed
  <1>4. Stage(k) \in {"setup", "served"} /\ Stage(k)' = "over"
    BY <1>2, <1>3 DEF Stage
  <1>5. \A j \in Claims \ {k} : Stage(j)' = Stage(j)
    BY <1>2, StageKept
  <1>6. Stages' = [Stages EXCEPT ![k] = "over"] /\ Stages[k] \in {"setup", "served"}
    BY <1>4, <1>5 DEF Stages
  <1>7. Accepting' = Accepting \ {k}
    BY <1>2 DEF Accepting
  <1>i. PICK i \in Slots : i = idx[k]
    BY <1>1
  <1>8. Pool!GiveUp(k, i)
    BY <1>1, <1>2, <1>6, <1>7, <1>i DEF Pool!GiveUp, Stages, Accepting
  <1> QED
    BY <1>8 DEF PoolStep, Pool!PoolNext

\* The two callers of release.
LEMMA GiveBackGivesUp ==
    ASSUME IInv, NEW r \in Requests, GiveBack(r)
    PROVE  PoolStep
  <1>0. TypeOK /\ RowsLeft
    BY DEF IInv
  <1>k. PICK k \in Claims : k = Current(r)
    BY <1>0, CurrentFacts DEF GiveBack
  <1>1. HandlerOwns(k)
    BY <1>0, <1>k, CurrentFacts DEF GiveBack, HandlerOwns
  <1>2. Release(idx[k]) /\ UNCHANGED <<idx, monitor>>
    BY <1>k DEF GiveBack
  <1> QED
    BY <1>1, <1>2, ReleaseGivesUp DEF MonitorOwns

LEMMA MonitorGivesUp ==
    ASSUME IInv, NEW k \in Claims, MonitorReleases(k)
    PROVE  PoolStep
  <1>1. MonitorOwns(k)
    BY DEF MonitorReleases, MonitorOwns
  <1>2. \A j \in Claims \ {k} : MonitorOwns(j)' <=> MonitorOwns(j)
    BY DEF MonitorReleases, MonitorOwns, IInv, TypeOK
  <1> QED
    BY <1>1, <1>2, ReleaseGivesUp DEF MonitorReleases

\* An accept error ends the one loop of a WebSocket claim while the claim goes on.
LEMMA BreakStops ==
    ASSUME IInv, NEW l \in Loops, LoopBreaks(l)
    PROVE  PoolStep
  <1>1. /\ listener[l] = "open" /\ listener' = [listener EXCEPT ![l] = "closed"]
        /\ l[1][2] # "tunnel" /\ UNCHANGED <<slots, idx, monitor>>
    BY DEF LoopBreaks, claimVars
  <1>k. PICK k \in Claims : k = l[1]
    BY LoopFacts
  <1>2. \A m \in Loops : m[1] = k => m = l
    BY <1>1, <1>k, LoopFacts
  <1>3. k \in Accepting /\ Accepting' = Accepting \ {k}
    BY <1>1, <1>k, <1>2 DEF Accepting, IInv, TypeOK
  <1>4. Stages' = Stages
    BY <1>1 DEF Stages, Stage, Claimed, MonitorOwns
  <1>5. Pool!StopAccepting(k)
    BY <1>1, <1>3, <1>4 DEF Pool!StopAccepting, Stages, Accepting
  <1> QED
    BY <1>5 DEF PoolStep, Pool!PoolNext

\* Every step of the client is a step of SlotPool or a stutter.
LEMMA EveryStepOfPool == IInv /\ [Next]_vars => PoolStep
  <1> SUFFICES ASSUME IInv, [Next]_vars PROVE PoolStep
    OBVIOUS
  <1>0. TypeOK
    BY DEF IInv
  <1>1. ASSUME NEW r \in Requests, Receive(r) \/ ClaimFails(r) \/ BindFails(r)
        PROVE  PoolStep
    BY <1>1, PoolStutter DEF Receive, ClaimFails, BindFails, claimVars, MonitorOwns
  <1>2. ASSUME NEW k \in Claims, MonitorTick(k) \/ MonitorEnds(k) PROVE PoolStep
    <2>1. UNCHANGED <<slots, idx, listener>>
      BY <1>2 DEF MonitorTick, MonitorReports, MonitorExpires, MonitorEnds, claimVars
    <2>2. \A j \in Claims : MonitorOwns(j)' <=> MonitorOwns(j)
      BY <1>0, <1>2 DEF MonitorTick, MonitorReports, MonitorExpires, MonitorEnds,
                        MonitorOwns, TypeOK
    <2> QED
      BY <2>1, <2>2, PoolStutter
  <1>3. ASSUME UNCHANGED <<slots, idx, listener, monitor>> PROVE PoolStep
    BY <1>3, PoolStutter DEF MonitorOwns
  <1>4. ASSUME NEW c \in Conns, NEW l \in Loops, Accept(c, l) PROVE PoolStep
    BY <1>3, <1>4 DEF Accept, claimVars
  <1>5. ASSUME NEW c \in Conns, Push(c) \/ Traffic(c) \/ ConnEnds(c) PROVE PoolStep
    BY <1>3, <1>5 DEF Push, Traffic, ConnEnds, claimVars
  <1>6. CASE Tick
    BY <1>3, <1>6 DEF Tick
  <1>7. CASE UNCHANGED vars
    BY <1>3, <1>7 DEF vars, claimVars
  <1>8. ASSUME NEW l \in Loops, LoopDropped(l) PROVE PoolStep
    BY <1>0, <1>8, PoolStutter DEF LoopDropped, claimVars, MonitorOwns, TypeOK
  <1> QED
    BY <1>1, <1>2, <1>4, <1>5, <1>6, <1>7, <1>8, ClaimTakes, BindServes, GiveBackGivesUp,
       MonitorGivesUp, BreakStops DEF Next, Handler, Monitor

\* The client implements SlotPool: a slot is given back by its claim and no other although
\* release takes an index, and a claim is served on one slot, once (SlotManager,
\* tunnel_handler, run_idle_monitor, run_accept_loop).
THEOREM ImplementsThePool == Spec => ImplementsPool
  <1>1. Init => Pool!PoolInit
    BY DEF Init, Pool!PoolInit, Stage
  <1>2. IInv /\ [Next]_vars => [Pool!PoolNext]_(Pool!poolVars)
    BY EveryStepOfPool DEF PoolStep
  <1> QED
    BY <1>1, <1>2, Inductive, PTL DEF Spec, ImplementsPool, Pool!PoolSpec

\* SlotPool promises Ownership: one slot for a claim that is set up or served, none for any
\* other.
THEOREM PoolOwnership == Pool!PoolSpec => []Pool!Ownership
  <1> DEFINE Types == /\ slots \in [Slots -> Claims \cup {Free}]
                      /\ Stages \in [Claims -> {"waiting", "setup", "served", "over"}]
                      /\ Accepting \subseteq Claims
             Owns  == /\ \A k \in Claims :
                            Stages[k] \in {"setup", "served"} <=> \E i \in Slots : slots[i] = k
                      /\ \A i, j \in Slots : slots[i] # Free /\ slots[i] = slots[j] => i = j
                      /\ \A k \in Accepting : Stages[k] = "served"
  <1>0. Free \notin Claims
    BY DEF Free, Claims
  <1>o. Pool!Ownership <=> Owns
    BY DEF Pool!Ownership, Stages, Accepting
  <1>1. Pool!PoolInit => Types /\ Owns
    <2> HAVE Pool!PoolInit
    <2>1. /\ slots = [i \in Slots |-> Free]
          /\ Stages = [k \in Claims |-> "waiting"]
          /\ Accepting = {}
      BY DEF Pool!PoolInit, Stages, Accepting
    <2> QED
      BY <1>0, <2>1
  <1>2. Types /\ Owns /\ [Pool!PoolNext]_(Pool!poolVars) => Types' /\ Owns'
    <2> SUFFICES ASSUME Types, Owns, [Pool!PoolNext]_(Pool!poolVars) PROVE Types' /\ Owns'
      OBVIOUS
    <2>1. ASSUME NEW k \in Claims, Pool!Serve(k) PROVE Types' /\ Owns'
      <3>1. /\ Stages[k] = "setup" /\ Stages' = [Stages EXCEPT ![k] = "served"]
            /\ Accepting' = Accepting \cup {k} /\ slots' = slots
        BY <2>1 DEF Pool!Serve, Stages, Accepting
      <3> QED
        BY <3>1
    <2>2. ASSUME NEW k \in Claims, Pool!StopAccepting(k) PROVE Types' /\ Owns'
      <3>1. Stages' = Stages /\ Accepting' = Accepting \ {k} /\ slots' = slots
        BY <2>2 DEF Pool!StopAccepting, Stages, Accepting
      <3> QED
        BY <3>1
    <2>3. ASSUME NEW k \in Claims, NEW i \in Slots, Pool!Take(k, i) PROVE Types' /\ Owns'
      <3>1. /\ Stages[k] = "waiting" /\ Stages' = [Stages EXCEPT ![k] = "setup"]
            /\ slots[i] = Free /\ slots' = [slots EXCEPT ![i] = k] /\ Accepting' = Accepting
        BY <2>3 DEF Pool!Take, Stages, Accepting
      <3> QED
        BY <1>0, <3>1
    <2>4. ASSUME NEW k \in Claims, NEW i \in Slots, Pool!GiveUp(k, i) PROVE Types' /\ Owns'
      <3>1. /\ Stages' = [Stages EXCEPT ![k] = "over"] /\ Accepting' = Accepting \ {k}
            /\ slots[i] = k /\ slots' = [slots EXCEPT ![i] = Free]
        BY <2>4 DEF Pool!GiveUp, Stages, Accepting
      <3> QED
        BY <1>0, <3>1
    <2>5. CASE UNCHANGED Pool!poolVars
      <3>1. Stages' = Stages /\ Accepting' = Accepting /\ slots' = slots
        BY <2>5 DEF Pool!poolVars, Stages, Accepting
      <3> QED
        BY <3>1
    <2> QED
      BY <2>1, <2>2, <2>3, <2>4, <2>5 DEF Pool!PoolNext
  <1> QED
    BY <1>o, <1>1, <1>2, PTL DEF Pool!PoolSpec

\* The client keeps what SlotPool promises.
COROLLARY OwnershipAlways == Spec => []Pool!Ownership
  BY ImplementsThePool, PoolOwnership, PTL DEF ImplementsPool
=============================================================================
