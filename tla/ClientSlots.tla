---------------------------- MODULE ClientSlots ----------------------------
(***************************************************************************)
(* The connection slots of the client (fleetshell-client: slot.rs,         *)
(* tunnel_handler of server.rs, the accept loops of tunnel.rs,             *)
(* guac_proxy.rs and ssh_proxy.rs).                                        *)
(*                                                                         *)
(* A tunnel request claims one slot per group of its port rows, binds      *)
(* listeners there, spawns their accept loops and an idle monitor.  The    *)
(* monitor releases the slot when no byte has flowed for idle_timeout:     *)
(* the tasks in the slot's pool are aborted.  Slots are named by index, so *)
(* a release must only ever hit the claim it is meant for.                 *)
(*                                                                         *)
(* A claim is identified by its request and the kind of its rows, an       *)
(* accept loop by its claim and the number of its port; addresses, URLs    *)
(* and the handshake with the gateway are left out.                        *)
(***************************************************************************)
EXTENDS Naturals, FiniteSets

CONSTANTS
    SlotCount,  \* SLOT_COUNT
    Requests,   \* POST /api/tunnel requests
    Plans,      \* Plans[r]: bound, the sets of kinds of rows that r may ask for
    Ports,      \* Ports[r]: how many ports the tunnel rows of r have
    MaxConns,   \* bound: connections that run at the same time
    Timeout     \* max(idle_timeout, 10), in ticks

Kinds == {"guac", "ssh", "tunnel"}

ASSUME SlotsAssumption ==
    /\ SlotCount \in Nat \ {0}
    /\ Plans \in [Requests -> SUBSET (SUBSET Kinds)]
    /\ Ports \in [Requests -> Nat \ {0}]
    /\ MaxConns \in Nat
    /\ Timeout \in Nat \ {0}

VARIABLES
    req,       \* req[r]: where tunnel_handler is
    todo,      \* todo[r]: kinds of rows it has still to serve
    slots,     \* slots[i]: the claim that occupies slot i
    idx,       \* idx[k]: the slot claim k was given
    idle,      \* idle[k]: ticks since last_active of claim k, up to Timeout
    listener,  \* listener[l]: the accept loop l with its listener
    monitor,   \* monitor[k]: the idle monitor of claim k
    conn,      \* conn[c]: the task that serves connection c
    of,        \* of[c]: the accept loop that accepted c, while c runs
    shown      \* shown[i]: the last slot-update event for slot i

claimVars == <<slots, idx, idle>>
connVars  == <<conn, of>>
vars == <<req, todo, claimVars, listener, monitor, connVars, shown>>

Slots  == 1..SlotCount
Conns  == 1..MaxConns
Claims == {k \in Requests \X Kinds : \E plan \in Plans[k[1]] : k[2] \in plan}
Free   == <<>>      \* a slot without entry, a connection that does not run

\* One accept loop for each port of the tunnel rows; the one WebSocket of a guac or
\* ssh row has one.
PortsOf(k) == IF k[2] = "tunnel" THEN 1..Ports[k[1]] ELSE {1}
Loops      == UNION {{k} \X PortsOf(k) : k \in Claims}

\* An open loop has not been told to stop.  One that was being polled at that moment
\* is caught: it goes on until it next yields.
LoopStates == {"none", "open", "caught", "closed"}

\* A tunnel connection is accepted, then its handle is in the pool of the slot; it is
\* an orphan when this pool has been drained before.  A WebSocket is detached.
ConnStates == {"none", "accepted", "pooled", "orphan", "detached"}

TypeOK ==
    /\ req \in [Requests -> {"none", "claim", "bind", "release", "ok",
                             "bad_request", "unavailable", "conflict"}]
    /\ todo \in [Requests -> SUBSET Kinds]
    /\ \A r \in Requests : {r} \X todo[r] \subseteq Claims
    /\ slots \in [Slots -> Claims \cup {Free}]
    /\ idx \in [Claims -> {0} \cup Slots]
    /\ idle \in [Claims -> 0..Timeout]
    /\ listener \in [Loops -> LoopStates]
    /\ monitor \in [Claims -> {"none", "watching", "expired", "released", "done"}]
    /\ conn \in [Conns -> ConnStates]
    /\ of \in [Conns -> Loops \cup {Free}]
    /\ shown \in [Slots -> {"free", "active"}]

Init ==
    /\ req = [r \in Requests |-> "none"]
    /\ todo = [r \in Requests |-> {}]
    /\ slots = [i \in Slots |-> Free]
    /\ idx = [k \in Claims |-> 0]
    /\ idle = [k \in Claims |-> 0]
    /\ listener = [l \in Loops |-> "none"]
    /\ monitor = [k \in Claims |-> "none"]
    /\ conn = [c \in Conns |-> "none"]
    /\ of = [c \in Conns |-> Free]
    /\ shown = [i \in Slots |-> "free"]

-----------------------------------------------------------------------------
(* SlotManager.                                                            *)

\* claim(): the first free slot, with its own clock and pool.
FreeSlots == {i \in Slots : slots[i] = Free}
FirstFree(i) == i \in FreeSlots /\ \A j \in FreeSlots : i <= j

\* Mutant of Occupy: the index is that of the slot's address.
OccupyByAddress(i, k) ==
    /\ slots' = [slots EXCEPT ![i] = k]
    /\ idx' = [idx EXCEPT ![k] = i + 1]
    /\ idle' = [idle EXCEPT ![k] = 0]

Occupy(i, k) ==
    /\ slots' = [slots EXCEPT ![i] = k]
    /\ idx' = [idx EXCEPT ![k] = i]
    /\ idle' = [idle EXCEPT ![k] = 0]

\* run_accept_loop has spawned a connection whose handle is not in the pool yet.
Busy(l) == \E c \in Conns : of[c] = l /\ conn[c] = "accepted"

\* The accept loops of claim k are aborted.  A loop that waits is dropped without
\* running again.  One that a thread is just polling is caught: it ends at the first
\* await that yields, and between spawning a connection and pushing it there is none.
AbortLoops(k) ==
    \E caught \in SUBSET {l \in Loops : l[1] = k /\ listener[l] = "open"} :
        /\ \A l \in Loops : l[1] = k /\ listener[l] = "open" /\ Busy(l) => l \in caught
        /\ listener' = [l \in Loops |->
                          IF l[1] # k \/ listener[l] # "open" THEN listener[l]
                          ELSE IF l \in caught THEN "caught" ELSE "closed"]

\* The tunnel connections of claim k whose handles are in the pool are aborted.  (One
\* that is being polled runs to its next await; it stores into a clock nobody reads.)
InPool(c, k) == conn[c] = "pooled" /\ of[c][1] = k
AbortConns(k) ==
    /\ conn' = [c \in Conns |-> IF InPool(c, k) THEN "none" ELSE conn[c]]
    /\ of' = [c \in Conns |-> IF InPool(c, k) THEN Free ELSE of[c]]

\* The entry is taken, whoever's it is.  (Nobody reads the clock of a claim without
\* slot: it is reset.)
EmptySlot(i) ==
    /\ slots' = [slots EXCEPT ![i] = Free]
    /\ idle' = [k \in Claims |-> IF k = slots[i] THEN 0 ELSE idle[k]]

\* Mutant of Release: only the accept loops are in the pool.
ReleaseLoopsOnly(i) == EmptySlot(i) /\ AbortLoops(slots[i]) /\ UNCHANGED connVars

\* Mutant of Release: only the connections are in the pool.
ReleaseConnsOnly(i) == EmptySlot(i) /\ AbortConns(slots[i]) /\ UNCHANGED listener

\* release(idx): take the entry and abort the tasks its pool holds.
Release(i) == EmptySlot(i) /\ AbortLoops(slots[i]) /\ AbortConns(slots[i])

-----------------------------------------------------------------------------
(* tunnel_handler.                                                         *)

\* The groups of rows are served in this order, each on a slot of its own.
First(S) == IF "guac" \in S THEN "guac" ELSE IF "ssh" \in S THEN "ssh" ELSE "tunnel"
Current(r) == <<r, First(todo[r])>>

Receive(r) ==
    /\ req[r] = "none"
    /\ \E plan \in Plans[r] :
          /\ todo' = [todo EXCEPT ![r] = plan]
          /\ req' = [req EXCEPT ![r] = IF plan = {} THEN "bad_request" ELSE "claim"]
    /\ UNCHANGED <<claimVars, listener, monitor, connVars, shown>>

\* Mutant of Claim: the slot is shown before its listeners are bound.
ClaimShowsSlot(r) ==
    /\ req[r] = "claim"
    /\ \E i \in Slots :
          /\ FirstFree(i)
          /\ Occupy(i, Current(r))
          /\ shown' = [shown EXCEPT ![i] = "active"]
    /\ req' = [req EXCEPT ![r] = "bind"]
    /\ UNCHANGED <<todo, listener, monitor, connVars>>

Claim(r) ==
    /\ req[r] = "claim"
    /\ \E i \in Slots : FirstFree(i) /\ Occupy(i, Current(r))
    /\ req' = [req EXCEPT ![r] = "bind"]
    /\ UNCHANGED <<todo, listener, monitor, connVars, shown>>

\* 503: all slots are in use.  Slots of earlier groups stay with their monitors.
ClaimFails(r) ==
    /\ req[r] = "claim"
    /\ FreeSlots = {}
    /\ req' = [req EXCEPT ![r] = "unavailable"]
    /\ UNCHANGED <<todo, claimVars, listener, monitor, connVars, shown>>

\* The group of r is served: go on with the next one, or answer.
NextGroup(r) ==
    /\ todo' = [todo EXCEPT ![r] = @ \ {First(@)}]
    /\ req' = [req EXCEPT ![r] =
                  IF todo[r] \ {First(todo[r])} = {} THEN "ok" ELSE "claim"]

\* An accept loop for each port of claim k is spawned and put into the pool.
OpenLoops(k) ==
    listener' = [l \in Loops |-> IF l[1] = k THEN "open" ELSE listener[l]]

\* Mutant of Bind: the idle monitor is not spawned.
BindWithoutMonitor(r) ==
    /\ req[r] = "bind"
    /\ OpenLoops(Current(r))
    /\ shown' = [shown EXCEPT ![idx[Current(r)]] = "active"]
    /\ NextGroup(r)
    /\ UNCHANGED <<claimVars, monitor, connVars>>

\* All listeners are bound (perhaps on other ports): spawn the accept loops, show the
\* slot, spawn the idle monitor.
Bind(r) ==
    /\ req[r] = "bind"
    /\ OpenLoops(Current(r))
    /\ shown' = [shown EXCEPT ![idx[Current(r)]] = "active"]
    /\ monitor' = [monitor EXCEPT ![Current(r)] = "watching"]
    /\ NextGroup(r)
    /\ UNCHANGED <<claimVars, connVars>>

\* Mutant of BindFails: the early return forgets the slot.
BindFailsAndReturns(r) ==
    /\ req[r] = "bind"
    /\ req' = [req EXCEPT ![r] = "conflict"]
    /\ UNCHANGED <<todo, claimVars, listener, monitor, connVars, shown>>

\* A listener cannot be bound: give the slot back ...
BindFails(r) ==
    /\ req[r] = "bind"
    /\ req' = [req EXCEPT ![r] = "release"]
    /\ UNCHANGED <<todo, claimVars, listener, monitor, connVars, shown>>

\* ... as soon as the manager's mutex is free, and answer 409.
GiveBack(r) ==
    /\ req[r] = "release"
    /\ Release(idx[Current(r)])
    /\ req' = [req EXCEPT ![r] = "conflict"]
    /\ UNCHANGED <<todo, idx, monitor, shown>>

-----------------------------------------------------------------------------
(* run_idle_monitor.                                                       *)

\* Mutant of MonitorReports: the frontend is told at most that a slot is free.
MonitorKeepsQuiet(k) ==
    /\ monitor[k] = "watching"
    /\ idle[k] < Timeout
    /\ UNCHANGED vars

\* A tick of the monitor that finds the slot in use tells the frontend so.
MonitorReports(k) ==
    /\ monitor[k] = "watching"
    /\ idle[k] < Timeout
    /\ shown' = [shown EXCEPT ![idx[k]] = "active"]
    /\ UNCHANGED <<req, todo, claimVars, listener, monitor, connVars>>

\* A tick that finds the slot idle: from here on the monitor waits for the
\* manager's mutex and does not look at the clock again.
MonitorExpires(k) ==
    /\ monitor[k] = "watching"
    /\ idle[k] >= Timeout
    /\ monitor' = [monitor EXCEPT ![k] = "expired"]
    /\ UNCHANGED <<req, todo, claimVars, listener, connVars, shown>>

\* Mutant of MonitorReleases: the loop goes on after the release.
MonitorReleasesOnAndOn(k) ==
    /\ monitor[k] = "expired"
    /\ Release(idx[k])
    /\ UNCHANGED <<req, todo, idx, monitor, shown>>

MonitorReleases(k) ==
    /\ monitor[k] = "expired"
    /\ Release(idx[k])
    /\ monitor' = [monitor EXCEPT ![k] = "released"]
    /\ UNCHANGED <<req, todo, idx, shown>>

\* The last event of the monitor; the slot may belong to another claim by now.
MonitorEnds(k) ==
    /\ monitor[k] = "released"
    /\ shown' = [shown EXCEPT ![idx[k]] = "free"]
    /\ monitor' = [monitor EXCEPT ![k] = "done"]
    /\ UNCHANGED <<req, todo, claimVars, listener, connVars>>

-----------------------------------------------------------------------------
(* Accept loops and the connections they spawn.                            *)

\* The loop accepts c, also when it is caught and finds another connection in the
\* backlog, for then accept().await does not yield.  A tunnel connection is a task
\* whose handle the loop is about to push; a WebSocket runs in a task that axum
\* spawns for the upgrade.
Accept(c, l) ==
    /\ conn[c] = "none"
    /\ \A d \in Conns : d < c => conn[d] # "none"
    /\ listener[l] \in {"open", "caught"}
    /\ ~Busy(l)
    /\ conn' = [conn EXCEPT ![c] = IF l[1][2] = "tunnel" THEN "accepted" ELSE "detached"]
    /\ of' = [of EXCEPT ![c] = l]
    /\ UNCHANGED <<req, todo, claimVars, listener, monitor, shown>>

\* pool.push(handle).  The pool of a loop that is caught has been drained already:
\* nothing will abort the connection.
Push(c) ==
    /\ conn[c] = "accepted"
    /\ conn' = [conn EXCEPT ![c] = IF listener[of[c]] = "caught" THEN "orphan" ELSE "pooled"]
    /\ UNCHANGED <<req, todo, claimVars, listener, monitor, of, shown>>

\* A caught loop reaches an await that yields (an empty backlog, or the budget tokio
\* gives a task for one poll is used up) and is dropped.
LoopDropped(l) ==
    /\ listener[l] = "caught"
    /\ ~Busy(l)
    /\ listener' = [listener EXCEPT ![l] = "closed"]
    /\ UNCHANGED <<req, todo, claimVars, monitor, connVars, shown>>

\* An accept error ends the loop of a WebSocket slot (a tunnel loop retries).
LoopBreaks(l) ==
    /\ listener[l] = "open"
    /\ l[1][2] # "tunnel"
    /\ listener' = [listener EXCEPT ![l] = "closed"]
    /\ UNCHANGED <<req, todo, claimVars, monitor, connVars, shown>>

Running(c) == conn[c] # "none"

\* last_active is stored; only the claim in the slot has a reader for it.
Touch(k) == idle' = [idle EXCEPT ![k] = 0]

\* Bytes are relayed.
Traffic(c) ==
    /\ Running(c)
    /\ Touch(of[c][1])
    /\ UNCHANGED <<req, todo, slots, idx, listener, monitor, connVars, shown>>

\* A connection task ends by itself; at its end a WebSocket session stores the time
\* once more.
ConnEnds(c) ==
    /\ conn[c] \notin {"none", "accepted"}
    /\ conn' = [conn EXCEPT ![c] = "none"]
    /\ of' = [of EXCEPT ![c] = Free]
    /\ \/ conn[c] = "detached" /\ Touch(of[c][1])
       \/ UNCHANGED idle
    /\ UNCHANGED <<req, todo, slots, idx, listener, monitor, shown>>

\* Time passes for every claim with a slot.
Claimed(k) == idx[k] # 0 /\ slots[idx[k]] = k

Tick ==
    /\ \E k \in Claims : Claimed(k) /\ idle[k] < Timeout
    /\ idle' = [k \in Claims |->
                  IF Claimed(k) /\ idle[k] < Timeout THEN idle[k] + 1 ELSE idle[k]]
    /\ UNCHANGED <<req, todo, slots, idx, listener, monitor, connVars, shown>>

-----------------------------------------------------------------------------
Handler(r) == Claim(r) \/ ClaimFails(r) \/ Bind(r) \/ BindFails(r) \/ GiveBack(r)

MonitorTick(k) == MonitorReports(k) \/ MonitorExpires(k)
Monitor(k)     == MonitorTick(k) \/ MonitorReleases(k) \/ MonitorEnds(k)

Next ==
    \/ \E r \in Requests : Receive(r) \/ Handler(r)
    \/ \E k \in Claims : Monitor(k)
    \/ \E l \in Loops :
          \/ LoopDropped(l) \/ LoopBreaks(l)
          \/ \E c \in Conns : Accept(c, l)
    \/ \E c \in Conns : Push(c) \/ Traffic(c) \/ ConnEnds(c)
    \/ Tick

\* tokio runs every ready task and the monitor's interval keeps ticking.  Peers
\* owe nothing: no request, connection, byte or end of a connection has to come.
\* (No property needs an accept loop to get on with a push or with its own end.)
Fairness ==
    /\ \A r \in Requests : WF_vars(Handler(r))
    /\ \A k \in Claims : WF_vars(Monitor(k))
    /\ WF_vars(Tick)

Spec == Init /\ [][Next]_vars /\ Fairness

-----------------------------------------------------------------------------
(* Properties.                                                             *)

\* Exactly one task is going to release a slot that is taken: the handler that
\* claimed it until the monitor is spawned, then the monitor.  And each of them
\* still owns the slot whose index it holds, so that SlotManager::release, which
\* takes whatever is at the index, never frees somebody else's claim.
HandlerOwns(k) == req[k[1]] \in {"bind", "release"} /\ k = Current(k[1])
MonitorOwns(k) == monitor[k] \in {"watching", "expired"}

OneResponsible ==
    /\ \A k \in Claims : Claimed(k) <=> HandlerOwns(k) \/ MonitorOwns(k)
    /\ \A k \in Claims : ~(HandlerOwns(k) /\ MonitorOwns(k))
    /\ \A i \in Slots : slots[i] # Free => idx[slots[i]] = i

\* A slot is freed only for its own claim: by the handler whose bind failed, or by
\* the monitor that was spawned for the claim which holds the slot.
FreedByOwner ==
    [][\A i \in Slots :
          slots[i] # Free /\ slots'[i] # slots[i] =>
             LET k == slots[i] IN
             /\ slots'[i] = Free
             /\ \/ monitor[k] = "expired" /\ monitor'[k] = "released"
                \/ req[k[1]] = "release" /\ req'[k[1]] = "conflict"]_vars

\* The claim as SlotPool sees it.
Stage(k) ==
    IF idx[k] = 0 THEN "waiting"
    ELSE IF ~Claimed(k) THEN "over"
    ELSE IF MonitorOwns(k) THEN "served"
    ELSE "setup"

Pool == INSTANCE SlotPool
            WITH NoClaim <- Free,
                 holder <- slots,
                 stage <- [k \in Claims |-> Stage(k)],
                 accepting <- {k \in Claims : \E l \in Loops : l[1] = k /\ listener[l] = "open"}

\* Handlers, monitors and accept loops together implement SlotPool: although slots are
\* named by index, a claim gets a slot once, gives back that slot and no other, at most
\* once, and with it all its accept loops are told to stop.
ImplementsPool == Pool!PoolSpec

\* Every accept loop of a claim that has lost its slot was told to stop (slot.rs: push
\* every spawned handle into the pool, so that release can abort it).
LoopsEndWithSlot ==
    \A l \in Loops : listener[l] = "open" => Claimed(l[1])

\* When a slot is released, all connections its accept loops had pushed are aborted
\* with it, and a connection on its way into the pool of a slot that is lost comes from
\* a loop that was being polled at the release: only such a loop makes orphans (which
\* nothing aborts), however many it still finds in its backlog.
OnlyCaughtLoopsLeak ==
    \A c \in Conns :
        Running(c) /\ ~Claimed(of[c][1]) =>
            /\ conn[c] # "pooled"
            /\ conn[c] = "accepted" => listener[of[c]] = "caught"

\* The frontend does not show a free slot as taken, unless the event that frees
\* it is still to come (events of two claims of one slot may overlap).
FreeIsShown ==
    \A i \in Slots :
        slots[i] = Free /\ shown[i] = "active" =>
            \E k \in Claims : idx[k] = i /\ monitor[k] = "released"

\* The late "free" event of an earlier claim is made good: a slot that stays in
\* use is shown as taken again.
TakenIsShown ==
    \A k \in Claims : []<>(monitor[k] # "watching" \/ shown[idx[k]] = "active")

\* slot.rs: "the slot is released automatically once no bytes have flowed": a
\* claim whose connections stay quiet does not keep its slot, whatever became of
\* its request (also one answered with 503 or 409 after some groups were served).
QuietSlotIsFreed ==
    \A k \in Claims : []<>(~Claimed(k) \/ idle[k] = 0)

\* guac_proxy.rs, run_guac_slot: "both the listener and any active WebSocket
\* session are cancelled immediately -- no lingering tasks" (ssh_proxy.rs says the
\* same): no WebSocket session runs on after its slot was released.
SessionsEndWithSlot ==
    \A c \in Conns : conn[c] = "detached" => Claimed(of[c][1])
=============================================================================
