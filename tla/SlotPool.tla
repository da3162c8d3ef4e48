------------------------------ MODULE SlotPool ------------------------------
(***************************************************************************)
(* What the client promises about its connection slots, without saying     *)
(* how: a claim waits, is set up on a slot nobody else holds, is served    *)
(* there, and is over.  It gets a slot once and gives back that slot and   *)
(* no other, at most once; its accept loops are meant to run only while it *)
(* is served (one that has been told to stop may need a moment to do so).  *)
(*                                                                         *)
(* ClientSlots.tla implements this specification.                          *)
(***************************************************************************)
CONSTANTS
    Slots,
    Claims,
    NoClaim    \* a slot nobody holds

VARIABLES
    holder,    \* holder[i]: the claim that has slot i
    stage,     \* stage[k]: how far claim k has come
    accepting  \* claims with an accept loop that has not been told to stop

poolVars == <<holder, stage, accepting>>

PoolInit ==
    /\ holder = [i \in Slots |-> NoClaim]
    /\ stage = [k \in Claims |-> "waiting"]
    /\ accepting = {}

Take(k, i) ==
    /\ stage[k] = "waiting"
    /\ holder[i] = NoClaim
    /\ holder' = [holder EXCEPT ![i] = k]
    /\ stage' = [stage EXCEPT ![k] = "setup"]
    /\ UNCHANGED accepting

Serve(k) ==
    /\ stage[k] = "setup"
    /\ stage' = [stage EXCEPT ![k] = "served"]
    /\ accepting' = accepting \cup {k}
    /\ UNCHANGED holder

\* The last accept loop of a claim may end before the claim does.
StopAccepting(k) ==
    /\ k \in accepting
    /\ accepting' = accepting \ {k}
    /\ UNCHANGED <<holder, stage>>

\* The claim is given up with its slot, and all its accept loops are told to stop.
GiveUp(k, i) ==
    /\ stage[k] \in {"setup", "served"}
    /\ holder[i] = k
    /\ holder' = [holder EXCEPT ![i] = NoClaim]
    /\ stage' = [stage EXCEPT ![k] = "over"]
    /\ accepting' = accepting \ {k}

PoolNext ==
    \E k \in Claims :
        \/ Serve(k) \/ StopAccepting(k)
        \/ \E i \in Slots : Take(k, i) \/ GiveUp(k, i)

PoolSpec == PoolInit /\ [][PoolNext]_poolVars

\* What this amounts to: a claim that is set up or served has exactly one slot, and any
\* other has none; an accept loop not told to stop belongs to a claim that is served.
Ownership ==
    /\ \A k \in Claims : stage[k] \in {"setup", "served"} <=> \E i \in Slots : holder[i] = k
    /\ \A i, j \in Slots : holder[i] # NoClaim /\ holder[i] = holder[j] => i = j
    /\ \A k \in accepting : stage[k] = "served"
=============================================================================
