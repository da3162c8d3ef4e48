------------------------- MODULE DevicesPageProofs -------------------------
(***************************************************************************)
(* Proofs about DevicesPage for every number of devices, handlers under     *)
(* way, days and addresses, and for every length of the user's session.     *)
(*                                                                         *)
(* The three tabs share only the selected device, so that each has an       *)
(* inductive invariant of its own.  ConnInv: while no handler has been      *)
(* overtaken, the attempt under way is the only one, it keeps the page      *)
(* busy, and the rows it will read are still selected.  RecInv: a load that *)
(* meets no other is the one the state of the panel is about.  IpInv: the   *)
(* check with the latest number is about leftIp as it is, unless the        *)
(* timer has still to fire.                                                 *)
(***************************************************************************)
EXTENDS DevicesPage, FiniteSetTheorems, TLAPS

AttemptSet == [at : {"idle", "signing", "tunnel", "sleep", "poll"}, token : Part, rows : Part,
               slot : Part, polls : Nat]

\* The tunnel to device x.
TunnelTo(x) == [token |-> x, rows |-> x, slot |-> x]

\* An attempt under way that is of device x altogether.
AttemptOf(q, x) ==
    /\ q.at # "idle" /\ q.token = x /\ q.rows = x
    /\ q.at # "signing" => q.slot = x

ConnTypes ==
    /\ d \in Device
    /\ portRows \in {None, d}
    /\ attempts \in [Attempt -> AttemptSet]
    /\ probes \in [Probe -> [at : {"idle", "probe", "launch"}, rows : Part]]
    /\ strayed \in BOOLEAN
    /\ target \in Part
    /\ connected \in [token : Part, rows : Part, slot : Part]

\* What holds of the Connect tab until a handler is overtaken.
Straight ==
    /\ connectState = "done" => connected = TunnelTo(d) /\ target = d
    /\ \A a \in Attempt : attempts[a] # NoAttempt =>
          /\ AttemptOf(attempts[a], d) /\ busy /\ portRows = d
          /\ attempts[a].at # "signing" => target = d
          /\ \A b \in Attempt : attempts[b] # NoAttempt => b = a
    /\ \A p \in Probe : probes[p] # NoProbe => probes[p].rows = d /\ connected = TunnelTo(d)

ConnInv == ConnTypes /\ (~strayed => Straight)

\* The Connect tab is right at first.
LEMMA ConnInit == Init => ConnInv
<1> SUFFICES ASSUME Init PROVE ConnInv
  OBVIOUS
<1>1. NoAttempt \in AttemptSet
  BY DEF NoAttempt, AttemptSet, Part
<1>2. NoTunnel \in [token : Part, rows : Part, slot : Part]
  BY DEF NoTunnel, Part
<1>3. ConnTypes
  BY <1>1, <1>2 DEF Init, ConnTypes, NoProbe, Part
<1>4. Straight
  BY DEF Init, Straight
<1> QED BY <1>3, <1>4 DEF ConnInv

\* resetConnect leaves a tab that is right, or notes what it has overtaken.
LEMMA ConnReset ==
  ASSUME ConnInv, ResetConnect, d' \in Device, portRows' \in {None, d'}
  PROVE  ConnInv'
<1>1. ConnTypes'
  BY PageAssumption DEF ConnInv, ConnTypes, ResetConnect, NoTunnel, Part, InFlight
<1>2. ASSUME ~strayed' PROVE Straight'
  BY <1>2 DEF ResetConnect, InFlight, Straight
<1> QED BY <1>1, <1>2 DEF ConnInv

\* The steps of an attempt keep the tab right: it is the only one while none is overtaken.
LEMMA ConnAttempt ==
  ASSUME ConnInv, NEW a \in Attempt,
         Connect(a) \/ Signed(a) \/ Refused(a) \/ Opened(a) \/ DeepLink(a) \/ Poll(a)
           \/ PollFails(a)
  PROVE  ConnInv'
<1> USE DEF ConnInv
<1>0. attempts[a] \in AttemptSet /\ NoAttempt \in AttemptSet /\ d \in Part /\ portRows \in Part
  BY DEF ConnTypes, AttemptSet, NoAttempt, Part
<1>1. CASE Connect(a)
  <2>1. ConnTypes'
    BY <1>0, <1>1 DEF Connect, Goes, ConnTypes, AttemptSet, NoAttempt, Part
  <2>2. ASSUME ~strayed' PROVE Straight'
    <3>0. /\ ~strayed \/ ~InFlight
          /\ ~busy /\ portRows = d /\ busy' /\ attempts' = [attempts EXCEPT ![a] =
              [NoAttempt EXCEPT !.at = "signing", !.token = d, !.rows = portRows]]
      BY <1>1, <2>2 DEF Connect, Goes, ConnTypes, busy
    <3>1. /\ \A b \in Attempt : attempts[b] = NoAttempt
          /\ \A p \in Probe : probes[p] # NoProbe => probes[p].rows = d /\ connected = TunnelTo(d)
      BY <3>0 DEF Straight, InFlight
    <3>2. attempts'[a].at = "signing" /\ attempts'[a].token = d /\ attempts'[a].rows = d
      BY <3>0 DEF ConnTypes, NoAttempt
    <3> QED BY <3>0, <3>1, <3>2, <1>1 DEF Connect, Goes, ConnTypes, Straight, AttemptOf, busy
  <2> QED BY <2>1, <2>2
<1>2. CASE Signed(a)
  <2>1. ConnTypes'
    BY <1>0, <1>2 DEF Signed, Goes, ConnTypes, AttemptSet, Part
  <2>2. ASSUME ~strayed' PROVE Straight'
    <3>0. Straight /\ attempts[a] # NoAttempt
      BY <1>2, <2>2 DEF Signed, Goes, NoAttempt
    <3>1. /\ attempts[a].token = d /\ attempts[a].rows = d /\ portRows = d /\ target' = d /\ busy'
          /\ \A b \in Attempt : attempts[b] # NoAttempt => b = a
      BY <3>0, <1>2 DEF Straight, AttemptOf, Signed, Goes, busy
    <3>2. attempts'[a].at = "tunnel" /\ attempts'[a].token = d /\ attempts'[a].rows = d
            /\ attempts'[a].slot = d
      BY <3>1, <1>0, <1>2 DEF Signed, Goes, ConnTypes, AttemptSet
    <3> QED BY <3>0, <3>1, <3>2, <1>2 DEF Signed, Goes, ConnTypes, Straight, AttemptOf, busy
  <2> QED BY <2>1, <2>2
<1>3. CASE Refused(a)
  <2>1. ConnTypes'
    BY <1>0, <1>3 DEF Refused, Goes, ConnTypes
  <2>2. ASSUME ~strayed' PROVE Straight'
    BY <1>3, <2>2 DEF Refused, Goes, ConnTypes, Straight, AttemptOf, NoAttempt, busy
  <2> QED BY <2>1, <2>2
<1>4. CASE Opened(a)
  <2>1. ConnTypes'
    BY <1>0, <1>4 DEF Opened, Goes, ConnTypes, AttemptSet
  <2>2. ASSUME ~strayed' PROVE Straight'
    <3>0. Straight /\ attempts[a] # NoAttempt /\ attempts[a].at # "signing"
      BY <1>4, <2>2 DEF Opened, Goes, NoAttempt
    <3>1. connected' = TunnelTo(d) /\ target' = d /\ \A b \in Attempt : attempts'[b] = NoAttempt
      BY <3>0, <1>4 DEF Straight, AttemptOf, Opened, Goes, ConnTypes, TunnelTo
    <3> QED BY <3>0, <3>1, <1>4 DEF Opened, Goes, Straight
  <2> QED BY <2>1, <2>2
<1>5. CASE DeepLink(a)
  <2>1. ConnTypes'
    BY <1>0, <1>5 DEF DeepLink, Goes, ConnTypes, AttemptSet
  <2>2. ASSUME ~strayed' PROVE Straight'
    <3>0. Straight /\ attempts[a] # NoAttempt
      BY <1>5, <2>2 DEF DeepLink, Goes, NoAttempt
    <3>1. /\ attempts[a].token = d /\ portRows = d /\ attempts[a].slot = d /\ target = d /\ busy
          /\ \A b \in Attempt : attempts[b] # NoAttempt => b = a
      BY <3>0, <1>5 DEF Straight, AttemptOf, DeepLink
    <3>2. attempts'[a].at = "sleep" /\ attempts'[a].token = d /\ attempts'[a].rows = d
            /\ attempts'[a].slot = d
      BY <3>1, <1>0, <1>5 DEF DeepLink, Goes, ConnTypes, AttemptSet
    <3> QED BY <3>0, <3>1, <3>2, <1>5 DEF DeepLink, Goes, ConnTypes, Straight, AttemptOf, busy
  <2> QED BY <2>1, <2>2
<1>6. CASE Poll(a)
  <2>1. ConnTypes'
    <3>1. attempts[a].polls + 1 \in Nat
      BY <1>0 DEF AttemptSet
    <3>2. [attempts[a] EXCEPT !.at = "poll", !.slot = target, !.polls = @ + 1] \in AttemptSet
      BY <1>0, <1>6, <3>1 DEF Poll, ConnTypes, AttemptSet
    <3> QED BY <3>2, <1>6 DEF Poll, Goes, ConnTypes
  <2>2. ASSUME ~strayed' PROVE Straight'
    <3>0. Straight /\ attempts[a] # NoAttempt
      BY <1>6, <2>2 DEF Poll, Goes, NoAttempt
    <3>1. /\ attempts[a].token = d /\ attempts[a].rows = d /\ portRows = d /\ target = d /\ busy
          /\ \A b \in Attempt : attempts[b] # NoAttempt => b = a
      BY <3>0, <1>6 DEF Straight, AttemptOf, Poll
    <3>2. attempts'[a].at = "poll" /\ attempts'[a].token = d /\ attempts'[a].rows = d
            /\ attempts'[a].slot = d
      BY <3>1, <1>0, <1>6 DEF Poll, Goes, ConnTypes, AttemptSet
    <3> QED BY <3>0, <3>1, <3>2, <1>6 DEF Poll, Goes, ConnTypes, Straight, AttemptOf, busy
  <2> QED BY <2>1, <2>2
<1>7. CASE PollFails(a)
  <2>1. CASE Goes(a, connectState, [attempts[a] EXCEPT !.at = "sleep"])
    <3>1. ConnTypes'
      BY <1>0, <1>7, <2>1 DEF PollFails, Goes, ConnTypes, AttemptSet
    <3>2. ASSUME ~strayed' PROVE Straight'
      <4>0. Straight /\ attempts[a] # NoAttempt
        BY <1>7, <2>1, <3>2 DEF PollFails, Goes, NoAttempt
      <4>1. /\ attempts[a].token = d /\ attempts[a].rows = d /\ portRows = d /\ target = d /\ busy
            /\ attempts[a].slot = d
            /\ \A b \in Attempt : attempts[b] # NoAttempt => b = a
        BY <4>0, <1>7 DEF Straight, AttemptOf, PollFails
      <4>2. attempts'[a].at = "sleep" /\ attempts'[a].token = d /\ attempts'[a].rows = d
              /\ attempts'[a].slot = d
        BY <4>1, <1>0, <2>1 DEF Goes, ConnTypes, AttemptSet
      <4> QED BY <4>0, <4>1, <4>2, <1>7, <2>1
              DEF PollFails, Goes, ConnTypes, Straight, AttemptOf, busy
    <3> QED BY <3>1, <3>2
  <2>2. CASE Goes(a, "launching", NoAttempt)
    <3>1. ConnTypes'
      BY <1>0, <1>7, <2>2 DEF PollFails, Goes, ConnTypes
    <3>2. ASSUME ~strayed' PROVE Straight'
      BY <1>7, <2>2, <3>2 DEF PollFails, Goes, ConnTypes, Straight, AttemptOf, NoAttempt, busy
    <3> QED BY <3>1, <3>2
  <2> QED BY <1>7, <2>1, <2>2 DEF PollFails
<1> QED BY <1>1, <1>2, <1>3, <1>4, <1>5, <1>6, <1>7

\* So do the probes of the buttons.
LEMMA ConnProbe ==
  ASSUME ConnInv, NEW p \in Probe, OpenItem(p) \/ Probed(p) \/ Launched(p)
  PROVE  ConnInv'
<1> USE DEF ConnInv
<1>1. CASE OpenItem(p)
  <2>1. ConnTypes'
    BY <1>1 DEF OpenItem, ConnTypes
  <2>2. ASSUME ~strayed' PROVE Straight'
    <3>0. Straight /\ connected = TunnelTo(d) /\ connected.rows = d
      BY <1>1, <2>2 DEF OpenItem, Straight, TunnelTo
    <3>1. probes'[p].rows = d /\ \A o \in Probe : o # p => probes'[o] = probes[o]
      BY <3>0, <1>1 DEF OpenItem, ConnTypes
    <3> QED BY <3>0, <3>1, <1>1 DEF OpenItem, Straight, busy
  <2> QED BY <2>1, <2>2
<1>2. CASE Probed(p) \/ Launched(p)
  <2>1. ConnTypes'
    BY <1>2 DEF Probed, Launched, ConnTypes, NoProbe, Part
  <2>2. ASSUME ~strayed' PROVE Straight'
    <3>1. Straight /\ probes[p] # NoProbe
      BY <1>2, <2>2 DEF Probed, Launched, NoProbe
    <3>2. probes'[p] = NoProbe \/ probes'[p].rows = probes[p].rows
      BY <1>2 DEF Probed, Launched, ConnTypes
    <3>3. \A o \in Probe : o # p => probes'[o] = probes[o]
      BY <1>2 DEF Probed, Launched, ConnTypes
    <3> QED BY <3>1, <3>2, <3>3, <1>2 DEF Probed, Launched, Straight, busy
  <2> QED BY <2>1, <2>2
<1> QED BY <1>1, <1>2

\* Every step keeps the Connect tab right.
LEMMA ConnStep == ConnInv /\ [Next]_vars => ConnInv'
<1> SUFFICES ASSUME ConnInv, [Next]_vars PROVE ConnInv'
  OBVIOUS
<1>1. CASE PickRows
  <2>1. ConnTypes'
    BY <1>1 DEF PickRows, ConnInv, ConnTypes
  <2>2. ASSUME ~strayed' PROVE Straight'
    BY <1>1, <2>2 DEF PickRows, ConnInv, Straight, busy
  <2> QED BY <2>1, <2>2 DEF ConnInv
<1>2. CASE Dismiss
  BY <1>2, ConnReset DEF Dismiss, ConnInv, ConnTypes
<1>3. ASSUME NEW x \in Device, SelectDevice(x) PROVE ConnInv'
  BY <1>3, ConnReset DEF SelectDevice
<1>4. ASSUME NEW a \in Attempt,
             Connect(a) \/ Signed(a) \/ Refused(a) \/ Opened(a) \/ DeepLink(a) \/ Poll(a)
               \/ PollFails(a)
      PROVE  ConnInv'
  BY <1>4, ConnAttempt
<1>5. ASSUME NEW p \in Probe, OpenItem(p) \/ Probed(p) \/ Launched(p) PROVE ConnInv'
  BY <1>5, ConnProbe
<1>6. ASSUME UNCHANGED <<d, connecting>> PROVE ConnInv'
  BY <1>6 DEF connecting, ConnInv, ConnTypes, Straight, busy
<1>7. CASE \/ Refresh \/ TimerFires
           \/ \E t \in {"connect", "recordings", "manage"} : OpenTab(t)
           \/ \E l \in Load : Loaded(l) \/ \E day \in Day : OpenRecDay(l, day)
           \/ \E ip \in Address \cup {None} : TypeAddress(ip)
           \/ \E c \in checks : Checked(c) \/ CheckFails(c)
           \/ UNCHANGED vars
  BY <1>6, <1>7 DEF Refresh, TimerFires, OpenTab, Loaded, OpenRecDay, TypeAddress, Checked,
                    CheckFails, vars
<1> QED BY <1>1, <1>2, <1>3, <1>4, <1>5, <1>7 DEF Next

\* ConnInv holds in every reachable state.
THEOREM ConnInvariant == Spec => []ConnInv
BY ConnInit, ConnStep, PTL DEF Spec

\* For every number of handlers under way, "Tunnel open" is shown for the device the tunnel
\* leads to, except from the moment a handler is overtaken until a reset or Connect finds all
\* at their end.
THEOREM ShownHolds == Spec => []ShownIsOfDevice
<1>1. ConnInv => ShownIsOfDevice
  BY DEF ConnInv, Straight, ShownIsOfDevice, TunnelTo
<1> QED BY <1>1, ConnInvariant, PTL

\* A set of one element, in the form the steps of the page write it.
LEMMA OneDevice == ASSUME NEW x, NEW S, S = {x} PROVE Cardinality(S) = 1
BY FS_Singleton

\* For every number of handlers under way, a request to the client is of one device, except
\* from the moment a handler is overtaken until a reset or Connect finds all at their end.
THEOREM RequestsHold == Spec => RequestsOfOneDevice
<1>1. ASSUME ConnInv, [Next]_vars, sent' # sent, ~strayed PROVE Cardinality(sent') = 1
  <2> USE DEF ConnInv
  <2>0. Straight
    BY <1>1
  <2>1. ASSUME NEW a \in Attempt, Signed(a) \/ DeepLink(a) \/ Poll(a) PROVE Cardinality(sent') = 1
    <3>1. attempts[a] # NoAttempt /\ attempts[a].at \in {"signing", "tunnel", "sleep"}
      BY <2>1 DEF Signed, DeepLink, Poll, NoAttempt
    <3>2. attempts[a].token = d /\ portRows = d /\ (attempts[a].at # "signing" => target = d)
      BY <2>0, <3>1 DEF Straight, AttemptOf
    <3>3. CASE Signed(a)
      <4>1. sent' = {d}
        BY <3>2, <3>3 DEF Signed, Body
      <4> QED BY <4>1, OneDevice
    <3>4. CASE DeepLink(a)
      <4>1. sent' = {d}
        BY <3>2, <3>4 DEF DeepLink, Body
      <4> QED BY <4>1, OneDevice
    <3>5. CASE Poll(a)
      <4>1. sent' = {d}
        BY <3>2, <3>5 DEF Poll, Body
      <4> QED BY <4>1, OneDevice
    <3> QED BY <2>1, <3>3, <3>4, <3>5
  <2>2. ASSUME NEW p \in Probe, OpenItem(p) \/ Probed(p) PROVE Cardinality(sent') = 1
    <3>1. CASE OpenItem(p)
      <4>1. sent' = {d}
        BY <2>0, <3>1 DEF OpenItem, Straight, TunnelTo
      <4> QED BY <4>1, OneDevice
    <3>2. CASE Probed(p)
      <4>1. sent' = {d}
        BY <1>1, <2>0, <3>2 DEF Probed, NoProbe, Straight, TunnelTo
      <4> QED BY <4>1, OneDevice
    <3> QED BY <2>2, <3>1, <3>2
  <2>3. ASSUME UNCHANGED sent PROVE FALSE
    BY <1>1, <2>3
  <2>8. \A p \in Probe : ~Launched(p)
    BY <2>3 DEF Launched
  <2>4. \A a \in Attempt : ~Connect(a) /\ ~Refused(a) /\ ~Opened(a) /\ ~PollFails(a)
    BY <2>3 DEF Connect, Refused, Opened, PollFails
  <2>5. \A x \in Device : ~SelectDevice(x)
    BY <2>3 DEF SelectDevice, ResetConnect
  <2>6. ~PickRows /\ ~Dismiss /\ ~UNCHANGED connecting /\ ~UNCHANGED vars
    BY <2>3 DEF PickRows, Dismiss, ResetConnect, connecting, vars
  <2>7. ~(\/ Refresh \/ TimerFires
          \/ \E t \in {"connect", "recordings", "manage"} : OpenTab(t)
          \/ \E l \in Load : Loaded(l) \/ \E day \in Day : OpenRecDay(l, day)
          \/ \E ip \in Address \cup {None} : TypeAddress(ip)
          \/ \E c \in checks : Checked(c) \/ CheckFails(c))
    BY <2>6 DEF Refresh, TimerFires, OpenTab, Loaded, OpenRecDay, TypeAddress, Checked, CheckFails
  <2> QED BY <1>1, <2>1, <2>2, <2>4, <2>5, <2>6, <2>7, <2>8 DEF Next
<1>2. ConnInv /\ [Next]_vars => [sent' # sent /\ ~strayed => Cardinality(sent') = 1]_vars
  BY <1>1
<1> QED BY <1>2, ConnInvariant, PTL DEF Spec, RequestsOfOneDevice

--------------------------------------------------------------------------------
(* The Manage tab *)

IpTypes ==
    /\ ipCheckSeq \in Nat
    /\ \A c \in checks : c.seq \in Nat /\ c.seq <= ipCheckSeq /\ c.ip # None

\* The check with the latest number is about leftIp and the device shown.
Latest == ~ipCheckTimer =>
    \A c \in checks : c.seq = ipCheckSeq => c.ip = leftIp /\ c.exclude = d

\* The field shows leftIp, or what it was created with.
Shows == field # leftIp => field = addressOf[d]

IpInv == IpTypes /\ Latest /\ Shows /\ WarningIsCurrent

\* The Manage tab is right at first.
LEMMA IpInit == Init => IpInv
<1> SUFFICES ASSUME Init PROVE IpInv
  OBVIOUS
<1>1. ipCheckSeq = 1 /\ ipInUse = FALSE
  BY DEF Init
<1>4. Shows
  BY DEF Init, Shows
<1>2. CASE leftIp = None
  <2>1. checks = {}
    BY <1>2 DEF Init
  <2> QED BY <1>1, <1>2, <1>4, <2>1 DEF IpInv, IpTypes, Latest, Shows, WarningIsCurrent
<1>3. CASE leftIp # None
  <2>1. checks = {[seq |-> 1, ip |-> leftIp, exclude |-> d]}
    BY <1>3 DEF Init
  <2> QED BY <1>1, <1>3, <1>4, <2>1 DEF IpInv, IpTypes, Latest, Shows, WarningIsCurrent
<1> QED BY <1>2, <1>3

\* A check that starts is the latest, and it is about what leftIp is set to.
LEMMA IpCheck ==
  ASSUME IpInv, CheckIpUnique(leftIp', d'), leftIp' = None => ipInUse' = FALSE, Shows'
  PROVE  IpInv'
<1>1. ipCheckSeq' \in Nat /\ ipCheckSeq' > ipCheckSeq
  BY DEF IpInv, IpTypes, CheckIpUnique
<1>2. CASE leftIp' = None
  <2>1. checks' = checks
    BY <1>2 DEF CheckIpUnique
  <2>2. IpTypes' /\ \A c \in checks' : c.seq # ipCheckSeq'
    BY <1>1, <2>1 DEF IpInv, IpTypes
  <2> QED BY <1>2, <2>2 DEF IpInv, Latest, Shows, WarningIsCurrent
<1>3. CASE leftIp' # None
  <2> DEFINE new == [seq |-> ipCheckSeq', ip |-> leftIp', exclude |-> d']
  <2>1. checks' = checks \cup {new}
    BY <1>3 DEF CheckIpUnique
  <2>2. new.seq = ipCheckSeq' /\ new.ip = leftIp' /\ new.exclude = d'
    OBVIOUS
  <2> HIDE DEF new
  <2>3. IpTypes' /\ \A c \in checks' : c.seq = ipCheckSeq' => c = new
    BY <1>1, <1>3, <2>1, <2>2 DEF IpInv, IpTypes
  <2>4. new \in checks'
    BY <2>1
  <2> QED BY <2>2, <2>3, <2>4 DEF IpInv, Latest, Shows, WarningIsCurrent
<1> QED BY <1>2, <1>3

\* Every step keeps the Manage tab right.
LEMMA IpStep == IpInv /\ [Next]_vars => IpInv'
<1> SUFFICES ASSUME IpInv, [Next]_vars PROVE IpInv'
  OBVIOUS
<1>1. ASSUME NEW x \in Device, SelectDevice(x) PROVE IpInv'
  <2>1. CheckIpUnique(leftIp', d') /\ ipInUse' = FALSE /\ Shows'
    BY <1>1 DEF SelectDevice, Shows
  <2> QED BY <2>1, IpCheck
<1>2. CASE TimerFires
  <2>1. CheckIpUnique(leftIp', d') /\ (leftIp' = None => ipInUse' = FALSE) /\ Shows'
    BY <1>2 DEF TimerFires, IpInv, Shows
  <2> QED BY <2>1, IpCheck
<1>3. ASSUME NEW ip \in Address \cup {None}, TypeAddress(ip) PROVE IpInv'
  BY <1>3 DEF TypeAddress, IpInv, IpTypes, Latest, Shows, WarningIsCurrent
<1>4. ASSUME NEW c \in checks, Checked(c) PROVE IpInv'
  <2>1. IpTypes' /\ Latest' /\ Shows'
    BY <1>4 DEF Checked, IpInv, IpTypes, Latest, Shows
  <2>2. WarningIsCurrent'
    <3>1. CASE c.seq = ipCheckSeq
      <4>1. ipInUse' = InUse(c.ip, c.exclude) /\ UNCHANGED <<d, leftIp, ipCheckTimer>>
        BY <1>4, <3>1 DEF Checked
      <4>2. ~ipCheckTimer => leftIp # None /\ InUse(c.ip, c.exclude) = InUse(leftIp, d)
        BY <1>4, <3>1 DEF IpInv, IpTypes, Latest
      <4> QED BY <2>1, <4>1, <4>2 DEF WarningIsCurrent, Shows, InUse
    <3>2. CASE c.seq # ipCheckSeq
      BY <1>4, <3>2, <2>1 DEF Checked, IpInv, WarningIsCurrent, Shows, InUse
    <3> QED BY <3>1, <3>2
  <2> QED BY <2>1, <2>2 DEF IpInv
<1>5. ASSUME NEW c \in checks, CheckFails(c) PROVE IpInv'
  <2>1. IpTypes' /\ Latest' /\ Shows'
    BY <1>5 DEF CheckFails, IpInv, IpTypes, Latest, Shows
  <2>2. WarningIsCurrent'
    BY <1>5, <2>1 DEF CheckFails, IpInv, WarningIsCurrent, Shows, InUse
  <2> QED BY <2>1, <2>2 DEF IpInv
<1>6. ASSUME UNCHANGED <<d, address>> PROVE IpInv'
  BY <1>6 DEF address, IpInv, IpTypes, Latest, Shows, WarningIsCurrent, InUse
<1>7. CASE \/ PickRows \/ Dismiss \/ Refresh
           \/ \E p \in Probe : OpenItem(p) \/ Probed(p) \/ Launched(p)
           \/ \E l \in Load : Loaded(l) \/ \E day \in Day : OpenRecDay(l, day)
           \/ UNCHANGED vars
  BY <1>6, <1>7 DEF PickRows, Dismiss, Refresh, OpenItem, Probed, Launched, Loaded, OpenRecDay, vars
<1>8. CASE \E a \in Attempt : Connect(a) \/ Signed(a) \/ Refused(a) \/ Opened(a) \/ DeepLink(a)
                                \/ Poll(a) \/ PollFails(a)
  BY <1>6, <1>8 DEF Connect, Signed, Refused, Opened, DeepLink, Poll, PollFails, Goes
<1>9. ASSUME NEW t \in {"connect", "recordings", "manage"}, OpenTab(t) PROVE IpInv'
  BY <1>9 DEF OpenTab, IpInv, IpTypes, Latest, Shows, WarningIsCurrent, InUse
<1> QED BY <1>1, <1>2, <1>3, <1>4, <1>5, <1>7, <1>8, <1>9 DEF Next

\* For every number of checks in flight, devices and addresses, the warning is about the address
\* typed last for the device shown, or else its own, once nothing is pending; what the field
\* shows is that address, or the device's own where the form was created again.
THEOREM WarningHolds == Spec => []WarningIsCurrent
<1>1. Spec => []IpInv
  BY IpInit, IpStep, PTL DEF Spec
<1> QED BY <1>1, PTL DEF IpInv

--------------------------------------------------------------------------------
(* The Recordings tab *)

Request == [device : Device, day : Day \cup {None}]

RecTypes ==
    /\ d \in Device
    /\ loads \in [Load -> Request \cup {None}]
    /\ recState \in {"idle", "loading-days", "loading-sessions", "ready", "error", "forbidden"}
    /\ recState = "idle" => recDays = None
    /\ doubtful \in BOOLEAN

\* The load under way is the only one, of the device shown, and what the panel waits for.
OneLoad ==
    \A l \in Load : loads[l] # None =>
        /\ loads[l].device = d /\ recSessions = None
        /\ loads[l].day = None => recState = "loading-days"
        /\ loads[l].day # None => /\ recState = "loading-sessions" /\ recDay = loads[l].day
                                  /\ recLoadedFor = d
        /\ \A m \in Load : loads[m] # None => m = l

\* The lists shown are of the device they were loaded for, and on the tab that is the one shown.
ListsAgree ==
    recState \in {"ready", "loading-sessions", "error"} =>
        /\ recDays = recLoadedFor
        /\ recSessions # None => recSessions = [device |-> recLoadedFor, day |-> recDay]
        /\ tab = "recordings" => recLoadedFor = d

RecInv == RecTypes /\ (~doubtful => OneLoad /\ ListsAgree)

\* The Recordings tab is right at first.
LEMMA RecInit == Init => RecInv
  BY DEF Init, RecInv, RecTypes, OneLoad, ListsAgree

\* A load of days starts the panel anew.
LEMMA RecLoadDays ==
  ASSUME RecInv, d' \in Device, LoadDays(d')
  PROVE  RecInv'
<1>1. PICK l \in Load :
        /\ loads[l] = None
        /\ loads' = [loads EXCEPT ![l] = [device |-> d', day |-> None]]
        /\ recState' = "loading-days" /\ recDay' = None /\ recSessions' = None
        /\ doubtful' = Loading
  BY DEF LoadDays
<1> DEFINE new == [device |-> d', day |-> None]
<1>2. new \in Request /\ new.device = d' /\ new.day = None
  BY DEF Request
<1> HIDE DEF new
<1>3. loads' = [loads EXCEPT ![l] = new]
  BY <1>1 DEF new
<1>4. RecTypes'
  <2>1. loads' \in [Load -> Request \cup {None}]
    BY <1>2, <1>3 DEF RecInv, RecTypes
  <2>2. doubtful' \in BOOLEAN
    BY <1>1 DEF Loading
  <2> QED BY <1>1, <2>1, <2>2 DEF RecTypes
<1>5. ASSUME ~doubtful' PROVE OneLoad' /\ ListsAgree'
  <2>1. \A m \in Load : m # l => loads'[m] = None
    BY <1>1, <1>3, <1>5 DEF RecInv, RecTypes, Loading
  <2>2. loads'[l] = new
    BY <1>3 DEF RecInv, RecTypes
  <2> QED BY <1>1, <1>2, <2>1, <2>2 DEF OneLoad, ListsAgree
<1> QED BY <1>4, <1>5 DEF RecInv

\* The effect on the tab keeps it right when the device or the tab changes.
LEMMA RecEffect ==
  ASSUME RecInv, d' \in Device, RecordingsEffect(d', tab'), d' = d \/ tab' = tab
  PROVE  RecInv'
<1>1. CASE tab' = "recordings" /\ recLoadedFor # d'
  BY <1>1, RecLoadDays DEF RecordingsEffect
<1>2. CASE ~(tab' = "recordings" /\ recLoadedFor # d')
  <2>1. /\ doubtful' = (doubtful \/ (Loading /\ d' # d))
        /\ UNCHANGED <<recDays, recDay, recSessions, recState, recLoadedFor, loads>>
    BY <1>2 DEF RecordingsEffect
  <2>2. RecTypes'
    BY <2>1 DEF RecInv, RecTypes
  <2>3. ASSUME ~doubtful' PROVE OneLoad' /\ ListsAgree'
    <3>1. ~doubtful /\ OneLoad /\ ListsAgree /\ (Loading => d' = d)
      BY <2>1, <2>3 DEF RecInv
    <3>2. OneLoad'
      BY <2>1, <3>1 DEF OneLoad, Loading
    <3>3. ListsAgree'
      BY <1>2, <2>1, <3>1 DEF ListsAgree
    <3> QED BY <3>2, <3>3
  <2> QED BY <2>2, <2>3 DEF RecInv
<1> QED BY <1>1, <1>2

\* So does opening a day.
LEMMA RecOpenDay ==
  ASSUME RecInv, NEW l \in Load, NEW day \in Day, OpenRecDay(l, day)
  PROVE  RecInv'
<1> DEFINE new == [device |-> d, day |-> day]
<1>1. new \in Request /\ new.device = d /\ new.day = day /\ day # None
  BY PageAssumption DEF Request, RecInv, RecTypes
<1> HIDE DEF new
<1>2. loads' = [loads EXCEPT ![l] = new]
  BY DEF OpenRecDay, new
<1>3. RecTypes'
  BY <1>1, <1>2 DEF RecInv, RecTypes, OpenRecDay
<1>4. ASSUME ~doubtful' PROVE OneLoad' /\ ListsAgree'
  <2>1. OneLoad /\ ListsAgree /\ ~Loading /\ tab = "recordings" /\ recDays # None
    BY <1>4 DEF RecInv, OpenRecDay, Listed
  <2>2. \A m \in Load : m # l => loads'[m] = None
    BY <1>2, <2>1 DEF RecInv, RecTypes, Loading
  <2>3. loads'[l] = new
    BY <1>2 DEF RecInv, RecTypes
  <2>4. recDays = recLoadedFor /\ recLoadedFor = d
    BY <2>1 DEF ListsAgree, OpenRecDay, Listed, RecInv, RecTypes
  <2>5. /\ recDay' = day /\ recState' = "loading-sessions" /\ recSessions' = None
        /\ UNCHANGED <<d, tab, recDays, recLoadedFor>>
    BY DEF OpenRecDay
  <2> QED BY <1>1, <2>2, <2>3, <2>4, <2>5 DEF OneLoad, ListsAgree
<1> QED BY <1>3, <1>4 DEF RecInv

\* And so does the answer to a load.
LEMMA RecLoaded ==
  ASSUME RecInv, NEW l \in Load, Loaded(l)
  PROVE  RecInv'
<1> DEFINE q == loads[l]
<1>1. /\ q # None /\ loads' = [loads EXCEPT ![l] = None]
      /\ UNCHANGED <<d, tab, recDay>>
  BY DEF Loaded
<1>2. \/ q.day = None /\ recDays' = q.device /\ recLoadedFor' = d /\ recState' = "ready"
           /\ UNCHANGED <<recSessions, doubtful>>
      \/ q.day = None /\ recLoadedFor' = d /\ recState' = "forbidden"
           /\ UNCHANGED <<recDays, recSessions, doubtful>>
      \/ q.day # None /\ recSessions' = q /\ recState' = "ready"
           /\ UNCHANGED <<recDays, recLoadedFor, doubtful>>
      \/ recState' = "error" /\ doubtful' = (doubtful \/ q.day = None)
           /\ UNCHANGED <<recDays, recSessions, recLoadedFor>>
  BY DEF Loaded
<1>3. RecTypes'
  BY <1>1, <1>2 DEF RecInv, RecTypes
<1>4. ASSUME ~doubtful' PROVE OneLoad' /\ ListsAgree'
  <2>0. ~doubtful
    BY <1>2, <1>4
  <2>1. ~doubtful /\ OneLoad /\ ListsAgree
    BY <2>0 DEF RecInv
  <2>2. /\ q.device = d /\ recSessions = None
        /\ q.day = None => recState = "loading-days"
        /\ q.day # None => recState = "loading-sessions" /\ recDay = q.day /\ recLoadedFor = d
        /\ \A m \in Load : loads[m] # None => m = l
    BY <1>1, <2>1 DEF OneLoad
  <2>3. \A m \in Load : loads'[m] = None
    BY <1>1, <2>2 DEF RecInv, RecTypes
  <2>4. q \in Request /\ q = [device |-> q.device, day |-> q.day]
    BY <1>1 DEF RecInv, RecTypes, Request
  <2>5. q.day # None => recDays = d
    BY <2>1, <2>2 DEF ListsAgree
  <2> HIDE DEF q
  <2>6. ListsAgree'
    BY <1>1, <1>2, <1>4, <2>2, <2>4, <2>5 DEF ListsAgree
  <2> QED BY <2>3, <2>6 DEF OneLoad
<1> QED BY <1>3, <1>4 DEF RecInv

\* Every step keeps the Recordings tab right.
LEMMA RecStep == RecInv /\ [Next]_vars => RecInv'
<1> SUFFICES ASSUME RecInv, [Next]_vars PROVE RecInv'
  OBVIOUS
<1>1. ASSUME NEW x \in Device, SelectDevice(x) PROVE RecInv'
  <2>1. d' \in Device /\ tab' = tab /\ RecordingsEffect(d', tab')
    BY <1>1 DEF SelectDevice
  <2> QED BY <2>1, RecEffect
<1>2. ASSUME NEW t \in {"connect", "recordings", "manage"}, OpenTab(t) PROVE RecInv'
  <2>1. d' = d /\ d \in Device /\ tab' = t /\ RecordingsEffect(d, t)
    BY <1>2 DEF OpenTab, RecInv, RecTypes
  <2> QED BY <2>1, RecEffect
<1>3. CASE Refresh
  <2>1. d' = d /\ d \in Device /\ LoadDays(d)
    BY <1>3 DEF Refresh, RecInv, RecTypes
  <2> QED BY <2>1, RecLoadDays
<1>4. ASSUME NEW l \in Load, NEW day \in Day, OpenRecDay(l, day) PROVE RecInv'
  BY <1>4, RecOpenDay
<1>5. ASSUME NEW l \in Load, Loaded(l) PROVE RecInv'
  BY <1>5, RecLoaded
<1>6. ASSUME UNCHANGED <<d, tab, recordings>> PROVE RecInv'
  BY <1>6 DEF recordings, RecInv, RecTypes, OneLoad, ListsAgree
<1>7. CASE \/ PickRows \/ Dismiss \/ TimerFires
           \/ \E p \in Probe : OpenItem(p) \/ Probed(p) \/ Launched(p)
           \/ \E ip \in Address \cup {None} : TypeAddress(ip)
           \/ \E c \in checks : Checked(c) \/ CheckFails(c)
           \/ UNCHANGED vars
  BY <1>6, <1>7 DEF PickRows, Dismiss, TimerFires, OpenItem, Probed, Launched, TypeAddress, Checked,
                    CheckFails, vars
<1>8. CASE \E a \in Attempt : Connect(a) \/ Signed(a) \/ Refused(a) \/ Opened(a) \/ DeepLink(a)
                                \/ Poll(a) \/ PollFails(a)
  BY <1>6, <1>8 DEF Connect, Signed, Refused, Opened, DeepLink, Poll, PollFails, Goes
<1> QED BY <1>1, <1>2, <1>3, <1>4, <1>5, <1>7, <1>8 DEF Next

\* For every number of devices, days and loads, the lists on the Recordings tab are those of the
\* device shown, unless loads have overlapped, one has outlived a change of device or one of
\* days has failed since days were last loaded with no load waiting.
THEOREM RecordingsHold == Spec => []RecordingsOfDevice
<1>1. RecInv => RecordingsOfDevice
  BY DEF RecInv, ListsAgree, RecordingsOfDevice
<1>2. Spec => []RecInv
  BY RecInit, RecStep, PTL DEF Spec
<1> QED BY <1>1, <1>2, PTL

=============================================================================
