----------------------------- MODULE DevicesPage -----------------------------
(***************************************************************************)
(* The detail panel of the portal's devices page in one browser tab: the    *)
(* Connect, Recordings and Manage tabs of the device selected in the list.  *)
(*                                                                         *)
(* The handlers are asynchronous functions over the component's variables:  *)
(* whatever follows an await runs later, when the user may have selected    *)
(* another device, and reads the variables as they are then. A handler's    *)
(* state before and after each await is an element of attempts, probes or   *)
(* loads; answers arrive in any order. Selecting a device runs the effects  *)
(* that reset the panel (at once: they run before the next event).          *)
(*                                                                         *)
(* A token, a target, rows of applications with their credentials and a     *)
(* local slot are each represented by the device they are of; None stands   *)
(* for an empty string or list. All devices have applications and a tunnel  *)
(* gateway. What saving the form does is in Spools.                         *)
(***************************************************************************)
EXTENDS Naturals, FiniteSets

CONSTANTS
    Device,
    Day,                 \* days with recordings
    Address,             \* what may be typed as IP address
    addressOf,           \* the address each device has in the database
    Attempt, Probe, Load,  \* handlers that may be waiting at the same time
    None,
    MaxActs,             \* bound: things the user does
    MaxPolls             \* bound: polls of the client after a deep link (5 s / 750 ms)

ASSUME PageAssumption ==
    /\ None \notin Device \cup Day \cup Address
    /\ None \notin [device : Device, day : Day \cup {None}]
    /\ addressOf \in [Device -> Address \cup {None}]
    /\ MaxActs \in Nat /\ MaxPolls \in Nat

VARIABLES
    d, tab,              \* the selected device and the open tab
    portRows,            \* the device whose rows are selected, None if no row is
    connectState, target, connected,   \* connectedTarget; token, rows and slot of the connection
    probeState,
    attempts, probes,    \* doConnect with launchViaDeepLink, and openItem, while they wait
    sent,                \* what the last message to the client was put together from
    recDays, recDay, recSessions, recState, recLoadedFor,
    loads,               \* loadRecDays and openRecDay while they wait
    field,               \* what the input of the address shows
    leftIp, ipInUse, ipCheckSeq, ipCheckTimer,
    checks,              \* checkIpUnique while it waits
    acts,                \* counter of the bound
    strayed,             \* history: a reset has overtaken a connect handler, and neither a
                         \* reset nor Connect has found all handlers at their end since
    doubtful,            \* history: a load met another or a change of device, or failed
    missed               \* history: the latest check of the address failed

connecting == <<portRows, connectState, target, connected, probeState, attempts, probes, sent,
                strayed>>
recordings == <<recDays, recDay, recSessions, recState, recLoadedFor, loads, doubtful>>
address    == <<field, leftIp, ipInUse, ipCheckSeq, ipCheckTimer, checks, missed>>
vars       == <<d, tab, connecting, recordings, address, acts>>

Part      == Device \cup {None}
NoAttempt == [at |-> "idle", token |-> None, rows |-> None, slot |-> None, polls |-> 0]
NoTunnel  == [token |-> None, rows |-> None, slot |-> None]
NoProbe   == [at |-> "idle", rows |-> None]

Init ==
    /\ d \in Device /\ tab = "connect" /\ acts = 0
    /\ portRows = None /\ connectState = "idle" /\ target = None /\ connected = NoTunnel
    /\ probeState = "idle" /\ sent = {} /\ strayed = FALSE
    /\ attempts = [a \in Attempt |-> NoAttempt]
    /\ probes = [p \in Probe |-> NoProbe]
    /\ recDays = None /\ recDay = None /\ recSessions = None
    /\ recState = "idle" /\ recLoadedFor = None /\ doubtful = FALSE
    /\ loads = [l \in Load |-> None]
    /\ field = addressOf[d] /\ leftIp = addressOf[d] /\ ipInUse = FALSE
    /\ ipCheckTimer = FALSE /\ missed = FALSE
    /\ ipCheckSeq = 1
    /\ checks = IF leftIp = None THEN {} ELSE {[seq |-> 1, ip |-> leftIp, exclude |-> d]}

Acts == acts < MaxActs /\ acts' = acts + 1

--------------------------------------------------------------------------------
(* Connect *)

busy     == connectState \in {"signing", "connecting"}
InFlight == \/ \E a \in Attempt : attempts[a] # NoAttempt
            \/ \E p \in Probe : probes[p] # NoProbe

\* Selecting and clearing rows, with the credentials typed for them.
PickRows ==
    /\ Acts /\ tab = "connect" /\ ~busy
    /\ portRows' = IF portRows = None THEN d ELSE None
    /\ UNCHANGED <<d, tab, connectState, target, connected, probeState, attempts, probes, sent,
                   strayed, recordings, address>>

\* Mutant of ResetConnect: the state of the connection survives the reset.
ResetConnectFields ==
    /\ target' = None /\ connected' = NoTunnel
    /\ probeState' = "idle"
    /\ strayed' = InFlight
    /\ UNCHANGED <<connectState, attempts, probes, sent>>

\* resetConnect; the rows are the caller's.
ResetConnect ==
    /\ connectState' = "idle" /\ target' = None /\ connected' = NoTunnel
    /\ probeState' = "idle"
    /\ strayed' = InFlight
    /\ UNCHANGED <<attempts, probes, sent>>

Dismiss ==
    /\ Acts /\ tab = "connect" /\ connectState \in {"done", "error", "launching"}
    /\ ResetConnect
    /\ UNCHANGED <<d, tab, portRows, recordings, address>>

\* What an attempt does to the panel and to itself when it goes on.
Goes(a, state, q) ==
    /\ connectState' = state
    /\ attempts' = [attempts EXCEPT ![a] = q]
    /\ UNCHANGED <<d, tab, portRows, probes, recordings, address>>

\* doConnect up to the first await. The rows are taken now.
Connect(a) ==
    /\ Acts /\ tab = "connect" /\ ~busy /\ portRows # None
    /\ attempts[a] = NoAttempt
    /\ Goes(a, "signing", [NoAttempt EXCEPT !.at = "signing", !.token = d, !.rows = portRows])
    /\ strayed' = (strayed /\ InFlight)
    /\ UNCHANGED <<target, connected, probeState, sent>>

\* tunnelBody: the token of the attempt with the target and the selected rows of the moment.
Body(a, to) == {attempts[a].token, to, portRows}

\* The token is there: target and gateway are kept, and the request goes to the client.
Signed(a) ==
    LET q == attempts[a] IN
    /\ q.at = "signing"
    /\ target' = q.token
    /\ sent' = Body(a, target')
    /\ Goes(a, "connecting", [q EXCEPT !.at = "tunnel", !.slot = target'])
    /\ UNCHANGED <<connected, probeState, strayed, acts>>

\* Signing or the client refuses.
Refused(a) ==
    /\ attempts[a].at \in {"signing", "tunnel", "poll"}
    /\ Goes(a, "error", NoAttempt)
    /\ UNCHANGED <<target, connected, probeState, sent, strayed, acts>>

\* The client opens what the request named, in a slot of its own.
Opened(a) ==
    LET q == attempts[a] IN
    /\ q.at \in {"tunnel", "poll"}
    /\ connected' = [token |-> q.token, rows |-> q.rows, slot |-> q.slot]
    /\ probeState' = "idle"
    /\ Goes(a, "done", NoAttempt)
    /\ UNCHANGED <<target, sent, strayed, acts>>

\* No client answers: launchViaDeepLink takes the rows anew and starts the client.
DeepLink(a) ==
    /\ attempts[a].at = "tunnel"
    /\ sent' = Body(a, target)
    /\ Goes(a, connectState, [attempts[a] EXCEPT !.at = "sleep", !.rows = portRows])
    /\ UNCHANGED <<target, connected, probeState, strayed, acts>>

Poll(a) ==
    /\ attempts[a].at = "sleep"
    /\ sent' = Body(a, target)
    /\ Goes(a, connectState, [attempts[a] EXCEPT !.at = "poll", !.slot = target, !.polls = @ + 1])
    /\ UNCHANGED <<target, connected, probeState, strayed, acts>>

\* Still no client: the next poll, or the deadline.
PollFails(a) ==
    LET q == attempts[a] IN
    /\ q.at = "poll"
    /\ \/ q.polls < MaxPolls /\ Goes(a, connectState, [q EXCEPT !.at = "sleep"])
       \/ Goes(a, "launching", NoAttempt)
    /\ UNCHANGED <<target, connected, probeState, sent, strayed, acts>>

\* openItem on a launch button: the device is probed first.
OpenItem(p) ==
    /\ Acts /\ tab = "connect" /\ connectState = "done" /\ connected.rows # None
    /\ probes[p] = NoProbe
    /\ probes' = [probes EXCEPT ![p] = [at |-> "probe", rows |-> connected.rows]]
    /\ probeState' = "checking"
    /\ sent' = {connected.token, target, connected.rows}
    /\ UNCHANGED <<d, tab, portRows, connectState, target, connected, attempts, strayed,
                   recordings, address>>

\* The probe's answer: executeItem asks for the button's application on the slot of the moment,
\* or the device is shown as not reachable.
Probed(p) ==
    /\ probes[p].at = "probe"
    /\ \/ /\ probes' = [probes EXCEPT ![p].at = "launch"]
          /\ sent' = {probes[p].rows, connected.slot}
          /\ UNCHANGED probeState
       \/ /\ probes' = [probes EXCEPT ![p] = NoProbe]
          /\ probeState' = "unreachable"
          /\ UNCHANGED sent
    /\ UNCHANGED <<d, tab, portRows, connectState, target, connected, attempts, strayed,
                   recordings, address, acts>>

\* The client has answered the launch, or failed to.
Launched(p) ==
    /\ probes[p].at = "launch"
    /\ probes' = [probes EXCEPT ![p] = NoProbe]
    /\ probeState' = "idle"
    /\ UNCHANGED <<d, tab, portRows, connectState, target, connected, attempts, sent, strayed,
                   recordings, address, acts>>

--------------------------------------------------------------------------------
(* Recordings *)

Loading == \E l \in Load : loads[l] # None

\* Mutant of LoadDays: the sessions of the previous list are kept.
LoadDaysOnly(x) ==
    \E l \in Load :
        /\ loads[l] = None
        /\ loads' = [loads EXCEPT ![l] = [device |-> x, day |-> None]]
        /\ recState' = "loading-days"
        /\ doubtful' = Loading
        /\ UNCHANGED <<recDays, recDay, recSessions, recLoadedFor>>

\* loadRecDays for device x up to its await.
LoadDays(x) ==
    \E l \in Load :
        /\ loads[l] = None
        /\ loads' = [loads EXCEPT ![l] = [device |-> x, day |-> None]]
        /\ recState' = "loading-days" /\ recDay' = None /\ recSessions' = None
        /\ doubtful' = Loading
        /\ UNCHANGED <<recDays, recLoadedFor>>

\* The effect: the days are loaded when the tab shows a device they are not loaded for.
RecordingsEffect(x, t) ==
    IF t = "recordings" /\ recLoadedFor # x THEN LoadDays(x)
    ELSE doubtful' = (doubtful \/ (Loading /\ x # d))
         /\ UNCHANGED <<recDays, recDay, recSessions, recState, recLoadedFor, loads>>

\* The buttons are there unless the days are being loaded or access was refused.
Listed == tab = "recordings" /\ recState \notin {"loading-days", "forbidden"}

Refresh ==
    /\ Acts /\ Listed
    /\ LoadDays(d)
    /\ UNCHANGED <<d, tab, connecting, address>>

OpenRecDay(l, day) ==
    /\ Acts /\ Listed /\ recDays # None
    /\ loads[l] = None
    /\ loads' = [loads EXCEPT ![l] = [device |-> d, day |-> day]]
    /\ recDay' = day /\ recState' = "loading-sessions" /\ recSessions' = None
    /\ doubtful' = (doubtful \/ Loading)
    /\ UNCHANGED <<d, tab, recDays, recLoadedFor, connecting, address>>

\* The answer to a load: the list, the refusal (of days only) or an error. What is loaded is
\* noted for the device selected by then.
Loaded(l) ==
    LET q == loads[l] IN
    /\ q # None
    /\ loads' = [loads EXCEPT ![l] = None]
    /\ \/ /\ q.day = None
          /\ recDays' = q.device /\ recLoadedFor' = d /\ recState' = "ready"
          /\ UNCHANGED <<recSessions, doubtful>>
       \/ /\ q.day = None
          /\ recLoadedFor' = d /\ recState' = "forbidden"
          /\ UNCHANGED <<recDays, recSessions, doubtful>>
       \/ /\ q.day # None
          /\ recSessions' = q /\ recState' = "ready"
          /\ UNCHANGED <<recDays, recLoadedFor, doubtful>>
       \/ /\ recState' = "error"
          /\ doubtful' = (doubtful \/ q.day = None)
          /\ UNCHANGED <<recDays, recSessions, recLoadedFor>>
    /\ UNCHANGED <<d, tab, recDay, connecting, address, acts>>

--------------------------------------------------------------------------------
(* The address on the Manage tab *)

\* checkIpUnique of address ip for device x up to its await.
CheckIpUnique(ip, x) ==
    /\ ipCheckSeq' = ipCheckSeq + 1
    /\ checks' = IF ip = None THEN checks
                 ELSE checks \cup {[seq |-> ipCheckSeq', ip |-> ip, exclude |-> x]}
    /\ missed' = FALSE

TypeAddress(ip) ==
    /\ Acts /\ tab = "manage"
    /\ field' = ip /\ leftIp' = ip
    /\ ipCheckTimer' = TRUE
    /\ UNCHANGED <<d, tab, ipInUse, ipCheckSeq, checks, missed, connecting, recordings>>

TimerFires ==
    /\ ipCheckTimer
    /\ ipCheckTimer' = FALSE
    /\ CheckIpUnique(leftIp, d)
    /\ ipInUse' = IF leftIp = None THEN FALSE ELSE ipInUse
    /\ UNCHANGED <<d, tab, field, leftIp, connecting, recordings, acts>>

\* ip-in-use: another device than the excluded one has the address.
InUse(ip, x) == \E y \in Device \ {x} : addressOf[y] = ip

\* Mutant of Checked: whatever answer comes last counts.
CheckedAny(c) ==
    /\ checks' = checks \ {c}
    /\ ipInUse' = InUse(c.ip, c.exclude)
    /\ UNCHANGED <<d, tab, field, leftIp, ipCheckSeq, ipCheckTimer, missed>>
    /\ UNCHANGED <<connecting, recordings, acts>>

\* Only the answer to the latest check counts; an error leaves the warning as it is.
Checked(c) ==
    /\ checks' = checks \ {c}
    /\ ipInUse' = IF c.seq = ipCheckSeq THEN InUse(c.ip, c.exclude) ELSE ipInUse
    /\ UNCHANGED <<d, tab, field, leftIp, ipCheckSeq, ipCheckTimer, missed>>
    /\ UNCHANGED <<connecting, recordings, acts>>

CheckFails(c) ==
    /\ checks' = checks \ {c}
    /\ missed' = (missed \/ c.seq = ipCheckSeq)
    /\ UNCHANGED <<d, tab, field, leftIp, ipInUse, ipCheckSeq, ipCheckTimer>>
    /\ UNCHANGED <<connecting, recordings, acts>>

--------------------------------------------------------------------------------
(* Navigation *)

\* Mutant of SelectDevice: the selected rows of the previous device are kept.
SelectDeviceWithRows(x) ==
    /\ Acts /\ x # d
    /\ d' = x
    /\ ResetConnect
    /\ field' = addressOf[x] /\ leftIp' = addressOf[x] /\ ipInUse' = FALSE
    /\ CheckIpUnique(addressOf[x], x)
    /\ RecordingsEffect(x, tab)
    /\ UNCHANGED <<portRows, tab, ipCheckTimer>>

\* Another device is selected: its rows, unselected, its address, and a reset of the rest.
SelectDevice(x) ==
    /\ Acts /\ x # d
    /\ d' = x
    /\ portRows' = None
    /\ ResetConnect
    /\ field' = addressOf[x] /\ leftIp' = addressOf[x] /\ ipInUse' = FALSE
    /\ CheckIpUnique(addressOf[x], x)
    /\ RecordingsEffect(x, tab)
    /\ UNCHANGED <<tab, ipCheckTimer>>

\* The tab's markup is created anew, the form of the Manage tab with the device's address in
\* its field; what the script knows of the address stays.
OpenTab(t) ==
    /\ Acts
    /\ tab' = t
    /\ field' = IF t = tab THEN field ELSE addressOf[d]
    /\ RecordingsEffect(d, t)
    /\ UNCHANGED <<d, connecting, leftIp, ipInUse, ipCheckSeq, ipCheckTimer, checks, missed>>

Next ==
    \/ PickRows \/ Dismiss \/ Refresh \/ TimerFires
    \/ \E x \in Device : SelectDevice(x)
    \/ \E t \in {"connect", "recordings", "manage"} : OpenTab(t)
    \/ \E a \in Attempt :
           Connect(a) \/ Signed(a) \/ Refused(a) \/ Opened(a) \/ DeepLink(a) \/ Poll(a)
             \/ PollFails(a)
    \/ \E p \in Probe : OpenItem(p) \/ Probed(p) \/ Launched(p)
    \/ \E l \in Load : Loaded(l) \/ \E day \in Day : OpenRecDay(l, day)
    \/ \E ip \in Address \cup {None} : TypeAddress(ip)
    \/ \E c \in checks : Checked(c) \/ CheckFails(c)

Spec == Init /\ [][Next]_vars

--------------------------------------------------------------------------------
(* Properties *)

\* One device per request: what the page sends to the client, a tunnel request, a deep link, a
\* probe or a launch, is put together from token, target, rows, credentials and slot of one
\* device. It may be otherwise from the moment a change of device or a dismissal overtakes a
\* handler that waits, and until the panel is reset or Connect begins with no handler waiting:
\* for that long such a handler may send, and what it has left on the panel (a token without
\* its target) may be sent by a later click.
RequestsOfOneDevice ==
    [][sent' # sent /\ ~strayed => Cardinality(sent') = 1]_vars

\* The panel says "Tunnel open" for the device it shows: the buttons below it lead to this
\* device, with the same exception.
ShownIsOfDevice ==
    connectState = "done" /\ ~strayed =>
        target = d /\ connected = [token |-> d, rows |-> d, slot |-> d]

\* The days listed are the device's and the sessions listed are those of the day marked (the
\* download asks for exactly that triple), unless loads have overlapped, one has outlived a
\* change of device or one of days has failed since days were last loaded with no load waiting.
RecordingsOfDevice ==
    tab = "recordings" /\ recState \in {"ready", "loading-sessions"} /\ ~doubtful =>
        /\ recDays = d /\ recLoadedFor = d
        /\ recSessions # None => recSessions = [device |-> d, day |-> recDay]

\* The warning that another device has the address is about leftIp, that is what was typed last
\* for the device shown or else the device's own address, once nothing about it is pending and
\* if its check did not fail: checks may overlap, answer in any order and outlive a change of
\* device. The field shows leftIp unless a change of tab has created it anew since the typing:
\* then it shows the device's own address, beside a warning about the one typed.
WarningIsCurrent ==
    ~ipCheckTimer /\ ~missed /\ (\A c \in checks : c.seq # ipCheckSeq) =>
        /\ ipInUse = (leftIp # None /\ InUse(leftIp, d))
        /\ field # leftIp => field = addressOf[d]
=============================================================================
