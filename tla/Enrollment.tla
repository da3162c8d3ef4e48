----------------------------- MODULE Enrollment -----------------------------
(***************************************************************************)
(* Enrolment of a client (fleetshell-portal: routes/api/clients, probe,    *)
(* probes, enrollment, cert and the page support; fleetshell-client:       *)
(* portal.rs).                                                             *)
(*                                                                         *)
(* The page asks for the client id of the account, opens the probe stream  *)
(* and, by a deep link, starts handle_enroll in the client.  The client    *)
(* probes, submits a CSR, polls until the certificate is ready, stores     *)
(* certificate and key, and confirms.  What the client's calls do reaches  *)
(* the page through keys and channels of Valkey and two event streams: the *)
(* probe stream, and then the enrolment stream, which replays from the     *)
(* keys what has passed before it was opened.                              *)
(*                                                                         *)
(* The id is that of the account: every attempt uses the same keys, the    *)
(* same channels and the same files.  An attempt is one page and the run   *)
(* of handle_enroll its deep link starts.  Commands a handler sends        *)
(* together (Promise.all) are one step, commands it awaits one by one are  *)
(* several.  An event reaches an open page in the step that sends it.      *)
(* Expiry of keys is left out: it takes longer than any stream or poll.    *)
(***************************************************************************)
EXTENDS Naturals, Sequences, FiniteSets

CONSTANTS
    MaxAttempts,  \* bound: attempts, numbered as their pages call POST /api/clients
    MaxPages,     \* bound: pages (tabs) that are open and not finished at a time
    MaxFaults     \* bound: how often a portal process or a connection fails

ASSUME EnrollmentAssumption ==
    /\ MaxAttempts \in Nat
    /\ MaxPages \in Nat
    /\ MaxFaults \in Nat

VARIABLES
    slot,        \* client:<id>:probe
    consumed,    \* client:<id>:probe:consumed
    cert,        \* client:<id>:cert
    confirmed,   \* client:<id>:enrollment:confirmed
    page,        \* page[a]: phase of the page, "over" when it was left or has given up
    source,      \* source[a]: which stream the page's EventSource is open for
    stream,      \* stream[a]: where the portal's handler of that stream is
    view,        \* view[a]: what the enrolment stream read before its replay
    sent,        \* sent[a]: events sent on the stream
    inbox,       \* inbox[a]: published messages the subscriber has not handled
    run,         \* run[a]: where handle_enroll is
    call,        \* call[a]: where the portal's handler of the run's request is
    timer,       \* timer[a]: the signing timer that the request started
    files,       \* certificate and key on the client's disk
    latest,      \* the attempt whose run was started last
    faults,      \* how often something has failed
    confirmedBy, \* history: attempts whose run has confirmed
    unsaved,     \* history: attempts whose run could not write a file
    early,       \* history: attempts whose probe stream was live for the link
    mixed,       \* history: attempts that overlapped with another one
    lost         \* history: events whose publisher died before it published

keys    == <<slot, consumed, cert, confirmed>>
streams == <<source, stream, view, sent, inbox>>
client  == <<run, files, latest, unsaved>>
history == <<early, mixed, lost>>
vars == <<keys, page, streams, client, call, timer, faults, confirmedBy, history>>

Attempts == 1..MaxAttempts
Steps    == {"csr-received", "cert-ready", "enrollment-confirmed"}
Events   == {"result"} \cup Steps

Phases == <<"install", "enrolling", "probe-wait", "probe-done", "csr-received",
            "cert-ready", "enrolled", "over">>

PhaseNames == {Phases[i] : i \in DOMAIN Phases}

Working == {"probe", "csr", "poll", "fetch", "key", "confirm"}

TypeOK ==
    /\ slot \in {"none", "pending", "result"}
    /\ consumed \in BOOLEAN
    /\ cert \in {"none", "pending", "ready"}
    /\ confirmed \in BOOLEAN
    /\ page \in [Attempts -> PhaseNames]
    /\ source \in [Attempts -> {"none", "probe", "enroll"}]
    /\ stream \in [Attempts -> {"none", "connect", "read", "replay", "live"}]
    /\ view \in [Attempts -> {"unread", "pending", "ready", "confirmed"}]
    /\ sent \in [Attempts -> SUBSET Steps]
    /\ inbox \in [Attempts -> Seq(Events)]
    /\ run \in [Attempts -> Working \cup {"none", "link", "ok", "error"}]
    /\ call \in [Attempts -> {"idle", "probe-store", "probe-publish", "csr-consume",
                              "csr-publish", "confirm-set", "confirm-publish"}]
    /\ timer \in [Attempts -> {"none", "sleeping", "signed", "over"}]
    /\ files \subseteq {"cert", "key"}
    /\ latest \in {0} \cup Attempts
    /\ faults \in 0..MaxFaults
    /\ confirmedBy \subseteq Attempts
    /\ unsaved \subseteq Attempts
    /\ early \subseteq Attempts
    /\ mixed \subseteq Attempts
    /\ lost \subseteq Events

Init ==
    /\ slot = "none"
    /\ consumed = FALSE
    /\ cert = "none"
    /\ confirmed = FALSE
    /\ page = [a \in Attempts |-> "install"]
    /\ source = [a \in Attempts |-> "none"]
    /\ stream = [a \in Attempts |-> "none"]
    /\ view = [a \in Attempts |-> "unread"]
    /\ sent = [a \in Attempts |-> {}]
    /\ inbox = [a \in Attempts |-> <<>>]
    /\ run = [a \in Attempts |-> "none"]
    /\ call = [a \in Attempts |-> "idle"]
    /\ timer = [a \in Attempts |-> "none"]
    /\ files = {}
    /\ latest = 0
    /\ faults = 0
    /\ confirmedBy = {}
    /\ unsaved = {}
    /\ early = {}
    /\ mixed = {}
    /\ lost = {}

-----------------------------------------------------------------------------
(* POST /api/clients.                                                      *)

\* The page of attempt b listens to a stream or has its deep link to open.
Waiting(b) ==
    /\ page[b] \notin {"install", "over"}
    /\ source[b] # "none" \/ run[b] = "none"

\* Something of attempt b can still happen: its page waits, its run or a request or
\* timer of it is under way.
Active(b) ==
    \/ Waiting(b)
    \/ run[b] \in Working \cup {"link"}
    \/ call[b] # "idle"
    \/ timer[b] \in {"sleeping", "signed"}

Others(a) == {b \in Attempts \ {a} : Active(b)}

\* Mutant of ClearState: the confirmation of the last attempt stays.
ClearAllButConfirmed ==
    /\ slot' = "pending"
    /\ consumed' = FALSE
    /\ cert' = "none"
    /\ UNCHANGED confirmed

\* Mutant of ClearState: the result of the last probe stays.
ClearAllButProbe ==
    /\ slot' = IF slot = "none" THEN "pending" ELSE slot
    /\ consumed' = FALSE
    /\ cert' = "none"
    /\ confirmed' = FALSE

\* Reset of the probe slot and of all enrolment state.
ClearState ==
    /\ slot' = "pending"
    /\ consumed' = FALSE
    /\ cert' = "none"
    /\ confirmed' = FALSE

\* Numbered pages start in order; an answer that is lost is a page left at once.
Reset(a) ==
    /\ page[a] = "install"
    /\ \A b \in Attempts : b < a => page[b] # "install"
    /\ Cardinality({b \in Attempts : Waiting(b)}) < MaxPages
    /\ ClearState
    /\ page' = [page EXCEPT ![a] = "enrolling"]
    /\ source' = [source EXCEPT ![a] = "probe"]
    /\ stream' = [stream EXCEPT ![a] = "connect"]
    /\ mixed' = IF Others(a) = {} THEN mixed ELSE mixed \cup {a} \cup Others(a)
    /\ UNCHANGED <<view, sent, inbox, client, call, timer, faults, confirmedBy,
                   early, lost>>

-----------------------------------------------------------------------------
(* The page (support/+page.svelte).                                        *)

\* Mutant of OpenLink: 'ready' is sent before the subscription is made.
OpenLinkTooEarly(a) ==
    /\ page[a] \notin {"install", "over"}
    /\ run[a] = "none"
    /\ page' = [page EXCEPT ![a] = "probe-wait"]
    /\ run' = [run EXCEPT ![a] = "link"]
    /\ early' = IF source[a] = "probe" /\ stream[a] \in {"read", "live"}
                THEN early \cup {a} ELSE early
    /\ UNCHANGED <<keys, streams, files, latest, unsaved, call, timer, faults,
                   confirmedBy, mixed, lost>>

\* The promise of startEnrollment resolves with 'ready' or after three seconds, and
\* not before the stream was asked for.  Whatever the phase is by then, it becomes
\* probe-wait and the deep link is opened.
OpenLink(a) ==
    /\ page[a] \notin {"install", "over"}
    /\ run[a] = "none"
    /\ page' = [page EXCEPT ![a] = "probe-wait"]
    /\ run' = [run EXCEPT ![a] = "link"]
    /\ early' = IF source[a] = "probe" /\ stream[a] = "live"
                THEN early \cup {a} ELSE early
    /\ UNCHANGED <<keys, streams, files, latest, unsaved, call, timer, faults,
                   confirmedBy, mixed, lost>>

\* The page's EventSource and the handler behind it for attempt a.
SetSource(a, src, st) ==
    /\ source' = [source EXCEPT ![a] = src]
    /\ stream' = [stream EXCEPT ![a] = st]
    /\ view' = [view EXCEPT ![a] = "unread"]
    /\ sent' = [sent EXCEPT ![a] = {}]
    /\ inbox' = [inbox EXCEPT ![a] = <<>>]

\* The user leaves the page; or, once the link was opened, a timeout event or the
\* page's own guard closes the EventSource and leaves a message.
Leave(a) ==
    /\ Waiting(a)
    /\ page' = [page EXCEPT ![a] = "over"]
    /\ SetSource(a, "none", "none")
    /\ UNCHANGED <<keys, client, call, timer, faults, confirmedBy, history>>

-----------------------------------------------------------------------------
(* GET /api/probes/<id>/stream.                                            *)

\* The result reaches the page, which goes on with the enrolment stream.
ProbeResult(a) ==
    /\ page' = [page EXCEPT ![a] = "probe-done"]
    /\ SetSource(a, "enroll", "connect")

\* The slot is read; a result that is there already is sent at once.
ProbeRead(a) ==
    /\ source[a] = "probe" /\ stream[a] = "connect"
    /\ \/ slot = "result" /\ ProbeResult(a)
       \/ /\ slot # "result"
          /\ stream' = [stream EXCEPT ![a] = "read"]
          /\ UNCHANGED <<page, source, view, sent, inbox>>
    /\ UNCHANGED <<keys, client, call, timer, faults, confirmedBy, history>>

\* Only then the channel is subscribed to.
ProbeSubscribe(a) ==
    /\ source[a] = "probe" /\ stream[a] = "read"
    /\ stream' = [stream EXCEPT ![a] = "live"]
    /\ UNCHANGED <<keys, page, source, view, sent, inbox, client, call, timer, faults,
                   confirmedBy, history>>

ProbeMessage(a) ==
    /\ source[a] = "probe" /\ inbox[a] # <<>>
    /\ ProbeResult(a)
    /\ UNCHANGED <<keys, client, call, timer, faults, confirmedBy, history>>

-----------------------------------------------------------------------------
(* GET /api/enrollment/<id>/stream.                                        *)

\* Mutant of PhaseAfter: the page takes the name of the event for its phase.
PhaseByName(evs, phase) ==
    IF "enrollment-confirmed" \in evs THEN "enrollment-confirmed"
    ELSE IF "cert-ready" \in evs THEN "cert-ready"
    ELSE IF "csr-received" \in evs THEN "csr-received"
    ELSE phase

\* The phase the page has after events were sent to it in their order.
PhaseAfter(evs, phase) ==
    IF "enrollment-confirmed" \in evs THEN "enrolled"
    ELSE IF "cert-ready" \in evs THEN "cert-ready"
    ELSE IF "csr-received" \in evs THEN "csr-received"
    ELSE phase

\* sendOnce for events in their order.  The page shows each of them and closes the
\* stream with the last; otherwise the handler goes on at st, with box to handle.
SendOnce(a, evs, st, box) ==
    LET new == evs \ sent[a] IN
    /\ page' = [page EXCEPT ![a] = PhaseAfter(new, @)]
    /\ IF "enrollment-confirmed" \in new
       THEN SetSource(a, "none", "none")
       ELSE /\ sent' = [sent EXCEPT ![a] = @ \cup new]
            /\ stream' = [stream EXCEPT ![a] = st]
            /\ view' = IF st = "live" THEN [view EXCEPT ![a] = "unread"] ELSE view
            /\ inbox' = [inbox EXCEPT ![a] = box]
            /\ UNCHANGED source

\* "Subscribe FIRST, then read state, to avoid a TOCTOU gap."
EnrollSubscribe(a) ==
    /\ source[a] = "enroll" /\ stream[a] = "connect"
    /\ stream' = [stream EXCEPT ![a] = "read"]
    /\ UNCHANGED <<keys, page, source, view, sent, inbox, client, call, timer, faults,
                   confirmedBy, history>>

\* Certificate status and confirmation are read together.  With one of them there,
\* the CSR is read too before anything is sent.
EnrollRead(a) ==
    /\ source[a] = "enroll" /\ stream[a] = "read"
    /\ view' = [view EXCEPT ![a] = IF confirmed THEN "confirmed"
                                  ELSE IF cert = "none" THEN "unread" ELSE cert]
    /\ stream' = [stream EXCEPT ![a] =
                     IF confirmed \/ cert # "none" THEN "replay" ELSE "live"]
    /\ UNCHANGED <<keys, page, source, sent, inbox, client, call, timer, faults,
                   confirmedBy, history>>

Passed(v) ==
    CASE v = "pending"   -> {"csr-received"}
      [] v = "ready"     -> {"csr-received", "cert-ready"}
      [] v = "confirmed" -> Steps

EnrollReplay(a) ==
    /\ stream[a] = "replay"
    /\ SendOnce(a, Passed(view[a]), "live", inbox[a])
    /\ UNCHANGED <<keys, client, call, timer, faults, confirmedBy, history>>

EnrollMessage(a) ==
    /\ source[a] = "enroll" /\ inbox[a] # <<>>
    /\ SendOnce(a, {Head(inbox[a])}, stream[a], Tail(inbox[a]))
    /\ UNCHANGED <<keys, client, call, timer, faults, confirmedBy, history>>

StreamStep(a) ==
    \/ ProbeRead(a) \/ ProbeSubscribe(a) \/ ProbeMessage(a)
    \/ EnrollSubscribe(a) \/ EnrollRead(a) \/ EnrollReplay(a) \/ EnrollMessage(a)

-----------------------------------------------------------------------------
(* Requests of the client and what the portal's handlers do.               *)

\* Mutant of Subscribed: the enrolment stream subscribes when it has replayed.
SubscribedAfterReplay(a, ev) ==
    stream[a] = "live" /\ source[a] = (IF ev = "result" THEN "probe" ELSE "enroll")

Subscribed(a, ev) ==
    IF ev = "result" THEN source[a] = "probe" /\ stream[a] = "live"
    ELSE source[a] = "enroll" /\ stream[a] \in {"read", "replay", "live"}

Publish(ev) ==
    inbox' = [a \in Attempts |-> IF Subscribed(a, ev) THEN Append(inbox[a], ev)
                                 ELSE inbox[a]]

\* Something fails; at most MaxFaults times.
Fault == faults < MaxFaults /\ faults' = faults + 1

\* The run of a goes on, unless it has given up.
Continue(a, step) ==
    run' = [run EXCEPT ![a] = IF @ = "error" THEN "error" ELSE step]

\* The handler of a's request goes on to its next command.
Serve(a, step) == call' = [call EXCEPT ![a] = step]

Fail(a) == run' = [run EXCEPT ![a] = "error"]

\* The client takes the deep link up: files of this id are archived.  Or the user
\* does not let the browser open it.
StartRun(a) ==
    /\ run[a] = "link"
    /\ run' = [run EXCEPT ![a] = "probe"]
    /\ files' = {}
    /\ latest' = a
    /\ UNCHANGED <<keys, page, streams, unsaved, call, timer, faults, confirmedBy,
                   history>>

DeclineLink(a) ==
    /\ run[a] = "link"
    /\ Fail(a)
    /\ UNCHANGED <<keys, page, streams, files, latest, unsaved, call, timer, faults,
                   confirmedBy, history>>

\* POST /api/client/probe: the flag is set if it was not set; 409 otherwise.
ProbeConsume(a) ==
    /\ run[a] = "probe" /\ call[a] = "idle"
    /\ consumed' = TRUE
    /\ IF consumed THEN Fail(a) /\ UNCHANGED call
       ELSE Serve(a, "probe-store") /\ UNCHANGED run
    /\ UNCHANGED <<slot, cert, confirmed, page, streams, files, latest, unsaved, timer,
                   faults, confirmedBy, history>>

\* The slot is there, the result is stored.
ProbeStore(a) ==
    /\ call[a] = "probe-store"
    /\ slot' = "result"
    /\ Serve(a, "probe-publish")
    /\ UNCHANGED <<consumed, cert, confirmed, page, streams, client, timer, faults,
                   confirmedBy, history>>

ProbePublish(a) ==
    /\ call[a] = "probe-publish"
    /\ Publish("result")
    /\ Serve(a, "idle")
    /\ Continue(a, "csr")
    /\ UNCHANGED <<keys, page, source, stream, view, sent, files, latest, unsaved,
                   timer, faults, confirmedBy, history>>

\* POST /api/cert/request: status and CSR, then the flag, then the event and the timer.
CsrStore(a) ==
    /\ run[a] = "csr" /\ call[a] = "idle"
    /\ cert' = "pending"
    /\ Serve(a, "csr-consume")
    /\ UNCHANGED <<slot, consumed, confirmed, page, streams, client, timer, faults,
                   confirmedBy, history>>

CsrConsume(a) ==
    /\ call[a] = "csr-consume"
    /\ consumed' = TRUE
    /\ Serve(a, "csr-publish")
    /\ UNCHANGED <<slot, cert, confirmed, page, streams, client, timer, faults,
                   confirmedBy, history>>

CsrPublish(a) ==
    /\ call[a] = "csr-publish"
    /\ Publish("csr-received")
    /\ Serve(a, "idle")
    /\ Continue(a, "poll")
    /\ timer' = [timer EXCEPT ![a] = "sleeping"]
    /\ UNCHANGED <<keys, page, source, stream, view, sent, files, latest, unsaved,
                   faults, confirmedBy, history>>

\* The timer fires whatever has become of the attempt meanwhile.
Sign(a) ==
    /\ timer[a] = "sleeping"
    /\ cert' = "ready"
    /\ timer' = [timer EXCEPT ![a] = "signed"]
    /\ UNCHANGED <<slot, consumed, confirmed, page, streams, client, call, faults,
                   confirmedBy, history>>

SignPublish(a) ==
    /\ timer[a] = "signed"
    /\ Publish("cert-ready")
    /\ timer' = [timer EXCEPT ![a] = "over"]
    /\ UNCHANGED <<keys, page, source, stream, view, sent, client, call, faults,
                   confirmedBy, history>>

\* GET /api/cert/status; the loop ends with "ready", "none" or after two minutes.
Poll(a) ==
    /\ run[a] = "poll"
    /\ run' = [run EXCEPT ![a] = IF cert = "ready" THEN "fetch" ELSE "error"]
    /\ UNCHANGED <<keys, page, streams, files, latest, unsaved, call, timer, faults,
                   confirmedBy, history>>

\* A file is written to disk, or only a warning to the log.
Save(a, f) ==
    \/ files' = files \cup {f} /\ UNCHANGED <<unsaved, faults>>
    \/ Fault /\ unsaved' = unsaved \cup {a} /\ UNCHANGED files

\* GET /api/cert/get.
FetchCert(a) ==
    /\ run[a] = "fetch"
    /\ IF cert = "ready" THEN Save(a, "cert") /\ Continue(a, "key")
       ELSE Fail(a) /\ UNCHANGED <<files, unsaved, faults>>
    /\ UNCHANGED <<keys, page, streams, latest, call, timer, confirmedBy, history>>

\* Mutant of HasKey: the client is taken to have made its own key.
HasOwnKey == TRUE

HasKey == "key" \in files

\* GET /api/cert/key, unless a key is on disk.
FetchKey(a) ==
    /\ run[a] = "key"
    /\ \/ HasKey /\ Continue(a, "confirm") /\ UNCHANGED <<files, unsaved, faults>>
       \/ ~HasKey /\ cert = "ready" /\ Save(a, "key") /\ Continue(a, "confirm")
       \/ ~HasKey /\ cert # "ready" /\ Fail(a) /\ UNCHANGED <<files, unsaved, faults>>
    /\ UNCHANGED <<keys, page, streams, latest, call, timer, confirmedBy, history>>

\* POST /api/cert/confirm: 409 unless ready, then the flag, then the event.
ConfirmCheck(a) ==
    /\ run[a] = "confirm" /\ call[a] = "idle"
    /\ IF cert = "ready" THEN Serve(a, "confirm-set") /\ UNCHANGED run
       ELSE Fail(a) /\ UNCHANGED call
    /\ UNCHANGED <<keys, page, streams, files, latest, unsaved, timer, faults,
                   confirmedBy, history>>

ConfirmSet(a) ==
    /\ call[a] = "confirm-set"
    /\ confirmed' = TRUE
    /\ confirmedBy' = confirmedBy \cup {a}
    /\ IF confirmed THEN Serve(a, "idle") /\ Continue(a, "ok")
       ELSE Serve(a, "confirm-publish") /\ UNCHANGED run
    /\ UNCHANGED <<slot, consumed, cert, page, streams, files, latest, unsaved, timer,
                   faults, history>>

ConfirmPublish(a) ==
    /\ call[a] = "confirm-publish"
    /\ Publish("enrollment-confirmed")
    /\ Serve(a, "idle")
    /\ Continue(a, "ok")
    /\ UNCHANGED <<keys, page, source, stream, view, sent, files, latest, unsaved,
                   timer, faults, confirmedBy, history>>

RunStep(a) ==
    \/ ProbeConsume(a) \/ CsrStore(a) \/ Poll(a) \/ FetchCert(a) \/ FetchKey(a)
    \/ ConfirmCheck(a)

CallStep(a) ==
    \/ ProbeStore(a) \/ ProbePublish(a) \/ CsrConsume(a) \/ CsrPublish(a)
    \/ ConfirmSet(a) \/ ConfirmPublish(a)

TimerStep(a) == Sign(a) \/ SignPublish(a)

-----------------------------------------------------------------------------
(* Failures.                                                               *)

\* A request or its answer is lost, or the token has expired: the run ends, while
\* the portal may go on with the request.
RunFails(a) ==
    /\ Fault
    /\ run[a] \in Working
    /\ Fail(a)
    /\ UNCHANGED <<keys, page, streams, files, latest, unsaved, call, timer, confirmedBy,
                   history>>

\* The connection of a stream breaks or its process ends; the EventSource asks for
\* the stream again, and the new handler knows nothing of the old one.
StreamBreaks(a) ==
    /\ Fault
    /\ stream[a] \in {"read", "replay", "live"}
    /\ SetSource(a, source[a], "connect")
    /\ early' = early \ {a}
    /\ UNCHANGED <<keys, page, client, call, timer, confirmedBy, mixed, lost>>

\* What the handler of a call was about to publish.
Unpublished(step) ==
    CASE step = "probe-publish"   -> {"result"}
      [] step \in {"csr-consume", "csr-publish"} -> {"csr-received"}
      [] step = "confirm-publish" -> {"enrollment-confirmed"}
      [] OTHER -> {}

\* The process that serves a's request ends.
CallDies(a) ==
    /\ Fault
    /\ call[a] # "idle"
    /\ lost' = lost \cup Unpublished(call[a])
    /\ Serve(a, "idle")
    /\ Fail(a)
    /\ UNCHANGED <<keys, page, streams, files, latest, unsaved, timer, confirmedBy,
                   early, mixed>>

\* The process that holds a's signing timer ends: nobody signs any more.
TimerDies(a) ==
    /\ Fault
    /\ timer[a] \in {"sleeping", "signed"}
    /\ timer' = [timer EXCEPT ![a] = "over"]
    /\ lost' = IF timer[a] = "signed" THEN lost \cup {"cert-ready"} ELSE lost
    /\ UNCHANGED <<keys, page, streams, client, call, confirmedBy, early, mixed>>

-----------------------------------------------------------------------------
Next ==
    \E a \in Attempts :
        \/ Reset(a) \/ OpenLink(a) \/ Leave(a)
        \/ StartRun(a) \/ DeclineLink(a)
        \/ RunStep(a) \/ CallStep(a) \/ TimerStep(a) \/ StreamStep(a)
        \/ RunFails(a) \/ StreamBreaks(a) \/ CallDies(a) \/ TimerDies(a)

Spec == Init /\ [][Next]_vars

-----------------------------------------------------------------------------
(* Properties.                                                             *)

\* An event that is still to come to the stream of a: in its inbox, with a publisher
\* about to publish it, or with one that died before it could.
Coming(a, ev) ==
    \/ \E i \in DOMAIN inbox[a] : inbox[a][i] = ev
    \/ ev \in lost
    \/ \E b \in Attempts :
          \/ ev \in Unpublished(call[b])
          \/ ev = "cert-ready" /\ timer[b] = "signed"

\* The events that led to what the keys say.
Reached ==
    (IF cert = "pending" THEN {"csr-received"} ELSE {}) \cup
    (IF cert = "ready" THEN {"cert-ready"} ELSE {}) \cup
    (IF confirmed THEN {"enrollment-confirmed"} ELSE {})

\* enrollment/stream: "Subscribe FIRST, then read state, to avoid a TOCTOU gap."  A
\* stream that has replayed has sent every event that has passed, or it will: what
\* comes between its subscription and its replay is neither lost nor overtaken.
NoEventMissed ==
    \A a \in Attempts : source[a] = "enroll" /\ stream[a] = "live" =>
        \A ev \in Reached : ev \in sent[a] \/ Coming(a, ev)

\* The probe stream reads before it subscribes.  That is safe for a stream which was
\* live when the page opened the deep link, if no other attempt's client probes: the
\* page learns the result.
EarlyStreamSeesResult ==
    \A a \in early \ mixed : source[a] = "probe" /\ slot = "result" => Coming(a, "result")

\* clients/+server.ts resets the keys so that the page of a new attempt does not "jump
\* straight to enrolled".  That is enough for attempts that do not overlap: such a page
\* gets no further than its own client.
OwnProgress ==
    \A a \in Attempts \ mixed :
        /\ page[a] = "enrolled" => a \in confirmedBy
        /\ page[a] = "cert-ready" => timer[a] \in {"signed", "over"}
        /\ page[a] = "probe-done" => run[a] \notin {"none", "link"}

\* support/+page.svelte, PHASE_ORDER: the phase of a page whose attempt is the only one
\* goes forward, but for the replay of csr-received after cert-ready came in live.
Rank(phase) == CHOOSE i \in DOMAIN Phases : Phases[i] = phase

PhaseGoesForward ==
    [][\A a \in Attempts \ mixed' :
           \/ Rank(page'[a]) >= Rank(page[a])
           \/ page[a] = "cert-ready" /\ page'[a] = "csr-received"]_vars

\* A run that has ended well leaves certificate and key on disk, whatever runs of the
\* same id went on beside it, unless a later one has archived the files or they could
\* not be written.
IdentityKept ==
    \A a \in Attempts \ unsaved :
        run[a] = "ok" /\ latest = a => files = {"cert", "key"}

\* clients/+server.ts:34-36, for every attempt: no page shows "enrolled" before its own
\* client has confirmed.
NoStaleEnrolled ==
    \A a \in Attempts : page[a] = "enrolled" => a \in confirmedBy
=============================================================================
