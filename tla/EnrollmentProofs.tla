------------------------- MODULE EnrollmentProofs --------------------------
(***************************************************************************)
(* Proofs about Enrollment for every number of attempts, open pages and    *)
(* failures.                                                               *)
(*                                                                         *)
(* The inductive invariant is IInv.  What it says of an attempt alone      *)
(* (Shape, Serving, Covered, Kept) holds for every attempt, however many   *)
(* overlap.  What it says of an attempt and the keys all attempts share    *)
(* (Own, Progress, Early) holds for one that has overlapped with no other: *)
(* while it is active nobody else is, so that what the keys say is its own *)
(* doing.                                                                  *)
(***************************************************************************)
EXTENDS Enrollment, TLAPS

Has(box, ev) == \E i \in DOMAIN box : box[i] = ev

\* The page of a has not asked for the id yet.
Unstarted(a) ==
    /\ run[a] = "none"
    /\ call[a] = "idle"
    /\ timer[a] = "none"
    /\ source[a] = "none"
    /\ a \notin confirmedBy
    /\ a \notin early
    /\ \A ev \in Events : ~Has(inbox[a], ev)

\* Page, EventSource and handler of a stream agree.
ShapeOf(a) ==
    /\ page[a] = "install" => Unstarted(a)
    /\ source[a] # "none" => page[a] \notin {"install", "over"}
    /\ source[a] = "probe" => page[a] \in {"enrolling", "probe-wait"}
    /\ source[a] = "enroll" => \A ev \in Events : Has(inbox[a], ev) => ev \in Steps
    /\ source[a] = "none" <=> stream[a] = "none"
    /\ stream[a] = "replay" => source[a] = "enroll" /\ view[a] # "unread"
    /\ "enrollment-confirmed" \notin sent[a]

Shape == \A a \in Attempts : ShapeOf(a)

ProbeCalls   == {"probe-store", "probe-publish"}
CsrCalls     == {"csr-consume", "csr-publish"}
ConfirmCalls == {"confirm-set", "confirm-publish"}

\* A request is served for a run that waits for it or has given up, and the timer is
\* started by the last step of the request for a certificate.
ServingOf(a) ==
    /\ call[a] \in ProbeCalls => run[a] \in {"probe", "error"}
    /\ call[a] \in CsrCalls => run[a] \in {"csr", "error"}
    /\ call[a] \in ConfirmCalls => run[a] \in {"confirm", "error"}
    /\ run[a] \in {"none", "link", "probe", "csr"} => timer[a] = "none"
    /\ call[a] \in ProbeCalls \cup CsrCalls => timer[a] = "none"
    /\ call[a] = "confirm-publish" => a \in confirmedBy

Serving == \A a \in Attempts : ServingOf(a)

\* NoEventMissed, and what it takes before the replay.
CoveredOf(a) ==
    \A ev \in Reached : source[a] = "enroll" =>
        /\ stream[a] = "live" => ev \in sent[a] \/ Coming(a, ev)
        /\ stream[a] = "replay" => ev \in Passed(view[a]) \cup sent[a] \/ Coming(a, ev)

Covered == \A a \in Attempts : CoveredOf(a)

\* IdentityKept, and what it takes before the run has ended.
KeptOf(a) ==
    latest = a =>
        /\ run[a] \in {"key", "confirm", "ok"} => "cert" \in files
        /\ run[a] \in {"confirm", "ok"} => "key" \in files

Kept == \A a \in Attempts \ unsaved : KeptOf(a)

\* While an attempt is active that has overlapped with no other, no other is active
\* and the keys say what it did.
OwnOf(a) ==
    Active(a) =>
        /\ \A b \in Attempts \ {a} : ~Active(b)
        /\ run[a] \in {"none", "link"} => slot # "result"
        /\ confirmed => a \in confirmedBy
        /\ cert = "ready" => timer[a] \in {"signed", "over"}

Own == \A a \in Attempts \ mixed : OwnOf(a)

\* OwnProgress, for what the page shows, has read or will be told.
ProgressOf(a) ==
    /\ run[a] \in {"none", "link"} =>
          /\ page[a] \notin {"probe-done", "csr-received", "cert-ready", "enrolled"}
          /\ source[a] # "enroll"
          /\ \A ev \in Events : ~Has(inbox[a], ev)
    /\ source[a] = "enroll" => page[a] \in {"probe-done", "csr-received", "cert-ready"}
    /\ page[a] = "enrolled" => a \in confirmedBy
    /\ view[a] = "confirmed" => a \in confirmedBy
    /\ Has(inbox[a], "enrollment-confirmed") => a \in confirmedBy
    /\ page[a] = "cert-ready" => timer[a] \in {"signed", "over"}
    /\ view[a] = "ready" => timer[a] \in {"signed", "over"}
    /\ Has(inbox[a], "cert-ready") => timer[a] \in {"signed", "over"}

Progress == \A a \in Attempts \ mixed : ProgressOf(a)

\* EarlyStreamSeesResult, and that such a stream stays live.
EarlyOf(a) ==
    source[a] = "probe" =>
        /\ stream[a] = "live"
        /\ slot = "result" => Coming(a, "result")

Early == \A a \in early \ mixed : EarlyOf(a)

IInv ==
    /\ TypeOK
    /\ Shape
    /\ Serving
    /\ Covered
    /\ Kept
    /\ Own
    /\ Progress
    /\ Early

\* One step of attempt a.
Does(a) ==
    \/ Reset(a) \/ OpenLink(a) \/ Leave(a)
    \/ StartRun(a) \/ DeclineLink(a)
    \/ RunStep(a) \/ CallStep(a) \/ TimerStep(a) \/ StreamStep(a)
    \/ RunFails(a) \/ StreamBreaks(a) \/ CallDies(a) \/ TimerDies(a)

-----------------------------------------------------------------------------
(* Lemmas about inboxes and about sending on a stream.                     *)

\* An inbox after one more event: the old ones and that one.
LEMMA HasAppend ==
    ASSUME NEW box \in Seq(Events), NEW e \in Events
    PROVE  /\ Append(box, e) \in Seq(Events)
           /\ \A ev : Has(Append(box, e), ev) <=> Has(box, ev) \/ ev = e
  <1>1. Append(box, e) \in Seq(Events) /\ Len(Append(box, e)) = Len(box) + 1
    OBVIOUS
  <1>2. \A i \in 1..Len(box) : Append(box, e)[i] = box[i]
    OBVIOUS
  <1>3. Append(box, e)[Len(box) + 1] = e
    OBVIOUS
  <1>4. DOMAIN box = 1..Len(box) /\ DOMAIN Append(box, e) = 1..(Len(box) + 1)
    BY <1>1
  <1>5. Len(box) \in Nat
    OBVIOUS
  <1> QED
    BY <1>1, <1>2, <1>3, <1>4, <1>5 DEF Has

\* The events behind the first are events of the inbox.
LEMMA HasTail ==
    ASSUME NEW box \in Seq(Events), box # <<>>
    PROVE  /\ Head(box) \in Events
           /\ Tail(box) \in Seq(Events)
           /\ Has(box, Head(box))
           /\ \A ev : Has(box, ev) <=> ev = Head(box) \/ Has(Tail(box), ev)
  <1>1. /\ Len(box) \in Nat \ {0}
        /\ Tail(box) \in Seq(Events)
        /\ Len(Tail(box)) = Len(box) - 1
    OBVIOUS
  <1>2. DOMAIN box = 1..Len(box) /\ DOMAIN Tail(box) = 1..(Len(box) - 1)
    BY <1>1
  <1>3. Head(box) = box[1] /\ box[1] \in Events
    BY <1>1
  <1>4. \A i \in 1..(Len(box) - 1) : Tail(box)[i] = box[i + 1]
    BY <1>1
  <1>5. ASSUME NEW ev, Has(box, ev) PROVE ev = Head(box) \/ Has(Tail(box), ev)
    <2>1. PICK i \in DOMAIN box : box[i] = ev
      BY <1>5 DEF Has
    <2>2. CASE i = 1
      BY <1>3, <2>1, <2>2
    <2>3. CASE i # 1
      <3>1. i - 1 \in 1..(Len(box) - 1) /\ (i - 1) + 1 = i
        BY <1>1, <1>2, <2>1, <2>3
      <3> QED
        BY <1>2, <1>4, <2>1, <3>1 DEF Has
    <2> QED
      BY <2>2, <2>3
  <1>6. ASSUME NEW ev, Has(Tail(box), ev) PROVE Has(box, ev)
    <2>1. PICK i \in DOMAIN Tail(box) : Tail(box)[i] = ev
      BY <1>6 DEF Has
    <2>2. i + 1 \in DOMAIN box /\ box[i + 1] = ev
      BY <1>1, <1>2, <1>4, <2>1
    <2> QED
      BY <2>2 DEF Has
  <1>7. Has(box, Head(box))
    BY <1>1, <1>2, <1>3 DEF Has
  <1> QED
    BY <1>1, <1>3, <1>5, <1>6, <1>7

\* Nothing is in an empty inbox.
LEMMA HasEmpty == \A ev : ~Has(<<>>, ev)
  BY DEF Has

\* What a publication does to the inboxes.
LEMMA PublishFacts ==
    ASSUME TypeOK, NEW ev \in Events, Publish(ev)
    PROVE  /\ inbox' \in [Attempts -> Seq(Events)]
           /\ \A a \in Attempts : \A e :
                 Has(inbox'[a], e) <=> Has(inbox[a], e) \/ (Subscribed(a, ev) /\ e = ev)
  <1>1. \A a \in Attempts : inbox[a] \in Seq(Events)
    BY DEF TypeOK
  <1>2. \A a \in Attempts :
           inbox'[a] = IF Subscribed(a, ev) THEN Append(inbox[a], ev) ELSE inbox[a]
    BY DEF Publish
  <1>3. ASSUME NEW a \in Attempts
        PROVE  /\ inbox'[a] \in Seq(Events)
               /\ \A e : Has(inbox'[a], e) <=>
                            Has(inbox[a], e) \/ (Subscribed(a, ev) /\ e = ev)
    <2>1. CASE Subscribed(a, ev)
      <3>1. inbox'[a] = Append(inbox[a], ev) /\ inbox[a] \in Seq(Events)
        BY <1>1, <1>2, <2>1
      <3> QED
        BY <2>1, <3>1, HasAppend
    <2>2. CASE ~Subscribed(a, ev)
      BY <1>1, <1>2, <2>2
    <2> QED
      BY <2>1, <2>2
  <1>4. inbox' \in [Attempts -> Seq(Events)]
    BY <1>3 DEF Publish
  <1> QED
    BY <1>3, <1>4

-----------------------------------------------------------------------------
(* Types.                                                                  *)

\* The phases a page can show.
LEMMA PhaseFacts ==
    PhaseNames = {"install", "enrolling", "probe-wait", "probe-done", "csr-received",
                  "cert-ready", "enrolled", "over"}
  <1>1. DOMAIN Phases = 1..8
    BY DEF Phases
  <1>2. /\ Phases[1] = "install" /\ Phases[2] = "enrolling" /\ Phases[3] = "probe-wait"
        /\ Phases[4] = "probe-done" /\ Phases[5] = "csr-received"
        /\ Phases[6] = "cert-ready" /\ Phases[7] = "enrolled" /\ Phases[8] = "over"
    BY DEF Phases
  <1>3. 1..8 = {1, 2, 3, 4, 5, 6, 7, 8}
    OBVIOUS
  <1> QED
    BY <1>1, <1>2, <1>3 DEF PhaseNames

\* The types hold before anybody has opened the page (no keys, no files, no request).
THEOREM TypeInit == Init => TypeOK
  <1>1. <<>> \in Seq(Events) /\ 0 \in 0..MaxFaults
    BY EnrollmentAssumption
  <1>2. "install" \in PhaseNames
    BY PhaseFacts
  <1>3. Init => /\ inbox \in [Attempts -> Seq(Events)]
                /\ page \in [Attempts -> PhaseNames]
                /\ latest \in {0} \cup Attempts
                /\ faults \in 0..MaxFaults
    BY <1>1, <1>2 DEF Init
  <1>4. Init => /\ run \in [Attempts -> Working \cup {"none", "link", "ok", "error"}]
                /\ sent \in [Attempts -> SUBSET Steps]
                /\ source \in [Attempts -> {"none", "probe", "enroll"}]
                /\ stream \in [Attempts -> {"none", "connect", "read", "replay", "live"}]
                /\ view \in [Attempts -> {"unread", "pending", "ready", "confirmed"}]
    BY DEF Init
  <1>5. Init => /\ call \in [Attempts -> {"idle", "probe-store", "probe-publish",
                                          "csr-consume", "csr-publish", "confirm-set",
                                          "confirm-publish"}]
                /\ timer \in [Attempts -> {"none", "sleeping", "signed", "over"}]
    BY DEF Init
  <1>6. Init => /\ slot \in {"none", "pending", "result"}
                /\ consumed \in BOOLEAN
                /\ cert \in {"none", "pending", "ready"}
                /\ confirmed \in BOOLEAN
                /\ files \subseteq {"cert", "key"}
                /\ confirmedBy \subseteq Attempts
                /\ unsaved \subseteq Attempts
                /\ early \subseteq Attempts
                /\ mixed \subseteq Attempts
                /\ lost \subseteq Events
    BY DEF Init
  <1> QED
    BY <1>3, <1>4, <1>5, <1>6 DEF TypeOK

\* An empty inbox is an inbox.
LEMMA NoMessages == <<>> \in Seq(Events)
  OBVIOUS

\* What a page is sent leaves it and its stream typed.
LEMMA SendType ==
    ASSUME TypeOK, NEW a \in Attempts, NEW evs \in SUBSET Steps,
           NEW st \in {"connect", "read", "replay", "live"}, NEW box \in Seq(Events),
           SendOnce(a, evs, st, box)
    PROVE  /\ page' \in [Attempts -> PhaseNames]
           /\ source' \in [Attempts -> {"none", "probe", "enroll"}]
           /\ stream' \in [Attempts -> {"none", "connect", "read", "replay", "live"}]
           /\ view' \in [Attempts -> {"unread", "pending", "ready", "confirmed"}]
           /\ sent' \in [Attempts -> SUBSET Steps]
           /\ inbox' \in [Attempts -> Seq(Events)]
  <1>1. /\ source \in [Attempts -> {"none", "probe", "enroll"}]
        /\ stream \in [Attempts -> {"none", "connect", "read", "replay", "live"}]
        /\ view \in [Attempts -> {"unread", "pending", "ready", "confirmed"}]
        /\ sent \in [Attempts -> SUBSET Steps]
        /\ inbox \in [Attempts -> Seq(Events)]
    BY DEF TypeOK
  <1>2. page' \in [Attempts -> PhaseNames]
    <2>1. \A E : PhaseAfter(E, page[a]) \in PhaseNames
      BY PhaseFacts DEF PhaseAfter, TypeOK
    <2> QED
      BY <2>1 DEF SendOnce, TypeOK
  <1>3. CASE "enrollment-confirmed" \in evs \ sent[a]
    <2>1. SetSource(a, "none", "none")
      BY <1>3 DEF SendOnce
    <2> QED
      BY <1>1, <1>2, <2>1, NoMessages DEF SetSource
  <1>4. CASE "enrollment-confirmed" \notin evs \ sent[a]
    <2>1. /\ sent' = [sent EXCEPT ![a] = @ \cup (evs \ sent[a])]
          /\ stream' = [stream EXCEPT ![a] = st]
          /\ view' = IF st = "live" THEN [view EXCEPT ![a] = "unread"] ELSE view
          /\ inbox' = [inbox EXCEPT ![a] = box]
          /\ UNCHANGED source
      BY <1>4 DEF SendOnce
    <2>2. sent[a] \cup (evs \ sent[a]) \in SUBSET Steps
      BY <1>1
    <2>3. sent' \in [Attempts -> SUBSET Steps]
      BY <1>1, <2>1, <2>2
    <2> QED
      BY <1>1, <1>2, <2>1, <2>3
  <1> QED
    BY <1>3, <1>4

\* Every handler, stream step, timer and failure keeps the types.
LEMMA TypeStep ==
    ASSUME TypeOK, Shape, [Next]_vars
    PROVE  TypeOK'
  <1> USE DEF keys, streams, client, history
  <1>1. CASE UNCHANGED vars
    BY <1>1 DEF vars, TypeOK
  <1> SUFFICES ASSUME NEW a \in Attempts, Does(a) PROVE TypeOK'
    BY <1>1 DEF Next, Does
  <1>2. CASE Reset(a)
    BY <1>2, PhaseFacts DEF Reset, ClearState, Others, TypeOK
  <1>3. CASE OpenLink(a)
    BY <1>3, PhaseFacts DEF OpenLink, TypeOK
  <1>4. CASE Leave(a)
    BY <1>4, PhaseFacts, NoMessages DEF Leave, SetSource, TypeOK
  <1>5. CASE StartRun(a)
    BY <1>5 DEF StartRun, Working, TypeOK
  <1>6. CASE DeclineLink(a)
    BY <1>6 DEF DeclineLink, Fail, TypeOK
  <1>7. CASE RunStep(a)
    <2>1. CASE ProbeConsume(a)
      <3>1. CASE consumed
        BY <2>1, <3>1 DEF ProbeConsume, Fail, TypeOK
      <3>2. CASE ~consumed
        BY <2>1, <3>2 DEF ProbeConsume, Serve, TypeOK
      <3> QED
        BY <3>1, <3>2
    <2>2. CASE CsrStore(a)
      BY <2>2 DEF CsrStore, Serve, TypeOK
    <2>3. CASE Poll(a)
      BY <2>3 DEF Poll, Working, TypeOK
    <2>4. CASE FetchCert(a)
      <3>0. /\ files \subseteq {"cert", "key"}
            /\ unsaved \subseteq Attempts
            /\ faults \in 0..MaxFaults
            /\ run \in [Attempts -> Working \cup {"none", "link", "ok", "error"}]
        BY DEF TypeOK
      <3>1. /\ files' \subseteq {"cert", "key"}
            /\ unsaved' \subseteq Attempts
            /\ faults' \in 0..MaxFaults
        <4>1. CASE UNCHANGED <<files, unsaved, faults>>
          BY <3>0, <4>1
        <4>2. CASE Save(a, "cert")
          <5>1. CASE files' = files \cup {"cert"} /\ UNCHANGED <<unsaved, faults>>
            BY <3>0, <5>1
          <5>2. CASE Fault /\ unsaved' = unsaved \cup {a} /\ UNCHANGED files
            BY <3>0, <5>2, EnrollmentAssumption DEF Fault
          <5> QED
            BY <4>2, <5>1, <5>2 DEF Save
        <4> QED
          BY <2>4, <4>1, <4>2 DEF FetchCert
      <3>2. run' \in [Attempts -> Working \cup {"none", "link", "ok", "error"}]
        BY <2>4, <3>0 DEF FetchCert, Continue, Fail, Working
      <3>3. UNCHANGED <<keys, page, streams, latest, call, timer, confirmedBy, history>>
        BY <2>4 DEF FetchCert
      <3> QED
        BY <3>1, <3>2, <3>3 DEF TypeOK
    <2>5. CASE FetchKey(a)
      <3>0. /\ files \subseteq {"cert", "key"}
            /\ unsaved \subseteq Attempts
            /\ faults \in 0..MaxFaults
            /\ run \in [Attempts -> Working \cup {"none", "link", "ok", "error"}]
        BY DEF TypeOK
      <3>1. /\ files' \subseteq {"cert", "key"}
            /\ unsaved' \subseteq Attempts
            /\ faults' \in 0..MaxFaults
        <4>1. CASE UNCHANGED <<files, unsaved, faults>>
          BY <3>0, <4>1
        <4>2. CASE Save(a, "key")
          <5>1. CASE files' = files \cup {"key"} /\ UNCHANGED <<unsaved, faults>>
            BY <3>0, <5>1
          <5>2. CASE Fault /\ unsaved' = unsaved \cup {a} /\ UNCHANGED files
            BY <3>0, <5>2, EnrollmentAssumption DEF Fault
          <5> QED
            BY <4>2, <5>1, <5>2 DEF Save
        <4> QED
          BY <2>5, <4>1, <4>2 DEF FetchKey
      <3>2. run' \in [Attempts -> Working \cup {"none", "link", "ok", "error"}]
        BY <2>5, <3>0 DEF FetchKey, Continue, Fail, Working
      <3>3. UNCHANGED <<keys, page, streams, latest, call, timer, confirmedBy, history>>
        BY <2>5 DEF FetchKey
      <3> QED
        BY <3>1, <3>2, <3>3 DEF TypeOK
    <2>6. CASE ConfirmCheck(a)
      <3>1. CASE cert = "ready"
        BY <2>6, <3>1 DEF ConfirmCheck, Serve, TypeOK
      <3>2. CASE cert # "ready"
        BY <2>6, <3>2 DEF ConfirmCheck, Fail, TypeOK
      <3> QED
        BY <3>1, <3>2
    <2> QED
      BY <1>7, <2>1, <2>2, <2>3, <2>4, <2>5, <2>6 DEF RunStep
  <1>8. CASE CallStep(a)
    <2>1. CASE ProbeStore(a)
      <3>1. call' \in [Attempts -> {"idle", "probe-store", "probe-publish", "csr-consume",
                                    "csr-publish", "confirm-set", "confirm-publish"}]
        BY <2>1 DEF ProbeStore, Serve, TypeOK
      <3> QED
        BY <2>1, <3>1 DEF ProbeStore, TypeOK
    <2>2. CASE ProbePublish(a)
      <3>1. inbox' \in [Attempts -> Seq(Events)]
        BY <2>2, PublishFacts DEF ProbePublish, Events, Steps
      <3> QED
        BY <2>2, <3>1 DEF ProbePublish, Serve, Continue, Working, TypeOK
    <2>3. CASE CsrConsume(a)
      BY <2>3 DEF CsrConsume, Serve, TypeOK
    <2>4. CASE CsrPublish(a)
      <3>1. inbox' \in [Attempts -> Seq(Events)]
        BY <2>4, PublishFacts DEF CsrPublish, Events, Steps
      <3> QED
        BY <2>4, <3>1 DEF CsrPublish, Serve, Continue, Working, TypeOK
    <2>5. CASE ConfirmSet(a)
      <3>0. /\ run \in [Attempts -> Working \cup {"none", "link", "ok", "error"}]
            /\ call \in [Attempts -> {"idle", "probe-store", "probe-publish", "csr-consume",
                                       "csr-publish", "confirm-set", "confirm-publish"}]
        BY DEF TypeOK
      <3>1. /\ run' \in [Attempts -> Working \cup {"none", "link", "ok", "error"}]
            /\ call' \in [Attempts -> {"idle", "probe-store", "probe-publish", "csr-consume",
                                       "csr-publish", "confirm-set", "confirm-publish"}]
        BY <2>5, <3>0 DEF ConfirmSet, Serve, Continue
      <3>2. confirmed' \in BOOLEAN /\ confirmedBy' \subseteq Attempts
        BY <2>5 DEF ConfirmSet, TypeOK
      <3>3. UNCHANGED <<slot, consumed, cert, page, streams, files, latest, unsaved, timer,
                        faults, history>>
        BY <2>5 DEF ConfirmSet
      <3> QED
        BY <3>1, <3>2, <3>3 DEF TypeOK
    <2>6. CASE ConfirmPublish(a)
      <3>1. inbox' \in [Attempts -> Seq(Events)]
        BY <2>6, PublishFacts DEF ConfirmPublish, Events, Steps
      <3> QED
        BY <2>6, <3>1 DEF ConfirmPublish, Serve, Continue, TypeOK
    <2> QED
      BY <1>8, <2>1, <2>2, <2>3, <2>4, <2>5, <2>6 DEF CallStep
  <1>9. CASE TimerStep(a)
    <2>1. CASE Sign(a)
      BY <2>1 DEF Sign, TypeOK
    <2>2. CASE SignPublish(a)
      <3>1. inbox' \in [Attempts -> Seq(Events)]
        BY <2>2, PublishFacts DEF SignPublish, Events, Steps
      <3> QED
        BY <2>2, <3>1 DEF SignPublish, TypeOK
    <2> QED
      BY <1>9, <2>1, <2>2 DEF TimerStep
  <1>10. CASE StreamStep(a)
    <2>1. CASE ProbeRead(a)
      <3>1. CASE slot = "result"
        <4>1. ProbeResult(a) /\ UNCHANGED <<keys, client, call, timer, faults, confirmedBy,
                                            history>>
          BY <2>1, <3>1 DEF ProbeRead
        <4> QED
          BY <4>1, PhaseFacts, NoMessages DEF ProbeResult, SetSource, TypeOK
      <3>2. CASE slot # "result"
        BY <2>1, <3>2 DEF ProbeRead, TypeOK
      <3> QED
        BY <3>1, <3>2
    <2>2. CASE ProbeSubscribe(a)
      BY <2>2 DEF ProbeSubscribe, TypeOK
    <2>3. CASE ProbeMessage(a)
      BY <2>3, PhaseFacts, NoMessages DEF ProbeMessage, ProbeResult, SetSource, TypeOK
    <2>4. CASE EnrollSubscribe(a)
      BY <2>4 DEF EnrollSubscribe, TypeOK
    <2>5. CASE EnrollRead(a)
      BY <2>5 DEF EnrollRead, TypeOK
    <2>6. CASE EnrollReplay(a)
      <3>1. stream[a] = "replay" /\ view[a] \in {"pending", "ready", "confirmed"}
        BY <2>6 DEF EnrollReplay, Shape, ShapeOf, TypeOK
      <3>2. Passed(view[a]) \in SUBSET Steps
        BY <3>1 DEF Passed, Steps
      <3>3. inbox[a] \in Seq(Events)
        BY DEF TypeOK
      <3>4. SendOnce(a, Passed(view[a]), "live", inbox[a])
        BY <2>6 DEF EnrollReplay
      <3>5. UNCHANGED <<keys, client, call, timer, faults, confirmedBy, history>>
        BY <2>6 DEF EnrollReplay
      <3>6. /\ page' \in [Attempts -> PhaseNames]
            /\ source' \in [Attempts -> {"none", "probe", "enroll"}]
            /\ stream' \in [Attempts -> {"none", "connect", "read", "replay", "live"}]
            /\ view' \in [Attempts -> {"unread", "pending", "ready", "confirmed"}]
            /\ sent' \in [Attempts -> SUBSET Steps]
            /\ inbox' \in [Attempts -> Seq(Events)]
        BY <3>2, <3>3, <3>4, SendType
      <3> QED
        BY <3>5, <3>6 DEF TypeOK
    <2>7. CASE EnrollMessage(a)
      <3>1. /\ Head(inbox[a]) \in Events /\ Tail(inbox[a]) \in Seq(Events)
            /\ Has(inbox[a], Head(inbox[a]))
        BY <2>7, HasTail DEF EnrollMessage, TypeOK
      <3>0. Tail(inbox[a]) \in Seq(Events)
        BY <3>1
      <3>2. {Head(inbox[a])} \in SUBSET Steps
        BY <2>7, <3>1 DEF EnrollMessage, Shape, ShapeOf
      <3>3. stream[a] \in {"connect", "read", "replay", "live"}
        BY <2>7 DEF EnrollMessage, Shape, ShapeOf, TypeOK
      <3>4. SendOnce(a, {Head(inbox[a])}, stream[a], Tail(inbox[a]))
        BY <2>7 DEF EnrollMessage
      <3>5. UNCHANGED <<keys, client, call, timer, faults, confirmedBy, history>>
        BY <2>7 DEF EnrollMessage
      <3>6. /\ page' \in [Attempts -> PhaseNames]
            /\ source' \in [Attempts -> {"none", "probe", "enroll"}]
            /\ stream' \in [Attempts -> {"none", "connect", "read", "replay", "live"}]
            /\ view' \in [Attempts -> {"unread", "pending", "ready", "confirmed"}]
            /\ sent' \in [Attempts -> SUBSET Steps]
            /\ inbox' \in [Attempts -> Seq(Events)]
        BY <3>0, <3>2, <3>3, <3>4, SendType
      <3> QED
        BY <3>5, <3>6 DEF TypeOK
    <2> QED
      BY <1>10, <2>1, <2>2, <2>3, <2>4, <2>5, <2>6, <2>7 DEF StreamStep
  <1>11. CASE RunFails(a)
    BY <1>11, EnrollmentAssumption DEF RunFails, Fault, Fail, TypeOK
  <1>12. CASE StreamBreaks(a)
    BY <1>12, NoMessages, EnrollmentAssumption DEF StreamBreaks, SetSource, Fault, TypeOK
  <1>13. CASE CallDies(a)
    BY <1>13, EnrollmentAssumption
       DEF CallDies, Fault, Fail, Serve, Unpublished, Events, Steps, TypeOK
  <1>14. CASE TimerDies(a)
    BY <1>14, EnrollmentAssumption DEF TimerDies, Fault, Events, Steps, TypeOK
  <1> QED
    BY <1>2, <1>3, <1>4, <1>5, <1>6, <1>7, <1>8, <1>9, <1>10, <1>11, <1>12, <1>13, <1>14
       DEF Does

-----------------------------------------------------------------------------
(* What every step of an attempt leaves alone, and what it takes no event  *)
(* back from.                                                              *)

OthersKept(a) ==
    \A b \in Attempts \ {a} :
        /\ page'[b] = page[b] /\ source'[b] = source[b] /\ stream'[b] = stream[b]
        /\ view'[b] = view[b] /\ sent'[b] = sent[b]
        /\ run'[b] = run[b] /\ call'[b] = call[b] /\ timer'[b] = timer[b]
        /\ b \in confirmedBy' <=> b \in confirmedBy
        /\ b \in unsaved' <=> b \in unsaved
        /\ b \in early' <=> b \in early

\* Inboxes of others lose nothing and get what they are subscribed to.
OthersListen(a) ==
    \A b \in Attempts \ {a} : \A ev \in Events :
        /\ Has(inbox[b], ev) => Has(inbox'[b], ev)
        /\ Has(inbox'[b], ev) => Has(inbox[b], ev) \/ Subscribed(b, ev)

\* An event that a's handler or timer is about to publish stays so, is published or is
\* counted as lost.
NothingDropped(a) ==
    /\ lost \subseteq lost'
    /\ \A ev \in Events :
          ev \in Unpublished(call[a]) =>
              ev \in Unpublished(call'[a]) \/ ev \in lost' \/ Publish(ev)
    /\ timer[a] = "signed" =>
           timer'[a] = "signed" \/ "cert-ready" \in lost' \/ Publish("cert-ready")

\* A step of one attempt leaves the page, the stream, the run, the request and the
\* timer of every other alone.
LEMMA OthersKeptStep ==
    ASSUME TypeOK, NEW a \in Attempts, Does(a)
    PROVE  OthersKept(a)
  <1> USE DEF keys, streams, client, history, OthersKept
  <1>1. CASE Reset(a)
    BY <1>1 DEF Reset, ClearState, Others, TypeOK
  <1>2. CASE OpenLink(a)
    BY <1>2 DEF OpenLink, TypeOK
  <1>3. CASE Leave(a)
    BY <1>3 DEF Leave, SetSource, TypeOK
  <1>4. CASE StartRun(a)
    BY <1>4 DEF StartRun, Working, TypeOK
  <1>5. CASE DeclineLink(a)
    BY <1>5 DEF DeclineLink, Fail, TypeOK
  <1>6. CASE RunStep(a)
    <2>1. CASE ProbeConsume(a)
      BY <2>1 DEF ProbeConsume, Fail, Serve, TypeOK
    <2>2. CASE CsrStore(a)
      BY <2>2 DEF CsrStore, Serve, TypeOK
    <2>3. CASE Poll(a)
      BY <2>3 DEF Poll, Working, TypeOK
    <2>4. CASE FetchCert(a)
      BY <2>4 DEF FetchCert, Save, Fault, Continue, Fail, Working, TypeOK
    <2>5. CASE FetchKey(a)
      BY <2>5 DEF FetchKey, Save, Fault, Continue, Fail, Working, TypeOK
    <2>6. CASE ConfirmCheck(a)
      BY <2>6 DEF ConfirmCheck, Serve, Fail, TypeOK
    <2> QED
      BY <1>6, <2>1, <2>2, <2>3, <2>4, <2>5, <2>6 DEF RunStep
  <1>7. CASE CallStep(a)
    <2>1. CASE ProbeStore(a)
      BY <2>1 DEF ProbeStore, Serve, TypeOK
    <2>2. CASE ProbePublish(a)
      BY <2>2 DEF ProbePublish, Serve, Continue, Working, TypeOK
    <2>3. CASE CsrConsume(a)
      BY <2>3 DEF CsrConsume, Serve, TypeOK
    <2>4. CASE CsrPublish(a)
      BY <2>4 DEF CsrPublish, Serve, Continue, Working, TypeOK
    <2>5. CASE ConfirmSet(a)
      BY <2>5 DEF ConfirmSet, Serve, Continue, TypeOK
    <2>6. CASE ConfirmPublish(a)
      BY <2>6 DEF ConfirmPublish, Serve, Continue, TypeOK
    <2> QED
      BY <1>7, <2>1, <2>2, <2>3, <2>4, <2>5, <2>6 DEF CallStep
  <1>8. CASE TimerStep(a)
    <2>1. CASE Sign(a)
      BY <2>1 DEF Sign, TypeOK
    <2>2. CASE SignPublish(a)
      BY <2>2 DEF SignPublish, TypeOK
    <2> QED
      BY <1>8, <2>1, <2>2 DEF TimerStep
  <1>9. CASE StreamStep(a)
    <2>1. CASE ProbeRead(a)
      BY <2>1 DEF ProbeRead, ProbeResult, SetSource, TypeOK
    <2>2. CASE ProbeSubscribe(a)
      BY <2>2 DEF ProbeSubscribe, TypeOK
    <2>3. CASE ProbeMessage(a)
      BY <2>3 DEF ProbeMessage, ProbeResult, SetSource, TypeOK
    <2>4. CASE EnrollSubscribe(a)
      BY <2>4 DEF EnrollSubscribe, TypeOK
    <2>5. CASE EnrollRead(a)
      BY <2>5 DEF EnrollRead, TypeOK
    <2>6. CASE EnrollReplay(a)
      BY <2>6 DEF EnrollReplay, SendOnce, SetSource, TypeOK
    <2>7. CASE EnrollMessage(a)
      BY <2>7 DEF EnrollMessage, SendOnce, SetSource, TypeOK
    <2> QED
      BY <1>9, <2>1, <2>2, <2>3, <2>4, <2>5, <2>6, <2>7 DEF StreamStep
  <1>10. CASE RunFails(a)
    BY <1>10 DEF RunFails, Fault, Fail, TypeOK
  <1>11. CASE StreamBreaks(a)
    BY <1>11 DEF StreamBreaks, SetSource, Fault, TypeOK
  <1>12. CASE CallDies(a)
    BY <1>12 DEF CallDies, Fault, Fail, Serve, TypeOK
  <1>13. CASE TimerDies(a)
    BY <1>13 DEF TimerDies, Fault, TypeOK
  <1> QED
    BY <1>1, <1>2, <1>3, <1>4, <1>5, <1>6, <1>7, <1>8, <1>9, <1>10, <1>11, <1>12, <1>13
       DEF Does

\* A step of one attempt takes no event from the inbox of another, and puts none there
\* that its stream is not subscribed to.
LEMMA OthersListenStep ==
    ASSUME TypeOK, NEW a \in Attempts, Does(a)
    PROVE  OthersListen(a)
  <1> USE DEF keys, streams
  <1>1. ASSUME UNCHANGED inbox PROVE OthersListen(a)
    BY <1>1 DEF OthersListen
  <1>2. ASSUME NEW box, inbox' = [inbox EXCEPT ![a] = box] PROVE OthersListen(a)
    BY <1>2 DEF OthersListen, TypeOK
  <1>3. ASSUME NEW ev \in Events, Publish(ev) PROVE OthersListen(a)
    BY <1>3, PublishFacts DEF OthersListen
  <1>4. ASSUME NEW src, NEW st, SetSource(a, src, st) PROVE OthersListen(a)
    BY <1>2, <1>4 DEF SetSource
  <1>5. ASSUME NEW evs, NEW st, NEW box, SendOnce(a, evs, st, box) PROVE OthersListen(a)
    BY <1>2, <1>4, <1>5 DEF SendOnce
  <1>6. "result" \in Events /\ "csr-received" \in Events /\ "cert-ready" \in Events
        /\ "enrollment-confirmed" \in Events
    BY DEF Events, Steps
  <1>7. CASE Reset(a) \/ OpenLink(a) \/ StartRun(a) \/ DeclineLink(a)
    BY <1>1, <1>7 DEF Reset, OpenLink, StartRun, DeclineLink
  <1>8. CASE Leave(a) \/ StreamBreaks(a)
    BY <1>4, <1>8 DEF Leave, StreamBreaks
  <1>9. CASE RunStep(a)
    BY <1>1, <1>9
       DEF RunStep, ProbeConsume, CsrStore, Poll, FetchCert, FetchKey, ConfirmCheck
  <1>10. CASE CallStep(a)
    BY <1>1, <1>3, <1>6, <1>10
       DEF CallStep, ProbeStore, ProbePublish, CsrConsume, CsrPublish,
       ConfirmSet, ConfirmPublish
  <1>11. CASE TimerStep(a)
    BY <1>1, <1>3, <1>6, <1>11 DEF TimerStep, Sign, SignPublish
  <1>12. CASE StreamStep(a)
    <2>1. CASE ProbeRead(a) \/ ProbeMessage(a)
      BY <1>1, <1>4, <2>1 DEF ProbeRead, ProbeMessage, ProbeResult
    <2>2. CASE ProbeSubscribe(a) \/ EnrollSubscribe(a) \/ EnrollRead(a)
      BY <1>1, <2>2 DEF ProbeSubscribe, EnrollSubscribe, EnrollRead
    <2>3. CASE EnrollReplay(a) \/ EnrollMessage(a)
      BY <1>5, <2>3 DEF EnrollReplay, EnrollMessage
    <2> QED
      BY <1>12, <2>1, <2>2, <2>3 DEF StreamStep
  <1>13. CASE RunFails(a) \/ CallDies(a) \/ TimerDies(a)
    BY <1>1, <1>13 DEF RunFails, CallDies, TimerDies
  <1> QED
    BY <1>7, <1>8, <1>9, <1>10, <1>11, <1>12, <1>13 DEF Does

\* No step forgets an event it is about to publish: a request or timer that ends
\* without it is counted in lost.
LEMMA NothingDroppedStep ==
    ASSUME TypeOK, Serving, NEW a \in Attempts, Does(a)
    PROVE  NothingDropped(a)
  <1> USE DEF keys, streams, client, history
  <1>1. ASSUME UNCHANGED <<lost, call, timer>> PROVE NothingDropped(a)
    BY <1>1 DEF NothingDropped
  <1>2. ASSUME call[a] = "idle", NEW step, Serve(a, step), UNCHANGED <<lost, timer>>
        PROVE  NothingDropped(a)
    BY <1>2 DEF NothingDropped, Unpublished
  <1>3. CASE Reset(a) \/ OpenLink(a) \/ StartRun(a) \/ DeclineLink(a) \/ Leave(a)
             \/ StreamBreaks(a) \/ RunFails(a) \/ StreamStep(a)
    BY <1>1, <1>3 DEF Reset, OpenLink, StartRun, DeclineLink, Leave, StreamBreaks, RunFails,
       StreamStep, ProbeRead, ProbeMessage, ProbeSubscribe, EnrollSubscribe, EnrollRead,
       EnrollReplay, EnrollMessage
  <1>4. CASE RunStep(a)
    BY <1>1, <1>2, <1>4 DEF RunStep, ProbeConsume, CsrStore, Poll, FetchCert, FetchKey,
       ConfirmCheck
  <1>5. CASE ProbeStore(a) \/ CsrConsume(a) \/ ConfirmSet(a)
    BY <1>5
       DEF ProbeStore, CsrConsume, ConfirmSet, Serve, NothingDropped, Unpublished, TypeOK
  <1>6. CASE ProbePublish(a)
    BY <1>6 DEF ProbePublish, NothingDropped, Unpublished
  <1>7. CASE CsrPublish(a)
    <2>1. timer[a] = "none"
      BY <1>7 DEF CsrPublish, Serving, ServingOf, CsrCalls
    <2> QED
      BY <1>7, <2>1 DEF CsrPublish, NothingDropped, Unpublished
  <1>8. CASE ConfirmPublish(a)
    BY <1>8 DEF ConfirmPublish, NothingDropped, Unpublished
  <1>9. CASE TimerStep(a)
    BY <1>9 DEF TimerStep, Sign, SignPublish, NothingDropped, TypeOK
  <1>10. CASE CallDies(a)
    BY <1>10 DEF CallDies, NothingDropped
  <1>11. CASE TimerDies(a)
    BY <1>11 DEF TimerDies, NothingDropped, TypeOK
  <1> QED
    BY <1>3, <1>4, <1>5, <1>6, <1>7, <1>8, <1>9, <1>10, <1>11 DEF Does, CallStep


-----------------------------------------------------------------------------
(* What the classes of steps leave unchanged.                              *)

\* What the steps of a stream leave unchanged.
LEMMA StreamFrame ==
    ASSUME NEW a \in Attempts, StreamStep(a)
    PROVE  UNCHANGED <<keys, client, call, timer, faults, confirmedBy, history>>
  BY DEF StreamStep, ProbeRead, ProbeSubscribe, ProbeMessage, EnrollSubscribe, EnrollRead,
     EnrollReplay, EnrollMessage

\* What the steps of a client leave unchanged.
LEMMA RunFrame ==
    ASSUME NEW a \in Attempts, RunStep(a)
    PROVE  UNCHANGED <<slot, confirmed, page, streams, latest, timer, confirmedBy, history>>
  BY DEF RunStep, ProbeConsume, CsrStore, Poll, FetchCert, FetchKey, ConfirmCheck, keys,
     client

\* What the steps of a request in progress leave unchanged.
LEMMA CallFrame ==
    ASSUME NEW a \in Attempts, CallStep(a)
    PROVE  UNCHANGED <<page, source, stream, view, sent, files, latest, unsaved, faults,
                       history>>
  BY DEF CallStep, ProbeStore, ProbePublish, CsrConsume, CsrPublish, ConfirmSet,
     ConfirmPublish, streams, client

\* What the signing timer leaves unchanged.
LEMMA TimerFrame ==
    ASSUME NEW a \in Attempts, TimerStep(a)
    PROVE  UNCHANGED <<slot, consumed, confirmed, page, source, stream, view, sent, client,
                       call, faults, confirmedBy, history>>
  BY DEF TimerStep, Sign, SignPublish, keys, streams

\* The page and the failures touch no key and no file.
PageStep(a) == OpenLink(a) \/ Leave(a)
Failure(a)  == RunFails(a) \/ StreamBreaks(a) \/ CallDies(a) \/ TimerDies(a)

\* What a page and the failures leave unchanged.
LEMMA PageFrame ==
    ASSUME NEW a \in Attempts, PageStep(a) \/ Failure(a)
    PROVE  UNCHANGED <<keys, files, latest, unsaved, confirmedBy, mixed>>
  BY DEF PageStep, Failure, OpenLink, Leave, RunFails, StreamBreaks, CallDies, TimerDies,
     client, history

\* Every step of an attempt is of one of the classes.
LEMMA Classes ==
    ASSUME NEW a \in Attempts, Does(a)
    PROVE  \/ Reset(a) \/ PageStep(a) \/ StartRun(a) \/ DeclineLink(a)
           \/ RunStep(a) \/ CallStep(a) \/ TimerStep(a) \/ StreamStep(a) \/ Failure(a)
  BY DEF Does, PageStep, Failure

-----------------------------------------------------------------------------
(* Serving, Shape and Kept are kept by every step.                         *)

\* Every step keeps Serving.
LEMMA ServingStep ==
    ASSUME TypeOK, Serving, NEW a \in Attempts, Does(a)
    PROVE  Serving'
  <1> USE DEF keys, streams, client, history, ServingOf, ProbeCalls, CsrCalls, ConfirmCalls
  <1>1. \A b \in Attempts \ {a} : ServingOf(b)'
    BY OthersKeptStep DEF OthersKept, Serving
  <1>2. ServingOf(a)
    BY DEF Serving
  <1>3. CASE Reset(a) \/ StreamStep(a)
    BY <1>1, <1>2, <1>3, StreamFrame DEF Reset, Serving
  <1>4. CASE PageStep(a)
    BY <1>1, <1>2, <1>4 DEF PageStep, OpenLink, Leave, Serving, TypeOK
  <1>5. CASE StartRun(a) \/ DeclineLink(a)
    BY <1>1, <1>2, <1>5 DEF StartRun, DeclineLink, Fail, Serving, TypeOK
  <1>6. CASE RunStep(a)
    <2>1. CASE ProbeConsume(a)
      BY <1>1, <1>2, <2>1 DEF ProbeConsume, Serve, Fail, Serving, TypeOK
    <2>2. CASE CsrStore(a)
      BY <1>1, <1>2, <2>2 DEF CsrStore, Serve, Serving, TypeOK
    <2>3. CASE Poll(a)
      BY <1>1, <1>2, <2>3 DEF Poll, Serving, TypeOK
    <2>4. CASE FetchCert(a)
      BY <1>1, <1>2, <2>4 DEF FetchCert, Continue, Fail, Serving, TypeOK
    <2>5. CASE FetchKey(a)
      BY <1>1, <1>2, <2>5 DEF FetchKey, Continue, Fail, Serving, TypeOK
    <2>6. CASE ConfirmCheck(a)
      BY <1>1, <1>2, <2>6 DEF ConfirmCheck, Serve, Fail, Serving, TypeOK
    <2> QED
      BY <1>6, <2>1, <2>2, <2>3, <2>4, <2>5, <2>6 DEF RunStep
  <1>7. CASE CallStep(a)
    <2>1. CASE ProbeStore(a) \/ CsrConsume(a)
      BY <1>1, <1>2, <2>1 DEF ProbeStore, CsrConsume, Serve, Serving, TypeOK
    <2>2. CASE ProbePublish(a) \/ CsrPublish(a)
      BY <1>1, <1>2, <2>2 DEF ProbePublish, CsrPublish, Serve, Continue, Serving, TypeOK
    <2>3. CASE ConfirmSet(a) \/ ConfirmPublish(a)
      BY <1>1, <1>2, <2>3 DEF ConfirmSet, ConfirmPublish, Serve, Continue, Serving, TypeOK
    <2> QED
      BY <1>7, <2>1, <2>2, <2>3 DEF CallStep
  <1>8. CASE TimerStep(a)
    BY <1>1, <1>2, <1>8 DEF TimerStep, Sign, SignPublish, Serving, TypeOK
  <1>9. CASE Failure(a)
    <2>1. CASE RunFails(a) \/ StreamBreaks(a)
      BY <1>1, <1>2, <2>1 DEF RunFails, StreamBreaks, Fail, Serving, TypeOK
    <2>2. CASE CallDies(a) \/ TimerDies(a)
      BY <1>1, <1>2, <2>2 DEF CallDies, TimerDies, Serve, Fail, Serving, TypeOK
    <2> QED
      BY <1>9, <2>1, <2>2 DEF Failure
  <1> QED
    BY <1>3, <1>4, <1>5, <1>6, <1>7, <1>8, <1>9, Classes

\* Every step keeps Kept.
LEMMA KeptStep ==
    ASSUME TypeOK, Serving, Kept, NEW a \in Attempts, Does(a)
    PROVE  Kept'
  <1> USE DEF keys, streams, client, history, KeptOf
  <1>0. \A step : [run EXCEPT ![a] = step][a] = step
    BY DEF TypeOK
  <1>1. ServingOf(a)
    BY DEF Serving
  <1>2. CASE StartRun(a)
    <2>1. latest' = a /\ unsaved' = unsaved /\ run'[a] = "probe"
      BY <1>0, <1>2 DEF StartRun
    <2> QED
      BY <2>1 DEF Kept
  <1>3. CASE FetchCert(a) \/ FetchKey(a)
    <2>1. /\ latest' = latest
          /\ files \subseteq files'
          /\ unsaved \subseteq unsaved'
      BY <1>3 DEF FetchCert, FetchKey, Save
    <2>2. \A b \in Attempts \ {a} : b \notin unsaved' => KeptOf(b)'
      BY <2>1, OthersKeptStep DEF OthersKept, Kept
    <2>3. ASSUME a \notin unsaved' PROVE KeptOf(a)'
      <3>1. KeptOf(a)
        BY <2>1, <2>3 DEF Kept
      <3>2. CASE FetchCert(a)
        BY <1>0, <2>1, <2>3, <3>1, <3>2 DEF FetchCert, Save, Continue, Fail
      <3>3. CASE FetchKey(a)
        BY <1>0, <2>1, <2>3, <3>1, <3>3 DEF FetchKey, HasKey, Save, Continue, Fail
      <3> QED
        BY <1>3, <3>2, <3>3
    <2> QED
      BY <2>2, <2>3 DEF Kept
  <1>4. ASSUME UNCHANGED <<files, latest, unsaved>>,
               run'[a] \in {"key", "confirm", "ok"} =>
                  run'[a] = run[a] \/ (run'[a] = "ok" /\ run[a] = "confirm")
        PROVE  Kept'
    BY <1>0, <1>4, OthersKeptStep DEF OthersKept, Kept
  <1>5. CASE Reset(a) \/ PageStep(a) \/ DeclineLink(a)
    BY <1>0, <1>4, <1>5 DEF Reset, PageStep, OpenLink, Leave, DeclineLink, Fail
  <1>6. CASE ProbeConsume(a) \/ CsrStore(a) \/ Poll(a) \/ ConfirmCheck(a)
    BY <1>0, <1>4, <1>6 DEF ProbeConsume, CsrStore, Poll, ConfirmCheck, Fail
  <1>7. CASE CallStep(a)
    <2>1. CASE ProbeStore(a) \/ CsrConsume(a)
      BY <1>0, <1>4, <2>1 DEF ProbeStore, CsrConsume
    <2>2. CASE ProbePublish(a) \/ CsrPublish(a)
      BY <1>0, <1>4, <2>2 DEF ProbePublish, CsrPublish, Continue
    <2>3. CASE ConfirmSet(a) \/ ConfirmPublish(a)
      BY <1>0, <1>1, <1>4, <2>3 DEF ConfirmSet, ConfirmPublish, Continue, ServingOf,
         ConfirmCalls
    <2> QED
      BY <1>7, <2>1, <2>2, <2>3 DEF CallStep
  <1>8. CASE TimerStep(a) \/ StreamStep(a)
    BY <1>0, <1>4, <1>8, TimerFrame, StreamFrame
  <1>9. CASE Failure(a)
    BY <1>0, <1>4, <1>9 DEF Failure, RunFails, StreamBreaks, CallDies, TimerDies, Fail
  <1> QED
    BY <1>2, <1>3, <1>5, <1>6, <1>7, <1>8, <1>9, Classes DEF RunStep

\* Every step keeps Shape.
LEMMA ShapeStep ==
    ASSUME TypeOK, Shape, NEW a \in Attempts, Does(a)
    PROVE  Shape'
  <1> USE DEF keys, streams, client, history
  <1>1. ASSUME NEW b \in Attempts \ {a} PROVE ShapeOf(b)'
    <2>1. ShapeOf(b)
      BY DEF Shape
    <2>2. /\ page'[b] = page[b] /\ source'[b] = source[b] /\ stream'[b] = stream[b]
          /\ view'[b] = view[b] /\ sent'[b] = sent[b]
          /\ run'[b] = run[b] /\ call'[b] = call[b] /\ timer'[b] = timer[b]
          /\ b \in confirmedBy' <=> b \in confirmedBy
          /\ b \in early' <=> b \in early
      BY OthersKeptStep DEF OthersKept
    <2>3. \A ev \in Events :
             Has(inbox'[b], ev) => Has(inbox[b], ev) \/ Subscribed(b, ev)
      BY OthersListenStep DEF OthersListen
    <2> QED
      BY <2>1, <2>2, <2>3 DEF ShapeOf, Unstarted, Subscribed, Events
  <1> SUFFICES ShapeOf(a)'
    BY <1>1 DEF Shape, ShapeOf, Unstarted, Has
  <1> USE DEF ShapeOf, Unstarted
  <1>2. ShapeOf(a)
    BY DEF Shape
  <1>3. ASSUME NEW ev \in Events, Publish(ev), UNCHANGED <<page, source, stream, view, sent>>,
               page[a] # "install"
        PROVE  ShapeOf(a)'
    BY <1>2, <1>3, PublishFacts DEF Subscribed, Events
  <1>4. ASSUME NEW src, NEW st, SetSource(a, src, st),
               src # "none" => page'[a] \notin {"install", "over"},
               src = "probe" => page'[a] \in {"enrolling", "probe-wait"},
               src = "none" <=> st = "none",
               st # "replay",
               page'[a] # "install"
        PROVE  ShapeOf(a)'
    BY <1>4, HasEmpty DEF SetSource, TypeOK
  <1>5. ASSUME NEW evs, NEW st, NEW box, SendOnce(a, evs, st, box), source[a] = "enroll",
               st # "none", st = "replay" => view[a] # "unread",
               \A ev \in Events : Has(box, ev) => Has(inbox[a], ev)
        PROVE  ShapeOf(a)'
    <2>1. page[a] \notin {"install", "over"}
      BY <1>2, <1>5
    <2>2. page'[a] = PhaseAfter(evs \ sent[a], page[a])
      BY <1>5 DEF SendOnce, TypeOK
    <2>3. page'[a] \notin {"install", "over"}
      BY <2>1, <2>2 DEF PhaseAfter
    <2>4. CASE "enrollment-confirmed" \in evs \ sent[a]
      <3>1. SetSource(a, "none", "none")
        BY <1>5, <2>4 DEF SendOnce
      <3> QED
        BY <1>4, <2>3, <3>1
    <2>5. CASE "enrollment-confirmed" \notin evs \ sent[a]
      <3>1. /\ sent'[a] = sent[a] \cup (evs \ sent[a])
            /\ stream'[a] = st
            /\ st # "live" => view'[a] = view[a]
            /\ inbox'[a] = box
            /\ source'[a] = source[a]
        BY <1>5, <2>5 DEF SendOnce, TypeOK
      <3> QED
        BY <1>2, <1>5, <2>3, <2>5, <3>1
    <2> QED
      BY <2>4, <2>5
  <1>6. CASE Reset(a)
    BY <1>2, <1>6 DEF Reset, TypeOK
  <1>7. CASE OpenLink(a)
    BY <1>2, <1>7 DEF OpenLink, TypeOK
  <1>8. CASE Leave(a)
    BY <1>4, <1>8 DEF Leave, TypeOK
  <1>9. CASE StartRun(a) \/ DeclineLink(a) \/ RunStep(a)
    BY <1>2, <1>9, RunFrame DEF StartRun, DeclineLink, RunStep, ProbeConsume, CsrStore, Poll,
       FetchCert, FetchKey, ConfirmCheck, Working
  <1>10. CASE CallStep(a)
    <2>1. page[a] # "install"
      BY <1>2, <1>10 DEF CallStep, ProbeStore, ProbePublish, CsrConsume, CsrPublish,
         ConfirmSet, ConfirmPublish
    <2>2. CASE UNCHANGED inbox
      BY <1>2, <1>10, <2>1, <2>2, CallFrame
    <2>3. CASE \E ev \in Events : Publish(ev)
      BY <1>3, <1>10, <2>1, <2>3, CallFrame
    <2> QED
      BY <1>10, <2>2, <2>3 DEF CallStep, ProbeStore, ProbePublish, CsrConsume, CsrPublish,
         ConfirmSet, ConfirmPublish, Events, Steps
  <1>11. CASE TimerStep(a)
    <2>1. page[a] # "install"
      BY <1>2, <1>11 DEF TimerStep, Sign, SignPublish
    <2>2. CASE UNCHANGED inbox
      BY <1>2, <1>11, <2>1, <2>2, TimerFrame
    <2>3. CASE \E ev \in Events : Publish(ev)
      BY <1>3, <1>11, <2>1, <2>3, TimerFrame
    <2> QED
      BY <1>11, <2>2, <2>3 DEF TimerStep, Sign, SignPublish, Events, Steps
  <1>12. CASE StreamStep(a)
    <2>1. CASE ProbeResult(a) /\ source[a] = "probe"
      BY <1>4, <2>1 DEF ProbeResult, TypeOK
    <2>2. CASE ProbeRead(a) /\ ~ProbeResult(a)
      BY <1>2, <2>2 DEF ProbeRead, TypeOK
    <2>3. CASE ProbeSubscribe(a) \/ EnrollSubscribe(a)
      BY <1>2, <2>3 DEF ProbeSubscribe, EnrollSubscribe, TypeOK
    <2>4. CASE EnrollRead(a)
      BY <1>2, <2>4 DEF EnrollRead, TypeOK
    <2>5. CASE EnrollReplay(a)
      BY <1>2, <1>5, <2>5 DEF EnrollReplay
    <2>6. CASE EnrollMessage(a)
      <3>1. \A ev \in Events : Has(Tail(inbox[a]), ev) => Has(inbox[a], ev)
        BY <2>6, HasTail DEF EnrollMessage, TypeOK
      <3> QED
        BY <1>2, <1>5, <2>6, <3>1 DEF EnrollMessage
    <2> QED
      BY <1>12, <2>1, <2>2, <2>3, <2>4, <2>5, <2>6 DEF StreamStep, ProbeRead, ProbeMessage
  <1>13. CASE Failure(a)
    <2>1. CASE RunFails(a) \/ CallDies(a) \/ TimerDies(a)
      BY <1>2, <2>1 DEF RunFails, CallDies, TimerDies, Working
    <2>2. CASE StreamBreaks(a)
      <3>1. source[a] # "none" /\ page'[a] = page[a]
        BY <1>2, <2>2 DEF StreamBreaks
      <3> QED
        BY <1>2, <1>4, <2>2, <3>1 DEF StreamBreaks
    <2> QED
      BY <1>13, <2>1, <2>2 DEF Failure
  <1> QED
    BY <1>6, <1>7, <1>8, <1>9, <1>10, <1>11, <1>12, <1>13, Classes DEF PageStep

-----------------------------------------------------------------------------
(* Covered is kept by every step.                                          *)

\* Somebody is about to publish the event or has failed to.
ToCome(ev) ==
    \/ ev \in lost
    \/ \E b \in Attempts : \/ ev \in Unpublished(call[b])
                           \/ ev = "cert-ready" /\ timer[b] = "signed"

\* An event is coming to a stream when it is in its inbox or to be published.
LEMMA ComingIs ==
    ASSUME NEW c \in Attempts, NEW ev
    PROVE  /\ Coming(c, ev) <=> Has(inbox[c], ev) \/ ToCome(ev)
           /\ Coming(c, ev)' <=> Has(inbox'[c], ev) \/ ToCome(ev)'
  BY DEF Coming, Has, ToCome

\* What the keys say has been reached are steps of the enrollment.
LEMMA ReachedFacts == Reached \subseteq Steps /\ Reached' \subseteq Steps
  BY DEF Reached, Steps

\* An event that is to come stays so until it is published.
LEMMA ToComeStep ==
    ASSUME TypeOK, Serving, NEW a \in Attempts, Does(a), NEW ev \in Events, ToCome(ev)
    PROVE  ToCome(ev)' \/ Publish(ev)
  <1>1. NothingDropped(a)
    BY NothingDroppedStep
  <1>2. CASE ev \in lost
    BY <1>1, <1>2 DEF NothingDropped, ToCome
  <1>3. ASSUME NEW b \in Attempts,
               ev \in Unpublished(call[b]) \/ (ev = "cert-ready" /\ timer[b] = "signed")
        PROVE  ToCome(ev)' \/ Publish(ev)
    <2>1. CASE b = a
      BY <1>1, <1>3, <2>1 DEF NothingDropped, ToCome
    <2>2. CASE b # a
      <3>1. call'[b] = call[b] /\ timer'[b] = timer[b]
        BY <2>2, OthersKeptStep DEF OthersKept
      <3> QED
        BY <1>3, <3>1 DEF ToCome
    <2> QED
      BY <2>1, <2>2
  <1> QED
    BY <1>2, <1>3 DEF ToCome

\* A key that changes has its event still to come.
LEMMA ReachedStep ==
    ASSUME TypeOK, Serving, NEW a \in Attempts, Does(a), NEW ev \in Reached'
    PROVE  ev \in Reached \/ ToCome(ev)'
  <1> USE DEF keys
  <1>1. ASSUME UNCHANGED <<cert, confirmed>> PROVE ev \in Reached
    BY <1>1 DEF Reached
  <1>2. CASE Reset(a)
    BY <1>2 DEF Reset, ClearState, Reached
  <1>3. CASE PageStep(a) \/ StreamStep(a) \/ Failure(a) \/ StartRun(a) \/ DeclineLink(a)
    BY <1>1, <1>3, PageFrame, StreamFrame DEF StartRun, DeclineLink
  <1>4. CASE CsrStore(a)
    <2>1. call'[a] = "csr-consume"
      BY <1>4 DEF CsrStore, Serve, TypeOK
    <2>2. ToCome("csr-received")'
      BY <2>1 DEF ToCome, Unpublished
    <2>3. ev = "csr-received" \/ ev \in Reached
      BY <1>4 DEF CsrStore, Reached
    <2> QED
      BY <2>2, <2>3
  <1>5. CASE RunStep(a) /\ ~CsrStore(a)
    BY <1>1, <1>5 DEF RunStep, ProbeConsume, Poll, FetchCert, FetchKey, ConfirmCheck
  <1>6. CASE ConfirmSet(a) /\ ~confirmed
    <2>1. call'[a] = "confirm-publish"
      BY <1>6 DEF ConfirmSet, Serve, TypeOK
    <2>2. ToCome("enrollment-confirmed")'
      BY <2>1 DEF ToCome, Unpublished
    <2>3. ev = "enrollment-confirmed" \/ ev \in Reached
      BY <1>6 DEF ConfirmSet, Reached
    <2> QED
      BY <2>2, <2>3
  <1>7. CASE CallStep(a) /\ ~(ConfirmSet(a) /\ ~confirmed)
    BY <1>1, <1>7 DEF CallStep, ProbeStore, ProbePublish, CsrConsume, CsrPublish, ConfirmSet,
       ConfirmPublish, TypeOK
  <1>8. CASE Sign(a)
    <2>1. timer'[a] = "signed"
      BY <1>8 DEF Sign, TypeOK
    <2>2. ToCome("cert-ready")'
      BY <2>1 DEF ToCome
    <2>3. ev = "cert-ready" \/ ev \in Reached
      BY <1>8 DEF Sign, Reached
    <2> QED
      BY <2>2, <2>3
  <1>9. CASE SignPublish(a)
    BY <1>1, <1>9 DEF SignPublish
  <1> QED
    BY <1>2, <1>3, <1>4, <1>5, <1>6, <1>7, <1>8, <1>9, Classes DEF TimerStep

\* Steps that leave every stream as it is and take nothing from an inbox.
Quiet(a) ==
    \/ OpenLink(a) \/ StartRun(a) \/ DeclineLink(a)
    \/ RunStep(a) \/ CallStep(a) \/ TimerStep(a)
    \/ RunFails(a) \/ CallDies(a) \/ TimerDies(a)

\* A client, a request or the timer change no page and no stream but by publishing.
LEMMA QuietFrame ==
    ASSUME TypeOK, NEW a \in Attempts, Quiet(a)
    PROVE  /\ UNCHANGED <<source, stream, view, sent>>
           /\ \A c \in Attempts : \A ev \in Events :
                 /\ Has(inbox[c], ev) => Has(inbox'[c], ev)
                 /\ Has(inbox'[c], ev) =>
                       Has(inbox[c], ev) \/ (Subscribed(c, ev) /\ Publish(ev))
  <1> USE DEF streams
  <1>1. UNCHANGED <<source, stream, view, sent>>
    BY RunFrame, CallFrame, TimerFrame DEF Quiet, OpenLink, StartRun, DeclineLink, RunFails,
       CallDies, TimerDies
  <1>2. CASE UNCHANGED inbox
    BY <1>1, <1>2
  <1>3. ASSUME NEW ev \in Events, Publish(ev)
        PROVE  \A c \in Attempts : \A e \in Events :
                  /\ Has(inbox[c], e) => Has(inbox'[c], e)
                  /\ Has(inbox'[c], e) =>
                        Has(inbox[c], e) \/ (Subscribed(c, e) /\ Publish(e))
    BY <1>3, PublishFacts
  <1>4. UNCHANGED inbox \/ \E ev \in Events : Publish(ev)
    BY RunFrame DEF Quiet, OpenLink, StartRun, DeclineLink, RunFails, CallDies, TimerDies,
       CallStep, ProbeStore, ProbePublish, CsrConsume, CsrPublish, ConfirmSet, ConfirmPublish,
       TimerStep, Sign, SignPublish, Events, Steps
  <1> QED
    BY <1>1, <1>2, <1>3, <1>4

\* SendOnce, as far as it concerns the attempt whose stream it is.
LEMMA SendShows ==
    ASSUME TypeOK, NEW a \in Attempts, NEW evs, NEW st, NEW box, SendOnce(a, evs, st, box)
    PROVE  page'[a] = PhaseAfter(evs \ sent[a], page[a])
  BY DEF SendOnce, TypeOK

\* SendOnce, when it closes the stream.
LEMMA SendCloses ==
    ASSUME TypeOK, NEW a \in Attempts, NEW evs, NEW st, NEW box, SendOnce(a, evs, st, box),
           "enrollment-confirmed" \in evs \ sent[a]
    PROVE  /\ source'[a] = "none" /\ stream'[a] = "none" /\ view'[a] = "unread"
           /\ sent'[a] = {} /\ inbox'[a] = <<>>
  <1>1. SetSource(a, "none", "none")
    BY DEF SendOnce
  <1> QED
    BY <1>1 DEF SetSource, TypeOK

\* SendOnce, when it does not close the stream.
LEMMA SendGoesOn ==
    ASSUME TypeOK, NEW a \in Attempts, NEW evs, NEW st, NEW box, SendOnce(a, evs, st, box),
           "enrollment-confirmed" \notin evs \ sent[a]
    PROVE  /\ source'[a] = source[a] /\ stream'[a] = st
           /\ view'[a] \in {view[a], "unread"} /\ (st # "live" => view'[a] = view[a])
           /\ \A ev : ev \in sent'[a] <=> ev \in sent[a] \/ ev \in evs
           /\ inbox'[a] = box
  <1>1. sent'[a] = sent[a] \cup (evs \ sent[a])
    BY DEF SendOnce, TypeOK
  <1> QED
    BY <1>1 DEF SendOnce, TypeOK

\* Every step keeps Covered.
LEMMA CoveredStep ==
    ASSUME TypeOK, Shape, Serving, Covered, NEW a \in Attempts, Does(a)
    PROVE  Covered'
  <1> SUFFICES ASSUME NEW c \in Attempts, NEW ev \in Reached', source'[c] = "enroll",
                      ~ToCome(ev)'
               PROVE  /\ stream'[c] = "live" => ev \in sent'[c] \/ Has(inbox'[c], ev)
                      /\ stream'[c] = "replay" =>
                            ev \in Passed(view'[c]) \cup sent'[c] \/ Has(inbox'[c], ev)
    BY ComingIs DEF Covered, CoveredOf
  <1>1. ev \in Reached /\ ev \in Steps /\ ev \in Events /\ ev # "result"
    BY ReachedStep, ReachedFacts DEF Events, Steps
  <1>2. ToCome(ev) => Publish(ev)
    BY <1>1, ToComeStep
  <1>3. source[c] = "enroll" =>
           /\ stream[c] = "live" => ev \in sent[c] \/ Has(inbox[c], ev) \/ ToCome(ev)
           /\ stream[c] = "replay" =>
                 ev \in Passed(view[c]) \cup sent[c] \/ Has(inbox[c], ev) \/ ToCome(ev)
    BY <1>1, ComingIs DEF Covered, CoveredOf
  <1>4. ASSUME source'[c] = source[c], stream'[c] = stream[c], view'[c] = view[c],
               sent'[c] = sent[c], Has(inbox[c], ev) => Has(inbox'[c], ev)
        PROVE  /\ stream'[c] = "live" => ev \in sent'[c] \/ Has(inbox'[c], ev)
               /\ stream'[c] = "replay" =>
                     ev \in Passed(view'[c]) \cup sent'[c] \/ Has(inbox'[c], ev)
    <2>1. stream[c] \in {"live", "replay"} => Subscribed(c, ev)
      BY <1>1, <1>4 DEF Subscribed
    <2>2. Publish(ev) /\ Subscribed(c, ev) => Has(inbox'[c], ev)
      BY <1>1, PublishFacts
    <2> QED
      BY <1>2, <1>3, <1>4, <2>1, <2>2
  <1>5. CASE c # a
    BY <1>1, <1>4, <1>5, OthersKeptStep, OthersListenStep DEF OthersKept, OthersListen
  <1>6. CASE c = a
    <2>1. CASE Quiet(a)
      BY <1>1, <1>4, <1>6, <2>1, QuietFrame
    <2>2. CASE Reset(a)
      BY <1>6, <2>2 DEF Reset, TypeOK
    <2>3. CASE Leave(a) \/ StreamBreaks(a)
      BY <1>6, <2>3 DEF Leave, StreamBreaks, SetSource, TypeOK
    <2>4. CASE StreamStep(a)
      <3>1. ~ToCome(ev) /\ Reached' = Reached
        BY <2>4, StreamFrame DEF ToCome, Reached, keys, history
      <3>2. CASE ProbeRead(a) \/ ProbeSubscribe(a) \/ ProbeMessage(a)
        BY <1>6, <3>2 DEF ProbeRead, ProbeSubscribe, ProbeMessage, ProbeResult, SetSource,
           TypeOK
      <3>3. CASE EnrollSubscribe(a)
        BY <1>6, <3>3 DEF EnrollSubscribe, TypeOK
      <3>4. CASE EnrollRead(a)
        <4>1. CASE confirmed
          <5>1. view'[a] = "confirmed" /\ stream'[a] = "replay"
            BY <3>4, <4>1 DEF EnrollRead, TypeOK
          <5> QED
            BY <1>1, <1>6, <5>1 DEF Passed
        <4>2. CASE ~confirmed /\ cert # "none"
          <5>1. view'[a] = cert /\ stream'[a] = "replay"
            BY <3>4, <4>2 DEF EnrollRead, TypeOK
          <5>2. cert \in {"pending", "ready"}
            BY <4>2 DEF TypeOK
          <5>3. ev \in Passed(cert)
            BY <1>1, <4>2, <5>2 DEF Reached, Passed
          <5> QED
            BY <1>6, <5>1, <5>3
        <4>3. CASE ~confirmed /\ cert = "none"
          BY <1>1, <4>3 DEF Reached
        <4> QED
          BY <4>1, <4>2, <4>3
      <3>5. CASE EnrollReplay(a)
        <4>1. SendOnce(a, Passed(view[a]), "live", inbox[a])
          BY <3>5 DEF EnrollReplay
        <4>0. "enrollment-confirmed" \notin Passed(view[a]) \ sent[a]
          <5>1. source'[a] # "none"
            BY <1>6
          <5> QED
            BY <4>1, <5>1, SendCloses
        <4>2. /\ source'[a] = source[a] /\ stream'[a] = "live"
              /\ Passed(view[a]) \cup sent[a] \subseteq sent'[a] /\ inbox'[a] = inbox[a]
          BY <4>0, <4>1, SendGoesOn
        <4> QED
          BY <1>3, <1>6, <3>1, <3>5, <4>2 DEF EnrollReplay
      <3>6. CASE EnrollMessage(a)
        <4>1. SendOnce(a, {Head(inbox[a])}, stream[a], Tail(inbox[a]))
          BY <3>6 DEF EnrollMessage
        <4>0. "enrollment-confirmed" \notin {Head(inbox[a])} \ sent[a]
          <5>1. source'[a] # "none"
            BY <1>6
          <5> QED
            BY <4>1, <5>1, SendCloses
        <4>2. /\ source'[a] = source[a] /\ stream'[a] = stream[a]
              /\ Head(inbox[a]) \in sent'[a] /\ sent[a] \subseteq sent'[a]
              /\ inbox'[a] = Tail(inbox[a])
              /\ stream[a] # "live" => view'[a] = view[a]
          BY <4>0, <4>1, SendGoesOn
        <4>3. Has(inbox[a], ev) => ev = Head(inbox[a]) \/ Has(Tail(inbox[a]), ev)
          BY <3>6, HasTail DEF EnrollMessage, TypeOK
        <4> QED
          BY <1>3, <1>6, <3>1, <4>2, <4>3
      <3> QED
        BY <2>4, <3>2, <3>3, <3>4, <3>5, <3>6 DEF StreamStep
    <2> QED
      BY <2>1, <2>2, <2>3, <2>4 DEF Does, Quiet
  <1> QED
    BY <1>5, <1>6

-----------------------------------------------------------------------------
(* Own: nobody else acts while an attempt that has overlapped with no      *)
(* other is active.                                                        *)

\* An attempt that does something, other than to begin, is active.
LEMMA DoesActive ==
    ASSUME TypeOK, Shape, NEW a \in Attempts, Does(a), ~Reset(a)
    PROVE  Active(a)
  <1> USE DEF Active
  <1>1. source[a] # "none" => Active(a)
    BY DEF Waiting, Shape, ShapeOf
  <1>2. CASE OpenLink(a) \/ Leave(a)
    BY <1>2 DEF OpenLink, Leave, Waiting
  <1>3. CASE StartRun(a) \/ DeclineLink(a) \/ RunFails(a)
    BY <1>3 DEF StartRun, DeclineLink, RunFails
  <1>4. CASE RunStep(a)
    BY <1>4 DEF RunStep, ProbeConsume, CsrStore, Poll, FetchCert, FetchKey, ConfirmCheck,
       Working
  <1>5. CASE CallStep(a) \/ CallDies(a)
    BY <1>5 DEF CallStep, ProbeStore, ProbePublish, CsrConsume, CsrPublish, ConfirmSet,
       ConfirmPublish, CallDies
  <1>6. CASE TimerStep(a) \/ TimerDies(a)
    BY <1>6 DEF TimerStep, Sign, SignPublish, TimerDies
  <1>7. CASE StreamStep(a) \/ StreamBreaks(a)
    BY <1>1, <1>7 DEF StreamStep, ProbeRead, ProbeSubscribe, ProbeMessage, EnrollSubscribe,
       EnrollRead, EnrollReplay, EnrollMessage, StreamBreaks, Shape, ShapeOf
  <1> QED
    BY <1>2, <1>3, <1>4, <1>5, <1>6, <1>7 DEF Does

\* A step of one attempt makes no other active and ends none.
LEMMA ActiveKept ==
    ASSUME TypeOK, NEW a \in Attempts, Does(a), NEW b \in Attempts \ {a}
    PROVE  Active(b)' <=> Active(b)
  BY OthersKeptStep DEF OthersKept, Active, Waiting

\* What never goes back.
LEMMA Forward ==
    ASSUME TypeOK, Serving, NEW a \in Attempts, Does(a)
    PROVE  /\ run'[a] \in {"none", "link"} => run[a] \in {"none", "link"}
           /\ timer[a] \in {"signed", "over"} => timer'[a] \in {"signed", "over"}
           /\ confirmedBy \subseteq confirmedBy'
           /\ mixed \subseteq mixed'
  <1> USE DEF client, history
  <1>0. /\ \A step : [run EXCEPT ![a] = step][a] = step
        /\ \A t : [timer EXCEPT ![a] = t][a] = t
    BY DEF TypeOK
  <1>1. CASE Reset(a) \/ PageStep(a) \/ StreamStep(a)
    BY <1>0, <1>1, PageFrame, StreamFrame DEF Reset, PageStep, OpenLink, Leave
  <1>2. CASE StartRun(a) \/ DeclineLink(a)
    BY <1>0, <1>2 DEF StartRun, DeclineLink, Fail
  <1>3. CASE RunStep(a)
    BY <1>0, <1>3, RunFrame DEF RunStep, ProbeConsume, CsrStore, Poll, FetchCert, FetchKey,
       ConfirmCheck, Fail, Continue
  <1>4. CASE CallStep(a)
    <2>1. timer[a] = "none" \/ timer'[a] = timer[a]
      BY <1>4 DEF CallStep, ProbeStore, ProbePublish, CsrConsume, CsrPublish, ConfirmSet,
         ConfirmPublish, Serving, ServingOf, CsrCalls
    <2>2. run'[a] \in {"none", "link"} => run[a] \in {"none", "link"}
      BY <1>0, <1>4 DEF CallStep, ProbeStore, ProbePublish, CsrConsume, CsrPublish,
         ConfirmSet, ConfirmPublish, Continue
    <2>3. confirmedBy \subseteq confirmedBy'
      BY <1>4 DEF CallStep, ProbeStore, ProbePublish, CsrConsume, CsrPublish, ConfirmSet,
         ConfirmPublish
    <2> QED
      BY <1>4, <2>1, <2>2, <2>3, CallFrame
  <1>5. CASE TimerStep(a)
    BY <1>0, <1>5, TimerFrame DEF TimerStep, Sign, SignPublish
  <1>6. CASE Failure(a)
    BY <1>0, <1>6, PageFrame DEF Failure, RunFails, StreamBreaks, CallDies, TimerDies, Fail
  <1> QED
    BY <1>1, <1>2, <1>3, <1>4, <1>5, <1>6, Classes

\* Who makes the keys say something new.
LEMMA KeyFacts ==
    ASSUME TypeOK, Serving, NEW a \in Attempts, Does(a), ~Reset(a)
    PROVE  /\ mixed' = mixed
           /\ slot' = "result" => slot = "result" \/ ProbeStore(a)
           /\ confirmed' => confirmed \/ a \in confirmedBy'
           /\ cert' = "ready" => cert = "ready" \/ timer'[a] = "signed"
  <1> USE DEF keys, history
  <1>1. CASE PageStep(a) \/ StreamStep(a) \/ Failure(a) \/ StartRun(a) \/ DeclineLink(a)
    BY <1>1, PageFrame, StreamFrame DEF StartRun, DeclineLink
  <1>2. CASE RunStep(a)
    BY <1>2, RunFrame DEF RunStep, ProbeConsume, CsrStore, Poll, FetchCert, FetchKey,
       ConfirmCheck
  <1>3. CASE CallStep(a)
    BY <1>3, CallFrame DEF CallStep, ProbeStore, ProbePublish, CsrConsume, CsrPublish,
       ConfirmSet, ConfirmPublish
  <1>4. CASE TimerStep(a)
    BY <1>4, TimerFrame DEF TimerStep, Sign, SignPublish, TypeOK
  <1> QED
    BY <1>1, <1>2, <1>3, <1>4, Classes

\* An attempt that has overlapped with no other does not see another one's step.
LEMMA Alone ==
    ASSUME TypeOK, Shape, Own, NEW a \in Attempts, Does(a), ~Reset(a),
           NEW c \in Attempts \ mixed, c # a
    PROVE  ~Active(c) /\ source[c] = "none"
  <1>1. Active(a)
    BY DoesActive
  <1>2. ~Active(c)
    BY <1>1 DEF Own, OwnOf
  <1> QED
    BY <1>2 DEF Active, Waiting, Shape, ShapeOf

\* Every step keeps Own.
LEMMA OwnStep ==
    ASSUME TypeOK, Shape, Serving, Own, NEW a \in Attempts, Does(a)
    PROVE  Own'
  <1> SUFFICES ASSUME NEW c \in Attempts, c \notin mixed', Active(c)'
               PROVE  /\ \A b \in Attempts \ {c} : ~Active(b)'
                      /\ run'[c] \in {"none", "link"} => slot' # "result"
                      /\ confirmed' => c \in confirmedBy'
                      /\ cert' = "ready" => timer'[c] \in {"signed", "over"}
    BY DEF Own, OwnOf, Active, Waiting
  <1>1. c \notin mixed
    BY Forward
  <1>2. CASE Reset(a)
    <2>1. c = a
      <3>1. c # a => c \in Others(a)
        BY ActiveKept DEF Others
      <3> QED
        BY <1>2, <3>1 DEF Reset
    <2>2. \A b \in Attempts \ {a} : ~Active(b)
      BY <1>2, <2>1 DEF Reset, Others
    <2>3. slot' = "pending" /\ confirmed' = FALSE /\ cert' = "none"
      BY <1>2 DEF Reset, ClearState
    <2> QED
      BY <2>1, <2>2, <2>3, ActiveKept
  <1>3. CASE ~Reset(a)
    <2>1. c = a
      BY <1>1, <1>3, Alone, ActiveKept
    <2>2. Active(a)
      BY <1>3, DoesActive
    <2>3. /\ \A b \in Attempts \ {a} : ~Active(b)
          /\ run[a] \in {"none", "link"} => slot # "result"
          /\ confirmed => a \in confirmedBy
          /\ cert = "ready" => timer[a] \in {"signed", "over"}
      BY <1>1, <2>1, <2>2 DEF Own, OwnOf
    <2>4. ProbeStore(a) => run[a] \notin {"none", "link"}
      BY DEF ProbeStore, Serving, ServingOf, ProbeCalls
    <2>5. \A b \in Attempts \ {a} : ~Active(b)'
      BY <2>3, ActiveKept
    <2>6. run'[a] \in {"none", "link"} => slot' # "result"
      BY <1>3, <2>3, <2>4, Forward, KeyFacts
    <2>7. confirmed' => a \in confirmedBy'
      BY <1>3, <2>3, Forward, KeyFacts
    <2>8. cert' = "ready" => timer'[a] \in {"signed", "over"}
      BY <1>3, <2>3, Forward, KeyFacts
    <2> QED
      BY <2>1, <2>5, <2>6, <2>7, <2>8
  <1> QED
    BY <1>2, <1>3

-----------------------------------------------------------------------------
(* Progress and Early are kept by every step.                              *)

\* Progress of an attempt whose page, stream and inbox are told nothing new.
LEMMA ProgressUntold ==
    ASSUME TypeOK, Serving, Progress, NEW a \in Attempts, Does(a),
           NEW c \in Attempts \ mixed,
           page'[c] = page[c] \/ page'[c] \in {"enrolling", "probe-wait"},
           source'[c] = source[c], source[c] = "enroll" => page'[c] = page[c],
           view'[c] = view[c],
           \A ev \in Events : Has(inbox'[c], ev) => Has(inbox[c], ev)
    PROVE  ProgressOf(c)'
  <1>1. ProgressOf(c)
    BY DEF Progress
  <1>2. /\ run'[c] \in {"none", "link"} => run[c] \in {"none", "link"}
        /\ timer[c] \in {"signed", "over"} => timer'[c] \in {"signed", "over"}
        /\ c \in confirmedBy => c \in confirmedBy'
    <2>1. CASE c = a
      BY <2>1, Forward
    <2>2. CASE c # a
      BY <2>2, OthersKeptStep DEF OthersKept
    <2> QED
      BY <2>1, <2>2
  <1> QED
    BY <1>1, <1>2 DEF ProgressOf, Events, Steps

\* Progress of an attempt that publishes to itself.
LEMMA ProgressPublish ==
    ASSUME TypeOK, Serving, Progress, NEW a \in Attempts \ mixed, Does(a),
           NEW ev \in Events, Publish(ev), UNCHANGED <<page, source, view>>,
           run'[a] \notin {"none", "link"},
           ev = "enrollment-confirmed" => a \in confirmedBy',
           ev = "cert-ready" => timer'[a] \in {"signed", "over"}
    PROVE  ProgressOf(a)'
  <1>1. ProgressOf(a)
    BY DEF Progress
  <1>2. /\ timer[a] \in {"signed", "over"} => timer'[a] \in {"signed", "over"}
        /\ a \in confirmedBy => a \in confirmedBy'
    BY Forward
  <1>3. \A e \in Events : Has(inbox'[a], e) => Has(inbox[a], e) \/ e = ev
    BY PublishFacts
  <1> QED
    BY <1>1, <1>2, <1>3 DEF ProgressOf, Events, Steps

\* Progress of an attempt whose stream sends what has come about.
LEMMA ProgressSend ==
    ASSUME TypeOK, Shape, Serving, Progress, NEW a \in Attempts \ mixed, Does(a),
           NEW evs \in SUBSET Steps, NEW st, NEW box, SendOnce(a, evs, st, box),
           source[a] = "enroll",
           \A ev \in Events : Has(box, ev) => Has(inbox[a], ev),
           "enrollment-confirmed" \in evs => a \in confirmedBy,
           "cert-ready" \in evs /\ "enrollment-confirmed" \notin evs =>
              timer[a] \in {"signed", "over"}
    PROVE  ProgressOf(a)'
  <1>1. ProgressOf(a) /\ "enrollment-confirmed" \notin sent[a]
    BY DEF Progress, Shape, ShapeOf
  <1>2. /\ run[a] \notin {"none", "link"}
        /\ page[a] \in {"probe-done", "csr-received", "cert-ready"}
    BY <1>1 DEF ProgressOf
  <1>3. /\ run'[a] \notin {"none", "link"}
        /\ timer[a] \in {"signed", "over"} => timer'[a] \in {"signed", "over"}
        /\ a \in confirmedBy => a \in confirmedBy'
    BY <1>2, Forward
  <1>4. page'[a] = PhaseAfter(evs \ sent[a], page[a])
    BY SendShows
  <1>5. CASE "enrollment-confirmed" \in evs
    <2>1. page'[a] = "enrolled"
      BY <1>1, <1>4, <1>5 DEF PhaseAfter
    <2>2. source'[a] = "none" /\ view'[a] = "unread" /\ inbox'[a] = <<>>
      BY <1>1, <1>5, SendCloses
    <2> QED
      BY <1>3, <1>5, <2>1, <2>2, HasEmpty DEF ProgressOf
  <1>6. CASE "enrollment-confirmed" \notin evs
    <2>1. /\ page'[a] \in {"probe-done", "csr-received", "cert-ready"}
          /\ page'[a] = "cert-ready" => page[a] = "cert-ready" \/ "cert-ready" \in evs
      BY <1>2, <1>4, <1>6 DEF PhaseAfter
    <2>2. view'[a] \in {view[a], "unread"} /\ inbox'[a] = box
      BY <1>6, SendGoesOn
    <2>3. \A ev \in Events : Has(inbox'[a], ev) => Has(inbox[a], ev)
      BY <2>2
    <2> QED
      BY <1>1, <1>3, <1>6, <2>1, <2>2, <2>3 DEF ProgressOf, Events, Steps
  <1> QED
    BY <1>5, <1>6

\* Progress of an attempt whose page is left or whose stream begins again.
LEMMA ProgressAnew ==
    ASSUME TypeOK, Serving, Progress, NEW a \in Attempts \ mixed, Does(a),
           NEW src, NEW st, SetSource(a, src, st),
           \/ page'[a] = "over" /\ src = "none"
           \/ page'[a] = page[a] /\ src = source[a]
    PROVE  ProgressOf(a)'
  <1>1. ProgressOf(a)
    BY DEF Progress
  <1>2. /\ run'[a] \in {"none", "link"} => run[a] \in {"none", "link"}
        /\ timer[a] \in {"signed", "over"} => timer'[a] \in {"signed", "over"}
        /\ a \in confirmedBy => a \in confirmedBy'
    BY Forward
  <1>3. source'[a] = src /\ view'[a] = "unread" /\ inbox'[a] = <<>>
    BY DEF SetSource, TypeOK
  <1> QED
    BY <1>1, <1>2, <1>3, HasEmpty DEF ProgressOf, Events, Steps

\* Every step keeps Progress.
LEMMA ProgressStep ==
    ASSUME TypeOK, Shape, Serving, Own, Progress, NEW a \in Attempts, Does(a)
    PROVE  Progress'
  <1> USE DEF keys, streams, client, history
  <1> SUFFICES ASSUME NEW c \in Attempts, c \notin mixed' PROVE ProgressOf(c)'
    BY DEF Progress, ProgressOf, Has
  <1>1. c \notin mixed
    BY Forward
  <1>2. CASE c # a
    <2>1. \A ev \in Events : Has(inbox'[c], ev) => Has(inbox[c], ev)
      <3>1. CASE Reset(a)
        BY <3>1 DEF Reset
      <3>2. CASE ~Reset(a)
        <4>1. source[c] = "none"
          BY <1>1, <1>2, <3>2, Alone
        <4> QED
          BY <1>2, <4>1, OthersListenStep DEF OthersListen, Subscribed
      <3> QED
        BY <3>1, <3>2
    <2>2. page'[c] = page[c] /\ source'[c] = source[c] /\ view'[c] = view[c]
      BY <1>2, OthersKeptStep DEF OthersKept
    <2> QED
      BY <1>1, <2>1, <2>2, ProgressUntold
  <1>3. CASE c = a
    <2>0. a \in Attempts \ mixed /\ ProgressOf(a) /\ ShapeOf(a) /\ ServingOf(a)
      BY <1>1, <1>3 DEF Progress, Shape, Serving
    <2>1. CASE Reset(a)
      <3>1. /\ page'[a] = "enrolling" /\ source'[a] = "probe"
            /\ UNCHANGED <<view, inbox, run, timer, confirmedBy>>
        BY <2>1 DEF Reset, TypeOK
      <3>2. \A ev \in Events : ~Has(inbox[a], ev)
        BY <2>0, <2>1 DEF Reset, ShapeOf, Unstarted
      <3> QED
        BY <1>3, <2>0, <3>1, <3>2 DEF ProgressOf, Events, Steps
    <2>2. CASE OpenLink(a)
      <3>1. /\ page'[a] = "probe-wait" /\ run[a] = "none"
            /\ UNCHANGED <<source, view, inbox>>
        BY <2>2 DEF OpenLink, TypeOK
      <3>2. source[a] # "enroll"
        BY <2>0, <3>1 DEF ProgressOf
      <3> QED
        BY <1>3, <2>0, <3>1, <3>2, ProgressUntold
    <2>3. CASE Leave(a)
      <3>1. page'[a] = "over" /\ SetSource(a, "none", "none")
        BY <2>3 DEF Leave, TypeOK
      <3> QED
        BY <1>3, <2>0, <3>1, ProgressAnew
    <2>4. CASE StreamBreaks(a)
      <3>1. page'[a] = page[a] /\ SetSource(a, source[a], "connect")
        BY <2>4 DEF StreamBreaks
      <3> QED
        BY <1>3, <2>0, <3>1, ProgressAnew
    <2>5. ASSUME UNCHANGED <<page, source, view, inbox>> PROVE ProgressOf(a)'
      BY <2>0, <2>5, ProgressUntold
    <2>6. CASE StartRun(a) \/ DeclineLink(a) \/ RunStep(a) \/ RunFails(a) \/ CallDies(a)
               \/ TimerDies(a)
      BY <1>3, <2>5, <2>6, RunFrame DEF StartRun, DeclineLink, RunFails, CallDies, TimerDies
    <2>7. CASE CallStep(a)
      <3>1. UNCHANGED <<page, source, view>>
        BY <2>7, CallFrame
      <3>2. run'[a] \notin {"none", "link"}
        <4>1. run[a] \notin {"none", "link"}
          BY <2>0, <2>7 DEF CallStep, ProbeStore, ProbePublish, CsrConsume, CsrPublish,
             ConfirmSet, ConfirmPublish, ServingOf, ProbeCalls, CsrCalls, ConfirmCalls
        <4> QED
          BY <4>1, Forward
      <3>3. CASE UNCHANGED inbox
        BY <1>3, <2>5, <3>1, <3>3
      <3>4. CASE Publish("result") \/ Publish("csr-received")
        BY <1>3, <2>0, <3>1, <3>2, <3>4, ProgressPublish DEF Events, Steps
      <3>5. CASE ConfirmPublish(a)
        <4>1. Publish("enrollment-confirmed") /\ a \in confirmedBy'
          BY <2>0, <3>5 DEF ConfirmPublish, ServingOf
        <4> QED
          BY <1>3, <2>0, <3>1, <3>2, <4>1, ProgressPublish DEF Events, Steps
      <3> QED
        BY <2>7, <3>3, <3>4, <3>5 DEF CallStep, ProbeStore, ProbePublish, CsrConsume,
           CsrPublish, ConfirmSet
    <2>8. CASE TimerStep(a)
      <3>1. UNCHANGED <<page, source, view>>
        BY <2>8, TimerFrame
      <3>2. run'[a] \notin {"none", "link"}
        BY <2>0, <2>8, TimerFrame DEF TimerStep, Sign, SignPublish, ServingOf
      <3>3. CASE Sign(a)
        BY <1>3, <2>5, <3>1, <3>3 DEF Sign
      <3>4. CASE SignPublish(a)
        <4>1. Publish("cert-ready") /\ timer'[a] \in {"signed", "over"}
          BY <3>4 DEF SignPublish, TypeOK
        <4> QED
          BY <1>3, <2>0, <3>1, <3>2, <4>1, ProgressPublish DEF Events, Steps
      <3> QED
        BY <2>8, <3>3, <3>4 DEF TimerStep
    <2>9. CASE StreamStep(a)
      <3>1. UNCHANGED <<run, timer, confirmedBy>>
        BY <2>9, StreamFrame
      <3>2. /\ run[a] \in {"none", "link"} => slot # "result"
            /\ confirmed => a \in confirmedBy
            /\ cert = "ready" => timer[a] \in {"signed", "over"}
        <4>1. ~Reset(a)
          BY <2>0, <2>9 DEF Reset, StreamStep, ProbeRead, ProbeSubscribe, ProbeMessage,
             EnrollSubscribe, EnrollRead, EnrollReplay, EnrollMessage, ShapeOf, Unstarted
        <4>2. Active(a)
          BY <4>1, DoesActive
        <4> QED
          BY <2>0, <4>2 DEF Own, OwnOf
      <3>3. CASE ProbeResult(a) /\ run[a] \notin {"none", "link"}
        <4>1. /\ page'[a] = "probe-done" /\ source'[a] = "enroll" /\ view'[a] = "unread"
              /\ inbox'[a] = <<>>
          BY <3>3 DEF ProbeResult, SetSource, TypeOK
        <4> QED
          BY <1>3, <3>1, <3>3, <4>1, HasEmpty DEF ProgressOf
      <3>4. CASE ProbeRead(a)
        <4>1. CASE slot = "result"
          BY <3>2, <3>3, <3>4, <4>1 DEF ProbeRead
        <4>2. CASE slot # "result"
          BY <1>3, <2>5, <3>4, <4>2 DEF ProbeRead
        <4> QED
          BY <4>1, <4>2
      <3>5. CASE ProbeMessage(a)
        <4>1. Has(inbox[a], Head(inbox[a])) /\ Head(inbox[a]) \in Events
          BY <3>5, HasTail DEF ProbeMessage, TypeOK
        <4>2. run[a] \notin {"none", "link"}
          BY <2>0, <4>1 DEF ProgressOf
        <4> QED
          BY <3>3, <3>5, <4>2 DEF ProbeMessage
      <3>6. CASE ProbeSubscribe(a) \/ EnrollSubscribe(a)
        BY <1>3, <2>5, <3>6 DEF ProbeSubscribe, EnrollSubscribe
      <3>7. CASE EnrollRead(a)
        <4>1. /\ UNCHANGED <<page, source, inbox>>
              /\ view'[a] = "confirmed" => confirmed
              /\ view'[a] = "ready" => cert = "ready"
          BY <3>7 DEF EnrollRead, TypeOK
        <4> QED
          BY <1>3, <2>0, <3>1, <3>2, <4>1 DEF ProgressOf
      <3>8. CASE EnrollReplay(a)
        <4>1. SendOnce(a, Passed(view[a]), "live", inbox[a])
          BY <3>8 DEF EnrollReplay
        <4>2. source[a] = "enroll" /\ view[a] \in {"pending", "ready", "confirmed"}
          BY <2>0, <3>8 DEF EnrollReplay, ShapeOf, TypeOK
        <4>3. /\ Passed(view[a]) \in SUBSET Steps
              /\ "enrollment-confirmed" \in Passed(view[a]) => view[a] = "confirmed"
              /\ "cert-ready" \in Passed(view[a]) => view[a] \in {"ready", "confirmed"}
              /\ view[a] = "confirmed" => "enrollment-confirmed" \in Passed(view[a])
          BY <4>2 DEF Passed, Steps
        <4>4. /\ view[a] = "confirmed" => a \in confirmedBy
              /\ view[a] = "ready" => timer[a] \in {"signed", "over"}
          BY <2>0 DEF ProgressOf
        <4> QED
          BY <1>3, <2>0, <4>1, <4>2, <4>3, <4>4, ProgressSend
      <3>9. CASE EnrollMessage(a)
        <4>1. /\ Head(inbox[a]) \in Events
              /\ Has(inbox[a], Head(inbox[a]))
              /\ \A ev \in Events : Has(Tail(inbox[a]), ev) => Has(inbox[a], ev)
          BY <3>9, HasTail DEF EnrollMessage, TypeOK
        <4>2. /\ SendOnce(a, {Head(inbox[a])}, stream[a], Tail(inbox[a]))
              /\ source[a] = "enroll"
          BY <3>9 DEF EnrollMessage
        <4>3. {Head(inbox[a])} \in SUBSET Steps
          BY <2>0, <4>1, <4>2 DEF ShapeOf
        <4>4. /\ "enrollment-confirmed" \in {Head(inbox[a])} => a \in confirmedBy
              /\ "cert-ready" \in {Head(inbox[a])} => timer[a] \in {"signed", "over"}
          BY <2>0, <4>1 DEF ProgressOf
        <4> QED
          BY <1>3, <2>0, <4>1, <4>2, <4>3, <4>4, ProgressSend
      <3> QED
        BY <2>9, <3>4, <3>5, <3>6, <3>7, <3>8, <3>9 DEF StreamStep
    <2> QED
      BY <2>1, <2>2, <2>3, <2>4, <2>6, <2>7, <2>8, <2>9, Classes DEF PageStep, Failure
  <1> QED
    BY <1>2, <1>3

\* Every step keeps Early.
LEMMA EarlyStep ==
    ASSUME TypeOK, Shape, Serving, Own, Early, NEW a \in Attempts, Does(a)
    PROVE  Early'
  <1> USE DEF keys, streams, client, history
  <1> SUFFICES ASSUME NEW c \in Attempts, c \in early', c \notin mixed', source'[c] = "probe"
               PROVE  /\ stream'[c] = "live"
                      /\ slot' = "result" => Has(inbox'[c], "result") \/ ToCome("result")'
    <2>1. Early' <=> \A c \in Attempts : c \in early' /\ c \notin mixed' => EarlyOf(c)'
      <3>1. early' \subseteq Attempts
        BY TypeStep DEF TypeOK, Next, Does
      <3> QED
        BY <3>1 DEF Early, EarlyOf
    <2> QED
      BY <2>1, ComingIs DEF EarlyOf
  <1>1. c \notin mixed
    BY Forward
  <1>2. CASE c # a
    <2>1. c \in early /\ source[c] = "probe" /\ stream'[c] = stream[c]
      BY <1>2, OthersKeptStep DEF OthersKept
    <2>2. Reset(a)
      BY <1>1, <1>2, <2>1, Alone
    <2> QED
      BY <1>1, <2>1, <2>2 DEF Reset, ClearState, Early, EarlyOf
  <1>3. CASE c = a
    <2>1. a \in early /\ source[a] = "probe" =>
             /\ stream[a] = "live"
             /\ slot = "result" => Has(inbox[a], "result") \/ ToCome("result")
      BY <1>1, <1>3, ComingIs DEF Early, EarlyOf
    <2>2. CASE Reset(a)
      BY <1>3, <2>2 DEF Reset, Shape, ShapeOf, Unstarted
    <2>3. CASE OpenLink(a)
      <3>1. Active(a) /\ run[a] = "none"
        BY <2>3, DoesActive DEF Reset, OpenLink
      <3>2. slot # "result"
        BY <1>1, <1>3, <3>1 DEF Own, OwnOf
      <3> QED
        BY <1>3, <2>1, <2>3, <3>2 DEF OpenLink
    <2>4. CASE Leave(a) \/ StreamBreaks(a)
      BY <1>3, <2>4 DEF Leave, StreamBreaks, SetSource, TypeOK
    <2>5. CASE StreamStep(a)
      <3>1. a \in early
        BY <1>3, <2>5, StreamFrame
      <3>2. CASE ProbeRead(a) \/ ProbeSubscribe(a)
        BY <2>1, <3>1, <3>2 DEF ProbeRead, ProbeSubscribe
      <3>3. CASE ProbeMessage(a)
        BY <1>3, <3>3 DEF ProbeMessage, ProbeResult, SetSource, TypeOK
      <3>4. CASE EnrollSubscribe(a) \/ EnrollRead(a)
        BY <1>3, <3>4 DEF EnrollSubscribe, EnrollRead
      <3>5. CASE EnrollReplay(a) \/ EnrollMessage(a)
        <4>1. source[a] = "enroll"
          BY <3>5 DEF EnrollReplay, EnrollMessage, Shape, ShapeOf
        <4>2. source'[a] \in {"none", source[a]}
          BY <3>5 DEF EnrollReplay, EnrollMessage, SendOnce, SetSource, TypeOK
        <4> QED
          BY <1>3, <4>1, <4>2
      <3> QED
        BY <2>5, <3>2, <3>3, <3>4, <3>5 DEF StreamStep
    <2>6. CASE Quiet(a) /\ ~OpenLink(a)
      <3>1. a \in early
        BY <1>3, <2>6, RunFrame, CallFrame, TimerFrame
           DEF Quiet, StartRun, DeclineLink, RunFails, CallDies, TimerDies
      <3>2. source[a] = "probe" /\ stream[a] = "live" /\ stream'[a] = "live"
        BY <1>3, <2>1, <2>6, <3>1, QuietFrame
      <3>3. "result" \in Events /\ Subscribed(a, "result")
        BY <3>2 DEF Events, Subscribed
      <3>4. Has(inbox[a], "result") => Has(inbox'[a], "result")
        BY <2>6, <3>3, QuietFrame
      <3>5. ToCome("result") => ToCome("result")' \/ Has(inbox'[a], "result")
        BY <3>3, ToComeStep, PublishFacts
      <3>6. ProbeStore(a) => ToCome("result")'
        BY DEF ProbeStore, Serve, ToCome, Unpublished, TypeOK
      <3>7. ~Reset(a)
        BY <3>2 DEF Reset, Shape, ShapeOf
      <3> QED
        BY <1>3, <2>1, <3>1, <3>2, <3>4, <3>5, <3>6, <3>7, KeyFacts
    <2> QED
      BY <2>2, <2>3, <2>4, <2>5, <2>6 DEF Does, Quiet
  <1> QED
    BY <1>2, <1>3

-----------------------------------------------------------------------------
(* The inductive invariant.                                                *)

\* The invariant holds before anybody has opened the page.
LEMMA InvInit == Init => IInv
  <1> SUFFICES ASSUME Init PROVE IInv
    OBVIOUS
  <1>1. TypeOK
    BY TypeInit
  <1>2. \A a \in Attempts : page[a] = "install" /\ Unstarted(a) /\ view[a] = "unread"
                            /\ stream[a] = "none" /\ sent[a] = {}
    BY HasEmpty DEF Init, Unstarted
  <1>3. Shape /\ Serving
    BY <1>2 DEF Shape, ShapeOf, Unstarted, Serving, ServingOf, ProbeCalls, CsrCalls,
       ConfirmCalls
  <1>4. Covered /\ Kept
    BY <1>2 DEF Init, Covered, CoveredOf, Reached, Kept, KeptOf, Unstarted
  <1>5. \A a \in Attempts : ~Active(a)
    BY <1>2 DEF Active, Waiting, Unstarted, Working
  <1>6. Own
    BY <1>5 DEF Own, OwnOf
  <1>7. Progress
    BY <1>2 DEF Progress, ProgressOf, Unstarted, Events, Steps
  <1>8. Early
    BY DEF Init, Early
  <1> QED
    BY <1>1, <1>3, <1>4, <1>6, <1>7, <1>8 DEF IInv

\* Every step keeps the invariant.
LEMMA InvStep == IInv /\ [Next]_vars => IInv'
  <1> SUFFICES ASSUME IInv, [Next]_vars PROVE IInv'
    OBVIOUS
  <1>1. TypeOK /\ Shape /\ Serving /\ Covered /\ Kept /\ Own /\ Progress /\ Early
    BY DEF IInv
  <1>2. CASE UNCHANGED vars
    <2>1. TypeOK'
      BY <1>1, TypeStep
    <2>2. Shape' /\ Serving' /\ Kept'
      BY <1>1, <1>2 DEF vars, keys, streams, client, history, Shape, ShapeOf, Unstarted, Has,
         Serving, ServingOf, Kept, KeptOf
    <2>3. Covered' /\ Early'
      BY <1>1, <1>2 DEF vars, keys, streams, client, history, Covered, CoveredOf, Reached,
         Coming, Early, EarlyOf
    <2>4. Own' /\ Progress'
      BY <1>1, <1>2 DEF vars, keys, streams, client, history, Own, OwnOf, Active, Waiting,
         Progress, ProgressOf, Has
    <2> QED
      BY <2>1, <2>2, <2>3, <2>4 DEF IInv
  <1>3. ASSUME NEW a \in Attempts, Does(a) PROVE IInv'
    <2>1. TypeOK'
      BY <1>1, TypeStep
    <2>2. Shape' /\ Serving' /\ Kept'
      BY <1>1, <1>3, ShapeStep, ServingStep, KeptStep
    <2>3. Covered' /\ Early'
      BY <1>1, <1>3, CoveredStep, EarlyStep
    <2>4. Own' /\ Progress'
      BY <1>1, <1>3, OwnStep, ProgressStep
    <2> QED
      BY <2>1, <2>2, <2>3, <2>4 DEF IInv
  <1> QED
    BY <1>2, <1>3 DEF Next, Does

\* The strengthened invariant holds in every reachable state, for any number of
\* attempts that overlap in any way, with any number of failures.
THEOREM Invariance == Spec => []IInv
  BY InvInit, InvStep, PTL DEF Spec

-----------------------------------------------------------------------------
(* The properties.                                                         *)

\* Every variable keeps its type.
THEOREM TypeCorrect == Spec => []TypeOK
  <1>1. IInv => TypeOK
    BY DEF IInv
  <1> QED
    BY <1>1, Invariance, PTL

\* enrollment/stream: whatever the portal's handlers do between its subscription and
\* its replay, a stream that has replayed has sent every event that has passed, or will.
THEOREM NoEventMissedAlways == Spec => []NoEventMissed
  <1>1. IInv => NoEventMissed
    BY DEF IInv, Covered, CoveredOf, NoEventMissed
  <1> QED
    BY <1>1, Invariance, PTL

\* probes/stream, support/+page.svelte: the page whose stream was live when it opened the
\* deep link learns the result, although that stream reads before it subscribes.
THEOREM EarlyStreamAlways == Spec => []EarlyStreamSeesResult
  <1>1. IInv => EarlyStreamSeesResult
    BY DEF IInv, Early, EarlyOf, EarlyStreamSeesResult
  <1> QED
    BY <1>1, Invariance, PTL

\* clients/+server.ts: after the reset a page gets no further than its own client, unless
\* its attempt overlaps with another one.
THEOREM OwnProgressAlways == Spec => []OwnProgress
  <1>1. IInv => OwnProgress
    BY DEF IInv, Progress, ProgressOf, OwnProgress
  <1> QED
    BY <1>1, Invariance, PTL

\* portal.rs: a run that has ended well leaves certificate and key on disk, unless a later
\* run has archived them or they could not be written.
THEOREM IdentityKeptAlways == Spec => []IdentityKept
  <1>1. IInv => IdentityKept
    <2> SUFFICES ASSUME IInv, NEW a \in Attempts \ unsaved, run[a] = "ok", latest = a
                 PROVE  files = {"cert", "key"}
      BY DEF IdentityKept
    <2>1. "cert" \in files /\ "key" \in files
      BY DEF IInv, Kept, KeptOf
    <2>2. files \subseteq {"cert", "key"}
      BY DEF IInv, TypeOK
    <2> QED
      BY <2>1, <2>2
  <1> QED
    BY <1>1, Invariance, PTL

\* The order of the phases.
LEMMA RankFacts ==
    /\ Rank("install") = 1 /\ Rank("enrolling") = 2 /\ Rank("probe-wait") = 3
    /\ Rank("probe-done") = 4 /\ Rank("csr-received") = 5 /\ Rank("cert-ready") = 6
    /\ Rank("enrolled") = 7 /\ Rank("over") = 8
  <1>1. DOMAIN Phases = 1..8
    BY DEF Phases
  <1>2. /\ Phases[1] = "install" /\ Phases[2] = "enrolling" /\ Phases[3] = "probe-wait"
        /\ Phases[4] = "probe-done" /\ Phases[5] = "csr-received"
        /\ Phases[6] = "cert-ready" /\ Phases[7] = "enrolled" /\ Phases[8] = "over"
    BY DEF Phases
  <1>3. 1..8 = {1, 2, 3, 4, 5, 6, 7, 8}
    OBVIOUS
  <1>4. \A i, j \in DOMAIN Phases : Phases[i] = Phases[j] => i = j
    BY <1>1, <1>2, <1>3
  <1>5. ASSUME NEW i \in DOMAIN Phases PROVE Rank(Phases[i]) = i
    BY <1>4 DEF Rank
  <1> QED
    BY <1>1, <1>2, <1>3, <1>5

\* A step of the attempt itself takes its page forward, or replays csr-received.
LEMMA PhaseStep ==
    ASSUME IInv, [Next]_vars, NEW c \in Attempts, c \notin mixed'
    PROVE  \/ Rank(page'[c]) >= Rank(page[c])
           \/ page[c] = "cert-ready" /\ page'[c] = "csr-received"
  <1> USE DEF streams
  <1>0. TypeOK /\ Shape /\ Serving /\ Progress
    BY DEF IInv
  <1>1. page[c] \in PhaseNames
    BY <1>0 DEF TypeOK
  <1>2. CASE page'[c] = page[c]
    BY <1>1, <1>2, RankFacts, PhaseFacts
  <1>3. CASE page'[c] # page[c]
    <2>1. Does(c)
      <3>1. \E a \in Attempts : Does(a)
        BY <1>3 DEF vars, Next, Does
      <3> QED
        BY <1>0, <1>3, <3>1, OthersKeptStep DEF OthersKept
    <2>2. c \notin mixed
      BY <1>0, <2>1, Forward
    <2>3. ProgressOf(c) /\ ShapeOf(c)
      BY <1>0, <2>2 DEF Progress, Shape
    <2>4. CASE Reset(c)
      <3>1. page[c] = "install" /\ page'[c] = "enrolling"
        BY <1>0, <2>4 DEF Reset, TypeOK
      <3> QED
        BY <3>1, RankFacts
    <2>5. CASE OpenLink(c)
      <3>1. page'[c] = "probe-wait" /\ run[c] = "none" /\ page[c] \notin {"install", "over"}
        BY <1>0, <2>5 DEF OpenLink, TypeOK
      <3>2. page[c] \in {"enrolling", "probe-wait"}
        BY <1>1, <2>3, <3>1, PhaseFacts DEF ProgressOf
      <3> QED
        BY <3>1, <3>2, RankFacts
    <2>6. CASE Leave(c)
      <3>1. page'[c] = "over"
        BY <1>0, <2>6 DEF Leave, TypeOK
      <3> QED
        BY <1>1, <3>1, RankFacts, PhaseFacts
    <2>7. CASE ProbeResult(c) /\ source[c] = "probe"
      <3>1. page'[c] = "probe-done" /\ page[c] \in {"enrolling", "probe-wait"}
        BY <1>0, <2>3, <2>7 DEF ProbeResult, ShapeOf, TypeOK
      <3> QED
        BY <3>1, RankFacts
    <2>8. CASE EnrollReplay(c) \/ EnrollMessage(c)
      <3>1. page[c] \in {"probe-done", "csr-received", "cert-ready"}
        BY <2>3, <2>8 DEF EnrollReplay, EnrollMessage, ShapeOf, ProgressOf
      <3>2. PICK evs, st, box : SendOnce(c, evs, st, box)
        BY <2>8 DEF EnrollReplay, EnrollMessage
      <3>3. page'[c] = PhaseAfter(evs \ sent[c], page[c])
        BY <1>0, <3>2, SendShows
      <3>4. page'[c] \in {"enrolled", "cert-ready", "csr-received", page[c]}
        BY <3>3 DEF PhaseAfter
      <3> QED
        BY <3>1, <3>4, RankFacts
    <2>9. page'[c] = page[c] \/ Reset(c) \/ OpenLink(c) \/ Leave(c)
          \/ (ProbeResult(c) /\ source[c] = "probe") \/ EnrollReplay(c) \/ EnrollMessage(c)
      <3>1. CASE StartRun(c) \/ DeclineLink(c) \/ RunStep(c) \/ CallStep(c) \/ TimerStep(c)
        BY <3>1, RunFrame, CallFrame, TimerFrame DEF StartRun, DeclineLink
      <3>2. CASE Failure(c)
        BY <3>2 DEF Failure, RunFails, StreamBreaks, CallDies, TimerDies
      <3>3. CASE StreamStep(c)
        BY <3>3 DEF StreamStep, ProbeRead, ProbeSubscribe, ProbeMessage, EnrollSubscribe,
           EnrollRead
      <3> QED
        BY <2>1, <3>1, <3>2, <3>3, Classes DEF PageStep
    <2> QED
      BY <1>3, <2>4, <2>5, <2>6, <2>7, <2>8, <2>9
  <1> QED
    BY <1>2, <1>3

\* support/+page.svelte, PHASE_ORDER: the page of an attempt that overlaps with no other
\* goes forward, but for the replay of csr-received.
THEOREM PhaseForward == Spec => PhaseGoesForward
  <1>1. IInv /\ [Next]_vars =>
           [\A a \in Attempts \ mixed' :
               \/ Rank(page'[a]) >= Rank(page[a])
               \/ page[a] = "cert-ready" /\ page'[a] = "csr-received"]_vars
    BY PhaseStep
  <1> QED
    BY <1>1, Invariance, PTL DEF Spec, PhaseGoesForward
=============================================================================
