------------------------- MODULE GuacSessionProofs -------------------------
(***************************************************************************)
(* Proofs about GuacSession for every number of connections, sessions,     *)
(* crashes and every grace period.                                         *)
(*                                                                         *)
(* The invariant that is inductive is IInv: the properties of              *)
(* GuacSession.tla need to know which sessions have been opened at all     *)
(* (Opened) and that a timer never belongs to a park yet to come           *)
(* (TimersOfThePast).                                                      *)
(***************************************************************************)
EXTENDS GuacSession, TLAPS

\* Only opened sessions are relayed, parked or settled.
Opened ==
    /\ \A c \in Conns : gw[c] = "relay" =>
          sess[c] \in Sessions /\ guacd[sess[c]] # "unused"
    /\ \A s \in parked : guacd[s] # "unused"
    /\ \A s \in Sessions : guacd[s] = "unused" => outcome[s] = "none"

\* Every timer belongs to some park that has taken place.
TimersOfThePast == \A t \in timers : t.park <= parks[t.sid]

IInv ==
    /\ TypeOK
    /\ Opened
    /\ TimersOfThePast
    /\ OneHolder
    /\ SettledWhenReleased
    /\ ParkHasTimer

-----------------------------------------------------------------------------
\* What the identifiers are, all that is used of their being numbers.
LEMMA Ids ==
    /\ NoCid = Sessions \cup {None}
    /\ None \notin Sessions
    /\ Pending \notin Sessions
    /\ Refused \notin Sessions
    /\ Pending # Refused
  BY SessionAssumption DEF NoCid, Sessions, None, Pending, Refused

\* The status line only ever takes the values of its type.
LEMMA SendLineType ==
    ASSUME TypeOK, NEW c \in Conns, NEW line \in Sessions \cup {Pending, Refused},
           SendLine(c, line)
    PROVE  status' \in [Conns -> Sessions \cup {Pending, Refused}]
  BY DEF TypeOK, SendLine

\* Parking a session keeps the variables of the park typed.
LEMMA ParkType ==
    ASSUME TypeOK, NEW s \in Sessions, ParkSession(s)
    PROVE  /\ parked' \subseteq Sessions
           /\ timers' \subseteq Timer
           /\ parks' \in [Sessions -> Nat]
           /\ age' \in [Sessions -> 0..Grace]
  BY SessionAssumption DEF TypeOK, ParkSession, Timer

\* write_job_file settles the session, whatever comes of it.
Settled == {"unrecorded", "written", "failed"}

LEMMA WriteJobSettles ==
    ASSUME TypeOK, NEW s \in Sessions, WriteJob(s)
    PROVE  /\ outcome' \in [Sessions -> Outcome]
           /\ \E o \in Settled : outcome' = [outcome EXCEPT ![s] = o]
  <1>1. PICK o \in (IF s \in recorded THEN {"written", "failed"} ELSE {"unrecorded"}) :
            outcome' = [outcome EXCEPT ![s] = o]
    BY DEF WriteJob
  <1>2. o \in Settled /\ o \in Outcome
    BY <1>1 DEF Settled, Outcome
  <1> QED
    BY <1>1, <1>2 DEF TypeOK

\* One tick keeps a timer a timer, and the same one.
LEMMA ElapsedTimer ==
    ASSUME NEW t \in Timer
    PROVE  /\ Elapsed(t) \in Timer
           /\ Elapsed(t).sid = t.sid
           /\ Elapsed(t).park = t.park
           /\ Elapsed(t).left = (IF t.left = 0 THEN 0 ELSE t.left - 1)
  BY SessionAssumption DEF Elapsed, Timer

THEOREM TypeInit == Init => TypeOK
  BY Ids, SessionAssumption DEF Init, TypeOK, Outcome, Timer

THEOREM TypeStep == TypeOK /\ Opened /\ [Next]_vars => TypeOK'
  <1> SUFFICES ASSUME TypeOK, Opened, [Next]_vars PROVE TypeOK'
    OBVIOUS
  <1> USE Ids DEF clientVars, gatewayVars, sessionVars, parkVars
  <1>1. CASE UNCHANGED vars
    BY <1>1 DEF vars, TypeOK
  <1>2. ASSUME NEW c \in Conns, ClientStep(c) PROVE TypeOK'
    <2>1. CASE Handshake(c)
      BY <2>1 DEF Handshake, TypeOK
    <2>2. CASE DialFails(c)
      BY <2>2 DEF DialFails, CloseWs, TypeOK
    <2>3. CASE StatusAccepted(c)
      BY <2>3 DEF StatusAccepted, TypeOK
    <2>4. CASE StatusRefused(c)
      BY <2>4 DEF StatusRefused, CloseWs, TypeOK
    <2>5. CASE BrowserGone(c)
      BY <2>5 DEF BrowserGone, TypeOK
    <2>6. CASE BridgeEnds(c)
      BY <2>6 DEF BridgeEnds, CloseWs, TypeOK
    <2>7. CASE LinkBreaks(c)
      BY <2>7 DEF LinkBreaks, CloseWs, TypeOK
    <2> QED
      BY <1>2, <2>1, <2>2, <2>3, <2>4, <2>5, <2>6, <2>7 DEF ClientStep
  <1>3. ASSUME NEW c \in Conns, GatewayStep(c) PROVE TypeOK'
    <2>1. CASE Reject(c)
      BY <2>1, SendLineType DEF Reject, TakeCid, EndHandler, TypeOK
    <2>2. CASE Resume(c)
      <3>1. sentCid[c] \in Sessions
        BY <2>2 DEF Resume, TypeOK
      <3> QED
        BY <2>2, <3>1, SendLineType, SessionAssumption
           DEF Resume, TakeCid, StartRelay, TypeOK
    <2>3. CASE OpenNew(c)
      BY <2>3 DEF OpenNew, TakeCid, TypeOK
    <2>4. CASE GuacdRefuses(c)
      BY <2>4, SendLineType DEF GuacdRefuses, EndHandler, TypeOK
    <2>5. ASSUME NEW s \in Sessions, GuacdReady(c, s) PROVE TypeOK'
      BY <2>5, SendLineType DEF GuacdReady, StartRelay, TypeOK
    <2>6. CASE RelayClientClosed(c)
      <3>1. sess[c] \in Sessions
        BY <2>6 DEF RelayClientClosed, Opened
      <3> QED
        BY <2>6, <3>1, ParkType DEF RelayClientClosed, EndHandler, TypeOK
    <2>7. CASE RelayGuacdClosed(c)
      <3>1. sess[c] \in Sessions
        BY <2>7 DEF RelayGuacdClosed, Opened
      <3>2. outcome' \in [Sessions -> Outcome]
        BY <2>7, <3>1, WriteJobSettles DEF RelayGuacdClosed
      <3> QED
        BY <2>7, <3>2 DEF RelayGuacdClosed, EndHandler, TypeOK
    <2> QED
      BY <1>3, <2>1, <2>2, <2>3, <2>4, <2>5, <2>6, <2>7 DEF GatewayStep
  <1>4. ASSUME NEW t \in timers, TimerFires(t) PROVE TypeOK'
    <2>1. t.sid \in Sessions
      BY DEF TypeOK, Timer
    <2>2. outcome' \in [Sessions -> Outcome]
      BY <1>4, <2>1, WriteJobSettles DEF TimerFires, TypeOK
    <2> QED
      BY <1>4, <2>1, <2>2, SessionAssumption DEF TimerFires, TypeOK
  <1>5. ASSUME NEW s \in Sessions, GuacdCloses(s) PROVE TypeOK'
    BY <1>5 DEF GuacdCloses, TypeOK
  <1>6. CASE Tick
    <2>1. timers' \subseteq Timer
      BY <1>6, ElapsedTimer DEF Tick, TypeOK
    <2>2. age' \in [Sessions -> 0..Grace]
      BY <1>6, SessionAssumption DEF Tick, TypeOK
    <2> QED
      BY <1>6, <2>1, <2>2 DEF Tick, TypeOK
  <1>7. CASE GatewayCrash
    BY <1>7, SessionAssumption DEF GatewayCrash, TypeOK, Outcome
  <1> QED
    BY <1>1, <1>2, <1>3, <1>4, <1>5, <1>6, <1>7 DEF Next

-----------------------------------------------------------------------------
(* The ownership part of the invariant.                                    *)

Ownership == Opened /\ OneHolder /\ SettledWhenReleased

\* Held depends on the handlers, on their sessions and on the map only.
LEMMA HeldUnchanged ==
    ASSUME UNCHANGED <<gw, sess, parked>>, NEW s \in Sessions
    PROVE  Held(s)' <=> Held(s)
  BY DEF Held, Relaying

\* A step that leaves the holders and the fates of the sessions alone, and opens
\* none, keeps every session with the holder it had.
LEMMA OwnershipUnchanged ==
    ASSUME Ownership, UNCHANGED <<gw, sess, parked, outcome>>,
           \A s \in Sessions : guacd'[s] = "unused" <=> guacd[s] = "unused",
           parked \subseteq Sessions
    PROVE  Ownership'
  BY HeldUnchanged DEF Ownership, Opened, OneHolder, SettledWhenReleased

\* So does one that only moves a connection between states that hold nothing.
LEMMA HeldIdle ==
    ASSUME TypeOK, NEW c \in Conns, gw[c] # "relay", NEW x \in {"request", "connecting", "done"},
           gw' = [gw EXCEPT ![c] = x],
           \A d \in Conns : d # c => sess'[d] = sess[d],
           UNCHANGED parked
    PROVE  \A s \in Sessions : Held(s)' <=> Held(s)
  BY DEF TypeOK, Held, Relaying

LEMMA OwnershipIdle ==
    ASSUME TypeOK, Ownership, NEW c \in Conns, gw[c] # "relay",
           NEW x \in {"request", "connecting", "done"},
           gw' = [gw EXCEPT ![c] = x],
           \A d \in Conns : d # c => sess'[d] = sess[d],
           UNCHANGED <<guacd, parked, outcome>>
    PROVE  Ownership'
  <1>1. \A d \in Conns : gw'[d] = "relay" => d # c /\ gw[d] = "relay" /\ sess'[d] = sess[d]
    BY DEF TypeOK
  <1>2. Opened'
    BY <1>1 DEF Ownership, Opened
  <1>3. OneHolder'
    BY <1>1 DEF Ownership, OneHolder
  <1>4. SettledWhenReleased'
    BY HeldIdle DEF Ownership, SettledWhenReleased
  <1> QED
    BY <1>2, <1>3, <1>4 DEF Ownership

\* The one holder of a relayed session is its relay.
LEMMA OnlyRelay ==
    ASSUME Ownership, NEW c \in Conns, gw[c] = "relay"
    PROVE  /\ sess[c] \in Sessions
           /\ sess[c] \notin parked
           /\ Relaying(sess[c]) = {c}
           /\ guacd[sess[c]] # "unused"
  BY DEF Ownership, Opened, OneHolder, Relaying

LEMMA OwnershipResume ==
    ASSUME TypeOK, Ownership, NEW c \in Conns, Resume(c)
    PROVE  Ownership'
  <1> DEFINE r == sentCid[c]
  <1>1. /\ r \in parked /\ r \in Sessions
        /\ parked' = parked \ {r}
        /\ gw' = [gw EXCEPT ![c] = "relay"]
        /\ sess' = [sess EXCEPT ![c] = r]
        /\ gw[c] = "request"
        /\ UNCHANGED <<guacd, outcome>>
    BY DEF Resume, StartRelay, TypeOK, sessionVars
  <1>2. \A d \in Conns \ {c} : gw'[d] = gw[d] /\ sess'[d] = sess[d]
    BY <1>1 DEF TypeOK
  <1>3. gw'[c] = "relay" /\ sess'[c] = r
    BY <1>1 DEF TypeOK
  <1>4. \A d \in Conns \ {c} : gw[d] = "relay" => sess[d] # r
    BY <1>1 DEF Ownership, OneHolder
  <1>5. Opened'
    BY <1>1, <1>2, <1>3 DEF Ownership, Opened
  <1>6. OneHolder'
    BY <1>1, <1>2, <1>3, <1>4 DEF Ownership, OneHolder
  <1>7. \A s \in Sessions : Held(s)' <=> Held(s)
    <2> SUFFICES ASSUME NEW s \in Sessions PROVE Held(s)' <=> Held(s)
      OBVIOUS
    <2>1. CASE s = r
      BY <2>1, <1>1, <1>3 DEF Held, Relaying
    <2>2. CASE s # r
      <3>1. s \in parked' <=> s \in parked
        BY <2>2, <1>1
      <3>2. Relaying(s)' = Relaying(s)
        BY <2>2, <1>1, <1>2, <1>3 DEF Relaying
      <3> QED
        BY <3>1, <3>2 DEF Held
    <2> QED
      BY <2>1, <2>2
  <1>8. SettledWhenReleased'
    BY <1>1, <1>7 DEF Ownership, SettledWhenReleased
  <1> QED
    BY <1>5, <1>6, <1>8 DEF Ownership

LEMMA OwnershipReady ==
    ASSUME TypeOK, Ownership, NEW c \in Conns, NEW r \in Sessions, GuacdReady(c, r)
    PROVE  Ownership'
  <1>1. /\ guacd[r] = "unused"
        /\ guacd' = [guacd EXCEPT ![r] = "live"]
        /\ gw' = [gw EXCEPT ![c] = "relay"]
        /\ sess' = [sess EXCEPT ![c] = r]
        /\ gw[c] = "connecting"
        /\ UNCHANGED <<parked, outcome>>
    BY DEF GuacdReady, StartRelay, parkVars
  <1>2. \A d \in Conns \ {c} : gw'[d] = gw[d] /\ sess'[d] = sess[d]
    BY <1>1 DEF TypeOK
  <1>3. gw'[c] = "relay" /\ sess'[c] = r
    BY <1>1 DEF TypeOK
  <1>4. guacd'[r] = "live" /\ \A s \in Sessions \ {r} : guacd'[s] = guacd[s]
    BY <1>1 DEF TypeOK
  <1>5. r \notin parked /\ \A d \in Conns : gw[d] = "relay" => sess[d] # r
    BY <1>1 DEF Ownership, Opened
  <1>6. Opened'
    <2>1. \A s \in Sessions : guacd'[s] = "unused" => outcome'[s] = "none"
      BY <1>1, <1>4 DEF Ownership, Opened
    <2>2. \A s \in parked' : guacd'[s] # "unused"
      BY <1>1, <1>4 DEF Ownership, Opened, TypeOK
    <2>3. \A d \in Conns : gw'[d] = "relay" =>
             sess'[d] \in Sessions /\ guacd'[sess'[d]] # "unused"
      BY <1>1, <1>2, <1>3, <1>4 DEF Ownership, Opened
    <2> QED
      BY <2>1, <2>2, <2>3 DEF Opened
  <1>7. OneHolder'
    BY <1>1, <1>2, <1>3, <1>5 DEF Ownership, OneHolder
  <1>8. SettledWhenReleased'
    <2>1. \A s \in Sessions \ {r} : Held(s)' <=> Held(s)
      BY <1>1, <1>2, <1>3 DEF Held, Relaying
    <2>2. Held(r)' /\ outcome'[r] = "none"
      BY <1>1, <1>3 DEF Held, Relaying, Ownership, Opened
    <2> QED
      BY <1>1, <1>4, <2>1, <2>2 DEF Ownership, SettledWhenReleased
  <1> QED
    BY <1>6, <1>7, <1>8 DEF Ownership

LEMMA OwnershipPark ==
    ASSUME TypeOK, Ownership, NEW c \in Conns, RelayClientClosed(c)
    PROVE  Ownership'
  <1> PICK r : r = sess[c]
    OBVIOUS
  <1>1. /\ gw[c] = "relay"
        /\ parked' = parked \cup {r}
        /\ gw' = [gw EXCEPT ![c] = "done"]
        /\ sess' = [sess EXCEPT ![c] = None]
        /\ UNCHANGED <<guacd, outcome>>
    BY DEF RelayClientClosed, ParkSession, EndHandler, sessionVars
  <1>2. /\ r \in Sessions /\ Relaying(r) = {c} /\ guacd[r] # "unused"
    BY <1>1, OnlyRelay
  <1>3. \A d \in Conns \ {c} : gw'[d] = gw[d] /\ sess'[d] = sess[d]
    BY <1>1 DEF TypeOK
  <1>4. gw'[c] = "done"
    BY <1>1 DEF TypeOK
  <1>5. \A d \in Conns : gw'[d] = "relay" => d # c /\ gw[d] = "relay" /\ sess'[d] # r
    BY <1>2, <1>3, <1>4 DEF Relaying
  <1>6. Opened'
    BY <1>1, <1>2, <1>3, <1>5 DEF Ownership, Opened
  <1>7. OneHolder'
    BY <1>1, <1>3, <1>5 DEF Ownership, OneHolder
  <1>8. SettledWhenReleased'
    <2>1. \A s \in Sessions \ {r} : Held(s)' <=> Held(s)
      BY <1>1, <1>3, <1>4 DEF Held, Relaying
    <2>2. Held(r)' /\ Held(r)
      BY <1>1, <1>2 DEF Held
    <2> QED
      BY <1>1, <2>1, <2>2 DEF Ownership, SettledWhenReleased
  <1> QED
    BY <1>6, <1>7, <1>8 DEF Ownership

\* Letting go of one session and settling it in the same step.
LEMMA OwnershipSettle ==
    ASSUME TypeOK, Ownership, NEW r \in Sessions, Held(r), ~Held(r)',
           NEW o \in Settled, outcome' = [outcome EXCEPT ![r] = o],
           \A s \in Sessions : guacd'[s] = "unused" <=> guacd[s] = "unused",
           \A s \in Sessions \ {r} : Held(s)' <=> Held(s),
           parked' \subseteq parked,
           \A d \in Conns : gw'[d] = "relay" => gw[d] = "relay" /\ sess'[d] = sess[d]
    PROVE  Ownership'
  <1>1. guacd[r] # "unused"
    BY DEF Held, Relaying, Ownership, Opened
  <1>2. outcome'[r] # "none" /\ \A s \in Sessions \ {r} : outcome'[s] = outcome[s]
    BY DEF TypeOK, Settled
  <1>3. Opened'
    BY <1>1, <1>2 DEF Ownership, Opened, TypeOK
  <1>4. OneHolder'
    BY DEF Ownership, OneHolder
  <1>5. SettledWhenReleased'
    BY <1>2 DEF Ownership, SettledWhenReleased
  <1> QED
    BY <1>3, <1>4, <1>5 DEF Ownership

LEMMA OwnershipGuacdClosed ==
    ASSUME TypeOK, Ownership, NEW c \in Conns, RelayGuacdClosed(c)
    PROVE  Ownership'
  <1> PICK r : r = sess[c]
    OBVIOUS
  <1>1. /\ gw[c] = "relay"
        /\ gw' = [gw EXCEPT ![c] = "done"]
        /\ sess' = [sess EXCEPT ![c] = None]
        /\ UNCHANGED <<guacd, parked>>
        /\ WriteJob(r)
    BY DEF RelayGuacdClosed, EndHandler, parkVars
  <1>2. r \in Sessions /\ r \notin parked /\ Relaying(r) = {c}
    BY <1>1, OnlyRelay
  <1>3. \A d \in Conns \ {c} : gw'[d] = gw[d] /\ sess'[d] = sess[d]
    BY <1>1 DEF TypeOK
  <1>4. gw'[c] = "done"
    BY <1>1 DEF TypeOK
  <1>5. Held(r) /\ ~Held(r)'
    BY <1>1, <1>2, <1>3, <1>4 DEF Held, Relaying
  <1>6. \A s \in Sessions \ {r} : Held(s)' <=> Held(s)
    BY <1>1, <1>3, <1>4 DEF Held, Relaying
  <1>7. \E o \in Settled : outcome' = [outcome EXCEPT ![r] = o]
    BY <1>1, <1>2, WriteJobSettles
  <1>8. \A d \in Conns : gw'[d] = "relay" => gw[d] = "relay" /\ sess'[d] = sess[d]
    BY <1>3, <1>4
  <1> QED
    BY <1>1, <1>2, <1>5, <1>6, <1>7, <1>8, OwnershipSettle

LEMMA OwnershipTimer ==
    ASSUME TypeOK, Ownership, NEW t \in timers, TimerFires(t)
    PROVE  Ownership'
  <1> DEFINE r == t.sid
  <1>1. r \in Sessions /\ UNCHANGED <<gw, sess>>
    BY DEF TypeOK, Timer, TimerFires, gatewayVars
  <1>2. CASE r \notin parked
    <2>1. UNCHANGED <<parked, guacd, outcome>>
      BY <1>2 DEF TimerFires
    <2> QED
      BY <1>1, <2>1, OwnershipUnchanged DEF TypeOK
  <1>3. CASE r \in parked
    <2>1. /\ parked' = parked \ {r}
          /\ guacd' = [guacd EXCEPT ![r] = "closed"]
          /\ WriteJob(r)
      BY <1>3 DEF TimerFires
    <2>2. Relaying(r) = {}
      BY <1>3 DEF Relaying, Ownership, OneHolder
    <2>3. Held(r) /\ ~Held(r)'
      BY <1>1, <1>3, <2>1, <2>2 DEF Held, Relaying
    <2>4. \A s \in Sessions \ {r} : Held(s)' <=> Held(s)
      BY <1>1, <2>1 DEF Held, Relaying
    <2>5. \E o \in Settled : outcome' = [outcome EXCEPT ![r] = o]
      BY <1>1, <2>1, WriteJobSettles
    <2>6. guacd[r] # "unused"
      BY <1>3 DEF Ownership, Opened
    <2>7. \A s \in Sessions : guacd'[s] = "unused" <=> guacd[s] = "unused"
      BY <1>1, <2>1, <2>6 DEF TypeOK
    <2> QED
      BY <1>1, <2>1, <2>3, <2>4, <2>5, <2>7, OwnershipSettle
  <1> QED
    BY <1>2, <1>3

LEMMA OwnershipCrash ==
    ASSUME TypeOK, Ownership, GatewayCrash
    PROVE  Ownership'
  <1>1. \A c \in Conns : gw'[c] # "relay"
    BY DEF GatewayCrash
  <1>2. parked' = {}
    BY DEF GatewayCrash
  <1>3. \A s \in Sessions : guacd'[s] = "unused" <=> guacd[s] = "unused"
    BY DEF GatewayCrash, TypeOK
  <1>4. \A s \in Sessions : outcome'[s] = IF Held(s) THEN "lost" ELSE outcome[s]
    BY DEF GatewayCrash
  <1>5. \A s \in Sessions : ~Held(s)'
    BY <1>1, <1>2 DEF Held, Relaying
  <1>6. \A s \in Sessions : guacd[s] = "unused" => ~Held(s)
    BY DEF Held, Relaying, Ownership, Opened
  <1>7. Opened'
    BY <1>1, <1>2, <1>3, <1>4, <1>6 DEF Ownership, Opened
  <1>8. OneHolder'
    BY <1>1 DEF OneHolder
  <1>9. SettledWhenReleased'
    BY <1>3, <1>4, <1>5 DEF Ownership, SettledWhenReleased
  <1> QED
    BY <1>7, <1>8, <1>9 DEF Ownership

THEOREM OwnershipStep == TypeOK /\ Ownership /\ [Next]_vars => Ownership'
  <1> SUFFICES ASSUME TypeOK, Ownership, [Next]_vars PROVE Ownership'
    OBVIOUS
  <1> USE DEF clientVars, gatewayVars, sessionVars, parkVars
  <1>1. CASE UNCHANGED vars
    BY <1>1, OwnershipUnchanged DEF vars, TypeOK
  <1>2. ASSUME NEW c \in Conns, ClientStep(c) PROVE Ownership'
    <2>1. CASE Handshake(c)
      <3>1. gw[c] # "relay"
        BY <2>1 DEF Handshake, NextToOpen
      <3> QED
        BY <2>1, <3>1, OwnershipIdle DEF Handshake
    <2>2. CASE ~Handshake(c)
      <3>1. UNCHANGED <<gw, sess, guacd, parked, outcome>>
        BY <1>2, <2>2 DEF ClientStep, DialFails, StatusAccepted, StatusRefused,
                          BrowserGone, BridgeEnds, LinkBreaks
      <3> QED
        BY <3>1, OwnershipUnchanged DEF TypeOK
    <2> QED
      BY <2>1, <2>2
  <1>3. ASSUME NEW c \in Conns, GatewayStep(c) PROVE Ownership'
    <2>1. CASE Reject(c) \/ OpenNew(c) \/ GuacdRefuses(c)
      <3>1. /\ gw[c] # "relay"
            /\ \E x \in {"request", "connecting", "done"} : gw' = [gw EXCEPT ![c] = x]
            /\ \A d \in Conns : d # c => sess'[d] = sess[d]
            /\ UNCHANGED <<guacd, parked, outcome>>
        BY <2>1 DEF Reject, OpenNew, GuacdRefuses, EndHandler, TypeOK
      <3> QED
        BY <3>1, OwnershipIdle
    <2> QED
      BY <1>3, <2>1, OwnershipResume, OwnershipReady, OwnershipPark,
         OwnershipGuacdClosed DEF GatewayStep
  <1>4. ASSUME NEW s \in Sessions, GuacdCloses(s) PROVE Ownership'
    BY <1>4, OwnershipUnchanged DEF GuacdCloses, TypeOK
  <1>5. CASE Tick
    BY <1>5, OwnershipUnchanged DEF Tick, TypeOK
  <1> QED
    BY <1>1, <1>2, <1>3, <1>4, <1>5, OwnershipTimer, OwnershipCrash DEF Next

-----------------------------------------------------------------------------
(* The timer part of the invariant.                                        *)

Timing == TimersOfThePast /\ ParkHasTimer

\* Nothing about the timers changes when sessions only leave the map.
LEMMA TimingUnchanged ==
    ASSUME Timing, UNCHANGED <<timers, parks>>, parked' \subseteq parked,
           \A s \in parked' : age'[s] = age[s]
    PROVE  Timing'
  BY DEF Timing, TimersOfThePast, ParkHasTimer

LEMMA TimingPark ==
    ASSUME TypeOK, Timing, NEW r \in Sessions, r \notin parked, ParkSession(r)
    PROVE  Timing'
  <1> DEFINE new == [sid |-> r, park |-> parks[r] + 1, left |-> Grace]
  <1>1. /\ parked' = parked \cup {r}
        /\ timers' = timers \cup {new}
        /\ parks'[r] = parks[r] + 1 /\ age'[r] = 0
        /\ \A s \in Sessions \ {r} : parks'[s] = parks[s] /\ age'[s] = age[s]
        /\ parks[r] \in Nat
    BY DEF ParkSession, TypeOK
  <1>2. TimersOfThePast'
    <2>1. new.sid = r /\ new.park = parks'[r]
      BY <1>1
    <2>2. ASSUME NEW t \in timers PROVE t.park <= parks'[t.sid]
      <3>1. t.sid \in Sessions /\ t.park \in Nat /\ t.park <= parks[t.sid]
        BY DEF Timing, TimersOfThePast, TypeOK, Timer
      <3>2. CASE t.sid = r
        BY <1>1, <3>1, <3>2
      <3>3. CASE t.sid # r
        BY <1>1, <3>1, <3>3
      <3> QED
        BY <3>2, <3>3
    <2>3. new.park <= parks'[new.sid]
      BY <1>1, <2>1
    <2> QED
      BY <1>1, <2>2, <2>3 DEF TimersOfThePast
  <1>3. ParkHasTimer'
    <2> SUFFICES ASSUME NEW s \in parked'
                 PROVE  \E t \in timers' : t.sid = s /\ t.park = parks'[s]
                                            /\ t.left + age'[s] = Grace
      BY DEF ParkHasTimer
    <2>1. CASE s = r
      <3>1. new \in timers' /\ new.sid = r /\ new.park = parks'[r] /\ new.left = Grace
        BY <1>1
      <3>2. new.left + age'[r] = Grace
        BY <1>1, <3>1, SessionAssumption
      <3> QED
        BY <2>1, <3>1, <3>2
    <2>2. CASE s # r
      BY <2>2, <1>1 DEF Timing, ParkHasTimer, TypeOK
    <2> QED
      BY <2>1, <2>2
  <1> QED
    BY <1>2, <1>3 DEF Timing

LEMMA TimingTimer ==
    ASSUME TypeOK, Timing, NEW t \in timers, TimerFires(t)
    PROVE  Timing'
  <1>1. timers' = timers \ {t} /\ UNCHANGED parks /\ t.sid \notin parked'
    BY DEF TimerFires
  <1>2. parked' \subseteq parked /\ \A s \in parked' : age'[s] = age[s]
    BY <1>1 DEF TimerFires, TypeOK
  <1> QED
    BY <1>1, <1>2 DEF Timing, TimersOfThePast, ParkHasTimer

LEMMA TimingTick ==
    ASSUME TypeOK, Timing, Tick
    PROVE  Timing'
  <1>1. /\ timers' = {Elapsed(t) : t \in timers}
        /\ UNCHANGED <<parked, parks>>
        /\ \A s \in parked : age'[s] = IF age[s] < Grace THEN age[s] + 1 ELSE age[s]
    BY DEF Tick, TypeOK
  <1>2. TimersOfThePast'
    BY <1>1, ElapsedTimer DEF Timing, TimersOfThePast, TypeOK
  <1>3. ParkHasTimer'
    <2> SUFFICES ASSUME NEW s \in parked
                 PROVE  \E t \in timers' : t.sid = s /\ t.park = parks[s]
                                            /\ t.left + age'[s] = Grace
      BY <1>1 DEF ParkHasTimer
    <2>1. PICK t \in timers : t.sid = s /\ t.park = parks[s] /\ t.left + age[s] = Grace
      BY DEF Timing, ParkHasTimer
    <2>2. t \in Timer /\ t.left \in 0..Grace /\ age[s] \in 0..Grace
      BY DEF TypeOK, Timer
    <2>3. Elapsed(t).left + age'[s] = Grace
      BY <1>1, <2>1, <2>2, ElapsedTimer, SessionAssumption
    <2> QED
      BY <1>1, <2>1, <2>2, <2>3, ElapsedTimer
  <1> QED
    BY <1>2, <1>3 DEF Timing

THEOREM TimingStep == TypeOK /\ Ownership /\ Timing /\ [Next]_vars => Timing'
  <1> SUFFICES ASSUME TypeOK, Ownership, Timing, [Next]_vars PROVE Timing'
    OBVIOUS
  <1> USE DEF parkVars
  <1>1. CASE UNCHANGED vars
    BY <1>1, TimingUnchanged DEF vars
  <1>2. ASSUME NEW c \in Conns, ClientStep(c) PROVE Timing'
    <2>1. UNCHANGED <<parked, timers, parks, age>>
      BY <1>2 DEF ClientStep, Handshake, DialFails, StatusAccepted, StatusRefused,
                  BrowserGone, BridgeEnds, LinkBreaks
    <2> QED
      BY <2>1, TimingUnchanged
  <1>3. ASSUME NEW c \in Conns, GatewayStep(c) PROVE Timing'
    <2>1. CASE RelayClientClosed(c)
      BY <2>1, OnlyRelay, TimingPark DEF RelayClientClosed
    <2>2. CASE Resume(c)
      BY <2>2, TimingUnchanged DEF Resume, TypeOK
    <2>3. CASE ~RelayClientClosed(c) /\ ~Resume(c)
      <3>1. UNCHANGED <<parked, timers, parks, age>>
        BY <1>3, <2>3 DEF GatewayStep, Reject, OpenNew, GuacdRefuses, GuacdReady,
                          RelayGuacdClosed
      <3> QED
        BY <3>1, TimingUnchanged
    <2> QED
      BY <2>1, <2>2, <2>3
  <1>4. ASSUME NEW s \in Sessions, GuacdCloses(s) PROVE Timing'
    BY <1>4, TimingUnchanged DEF GuacdCloses
  <1>5. CASE GatewayCrash
    BY <1>5 DEF GatewayCrash, Timing, TimersOfThePast, ParkHasTimer
  <1> QED
    BY <1>1, <1>2, <1>3, <1>4, <1>5, TimingTimer, TimingTick DEF Next

-----------------------------------------------------------------------------
THEOREM InvInit == Init => IInv
  <1> SUFFICES ASSUME Init PROVE IInv
    OBVIOUS
  <1>1. TypeOK
    BY TypeInit
  <1> QED
    BY <1>1 DEF Init, IInv, Opened, TimersOfThePast, OneHolder, SettledWhenReleased,
                ParkHasTimer

THEOREM InvStep == IInv /\ [Next]_vars => IInv'
  BY TypeStep, OwnershipStep, TimingStep DEF IInv, Ownership, Timing

\* The inductive invariant holds in every reachable state.
THEOREM Inductive == Spec => []IInv
  BY InvInit, InvStep, PTL DEF Spec

\* Type correctness.
THEOREM TypeCorrect == Spec => []TypeOK
  <1>1. IInv => TypeOK
    BY DEF IInv
  <1> QED
    BY <1>1, Inductive, PTL

\* No guacd stream is ever held twice, however reconnects, disconnects, timers and
\* crashes interleave.
THEOREM OneHolderAlways == Spec => []OneHolder
  <1>1. IInv => OneHolder
    BY DEF IInv
  <1> QED
    BY <1>1, Inductive, PTL

\* A session's job is settled exactly when the gateway lets go of the session.
THEOREM SettledAlways == Spec => []SettledWhenReleased
  <1>1. IInv => SettledWhenReleased
    BY DEF IInv
  <1> QED
    BY <1>1, Inductive, PTL

\* Whatever is parked has its own timer, which fires when the grace period ends.
THEOREM ParkTimerAlways == Spec => []ParkHasTimer
  <1>1. IInv => ParkHasTimer
    BY DEF IInv
  <1> QED
    BY <1>1, Inductive, PTL

-----------------------------------------------------------------------------
(* GuacSession implements SessionLifecycle.                                *)

PhaseMap == [s \in Sessions |-> Phase(s)]

\* The phase of a session depends on who holds it and on whether it was opened.
LEMMA PhaseSame ==
    ASSUME NEW s \in Sessions,
           s \in parked' <=> s \in parked,
           Relaying(s)' = Relaying(s),
           guacd'[s] = "unused" <=> guacd[s] = "unused"
    PROVE  Phase(s)' = Phase(s)
  BY DEF Phase

\* A step that changes the phase of one session is an update of the map.
LEMMA PhaseUpdate ==
    ASSUME NEW r \in Sessions, NEW p, Phase(r)' = p,
           \A s \in Sessions \ {r} : Phase(s)' = Phase(s)
    PROVE  PhaseMap' = [PhaseMap EXCEPT ![r] = p]
  BY DEF PhaseMap

\* A step that leaves holders and openings alone is a stutter.
LEMMA PhaseStutter ==
    ASSUME \A s \in Sessions : s \in parked' <=> s \in parked,
           \A s \in Sessions : Relaying(s)' = Relaying(s),
           \A s \in Sessions : guacd'[s] = "unused" <=> guacd[s] = "unused",
           UNCHANGED outcome
    PROVE  UNCHANGED <<PhaseMap, outcome>>
  <1>1. \A s \in Sessions : Phase(s)' = Phase(s)
    BY PhaseSame
  <1> QED
    BY <1>1 DEF PhaseMap

\* Moving one connection from relay or to relay changes the relays of its session
\* only.
LEMMA RelayingOthers ==
    ASSUME TypeOK, NEW c \in Conns, NEW r \in Sessions,
           \A d \in Conns \ {c} : gw'[d] = gw[d] /\ sess'[d] = sess[d],
           gw[c] = "relay" => sess[c] = r,
           gw'[c] = "relay" => sess'[c] = r
    PROVE  \A s \in Sessions \ {r} : Relaying(s)' = Relaying(s)
  BY DEF Relaying

LifecycleStep == [Lifecycle!LifecycleNext]_<<PhaseMap, outcome>>

LEMMA StepResume ==
    ASSUME IInv, NEW c \in Conns, Resume(c)
    PROVE  LifecycleStep
  <1> PICK r : r = sentCid[c]
    OBVIOUS
  <1>1. /\ gw[c] = "request" /\ r \in parked /\ r \in Sessions
        /\ parked' = parked \ {r}
        /\ gw'[c] = "relay" /\ sess'[c] = r
        /\ \A d \in Conns \ {c} : gw'[d] = gw[d] /\ sess'[d] = sess[d]
        /\ UNCHANGED <<guacd, outcome>>
    BY DEF Resume, StartRelay, IInv, TypeOK, sessionVars
  <1>2. \A s \in Sessions \ {r} : Phase(s)' = Phase(s)
    BY <1>1, RelayingOthers, PhaseSame DEF IInv
  <1>3. guacd[r] # "unused"
    BY <1>1 DEF IInv, Opened
  <1>4. Phase(r) = "detached"
    BY <1>1, <1>3 DEF Phase
  <1>5. Phase(r)' = "attached"
    BY <1>1, <1>3 DEF Phase, Relaying
  <1>6. Lifecycle!Attach(r)
    BY <1>1, <1>2, <1>4, <1>5, PhaseUpdate DEF Lifecycle!Attach, PhaseMap
  <1> QED
    BY <1>1, <1>6 DEF LifecycleStep, Lifecycle!LifecycleNext

LEMMA StepReady ==
    ASSUME IInv, NEW c \in Conns, NEW r \in Sessions, GuacdReady(c, r)
    PROVE  LifecycleStep
  <1>1. /\ gw[c] = "connecting" /\ guacd[r] = "unused" /\ guacd'[r] = "live"
        /\ \A s \in Sessions \ {r} : guacd'[s] = guacd[s]
        /\ gw'[c] = "relay" /\ sess'[c] = r
        /\ \A d \in Conns \ {c} : gw'[d] = gw[d] /\ sess'[d] = sess[d]
        /\ UNCHANGED <<parked, outcome>>
    BY DEF GuacdReady, StartRelay, IInv, TypeOK, parkVars
  <1>2. \A s \in Sessions \ {r} : Phase(s)' = Phase(s)
    BY <1>1, RelayingOthers, PhaseSame DEF IInv
  <1>3. r \notin parked
    BY <1>1 DEF IInv, Opened
  <1>4. Phase(r) = "unused"
    BY <1>1 DEF Phase
  <1>5. Phase(r)' = "attached"
    BY <1>1, <1>3 DEF Phase, Relaying
  <1>6. Lifecycle!Begin(r)
    BY <1>1, <1>2, <1>4, <1>5, PhaseUpdate DEF Lifecycle!Begin, PhaseMap
  <1> QED
    BY <1>6 DEF LifecycleStep, Lifecycle!LifecycleNext

LEMMA StepPark ==
    ASSUME IInv, NEW c \in Conns, RelayClientClosed(c)
    PROVE  LifecycleStep
  <1> PICK r : r = sess[c]
    OBVIOUS
  <1>1. /\ gw[c] = "relay" /\ gw'[c] = "done"
        /\ parked' = parked \cup {r}
        /\ \A d \in Conns \ {c} : gw'[d] = gw[d] /\ sess'[d] = sess[d]
        /\ UNCHANGED <<guacd, outcome>>
    BY DEF RelayClientClosed, ParkSession, EndHandler, IInv, TypeOK, sessionVars
  <1>2. r \in Sessions /\ r \notin parked /\ Relaying(r) = {c} /\ guacd[r] # "unused"
    BY <1>1, OnlyRelay DEF IInv, Ownership
  <1>3. \A s \in Sessions \ {r} : Phase(s)' = Phase(s)
    BY <1>1, <1>2, RelayingOthers, PhaseSame DEF IInv
  <1>4. Phase(r) = "attached" /\ Phase(r)' = "detached"
    BY <1>1, <1>2 DEF Phase
  <1>5. Lifecycle!Detach(r)
    BY <1>1, <1>2, <1>3, <1>4, PhaseUpdate DEF Lifecycle!Detach, PhaseMap
  <1> QED
    BY <1>2, <1>5 DEF LifecycleStep, Lifecycle!LifecycleNext

LEMMA StepGuacdClosed ==
    ASSUME IInv, NEW c \in Conns, RelayGuacdClosed(c)
    PROVE  LifecycleStep
  <1> PICK r : r = sess[c]
    OBVIOUS
  <1>1. /\ gw[c] = "relay" /\ gw'[c] = "done"
        /\ \A d \in Conns \ {c} : gw'[d] = gw[d] /\ sess'[d] = sess[d]
        /\ UNCHANGED <<guacd, parked>>
        /\ WriteJob(r)
    BY DEF RelayGuacdClosed, EndHandler, IInv, TypeOK, parkVars
  <1>2. r \in Sessions /\ r \notin parked /\ Relaying(r) = {c} /\ guacd[r] # "unused"
    BY <1>1, OnlyRelay DEF IInv, Ownership
  <1>3. \A s \in Sessions \ {r} : Phase(s)' = Phase(s)
    BY <1>1, <1>2, RelayingOthers, PhaseSame DEF IInv
  <1>4. Relaying(r)' = {}
    BY <1>1, <1>2 DEF Relaying
  <1>5. Phase(r) = "attached" /\ Phase(r)' = "over"
    BY <1>1, <1>2, <1>4 DEF Phase
  <1>6. \E o \in Settled : outcome' = [outcome EXCEPT ![r] = o]
    BY <1>1, <1>2, WriteJobSettles DEF IInv
  <1>7. Lifecycle!Finish(r)
    BY <1>1, <1>2, <1>3, <1>5, <1>6, PhaseUpdate DEF Lifecycle!Finish, PhaseMap, Settled
  <1> QED
    BY <1>2, <1>7 DEF LifecycleStep, Lifecycle!LifecycleNext

LEMMA StepTimer ==
    ASSUME IInv, NEW t \in timers, TimerFires(t)
    PROVE  LifecycleStep
  <1> PICK r : r = t.sid
    OBVIOUS
  <1>1. r \in Sessions /\ UNCHANGED <<gw, sess>>
    BY DEF IInv, TypeOK, Timer, TimerFires, gatewayVars
  <1>2. \A s \in Sessions : Relaying(s)' = Relaying(s)
    BY <1>1 DEF Relaying
  <1>3. CASE r \notin parked
    <2>1. UNCHANGED <<parked, guacd, outcome>>
      BY <1>3 DEF TimerFires
    <2> QED
      BY <1>2, <2>1, PhaseStutter DEF LifecycleStep
  <1>4. CASE r \in parked
    <2>1. /\ parked' = parked \ {r}
          /\ guacd'[r] = "closed"
          /\ \A s \in Sessions \ {r} : guacd'[s] = guacd[s]
          /\ WriteJob(r)
      BY <1>1, <1>4 DEF TimerFires, IInv, TypeOK
    <2>2. Relaying(r) = {} /\ guacd[r] # "unused"
      BY <1>4 DEF Relaying, IInv, OneHolder, Opened
    <2>3. \A s \in Sessions \ {r} : Phase(s)' = Phase(s)
      BY <1>2, <2>1, PhaseSame
    <2>4. Phase(r) = "detached" /\ Phase(r)' = "over"
      BY <1>1, <1>2, <1>4, <2>1, <2>2 DEF Phase
    <2>5. \E o \in Settled : outcome' = [outcome EXCEPT ![r] = o]
      BY <1>1, <2>1, WriteJobSettles DEF IInv
    <2>6. Lifecycle!Finish(r)
      BY <1>1, <2>3, <2>4, <2>5, PhaseUpdate DEF Lifecycle!Finish, PhaseMap, Settled
    <2> QED
      BY <1>1, <2>6 DEF LifecycleStep, Lifecycle!LifecycleNext
  <1> QED
    BY <1>3, <1>4

LEMMA StepCrash ==
    ASSUME IInv, GatewayCrash
    PROVE  LifecycleStep
  <1> DEFINE held == {s \in Sessions : PhaseMap[s] \in {"attached", "detached"}}
  <1>1. \A s \in Sessions : s \in held <=> Held(s)
    BY DEF PhaseMap, Phase, Held, IInv, Opened, Relaying
  <1>2. parked' = {} /\ \A s \in Sessions : Relaying(s)' = {}
    BY DEF GatewayCrash, Relaying
  <1>3. \A s \in Sessions : guacd'[s] = "unused" <=> guacd[s] = "unused"
    BY DEF GatewayCrash, IInv, TypeOK
  <1>4. \A s \in Sessions : Phase(s)' = IF Held(s) THEN "over" ELSE Phase(s)
    BY <1>2, <1>3 DEF Phase, Held, IInv, Opened, Relaying
  <1>5. PhaseMap' = [s \in Sessions |-> IF s \in held THEN "over" ELSE PhaseMap[s]]
    BY <1>1, <1>4 DEF PhaseMap
  <1>6. outcome' = [s \in Sessions |-> IF s \in held THEN "lost" ELSE outcome[s]]
    BY <1>1 DEF GatewayCrash
  <1>7. Lifecycle!LoseAll
    BY <1>5, <1>6 DEF Lifecycle!LoseAll, PhaseMap
  <1> QED
    BY <1>7 DEF LifecycleStep, Lifecycle!LifecycleNext

\* Every step of the handlers, the timers and the environment is a step of the
\* session's life or leaves it as it is.
THEOREM EveryStep == IInv /\ [Next]_vars => LifecycleStep
  <1> SUFFICES ASSUME IInv, [Next]_vars PROVE LifecycleStep
    OBVIOUS
  <1> USE DEF clientVars, gatewayVars, sessionVars, parkVars
  <1>1. ASSUME UNCHANGED <<gw, sess, parked, outcome>>,
               \A s \in Sessions : guacd'[s] = "unused" <=> guacd[s] = "unused"
        PROVE  LifecycleStep
    BY <1>1, PhaseStutter DEF LifecycleStep, Relaying
  <1>2. ASSUME NEW c \in Conns, gw[c] # "relay", gw'[c] # "relay",
               \A d \in Conns \ {c} : gw'[d] = gw[d] /\ sess'[d] = sess[d],
               UNCHANGED <<guacd, parked, outcome>>
        PROVE  LifecycleStep
    <2>1. \A s \in Sessions : Relaying(s)' = Relaying(s)
      BY <1>2 DEF Relaying
    <2> QED
      BY <1>2, <2>1, PhaseStutter DEF LifecycleStep
  <1>3. CASE UNCHANGED vars
    BY <1>1, <1>3 DEF vars
  <1>4. ASSUME NEW c \in Conns, ClientStep(c) PROVE LifecycleStep
    <2>1. CASE Handshake(c)
      BY <1>2, <2>1 DEF Handshake, NextToOpen, IInv, TypeOK
    <2>2. CASE ~Handshake(c)
      <3>1. UNCHANGED <<gw, sess, guacd, parked, outcome>>
        BY <1>4, <2>2 DEF ClientStep, DialFails, StatusAccepted, StatusRefused,
                          BrowserGone, BridgeEnds, LinkBreaks
      <3> QED
        BY <1>1, <3>1
    <2> QED
      BY <2>1, <2>2
  <1>5. ASSUME NEW c \in Conns, GatewayStep(c) PROVE LifecycleStep
    <2>1. CASE Reject(c) \/ OpenNew(c) \/ GuacdRefuses(c)
      BY <1>2, <2>1 DEF Reject, OpenNew, GuacdRefuses, EndHandler, IInv, TypeOK
    <2> QED
      BY <1>5, <2>1, StepResume, StepReady, StepPark, StepGuacdClosed DEF GatewayStep
  <1>6. ASSUME NEW s \in Sessions, GuacdCloses(s) PROVE LifecycleStep
    BY <1>1, <1>6 DEF GuacdCloses, IInv, TypeOK
  <1>7. CASE Tick
    BY <1>1, <1>7 DEF Tick
  <1> QED
    BY <1>3, <1>4, <1>5, <1>6, <1>7, StepTimer, StepCrash DEF Next

\* The gateway implements the session life cycle: attached to one client at a time,
\* over once, its job handed over in the step that ends it.
THEOREM Implements == Spec => ImplementsLifecycle
  <1>1. Init => Lifecycle!LifecycleInit
    BY DEF Init, Lifecycle!LifecycleInit, Phase
  <1>2. IInv /\ [Next]_vars => [Lifecycle!LifecycleNext]_(Lifecycle!lifecycleVars)
    BY EveryStep DEF LifecycleStep, Lifecycle!lifecycleVars, PhaseMap
  <1> QED
    BY <1>1, <1>2, Inductive, PTL DEF Spec, ImplementsLifecycle, Lifecycle!LifecycleSpec

-----------------------------------------------------------------------------
(* How far the grace period is kept.                                       *)

\* The timer of the present park has slept as long as the session has been parked.
OwnTimers ==
    \A t \in timers : t.sid \in parked /\ t.park = parks[t.sid] => t.left + age[t.sid] = Grace

\* A timer, and what there is of its session.
LEMMA TimerTypes ==
    ASSUME TypeOK, NEW t \in timers
    PROVE  /\ t.sid \in Sessions /\ t.park \in Nat /\ t.left \in 0 .. Grace
           /\ age[t.sid] \in 0 .. Grace /\ parks[t.sid] \in Nat
  BY DEF TypeOK, Timer

\* Nothing is parked that was not, and what is parked still is as old.
LEMMA OwnTimersFewer ==
    ASSUME OwnTimers, timers' \subseteq timers, UNCHANGED parks, parked' \subseteq parked,
           \A s \in parked' : age'[s] = age[s]
    PROVE  OwnTimers'
  BY DEF OwnTimers

\* A new park has a timer of its own, and those of earlier parks are not taken for it.
LEMMA OwnTimersPark ==
    ASSUME IInv, OwnTimers, NEW r \in Sessions, ParkSession(r)
    PROVE  OwnTimers'
  <1> DEFINE new == [sid |-> r, park |-> parks[r] + 1, left |-> Grace]
  <1>0. TypeOK /\ TimersOfThePast
    BY DEF IInv
  <1>1. /\ parked' = parked \cup {r} /\ timers' = timers \cup {new}
        /\ parks'[r] = parks[r] + 1 /\ age'[r] = 0
        /\ \A s \in Sessions \ {r} : parks'[s] = parks[s] /\ age'[s] = age[s]
    BY <1>0 DEF ParkSession, TypeOK
  <1>2. new.left + age'[new.sid] = Grace
    BY <1>1, SessionAssumption
  <1>3. ASSUME NEW t \in timers, t.sid \in parked', t.park = parks'[t.sid]
        PROVE  t.left + age'[t.sid] = Grace
    <2>1. t.park <= parks[t.sid]
      BY <1>0 DEF TimersOfThePast
    <2>2. t.sid # r
      BY <1>0, <1>1, <1>3, <2>1, TimerTypes
    <2> QED
      BY <1>0, <1>1, <1>3, <2>2, TimerTypes DEF OwnTimers
  <1> QED
    BY <1>1, <1>2, <1>3 DEF OwnTimers

\* A tick takes from the sleep what it adds to the age.
LEMMA OwnTimersTick ==
    ASSUME TypeOK, OwnTimers, Tick
    PROVE  OwnTimers'
  <1>1. /\ timers' = {Elapsed(t) : t \in timers} /\ UNCHANGED <<parked, parks>>
        /\ \A s \in parked : age'[s] = IF age[s] < Grace THEN age[s] + 1 ELSE age[s]
    BY DEF Tick, TypeOK
  <1> SUFFICES ASSUME NEW t \in timers, Elapsed(t).sid \in parked,
                      Elapsed(t).park = parks[Elapsed(t).sid]
               PROVE  Elapsed(t).left + age'[Elapsed(t).sid] = Grace
    BY <1>1 DEF OwnTimers
  <1>2. /\ Elapsed(t).sid = t.sid /\ Elapsed(t).park = t.park
        /\ Elapsed(t).left = IF t.left = 0 THEN 0 ELSE t.left - 1
    BY DEF Elapsed, TypeOK, Timer
  <1>3. t.left + age[t.sid] = Grace
    BY <1>2 DEF OwnTimers
  <1> QED
    BY <1>1, <1>2, <1>3, TimerTypes, SessionAssumption

\* OwnTimers holds always.
LEMMA OwnTimersAlways == Spec => []OwnTimers
  <1>1. Init => OwnTimers
    BY DEF Init, OwnTimers
  <1>2. IInv /\ OwnTimers /\ [Next]_vars => OwnTimers'
    <2> SUFFICES ASSUME IInv, OwnTimers, [Next]_vars PROVE OwnTimers'
      OBVIOUS
    <2>0. TypeOK /\ Ownership
      BY DEF IInv, Ownership
    <2>1. CASE UNCHANGED <<parked, timers, parks, age>>
      BY <2>1, OwnTimersFewer
    <2>2. ASSUME NEW c \in Conns, RelayClientClosed(c) PROVE OwnTimers'
      BY <2>0, <2>2, OnlyRelay, OwnTimersPark DEF RelayClientClosed
    <2>3. ASSUME NEW c \in Conns, Resume(c) PROVE OwnTimers'
      <3>1. \A s \in parked' : s \in parked /\ age'[s] = age[s]
        BY <2>0, <2>3 DEF Resume, TypeOK
      <3> QED
        BY <2>3, <3>1, OwnTimersFewer DEF Resume
    <2>4. ASSUME NEW t \in timers, TimerFires(t) PROVE OwnTimers'
      <3>1. /\ timers' \subseteq timers /\ UNCHANGED parks
            /\ \A s \in parked' : s \in parked /\ age'[s] = age[s]
        BY <2>0, <2>4 DEF TimerFires, TypeOK
      <3> QED
        BY <3>1, OwnTimersFewer
    <2>5. CASE GatewayCrash
      BY <2>5 DEF GatewayCrash, OwnTimers
    <2> QED
      BY <2>0, <2>1, <2>2, <2>3, <2>4, <2>5, OwnTimersTick
         DEF Next, ClientStep, GatewayStep, Handshake, DialFails, StatusAccepted, StatusRefused,
             BrowserGone, BridgeEnds, LinkBreaks, Reject, OpenNew, GuacdRefuses, GuacdReady,
             RelayGuacdClosed, GuacdCloses, vars, parkVars
  <1> QED
    BY Inductive, <1>1, <1>2, PTL DEF Spec

\* However often a session is parked and resumed, and whatever the grace period is: before
\* its time it is ended by nothing but the timer of an earlier park.
THEOREM OwnTimerAlways == Spec => OwnTimerHonoursGrace
  <1> DEFINE Kept ==
        \A s \in parked \ parked' :
           \/ age[s] = Grace
           \/ \E c \in Conns : gw[c] = "request" /\ gw'[c] = "relay" /\ sess'[c] = s
           \/ crashes' # crashes
           \/ \E t \in timers \ timers' : t.sid = s /\ t.left = 0 /\ t.park < parks[s]
  <1>1. IInv /\ OwnTimers /\ [Next]_vars => Kept
    <2> SUFFICES ASSUME IInv, OwnTimers, [Next]_vars, NEW s \in parked \ parked'
                 PROVE  \/ age[s] = Grace
                        \/ \E c \in Conns : gw[c] = "request" /\ gw'[c] = "relay" /\ sess'[c] = s
                        \/ crashes' # crashes
                        \/ \E t \in timers \ timers' : t.sid = s /\ t.left = 0 /\ t.park < parks[s]
      OBVIOUS
    <2>0. TypeOK /\ TimersOfThePast
      BY DEF IInv
    <2>1. ASSUME NEW c \in Conns, Resume(c)
          PROVE  gw[c] = "request" /\ gw'[c] = "relay" /\ sess'[c] = s
      BY <2>0, <2>1 DEF Resume, StartRelay, TypeOK
    <2>2. ASSUME NEW t \in timers, TimerFires(t)
          PROVE  age[s] = Grace \/ \E u \in timers \ timers' :
                                      u.sid = s /\ u.left = 0 /\ u.park < parks[s]
      <3>1. t \in timers \ timers' /\ t.left = 0 /\ t.sid = s
        BY <2>2 DEF TimerFires
      <3>2. t.park <= parks[s] /\ t.park \in Nat /\ parks[s] \in Nat /\ age[s] \in 0 .. Grace
        BY <2>0, <3>1, TimerTypes DEF TimersOfThePast
      <3>3. CASE t.park = parks[s]
        BY <3>1, <3>2, <3>3, SessionAssumption DEF OwnTimers
      <3>4. CASE t.park < parks[s]
        BY <3>1, <3>4
      <3> QED
        BY <3>2, <3>3, <3>4
    <2>3. CASE GatewayCrash
      BY <2>0, <2>3, SessionAssumption DEF GatewayCrash, TypeOK
    <2>4. ASSUME NEW c \in Conns, RelayClientClosed(c) PROVE FALSE
      BY <2>4 DEF RelayClientClosed, ParkSession
    <2> QED
      BY <2>1, <2>2, <2>3, <2>4
         DEF Next, ClientStep, GatewayStep, Handshake, DialFails, StatusAccepted, StatusRefused,
             BrowserGone, BridgeEnds, LinkBreaks, Reject, OpenNew, GuacdRefuses, GuacdReady,
             RelayGuacdClosed, GuacdCloses, Tick, vars, parkVars
  <1>2. IInv /\ OwnTimers /\ [Next]_vars => [Kept]_vars
    BY <1>1
  <1> QED
    BY Inductive, OwnTimersAlways, <1>2, PTL DEF Spec, OwnTimerHonoursGrace

\* SessionLifecycle promises Decided: the fate of the job is decided in the step that ends
\* the session, and not again.
THEOREM LifecycleDecides == Lifecycle!LifecycleSpec => []Lifecycle!Decided
  <1> DEFINE Types == /\ PhaseMap \in [Sessions -> {"unused", "attached", "detached", "over"}]
                      /\ outcome \in [Sessions -> Lifecycle!Outcomes]
             Dec   == \A s \in Sessions : outcome[s] # "none" <=> PhaseMap[s] = "over"
  <1>d. Lifecycle!Decided <=> Dec
    BY DEF Lifecycle!Decided, PhaseMap
  <1>1. Lifecycle!LifecycleInit => Types /\ Dec
    <2> HAVE Lifecycle!LifecycleInit
    <2>1. /\ PhaseMap = [s \in Sessions |-> "unused"]
          /\ outcome = [s \in Sessions |-> "none"]
      BY DEF Lifecycle!LifecycleInit, PhaseMap
    <2> QED
      BY <2>1 DEF Lifecycle!Outcomes
  <1>2. Types /\ Dec /\ [Lifecycle!LifecycleNext]_(Lifecycle!lifecycleVars) => Types' /\ Dec'
    <2> SUFFICES ASSUME Types, Dec, [Lifecycle!LifecycleNext]_(Lifecycle!lifecycleVars)
                 PROVE  Types' /\ Dec'
      OBVIOUS
    <2>1. ASSUME NEW s \in Sessions,
                 Lifecycle!Begin(s) \/ Lifecycle!Detach(s) \/ Lifecycle!Attach(s)
          PROVE  Types' /\ Dec'
      <3>1. /\ PhaseMap[s] # "over" /\ outcome' = outcome
            /\ \E p \in {"attached", "detached"} : PhaseMap' = [PhaseMap EXCEPT ![s] = p]
        BY <2>1 DEF Lifecycle!Begin, Lifecycle!Detach, Lifecycle!Attach, PhaseMap
      <3> QED
        BY <3>1
    <2>2. ASSUME NEW s \in Sessions, Lifecycle!Finish(s) PROVE Types' /\ Dec'
      <3>1. /\ PhaseMap' = [PhaseMap EXCEPT ![s] = "over"]
            /\ \E o \in {"unrecorded", "written", "failed"} : outcome' = [outcome EXCEPT ![s] = o]
        BY <2>2 DEF Lifecycle!Finish, PhaseMap
      <3> QED
        BY <3>1 DEF Lifecycle!Outcomes
    <2>3. CASE Lifecycle!LoseAll
      <3>1. /\ PhaseMap' = [s \in Sessions |->
                  IF PhaseMap[s] \in {"attached", "detached"} THEN "over" ELSE PhaseMap[s]]
            /\ outcome' = [s \in Sessions |->
                  IF PhaseMap[s] \in {"attached", "detached"} THEN "lost" ELSE outcome[s]]
        BY <2>3 DEF Lifecycle!LoseAll, PhaseMap
      <3> QED
        BY <3>1 DEF Lifecycle!Outcomes
    <2>4. CASE UNCHANGED Lifecycle!lifecycleVars
      BY <2>4 DEF Lifecycle!lifecycleVars, PhaseMap
    <2> QED
      BY <2>1, <2>2, <2>3, <2>4 DEF Lifecycle!LifecycleNext
  <1> QED
    BY <1>d, <1>1, <1>2, PTL DEF Lifecycle!LifecycleSpec

\* The gateway keeps what SessionLifecycle promises.
COROLLARY DecidedAlways == Spec => []Lifecycle!Decided
  BY Implements, LifecycleDecides, PTL DEF ImplementsLifecycle
=============================================================================
