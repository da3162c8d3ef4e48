---------------------------- MODULE GuacSession ----------------------------
(***************************************************************************)
(* Guacamole sessions from the browser's WebSocket to guacd.               *)
(*                                                                         *)
(* Client (fleetshell-client, guac_proxy.rs).  Every WebSocket that the    *)
(* browser opens on a slot runs handle_guac_ws: dial the gateway, send the *)
(* slot's live_connection_id, read the status line, remember the id it     *)
(* carries, bridge.                                                        *)
(*                                                                         *)
(* Gateway (fleetshell-gateway, handler.rs).  Every accepted connection    *)
(* runs handle: authorise, resume the parked session the client names or   *)
(* open a new one with guacd, relay.  A session whose client went away is  *)
(* parked in parked_sessions and a timer task is spawned which removes it  *)
(* after reconnect_grace_secs.  When a recorded session is over, a job     *)
(* file is written (recording.rs).                                         *)
(*                                                                         *)
(* One connection of Conns is one WebSocket, the TLS stream it dials and   *)
(* the gateway task that serves it.  Data bytes, credentials and the       *)
(* session parameters are left out; the record flag of the token is kept.  *)
(***************************************************************************)
EXTENDS Integers, FiniteSets

CONSTANTS
    MaxConns,     \* bound: WebSocket connections, numbered as they are opened
    MaxSessions,  \* bound: guacd sessions, numbered as guacd opens them
    Grace,        \* reconnect_grace_secs, in ticks
    MaxCrashes    \* bound: how often the gateway process dies

ASSUME SessionAssumption ==
    /\ MaxConns \in Nat
    /\ MaxSessions \in Nat
    /\ Grace \in Nat
    /\ MaxCrashes \in Nat

VARIABLES
    ws,        \* ws[c]: where handle_guac_ws of c is
    gone,      \* connections whose browser side has closed
    liveCid,   \* live_connection_id of the slot
    sentCid,   \* sentCid[c]: connection_id in c's handshake payload
    status,    \* status[c]: the status line the gateway sent to c
    gw,        \* gw[c]: where the gateway's handle() for c is
    sess,      \* sess[c]: the guacd session c's relay holds
    guacd,     \* guacd[s]: guacd's end of the stream of s
    recorded,  \* sessions with recording metadata and a jobs directory
    parked,    \* keys of parked_sessions
    timers,    \* expiry tasks spawned by park_session
    parks,     \* parks[s]: how often s was parked (tells its timers apart)
    age,       \* age[s]: ticks since s was last parked, up to Grace
    outcome,   \* outcome[s]: what became of the session's job file
    crashes    \* how often the gateway died

clientVars  == <<ws, gone, liveCid, sentCid>>
gatewayVars == <<status, gw, sess>>
sessionVars == <<guacd, recorded, outcome>>
parkVars    == <<parked, timers, parks, age>>
vars == <<clientVars, gatewayVars, sessionVars, parkVars, crashes>>

Conns    == 1..MaxConns
Sessions == 1..MaxSessions
None     == 0          \* the absent connection_id
NoCid    == 0..MaxSessions

\* The status line of a connection is the session of a "200 CONNECTED", or
Pending == 0           \* not sent yet,
Refused == 1 + MaxSessions   \* or any of the error lines.

Timer   == [sid : Sessions, park : Nat, left : 0..Grace]
Outcome == {"none", "unrecorded", "written", "failed", "lost"}

TypeOK ==
    /\ ws \in [Conns -> {"none", "handshake", "bridged", "closed"}]
    /\ gone \subseteq Conns
    /\ liveCid \in NoCid
    /\ sentCid \in [Conns -> NoCid]
    /\ status \in [Conns -> Sessions \cup {Pending, Refused}]
    /\ gw \in [Conns -> {"none", "request", "connecting", "relay", "done"}]
    /\ sess \in [Conns -> NoCid]
    /\ guacd \in [Sessions -> {"unused", "live", "closed"}]
    /\ recorded \subseteq Sessions
    /\ parked \subseteq Sessions
    /\ timers \subseteq Timer
    /\ parks \in [Sessions -> Nat]
    /\ age \in [Sessions -> 0..Grace]
    /\ outcome \in [Sessions -> Outcome]
    /\ crashes \in 0..MaxCrashes

Init ==
    /\ ws = [c \in Conns |-> "none"]
    /\ gone = {}
    /\ liveCid = None
    /\ sentCid = [c \in Conns |-> None]
    /\ status = [c \in Conns |-> Pending]
    /\ gw = [c \in Conns |-> "none"]
    /\ sess = [c \in Conns |-> None]
    /\ guacd = [s \in Sessions |-> "unused"]
    /\ recorded = {}
    /\ parked = {}
    /\ timers = {}
    /\ parks = [s \in Sessions |-> 0]
    /\ age = [s \in Sessions |-> 0]
    /\ outcome = [s \in Sessions |-> "none"]
    /\ crashes = 0

-----------------------------------------------------------------------------
(* The client side of a connection.                                        *)

\* handle_guac_ws returns: socket and gateway stream are dropped, with whatever
\* status line was still on its way.
CloseWs(c) ==
    /\ ws' = [ws EXCEPT ![c] = "closed"]
    /\ gone' = gone \ {c}
    /\ status' = [status EXCEPT ![c] = Pending]

\* Connections are numbered in the order the browser opens them.
NextToOpen(c) ==
    /\ ws[c] = "none" /\ gw[c] = "none"
    /\ \A d \in Conns : d < c => ws[d] # "none"

\* The browser opens a WebSocket; the client dials the gateway, reads the
\* slot's connection id and sends it in the handshake payload.
Handshake(c) ==
    /\ NextToOpen(c)
    /\ ws' = [ws EXCEPT ![c] = "handshake"]
    /\ sentCid' = [sentCid EXCEPT ![c] = liveCid]
    /\ gw' = [gw EXCEPT ![c] = "request"]
    /\ UNCHANGED <<gone, liveCid, status, sess, sessionVars, parkVars, crashes>>

\* The gateway cannot be reached: the WebSocket is dropped.
DialFails(c) ==
    /\ NextToOpen(c)
    /\ CloseWs(c)
    /\ UNCHANGED <<liveCid, sentCid, gw, sess, sessionVars, parkVars, crashes>>

\* "200 CONNECTED <id>": remember the id for the slot, then bridge.
StatusAccepted(c) ==
    /\ ws[c] = "handshake"
    /\ status[c] \in Sessions
    /\ liveCid' = status[c]
    /\ status' = [status EXCEPT ![c] = Pending]
    /\ ws' = [ws EXCEPT ![c] = "bridged"]
    /\ UNCHANGED <<gone, sentCid, gw, sess, sessionVars, parkVars, crashes>>

\* An error status, or the stream ended before a status arrived.
StatusRefused(c) ==
    /\ ws[c] = "handshake"
    /\ status[c] = Refused \/ (gw[c] = "done" /\ status[c] = Pending)
    /\ CloseWs(c)
    /\ UNCHANGED <<liveCid, sentCid, gw, sess, sessionVars, parkVars, crashes>>

\* The page is reloaded or closed.  Only browser_task sees it: the client's
\* write half of the gateway stream is dropped, the stream stays open.
BrowserGone(c) ==
    /\ ws[c] \in {"handshake", "bridged"}
    /\ c \notin gone
    /\ gone' = gone \cup {c}
    /\ UNCHANGED <<ws, liveCid, sentCid, gatewayVars, sessionVars, parkVars,
                   crashes>>

\* Mutant of BridgeEnds: a failing send to the browser does not end the bridge.
BridgeIgnoresSendFailure(c) ==
    /\ ws[c] = "bridged"
    /\ gw[c] = "done"
    /\ CloseWs(c)
    /\ UNCHANGED <<liveCid, sentCid, gw, sess, sessionVars, parkVars, crashes>>

\* The bridge ends, and the gateway stream is dropped, when bytes from guacd cannot
\* be sent to a browser that is gone, or when both tasks that feed it are over:
\* gw_task as the gateway has closed its side, browser_task as the browser is gone
\* or has sent something the gateway no longer takes.
BridgeEnds(c) ==
    /\ ws[c] = "bridged"
    /\ \/ gw[c] = "done"
       \/ c \in gone /\ gw[c] = "relay" /\ guacd[sess[c]] = "live"
    /\ CloseWs(c)
    /\ UNCHANGED <<liveCid, sentCid, gw, sess, sessionVars, parkVars, crashes>>

\* The connection to the gateway breaks under the client.
LinkBreaks(c) ==
    /\ ws[c] \in {"handshake", "bridged"}
    /\ CloseWs(c)
    /\ UNCHANGED <<liveCid, sentCid, gw, sess, sessionVars, parkVars, crashes>>

-----------------------------------------------------------------------------
(* The gateway's handler.                                                  *)

\* handle() takes the connection id out of the payload.
TakeCid(c) == sentCid' = [sentCid EXCEPT ![c] = None]

\* handle() returns; the stream it held has been passed on or is dropped.
EndHandler(c) ==
    /\ gw' = [gw EXCEPT ![c] = "done"]
    /\ sess' = [sess EXCEPT ![c] = None]

\* send_line: the status line reaches a client that still waits for it; a failing
\* write is ignored.
SendLine(c, line) ==
    status' = IF ws[c] = "handshake" THEN [status EXCEPT ![c] = line] ELSE status

\* The handler of c relays session s after "200 CONNECTED s".
StartRelay(c, s) ==
    /\ gw' = [gw EXCEPT ![c] = "relay"]
    /\ sess' = [sess EXCEPT ![c] = s]
    /\ SendLine(c, s)

\* Closing a connection with an error status: malformed payload, token
\* rejected, application not supported in guac mode.
Reject(c) ==
    /\ gw[c] = "request"
    /\ TakeCid(c)
    /\ EndHandler(c)
    /\ SendLine(c, Refused)
    /\ UNCHANGED <<ws, gone, liveCid, sessionVars, parkVars, crashes>>

\* Mutant of Resume: the entry is looked up and left in the map.
ResumeWithoutRemove(c) ==
    /\ gw[c] = "request"
    /\ sentCid[c] \in parked
    /\ TakeCid(c)
    /\ StartRelay(c, sentCid[c])
    /\ UNCHANGED <<ws, gone, liveCid, sessionVars, parkVars, crashes>>

\* Reconnect path: the entry is removed from the map and relayed again.
Resume(c) ==
    /\ gw[c] = "request"
    /\ sentCid[c] \in parked
    /\ parked' = parked \ {sentCid[c]}
    /\ age' = [age EXCEPT ![sentCid[c]] = 0]
    /\ TakeCid(c)
    /\ StartRelay(c, sentCid[c])
    /\ UNCHANGED <<ws, gone, liveCid, sessionVars, timers, parks, crashes>>

\* No id, or the id is not parked (any more): open a session with guacd.
OpenNew(c) ==
    /\ gw[c] = "request"
    /\ sentCid[c] \notin parked
    /\ TakeCid(c)
    /\ gw' = [gw EXCEPT ![c] = "connecting"]
    /\ UNCHANGED <<ws, gone, liveCid, status, sess, sessionVars, parkVars, crashes>>

\* guac::connect succeeds; guacd names the session, the token and the
\* configuration decide whether it is recorded.
GuacdReady(c, s) ==
    /\ gw[c] = "connecting"
    /\ guacd[s] = "unused"
    /\ \A r \in Sessions : r < s => guacd[r] # "unused"
    /\ guacd' = [guacd EXCEPT ![s] = "live"]
    /\ \E rec \in BOOLEAN :
          recorded' = IF rec THEN recorded \cup {s} ELSE recorded
    /\ StartRelay(c, s)
    /\ UNCHANGED <<clientVars, outcome, parkVars, crashes>>

\* guac::connect fails: 502.
GuacdRefuses(c) ==
    /\ gw[c] = "connecting"
    /\ EndHandler(c)
    /\ SendLine(c, Refused)
    /\ UNCHANGED <<clientVars, sessionVars, parkVars, crashes>>

\* write_job_file, called when session s is over; a failure is only logged.
WriteJob(s) ==
    \E o \in (IF s \in recorded THEN {"written", "failed"} ELSE {"unrecorded"}) :
        outcome' = [outcome EXCEPT ![s] = o]

\* Mutant of ParkSession: only the first park of a session spawns a timer.
ParkWithOneTimer(s) ==
    /\ parked' = parked \cup {s}
    /\ parks' = [parks EXCEPT ![s] = @ + 1]
    /\ timers' = IF parks[s] = 0
                 THEN timers \cup {[sid |-> s, park |-> 1, left |-> Grace]}
                 ELSE timers
    /\ age' = [age EXCEPT ![s] = 0]

\* Mutant of ParkSession: the grace period counts from the last byte of the client, and
\* it may have been silent for some time.
ParkSinceLastByte(s) ==
    /\ parked' = parked \cup {s}
    /\ parks' = [parks EXCEPT ![s] = @ + 1]
    /\ \E left \in 0..Grace :
          timers' = timers \cup {[sid |-> s, park |-> parks[s] + 1, left |-> left]}
    /\ age' = [age EXCEPT ![s] = 0]

\* park_session: insert into the map and spawn a timer for this very park.
ParkSession(s) ==
    /\ parked' = parked \cup {s}
    /\ parks' = [parks EXCEPT ![s] = @ + 1]
    /\ timers' = timers \cup {[sid |-> s, park |-> parks[s] + 1, left |-> Grace]}
    /\ age' = [age EXCEPT ![s] = 0]

\* relay_guac returned true: the client is gone (end of stream, a read error, or
\* a write that failed), guacd is taken to be alive.
RelayClientClosed(c) ==
    /\ gw[c] = "relay"
    /\ ParkSession(sess[c])
    /\ EndHandler(c)
    /\ UNCHANGED <<clientVars, status, sessionVars, crashes>>

\* Mutant of RelayGuacdClosed: the job is written by timer tasks only.
RelayGuacdClosedNoJob(c) ==
    /\ gw[c] = "relay"
    /\ guacd[sess[c]] = "closed"
    /\ EndHandler(c)
    /\ UNCHANGED <<clientVars, status, sessionVars, parkVars, crashes>>

\* relay_guac returned false: guacd closed the stream, the session is over.
RelayGuacdClosed(c) ==
    /\ gw[c] = "relay"
    /\ guacd[sess[c]] = "closed"
    /\ WriteJob(sess[c])
    /\ EndHandler(c)
    /\ UNCHANGED <<clientVars, status, guacd, recorded, parkVars, crashes>>

\* Mutant of TimerFires: the session is ended without a look at the map.
TimerEndsSession(t) ==
    /\ t \in timers
    /\ t.left = 0
    /\ timers' = timers \ {t}
    /\ parked' = parked \ {t.sid}
    /\ age' = [age EXCEPT ![t.sid] = 0]
    /\ guacd' = [guacd EXCEPT ![t.sid] = "closed"]
    /\ WriteJob(t.sid)
    /\ UNCHANGED <<clientVars, gatewayVars, recorded, parks, crashes>>

\* A timer task wakes up after its sleep.  It removes whatever is parked under
\* its id; the stream is dropped and the session is over.  Otherwise nothing.
TimerFires(t) ==
    /\ t \in timers
    /\ t.left = 0
    /\ timers' = timers \ {t}
    /\ \/ /\ t.sid \in parked
          /\ parked' = parked \ {t.sid}
          /\ age' = [age EXCEPT ![t.sid] = 0]
          /\ guacd' = [guacd EXCEPT ![t.sid] = "closed"]
          /\ WriteJob(t.sid)
       \/ /\ t.sid \notin parked
          /\ UNCHANGED <<parked, age, guacd, outcome>>
    /\ UNCHANGED <<clientVars, gatewayVars, recorded, parks, crashes>>

-----------------------------------------------------------------------------
(* The environment: guacd, time, and the death of the gateway process.     *)

GuacdCloses(s) ==
    /\ guacd[s] = "live"
    /\ guacd' = [guacd EXCEPT ![s] = "closed"]
    /\ UNCHANGED <<clientVars, gatewayVars, recorded, outcome, parkVars, crashes>>

\* Mutant of Elapsed: a sleep that is over goes on counting.
ElapsedPastZero(t) == [t EXCEPT !.left = @ - 1]

Elapsed(t) == [t EXCEPT !.left = IF @ = 0 THEN 0 ELSE @ - 1]

\* One tick of the clock, while some timer still sleeps.
Tick ==
    /\ \E t \in timers : t.left > 0
    /\ timers' = {Elapsed(t) : t \in timers}
    /\ age' = [s \in Sessions |->
                 IF s \in parked /\ age[s] < Grace THEN age[s] + 1 ELSE age[s]]
    /\ UNCHANGED <<clientVars, gatewayVars, sessionVars, parked, parks, crashes>>

\* Sessions the gateway process holds: relayed by a handler, or parked.
Relaying(s) == {c \in Conns : gw[c] = "relay" /\ sess[c] = s}
Held(s) == s \in parked \/ Relaying(s) # {}

\* The process dies and is restarted: handlers, map and timers are lost and
\* guacd sees its streams close.
GatewayCrash ==
    /\ crashes < MaxCrashes
    /\ crashes' = crashes + 1
    /\ gw' = [c \in Conns |-> IF gw[c] = "none" THEN "none" ELSE "done"]
    /\ sess' = [c \in Conns |-> None]
    /\ sentCid' = [c \in Conns |-> None]
    /\ guacd' = [s \in Sessions |-> IF guacd[s] = "live" THEN "closed" ELSE guacd[s]]
    /\ outcome' = [s \in Sessions |-> IF Held(s) THEN "lost" ELSE outcome[s]]
    /\ parked' = {}
    /\ timers' = {}
    /\ age' = [s \in Sessions |-> 0]
    /\ UNCHANGED <<ws, gone, liveCid, status, recorded, parks>>

-----------------------------------------------------------------------------
ClientStep(c) ==
    \/ Handshake(c) \/ DialFails(c) \/ StatusAccepted(c) \/ StatusRefused(c)
    \/ BrowserGone(c) \/ BridgeEnds(c) \/ LinkBreaks(c)

GatewayStep(c) ==
    \/ Reject(c) \/ Resume(c) \/ OpenNew(c) \/ GuacdRefuses(c)
    \/ (\E s \in Sessions : GuacdReady(c, s))
    \/ RelayClientClosed(c) \/ RelayGuacdClosed(c)

Next ==
    \/ \E c \in Conns : ClientStep(c) \/ GatewayStep(c)
    \/ \E t \in timers : TimerFires(t)
    \/ \E s \in Sessions : GuacdCloses(s)
    \/ Tick
    \/ GatewayCrash

\* A task that can run does run: tokio polls every ready task.  Browsers, guacd
\* and crashes owe nothing: no page has to be closed, and a page that stays open and
\* only pings keeps its bridge after the gateway's end.  But guacd keeps a quiet
\* connection busy (its keep-alive), so a bridge whose browser is gone meets a
\* failing send.
Fairness ==
    /\ \A c \in Conns :
          /\ WF_vars(StatusAccepted(c)) /\ WF_vars(StatusRefused(c))
          /\ WF_vars(c \in gone /\ BridgeEnds(c))
          /\ WF_vars(Resume(c) \/ OpenNew(c) \/ Reject(c))
          /\ WF_vars(GuacdRefuses(c) \/ \E s \in Sessions : GuacdReady(c, s))
          /\ WF_vars(ws[c] = "closed" /\ RelayClientClosed(c))
          /\ WF_vars(RelayGuacdClosed(c))
    /\ WF_vars(\E t \in timers : TimerFires(t))
    /\ WF_vars(Tick)

Spec == Init /\ [][Next]_vars /\ Fairness

-----------------------------------------------------------------------------
(* Properties.                                                             *)

\* A guacd stream has at most one holder: two relays, or a relay and the map of
\* parked sessions, never own the same stream (handle and park_session pass it
\* on by value, but only the id is shared with clients and timer tasks).
OneHolder ==
    /\ \A c, d \in Conns :
          gw[c] = "relay" /\ gw[d] = "relay" /\ sess[c] = sess[d] => c = d
    /\ \A c \in Conns : gw[c] = "relay" => sess[c] \notin parked

\* The fate of a session's recording job is decided exactly when the gateway
\* lets go of the session: as long as a handler relays it or it is parked no job
\* is written, and no session is let go of without (recording.rs, step 2).
SettledWhenReleased ==
    \A s \in Sessions :
        guacd[s] # "unused" => (outcome[s] = "none" <=> Held(s))

\* A parked session always has the timer of its own park still to come, and that
\* timer fires when the session has been parked for the grace period: nothing
\* stays in parked_sessions for good.
ParkHasTimer ==
    \A s \in parked :
        \E t \in timers :
            t.sid = s /\ t.park = parks[s] /\ t.left + age[s] = Grace

\* The session as SessionLifecycle sees it.
Phase(s) ==
    IF guacd[s] = "unused" THEN "unused"
    ELSE IF s \in parked THEN "detached"
    ELSE IF Relaying(s) # {} THEN "attached"
    ELSE "over"

Lifecycle == INSTANCE SessionLifecycle
                 WITH phase <- [s \in Sessions |-> Phase(s)],
                      outcome <- outcome

\* The handlers, the map and the timers together implement SessionLifecycle: a
\* session is attached to one client at a time and is over once, with one job.
ImplementsLifecycle == Lifecycle!LifecycleSpec

\* A session whose guacd end has closed is settled in the end, whether a relay
\* reads the end of the stream or it was parked when guacd closed.
ClosedIsSettled ==
    \A s \in Sessions : guacd[s] = "closed" ~> outcome[s] # "none"

\* When the browser of a bridged connection is gone, the gateway's handler ends:
\* the session is parked or over, and does not keep a relay for ever.
GoneBrowserReleases ==
    \A c \in Conns : (c \in gone /\ gw[c] = "relay") ~> gw[c] = "done"

\* park_session: "Park a live guacd stream for `reconnect_grace_secs` seconds.
\* If a client reconnects within that window it will find the stream": a parked
\* session that is not resumed is removed only after the grace period.
GraceHonoured ==
    [][\A s \in parked \ parked' :
           \/ age[s] = Grace
           \/ \E c \in Conns : gw[c] = "request" /\ gw'[c] = "relay" /\ sess'[c] = s
           \/ crashes' # crashes]_vars

\* How far the grace period is kept all the same: a parked session that is neither resumed
\* nor lost with the process before its time is ended by the timer of an earlier park
\* (handler.rs, the task park_session spawns), never by its own.
OwnTimerHonoursGrace ==
    [][\A s \in parked \ parked' :
           \/ age[s] = Grace
           \/ \E c \in Conns : gw[c] = "request" /\ gw'[c] = "relay" /\ sess'[c] = s
           \/ crashes' # crashes
           \/ \E t \in timers \ timers' : t.sid = s /\ t.left = 0 /\ t.park < parks[s]]_vars

\* handler.rs, connection_id: "When the browser reloads, the client re-sends the
\* connection_id ... The gateway matches this to a parked guacd stream": with every
\* earlier page gone, an id sent again opens a new session only if the session it
\* names is really over.
ReloadResumes ==
    [][\A c \in Conns :
           /\ gw[c] = "request" /\ gw'[c] = "connecting"
           /\ sentCid[c] # None
           /\ \A d \in Conns : ws[d] = "bridged" => d \in gone
           => guacd[sentCid[c]] # "live"]_vars
=============================================================================
