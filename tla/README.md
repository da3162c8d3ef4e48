# Verification of fleetshell

TLA+ models of fleetshell, the TLC runs that check them on small instances, and
proofs, checked by TLAPS, that hold for every value of the constants.

Every definition is translated from the source. `PROJECT.json` names for each one
the lines it stands for, for each run what it checks, for each property a mutation
of the model that breaks it, and for each hazard of the code the properties that
watch it. Paths below are relative to `src/`.

## 1. The system

Fleetshell gives a user's browser access to devices in remote networks. Three
programs and a set of services take part.

| Part | Runs | Purpose |
|---|---|---|
| `fleetshell-portal` (SvelteKit) | web server, several processes | pages, device data, authorisation, enrolment, issues tunnel tokens |
| `fleetshell-client` (Rust, Tauri) | the user's machine | local HTTP server, 16 loopback slots, dials gateways |
| `fleetshell-gateway` (Rust) | one or more container hosts | raw tunnels, HTTP rewriting, Guacamole and SSH sessions |
| `guacrecord` (Rust, in the gateway crate) | next to each gateway | makes video and transcript out of recordings |
| guacd, Valkey, PostgreSQL | services | external |

A user enrols the client once: the portal opens a deep link, the client proves
that it runs (probe), sends a CSR and fetches a certificate. After that the device
page asks the portal for a token and POSTs it with a list of port rows to the
client's `/api/tunnel`. The client claims a slot (a loopback address), binds
listeners there and hands the addresses back. The browser connects to the slot,
the client dials the gateway with mutual TLS and sends one line of JSON, the
gateway answers with a status line and relays bytes.

### 1.1 Components

State, operations and what makes each part correct. The last column says where it
stands: **M** modelled, **P** planned, **-** left out (section 7).

| Component | State | Operations | Correct when | |
|---|---|---|---|---|
| Guacamole sessions: `gateway/src/handler.rs`, `client/.../guac_proxy.rs` | `parked_sessions`, timer tasks, one handler per connection, the slot's `live_connection_id` | handshake, open, resume, relay, park, expire, write job | a guacd stream has one owner; parked streams expire; the recording job is settled once; a reload finds its session | **M** |
| Connection slots: `slot.rs`, `server.rs`, accept loops in `tunnel.rs`, `guac_proxy.rs`, `ssh_proxy.rs` | `SlotManager` (16 entries, clock and task pool each), handler, monitor, loop and connection tasks, what the window shows | claim, bind, release, accept, push, monitor tick | every slot taken has one task that will free it, and that task frees only its own; nothing leaks; tasks end with the slot | **M** |
| Recording jobs: `recording.rs`, `bin/guacrecord.rs`, `scripts/run.sh` | files on a shared directory, inotify queue, the job in work | write job, scan, watch, process, move to `done/` | every job is done, once, also after a restart | **M** |
| Enrolment and probe: portal `routes/api/clients`, `client/probe`, `probes`, `enrollment`, `cert`; page `support`; client `portal.rs` | Valkey keys per client id, SSE streams, signing timer, page phase, client's poll loop | reset, probe, stream, request, sign, confirm, fetch | no event is missed; one attempt does not finish another; the page ends in the right phase | **M** |
| Authorisation cache: `cache.ts`, `authz.ts`, `deviceQuery.ts`, the edits of groups, personas, grants, settings | generation counter in Valkey, its copy in each process, cached groups, signatures and pages | look up, fill, commit, bump, invalidate | after a grant is revoked no process goes on serving it past its bound; a page is shown to those it was made for | **M** |
| Spools of devices and gateways: `device_spool.ts`, `gateway_spool.ts`, the pages' form actions | rows of two tables, four kinds of Valkey keys made from them | create, update, delete, each a sequence of statements and commands | keys are a projection of the rows; a save repairs what failures have left | **M** |
| Detail panel of the devices page: `devices/+page.svelte` | the page's variables, handlers that wait for answers | select, connect, deep link, probe, launch, load recordings, check address | what is shown and what is sent is of one device | **M** |
| Bulk spools: `classification.ts`, `subscriptions.ts`, `infoproxy.ts`, `dtm.ts` | none between runs | export all | - | **-** |
| Relays: `relay_guac`, `copy_tracked`, `relay_upgraded`, raw tunnel | two sockets with bounded buffers | copy in both directions | no byte is lost or reordered; one full side does not stop the other for good | **P** |
| Direct SSH: `ssh.rs`, `agent_proxy.rs` | agent channel before the status line, then the relay | agent frames, status, relay | each side knows which phase it is in on every path | **P** |
| HTTP transform: `transform.rs` | a keep-alive pair of connections | read request, rewrite, forward, read response | responses pair with requests; bodies end where the framing says | **P** |
| Pure algorithms: `port_in_spec`, `parse_ports`, `last_instruction_end`, `rewrite_ready`, segmenting in `guacrecord` | none | - | agree with a reference definition | **P** |
| TLS, health, configuration, tray, deep links, ZScaler bypass, pages, admin forms, schema, imports, installer, `fleetshell-portal-old` | - | - | - | **-** |

### 1.2 Interactions

* Browser -> client: a WebSocket per page on a slot. The page never sees the
  session id; the client keeps it per slot (`live_connection_id`) and sends it
  with the next handshake. Client -> gateway: one stream per WebSocket.
* Handlers of one gateway share `parked_sessions` only. The stream moves by value,
  the id is copied to client, timer task and map key.
* Handler -> timer task: `tokio::spawn`, never cancelled.
* Gateway -> guacrecord: a file. No other signal, no acknowledgement.
* Request handler -> slot -> monitor: an index into `SlotManager`, nothing more.
* Accept loop -> pool: a handle pushed after the task it stands for runs already.
* Portal processes share Valkey and the databases, and nothing else. What one process
  knows of another's edit is what the generation tells it.
* Form action -> Valkey -> aeroftp, ipsecnode: the keys are the only copy those programs
  read. Nothing tells the portal whether a key is there.
* Page -> portal, page -> client: requests whose answers find the page as it is by then.

### 1.3 What is hard here

Almost every component hands something on to a task that outlives the hand-over
and then knows it by a *name* (a session id, a slot index, a file name, a client
id). The interesting failures are the ones in which the name has come to mean
something else: a timer that ends a later park, a release that hits a later claim,
a signing timer that finishes a later enrolment. The second family are gaps between
looking and listening (scan and inotify watch, read and subscribe), the third the
effect of a crash between two steps, and the fourth a value that was right when it was
read and is stored, sent or shown after an await (a signature, a row, the address a device
had, the device on display). `PROJECT.json` lists the hazards with their lines.

## 2. Plan

| # | Module | Models | Abstract specification, theorems |
|---|---|---|---|
| 1 | `SessionLifecycle`, `SlotPool`, `JobBoard`, `EditVisibility` | the abstract specifications of 2, 3, 4 and 6 | done |
| 2 | `GuacSession` | client proxy + gateway handler + timers | implements `SessionLifecycle`; all safety proved (done) |
| 3 | `ClientSlots` | slots, monitors, loops, connections | implements `SlotPool`; all safety proved (done) |
| 4 | `RecordingJobs` | job files, guacrecord on several hosts | implements `JobBoard`; all safety proved (done) |
| 5 | `Enrollment` | portal endpoints, Valkey keys and channels, SSE, timer, page, client | safety proved (done) |
| 6 | `AuthzCache` | generation, process-local copies, groups, signatures, pages, all edits that invalidate them | implements `EditVisibility`; all safety proved (done) |
| 7 | `Spools` | concurrent saves against database and Valkey | safety proved (done) |
| 8 | `DevicesPage` | asynchronous handlers of the page's detail panel | safety proved (done) |
| 9 | `Relay` | half-duplex relays with bounded buffers | a pair of queues; not begun |
| 10 | `Transform`, `SshPhases` | request/response pairing; agent phase | pairing invariant; not begun |
| 11 | `Algorithms` | port specifications, instruction boundaries, segmenting | against reference definitions on bounded inputs; not begun |

`GuacSession` lets go of a session and settles its job in one step, `RecordingJobs`
opens that step up (create, write, close) and goes on from there; the two meet in
the outcome `written`, which is `Create` of `RecordingJobs`. `ClientSlots` ends where
a WebSocket is accepted (`detached`), `GuacSession` begins there (`Handshake`).

`Spools` begins where the address form of `DevicesPage` is saved. `AuthzCache` decides
which devices the list of that page shows; the two share no state.

Constants carry named assumptions. No module that has proofs, or will have them,
declares a `RECURSIVE` operator.

## 3. Modules

### 3.1 GuacSession

One connection `c` is one WebSocket, the TLS stream the client dials for it and the
gateway task that serves it. Connections and guacd sessions are numbered in the order
they come to be, so that renumbered runs are not told apart.

| Model | Code |
|---|---|
| `ws[c]`, `gone` | `handle_guac_ws` and `bridge` of `guac_proxy.rs`; whether the browser's end is closed |
| `liveCid` | `live_connection_id` of the slot |
| `gw[c]`, `sess[c]` | where `handle` (guac mode) of `handler.rs` is and what stream it holds |
| `status[c]` | the status line on its way to the client |
| `parked`, `timers` | `config.parked_sessions`; the tasks `park_session` spawns |
| `parks`, `age` | history: which park a timer belongs to, how long the present one lasts |
| `outcome`, `recorded` | what became of `write_job_file`; whether there was something to record |
| `Handshake`, `DialFails`, `StatusAccepted`, `StatusRefused`, `BridgeEnds`, `LinkBreaks` | steps of `handle_guac_ws` |
| `Reject`, `Resume`, `OpenNew`, `GuacdReady`, `GuacdRefuses` | `handle` up to the status line |
| `RelayClientClosed`, `RelayGuacdClosed` | the two ways `relay_guac` returns, with what `handle` does then |
| `TimerFires` | the body of the spawned timer after its sleep |
| `GatewayCrash` | the container's entry point restarts the process; map, timers and streams are gone |

Two points deserve care. A page that closes is seen by the client's `browser_task`
alone. The stream to the gateway is closed only when a byte from guacd cannot be
delivered, so `BrowserGone` and `BridgeEnds` are two steps and a new connection may
come in between. And the removal from the map under the lock is what makes `Resume`
and `TimerFires` exclude each other, so each is one step. `relay_guac` can return
"client closed" for a stream whose guacd end has just closed, too; the session is then
parked dead and its timer settles it.

### 3.2 SessionLifecycle

What a gateway promises about one session: attached, detached, attached again, over
exactly once, and the fate of the recording job is decided in the step that ends it.
`GuacSession` maps a session to *detached* when it is in the map, *attached* when some
handler relays it, *over* otherwise.

### 3.3 ClientSlots

A claim is a request and a kind of rows (`guac`, `ssh`, `tunnel`), because
`tunnel_handler` serves the kinds one after the other, each on a slot of its own.

| Model | Code |
|---|---|
| `req[r]`, `todo[r]` | `tunnel_handler` of `server.rs`; the groups of rows still to serve |
| `slots[i]`, `idx[k]` | `SlotManager.slots`; the index the claim was given |
| `idle[k]` | time since the `last_active` atomic of the claim was stored |
| `listener[l]`, `conn[c]`, `of[c]` | an accept loop (one per port of the claim's rows); the tasks it spawns and whose they are |
| `monitor[k]` | `run_idle_monitor` |
| `shown[i]` | the last `slot-update` event the window got |
| `Claim`, `ClaimFails`, `Bind`, `BindFails`, `GiveBack` | the three branches of `tunnel_handler`, which have the same control |
| `MonitorReports`, `MonitorExpires`, `MonitorReleases`, `MonitorEnds` | one tick; the wait for the manager's mutex; `release`; the last event |
| `Accept`, `Push`, `LoopDropped`, `LoopBreaks` | the accept loops |
| `Traffic`, `ConnEnds` | the connection tasks |

The steps are cut at awaits and locks. The monitor decides (`MonitorExpires`), waits for
the mutex, releases, and only then emits its event, so traffic, another claim and its
events can come in between. A tunnel connection is spawned (`accepted`) before its handle
is pushed (`pooled`). A WebSocket session is spawned by the HTTP library when the upgrade
is done and is in no pool (`detached`).

A tunnel has one accept loop per port, and all of them share the pool of the slot (`Ports`,
`Loops`). A release drains the pool under its lock. A loop that waits at that moment is dropped; one
that a thread is just polling is `caught`: it goes on to its next await that yields, and
`accept().await` does not yield while the backlog has a connection, so a caught loop may accept and
push any number of connections (as many as tokio's budget for one poll allows) into the pool that
nobody drains again. Those are the `orphan`s. `of[c]` is empty again when `c` has ended, and its
number is used anew, so that the bound is on connections at one time only.

`SlotPool` is what the client promises of all that, without indices and tasks: a claim waits, is
set up on a slot nobody else holds, is served there and is over; it gets one slot, gives back that
slot and no other, at most once, and has accept loops that were not told to stop only while it is
served. `Stage` maps a
claim to *waiting* while it has no index, *over* when its slot no longer holds it, *served* while
its monitor is responsible and *set up* otherwise.

### 3.4 RecordingJobs

A host is a container with a gateway and a guacrecord, started and restarted together
by `scripts/run.sh`. The jobs directory is shared by all hosts; an inotify watch sees
what its own kernel does.

| Model | Code |
|---|---|
| `file[j]`, `writer[j]` | the job file; `tokio::fs::write` is open (`empty`), write (`full`), close |
| `rec[n]`, `listed[n]`, `seen[n]` | `main` of `guacrecord.rs` in `read_dir` |
| `queue[n]` | inotify events, in the kernel or in the channel |
| `cur[n]`, `runs[n]`, `unmoved` | `process_job`; how often a job was done since the start; failed renames |
| `Start`, `ProcessEntry`, `Watch`, `ProcessEvent`, `FinishJob` | `main` and `process_job` |

`JobBoard` knows neither files nor events. A job is written, noticed, done; one that was noticed is
not dropped, unless a host dies (it waits again) or its rename fails (it is stuck and may be done a
second time by the same guacrecord); a host does a job once in its life otherwise; and two hosts
are at one job only if one of them is still scanning. `Status` maps a readable job to *noticed*
when it is in some host's listing, queue or hands (`InReach`). That a job may be *waiting* with
nobody to notice it is the gap of `jobs_gap`.

### 3.5 Enrollment

An attempt is one page and the run of `handle_enroll` its deep link starts. All attempts are
of one account: they share its client id, hence the keys, the channels and the files.

| Model | Code |
|---|---|
| `slot`, `consumed`, `cert`, `confirmed` | the Valkey keys `client:<id>:probe`, `...:probe:consumed`, `...:cert`, `...:enrollment:confirmed` |
| `page[a]` | the phase in `support/+page.svelte` |
| `source[a]`, `stream[a]` | the page's `EventSource`; the portal's handler of `probes/<id>/stream` or `enrollment/<id>/stream` |
| `view[a]`, `sent[a]`, `inbox[a]` | what the enrolment stream has read; its set of events sent; messages its subscriber has not handled |
| `run[a]`, `files`, `latest` | `handle_enroll` of `portal.rs`; certificate and key on disk; whose run archived them last |
| `call[a]`, `timer[a]` | the portal's handler of the run's request; the `setTimeout` that signs |
| `Reset`, `OpenLink`, `Leave` | `POST /api/clients`; the page |
| `ProbeRead` ... `EnrollMessage` | the two streams: the probe stream reads and then subscribes, the enrolment stream the other way round |
| `ProbeConsume` ... `ConfirmPublish` | the requests; commands awaited one by one are steps of their own, a `Promise.all` is one |
| `Sign`, `SignPublish` | the signing timer, which no reset and no leaving page stops |
| `RunFails`, `StreamBreaks`, `CallDies`, `TimerDies` | a lost answer, a broken stream, a portal process that ends |

`early`, `mixed`, `lost`, `confirmedBy` and `unsaved` are history: they say for which attempts
and events a property has something to promise. An event reaches an open page in the step that
sends it. Keys do not expire in the model: the token and the flag `consumed` live five minutes
and the other keys longer than any stream or poll loop. Left out are the creation of the client id
itself, asking for the id as a phase of its own (it is `Reset`) and the client's reload of its TLS
configuration. `PhaseGoesForward` has the exception that the code has: the replay of
`csr-received` after `cert-ready` came in live sets the page back one phase.

### 3.6 AuthzCache

A list request resolves the user's groups, reads the generation, derives the signature of the
groups' scopes, reads the generation again and takes the page of that generation and signature
from the cache or the database. An edit of grants is committed and then raises the generation; a
change of membership is committed and then deletes the user's cached groups.

| Model | Code |
|---|---|
| `scopes`, `member` | what `authz_resolve` returns for a group (GLOBAL database); `group_membership` (LOCAL) |
| `gen`, `groupsKey`, `sigKey`, `pageKey` | Valkey `authz:gen`, `authz:groups:<user>`, `authz:sig:<g>:<groups>`, `list:dev:<g>:<sig>` |
| `memo[p]` | `genCache` of a portal process |
| `req[r]`, `adm[a]` | a list request and an administrator's request, cut at each await |
| `Groups` ... `PageSet` | `resolveGroupIds`, `authzGen`, `scopeSignature`, `load` of the devices page |
| `CommitGrants`, `Flush`, `CommitMembership`, `DeleteGroup`, `DeleteGlobal`, `DeleteLocal` | the form actions of grants, roles, settings, groups and personas |
| `Forget`, `Incr`, `Del` | `bumpAuthzGen`, `invalidateUserGroups` |
| `Tick` | time, in units of which `GEN_SOFT` make `GEN_SOFT_MS` |

A signature is the set of scopes it is the hash of, and a page is the set of scopes its devices
are in. Any entry may be missing at any GET, which covers the TTLs, an evicted key and a failed or
switched-off GET or SET. `ver`, `bumped`, `regressed`, `loose`, `late`, `blind` and `overlap` are
history. The properties name their exceptions, and each is a behaviour of the code:

* the generation 0 of a failed read is never bumped: its entries live until their TTL (`blind`);
* the SET of the first generation can undo INCRs that came between the GET and it (`regressed`);
* groups read before a change of membership can be stored after its DEL, and a lost DEL leaves
  them as well, up to 600 s (`loose`). `deleteGroup` whose LOCAL delete fails skips both
  invalidations, and a lost INCR leaves every page to its TTL;
* the second `authzGen()` may return a newer generation than the signature was made under, and
  scopes may change between signature and query: then a page of other scopes is stored under the
  signature, up to 45 s (`overlap`).

`EditVisibility` is what is left when generations, entries and processes are taken away: edits are
announced after their commit, an announcement is in force `Delay` later, and a request works with one
version of the grants, which has every edit in force when the request began. The bump of a
generation is the announcement (`Announced`), `GEN_SOFT` the delay, the version under the request's
signature what it works with (`SeenOf`). The first two exceptions above are part of the promise:
`excused` is `blind`, `lapsed` is `regressed`. The version is that of the *signature*; what the page
stored under it may show besides is the business of `ForeignPageOnlyUnsettled`.

### 3.7 Spools

A request is a sequence of single SQL statements and Valkey commands, any two requests interleave
between any two of them, and each may fail anywhere; the code catches what fails while spooling
and reports the save as done.

| Model | Code |
|---|---|
| `dev`, `gate` | tables `device` and `gateway` |
| `sys` | the hash `systems:by-ip:<ip>` |
| `psk`, `site`, `nat` | `fleetipsec:psk`, `:site`, `:nat` of a public address |
| `op[e]` | the local variables of one request: what it was asked, read and has still to do |
| `UpdateDevice`, `WriteDevice`, `CreateDevice`, `DeleteDevice`, `DropDevice` | the form actions of the devices page |
| `LoadDevice`, `DelHash`, `SetHash`, `UnlinkOld` | `spoolDeviceOnSave`, `spoolDevice`, `deleteDeviceKey` |
| `ReadGateway` ... `SetNat` | `spoolGateway` |
| `UpdateGateway` ... `UnlinkGateway` | the form actions of the gateways page, `deleteGatewayKeys` |
| `Fail` | a statement or command that fails, or the end of the process |

Of a device's row there are its address, its gateway and the hash `buildDeviceHash` makes of the
rest; of a gateway its public address, PSK and NAT mode. That an address and a gateway are
*concerned* by a request (`Concerns`) is what the exceptions are stated with: `raced` are addresses
two requests concerned at once, `failed` those of a request that failed, `shared` those two rows
had at once. All are behaviours of the code: two devices that swap addresses one after the other
share one in between, and the second save removes the key the first has just written; the PSK of
a deleted gateway comes back when a spool that read it before the delete writes it after; a failed
spool stays as it is until the next save. `docs/valkey_spool.md` calls the keys a projection and
leaves divergence to the server log; `SaveRepairs` says what the next save mends.

### 3.8 DevicesPage

The detail panel in one browser tab: what a handler does between two awaits is one step.

| Model | Code, `routes/(app)/devices/+page.svelte` |
|---|---|
| `d`, `tab`, `portRows` | the selected device, the open tab, whose rows are ticked |
| `connectState`, `target`, `connected`, `probeState` | `connectState`; `connectedTarget`; token, rows and slot of the open tunnel; `probeState` |
| `attempts[a]`, `probes[p]` | `doConnect` with `launchViaDeepLink`, and `openItem` with `executeItem`, while they wait |
| `sent` | whose token, target, rows and slot the last request to the client was put together from |
| `recDays` ... `recLoadedFor`, `loads[l]` | the Recordings tab; `loadRecDays` and `openRecDay` while they wait |
| `field` | what the address field of the Manage tab shows: what was typed, or what the form was created with |
| `leftIp`, `ipInUse`, `ipCheckSeq`, `ipCheckTimer`, `checks` | what the script knows of the address, and the warning; `checkIpUnique` while it waits |
| `SelectDevice`, `OpenTab` | a click with the effects it sets off: `resetConnect`, reload, check, a new form |

Everything that belongs to a device is represented by the device. `strayed` (a reset has overtaken a
connect handler, and neither a reset nor Connect has found all handlers at their end since),
`doubtful` (loads have overlapped, one has outlived a change of device, or a load of days has failed,
since days were last loaded with no load waiting) and `missed` (the latest check failed) are history.
They are what the code
has no guard against: `doConnect` and `launchViaDeepLink` read the rows and credentials of the
moment after an await and send them with the token and target of the device they began with, and
an overtaken attempt shows "Tunnel open" for the device then on display, and leaves there a token
whose target `resetConnect` has cleared, which a later click sends; `openItem` launches on the slot
of the moment; `loadRecDays` notes its answer for the device selected by then
(`recLoadedFor = d.id`), so that the right list is not loaded; after a failed load of days the
list before stays on the page. The address check alone has a guard (`ipCheckSeq`), and
`WarningIsCurrent` shows that it suffices for `leftIp`, the address typed last for the device shown or
else its own. That is not always what the field shows: a change of tab creates the form anew with the
device's address (`+page.svelte:783`), `leftIp` and the warning stay (`:199`).

Not modelled: a closed panel (no device selected), devices without applications or tunnel gateway, the count of the list (`+page.svelte:33`, answers
in any order, no guard: the same race as that of the loads), download links and pickers.

## 4. Runs

| Run | Instance | Checks |
|---|---|---|
| `guac_sessions` | 3 connections, 1 session, grace 1, 1 crash; 173 000 states | `TypeOK`, `OneHolder`, `SettledWhenReleased`, `ParkHasTimer`, `ImplementsLifecycle`, `OwnTimerHonoursGrace`, `ClosedIsSettled`, `GoneBrowserReleases` hold |
| `guac_grace` | 3 connections, 1 session, grace 2 | `GraceHonoured` is violated |
| `guac_reload` | 2 connections, 2 sessions, grace 1 | `ReloadResumes` is violated |
| `client_slots` | 2 slots, 2 requests with 3 claims, 2 ports in one tunnel, 2 connections at a time, timeout 1; 348 000 states | `TypeOK`, `OneResponsible`, `LoopsEndWithSlot`, `OnlyCaughtLoopsLeak`, `FreeIsShown`, `ImplementsPool`, `TakenIsShown`, `QuietSlotIsFreed` hold |
| `slots_linger` | 1 slot, 1 connection | `SessionsEndWithSlot` is violated |
| `recording_jobs` | 2 hosts, 2 jobs, 1 crash; 224 000 states | `TypeOK`, `ImplementsBoard`, `QueuedIsDone`, `LeftoverIsDone` hold |
| `jobs_gap` | 1 host, 1 job | `EveryJobIsDone` is violated |
| `enrollment` | 2 attempts, 1 page open at a time, 1 failure; 2 408 000 states | `TypeOK`, `NoEventMissed`, `EarlyStreamSeesResult`, `OwnProgress`, `IdentityKept`, `PhaseGoesForward` hold |
| `enroll_stale` | 2 attempts, 1 page at a time, no failure | `NoStaleEnrolled` is violated |
| `authz_cache` | 2 processes, 1 list request and 1 administrator at a time, 2 lists, 2 edits, 1 failure, `GEN_SOFT` 1, 2 instants; 1 960 000 states | `TypeOK`, `SigReflectsBump`, `ImplementsVisibility`, `GroupsStaleOnlyLate`, `ForeignPageOnlyUnsettled` hold |
| `spools` | 2 devices, 2 gateways, 2 addresses of each kind, 2 hashes, 2 requests, 1 failure; 382 000 states | `TypeOK`, `DeviceKeys`, `GatewayKeys`, `NoMixedHash`, `SaveRepairs` hold |
| `devices_page` | 2 devices, 2 attempts, 1 probe, 2 loads, 2 days, 2 addresses, 6 things the user does, 2 polls; 2 282 000 states | `ShownIsOfDevice`, `RecordingsOfDevice`, `WarningIsCurrent`, `RequestsOfOneDevice` hold |

Why the bounds are enough:

* `guac_sessions`. Three connections are needed for the second park of one session
  (open, resume, resume) and for two connections that name the same parked id. With
  one session a `GuacdReady` after the first is blocked, and the connection waits for
  its 502; interference between two sessions is what `guac_reload` has, and the safety
  properties are proved for any number of both. `Grace = 1` tells "due" from "not due".
  A second crash adds nothing: a crash resets all that the gateway knows.
* `guac_grace` has `Grace = 2`, the shortest period that leaves room between the parks.
* `client_slots`. Request `r1` asks for two kinds, `r2` for one or for none, so that two
  slots can run out between the groups of one request (503 with a slot kept), a slot is
  used again by another claim, and two monitors of one slot overlap. The tunnel of `r1`
  has two ports, so that one of its loops can be caught and the other dropped; two connections at
  a time can come from one caught loop or from both. The code has 16 slots; the safety properties
  are proved for any number, of ports and connections as well.
* `recording_jobs`. Two hosts for the shared directory, two jobs for a queue with something
  behind a failing job, one crash for left-over files. `unmoved` lets a rename fail once for
  each job; without that bound `runs` would grow for ever.
* `enrollment`. Two attempts are what stale keys, late timers and overlapping runs need. One page
  at a time is one tab; the client run, requests and timer of the page before go on beside it. One
  failure can hit any stream, request, timer, run or file.

* `authz_cache`. Two processes, because a bump clears the copy of one of them. Two lists, the
  second of which meets what the first has stored; two edits, for a bump that is undone and for a
  page between two of them. One request at a time suffices for the stale stores, since edits come
  in between any two of its steps; the proofs have any number.
* `spools`. The tables begin with one device and one gateway that were imported, so that saves meet
  keys that are not there. Two requests that overlap; a second one after a failed one, which is what
  `SaveRepairs` needs. One of the two hashes lacks a field of the other: HSET without DEL would
  leave it.
* `devices_page`. Two devices to be mistaken for each other, two attempts (one overtaken, one new),
  two loads. Six clicks reach: connect, select another, connect there, launch, and back. The proofs
  have any number of everything.

`CHECK_DEADLOCK FALSE` is set in every run: the numbers of connections, requests and jobs are
bounded, and the system may stop when they are used up and every session is over.

## 5. Fairness

* A task that can run does run (weak fairness of each handler, monitor, bridge and
  timer): tokio polls every task that is ready, and none of the modelled ones blocks a
  worker thread.
* Time passes (`WF(Tick)`).
* In `ClientSlots` these are the handlers (`WF(Handler(r))`), the monitors (`WF(Monitor(k))`) and the
  time; no property needs an accept loop to push or to end.
* Nothing is assumed of users, browsers, guacd's decision to close, crashes, or of a
  connection that comes or sends. Two premises about the environment are used:
  guacd sends its keep-alive on every live connection, so a bridge whose browser is
  gone meets a failing send (`WF(c \in gone /\ BridgeEnds(c))`), and `guac::connect`
  returns, one way or the other. A page that stays open keeps its bridge even when the
  gateway has closed, since `bridge` keeps a sender for the pings.
* guacrecord: each host's guacrecord takes its next step, and processing ends. An open job file
  is closed, by its writer or by the writer's death.
* There is no fairness on crashes, and they are bounded by `MaxCrashes`.
* `AuthzCache`, `Spools` and `DevicesPage` state none. Their properties are about what is true
  whenever nothing is under way; that a request of a portal ends is its runtime's business, and a
  page need not be looked at until it does.
* `Enrollment` states none: its user may stop anywhere, and what has to come in the end depends on
  signing timers that live in one process. Its properties are safety properties.

## 6. Proofs

| Theorem | Says |
|---|---|
| `GuacSessionProofs!TypeCorrect`, `OneHolderAlways`, `SettledAlways`, `ParkTimerAlways` | the four invariants of `guac_sessions`, for every number of connections, sessions, crashes and every grace period |
| `GuacSessionProofs!Implements` | `GuacSession` implements `SessionLifecycle` |
| `GuacSessionProofs!OwnTimerAlways` | a park is cut short by the timer of an earlier one only: the finding `guac_grace` is the whole exception |
| `DecidedAlways`, `OwnershipAlways`, `RestraintAlways`, `VisibleAlways` (each in the module of its component) | what the abstract specification says holds of the detailed one |
| `ClientSlotsProofs!TypeCorrect`, `OneResponsibleAlways`, `LoopsEndAlways`, `OnlyCaughtLoopsLeakAlways`, `FreeIsShownAlways` | the five invariants of `client_slots`, for every number of slots, requests, plans, ports and connections |
| `ClientSlotsProofs!ImplementsThePool` | `ClientSlots` implements `SlotPool` |
| `ClientSlotsProofs!FreedByOwnerAlways` | a slot is freed by the task that is responsible for the claim in it |
| `EnrollmentProofs!TypeCorrect`, `NoEventMissedAlways`, `IdentityKeptAlways` | three invariants of `enrollment`, for any number of attempts that overlap in any way, open pages and failures |
| `EnrollmentProofs!OwnProgressAlways`, `EarlyStreamAlways` | its two invariants about attempts that overlap with no other |
| `EnrollmentProofs!PhaseForward` | its action property, for such attempts too |
| `RecordingJobsProofs!ImplementsTheBoard` | `RecordingJobs` implements `JobBoard`, for any number of hosts, jobs and crashes |
| `RecordingJobsProofs!JobsTypes`, `OnceHolds`, `OverlapHolds` | its types, and `OncePerLife` and `OverlapNeedsScan`, on which the refinement rests |
| `AuthzCacheProofs!ImplementsEditVisibility` | `AuthzCache` implements `EditVisibility`, for any number of processes, requests, administrators, users, groups and scopes |
| `AuthzCacheProofs!TypeCorrect`, `SigReflectsBumpAlways`, `GroupsStaleOnlyLateAlways`, `ForeignPageAlways` | the four invariants of `authz_cache` |
| `AuthzCacheProofs!SettledEditSeenAlways` | `SettledEditSeen`, the form the promise has in the state: no request holds a signature older than an edit settled when it began |
| `SpoolsProofs!SpoolsTypes`, `NoMixedHashHolds`, `DeviceKeysHolds`, `SpoolsGateProofs!GatewayKeysHolds` | the four invariants of `spools`, for any tables, hashes, requests, edits and failures |
| `SpoolsGateProofs!SaveRepairsHolds` | its action property |
| `DevicesPageProofs!ShownHolds`, `RecordingsHold`, `WarningHolds`, `RequestsHold` | all of `devices_page`, for any number of devices, days, addresses and handlers under way |

Assumptions: `SessionAssumption` (bounds and grace are natural numbers), `SlotsAssumption` (at
least one slot, plans are sets of kinds, a timeout of at least one tick), `EnrollmentAssumption`
(the three bounds are natural numbers), `JobsAssumption`, `AuthzCacheAssumption`, `SpoolsAssumption`
and `PageAssumption` (sorts are apart from `None` and from each other, initial tables have the types
of tables, bounds are natural numbers; a device's hash is never empty, since `dtm` is always in it;
finitely many administrators, because their requests are counted). TLC evaluates all of them.

**GuacSession.** `OneHolder` alone is not inductive. A session that opens must not be held yet,
which needs `Opened` (a session guacd has not opened is neither relayed nor parked nor settled),
and a resumed session must not be relayed, which is `OneHolder` itself. `SettledWhenReleased` is
kept by the steps that let go only because nobody else holds the same session - `OneHolder` again.
`ParkHasTimer` needs `TimersOfThePast`: the timer a park spawns is a new one, so no other step of
the same session can take it away. `IInv` is the conjunction. It is proved in three parts -
types; `Ownership`; `Timing` - each with one step per action. `Implements` follows step by step
from `IInv`: three actions are lifecycle steps of one session, the crash is `LoseAll`, and the
others leave every phase as it is.

`GraceHonoured` is violated (section 7); `OwnTimerHonoursGrace` is how far it holds. Its
invariant `OwnTimers` says that the timer of the present park has slept exactly as long as the
session has been parked. A park spawns it with the full period and age 0, `Tick` moves both, and
every other step leaves the two alone. When such a timer is due the session is `Grace` old, so a
timer that ends a younger session is one of an earlier park, and by `TimersOfThePast` it is none
of a later one.

**ClientSlots.** `OneResponsible` is the heart: *claimed* holds for a claim exactly when its
handler is between claim and bind or its monitor is before the release, never both, and the index
such a task holds is that of its own claim. For a new claim it needs `Untouched` (a group of rows not served
has no monitor, no loop, no connection and, but for the group in work, no index), `RowsLeft` and
`Indexed`. `OnlyCaughtLoopsLeak` needs `HandedOver`: a handle in the pool is of a loop still open, and
one not pushed yet is of a loop that is open or caught. A release keeps it, since it aborts what is in
the pool and catches every loop that has a handle to push; with `LoopsEndWithSlot` the loop of a claim
without slot is not open. `FreeIsShown` needs
`ShownHasMonitor`: whatever is shown as taken was shown so by a monitor's claim that has still an event to send.

`ImplementsThePool` goes through the tasks that may change a slot. A claim's stage depends on its
index, its slot and its monitor only (`StageKept`), so most steps stutter. `Bind` starts the monitor
and opens the accept loops in one step, which is `Serve`. For a release (`GiveBack`,
`MonitorReleases`) the invariant is what counts: the task names a slot by its index, `GiveUp` asks
that the slot holds the task's own claim, and `OneResponsible` says so; that the stage is then
*over* for good is `Untouched`, by which an index is given once.

**Enrollment.** `IInv` has two halves. What it says of an attempt alone holds however many
attempts overlap. `Covered` extends `NoEventMissed` to a stream that is still replaying: every step
the keys have passed is in what it is about to replay, is sent, or is to come. It is kept because an
event that is to come stays so until it is published (`ToComeStep`), and a publication reaches
every stream that has subscribed; a process that dies in between is counted in `lost`. `Serving`
says that a request is served only for a run that waits for it or has given up, and that the timer
is started by the last step of the request for a certificate; without it a second request of the
same run could overwrite the first. `Kept` extends `IdentityKept` to the run in progress. `Shape`
ties page, EventSource and handler together. The other half concerns attempts that overlap with no
other, and rests on `Own`: while such an attempt is active no other is, so that the shared keys say
what it did itself. `Progress` and `Early` then extend `OwnProgress` and `EarlyStreamSeesResult` to
what the page has read and what lies in its inbox. `PhaseForward` follows step by step from `IInv`:
the only backward step is the replay of `csr-received`.

**RecordingJobs.** A guacrecord can meet a job twice in its life, in `read_dir` and as an event.
`Budget` counts: how often a host has done a job, and whether it is at it, is at most one for `seen`
plus one for an event that was spent. `Events` makes the second term right: the event is to come
(`Pending`), or one host has it in its queue or in work (`Held`), and queues hold no job twice.
`OverlapNeedsScan` is the uniqueness of `Held`. `Moved` brings the bound down from two to one for
jobs that could be moved.

`ImplementsTheBoard` needs in addition `Readable`: what is worked on or could not be moved was
written. `Take` asks for a budget and for hosts apart; both come from the invariant of the state
after the step, since a guacrecord does not look before it takes a job. A crash is `Die` with the
jobs that only the dead host had in reach as those forgotten. `EveryStepOfBoard` has one
lemma per action.

**AuthzCache.** Types already need a count: generation and version are bounded by the edits begun,
less those still to write or to bump. `GenInv` says what the holder of a generation, a process, a
request or an entry, may have missed: only what was bumped later than the time it keeps. `DataInv`
ties entries to versions, `GroupsInv` cached groups to what requests have read.

`ImplementsEditVisibility` adds `Turns`: a request takes its signature in its first turn and is excused
only when it is about to, so that it reads once. `EveryMove` sorts what a step makes of a request into
six moves (it begins, ends, goes on, gets a generation, gets its signature, stores it), each a step of
`EditVisibility` or a stutter. `must` is a function of the state, not a variable: the edits in force at
the request's `start`. `EditsKept` says that it does not grow while the request is under way (a bump
of now is in force `GEN_SOFT` from now), and `BeginsInForce` that it is what is in force when the
request begins. That a reading request has all of them is `SettledEditSeen` in the state after the
step. The first `GenInit` that undoes a bump is `Lapse`.

**Spools.** `Shape` says which fields of a request are set where. `NoMixedHash` needs `Emptied`:
between DEL and HSET the key is empty, unless the address is in `raced`. A HSET of another request
at that moment would concern the same address, so the two had met when the later of them came to
concern it, and `Meetings \subseteq raced` is kept by every step.

`DeviceKeys` and `GatewayKeys` speak of addresses that no request concerns; their invariants say what
may be out of order while one does. At an address that is not in `raced` there is at most one such
request. For a device's address `Pending` says what this request has still to do: until it writes, the
row is what it read before and the key is in order (`Settled`); then the key is its own to rewrite up to
HSET, or its own to remove up to UNLINK. For a public address the requests are more (`Touches`: about the
gateway that has or had it, or about a device that is, was or will be attached to that gateway), and
`Owing` says that the keys are in order (`InOrder`), or that the gateway is among those still to be
spooled, or, at a gateway that has moved, that the old keys are still to be unlinked. Of the gateway
being spooled it says that row and devices are as they were read, and that the keys already set are
those of that row. A step of the request keeps what is owed, a step of any other does not touch the
address, and a request that begins to concern it finds it in order. `Kinds` and `GateKinds` separate
requests about devices from those about gateways.

`SaveRepairs` may assume nothing of the keys a request begins with. `Repairing` says instead, for each
place of a request that runs alone, what it has read (it is still what the tables hold, since nobody
else writes) and what it has made good: its own hash once it is set, the old one once it is unlinked, and
the keys of every gateway it concerns unless that gateway still waits (`Due`). A spool of one gateway
does not undo another's, because each has its address to itself (`Sole`); where two share one, the
property promises nothing. TLC checked the three invariants on the instance of `spools` before they were
proved.

**DevicesPage.** The tabs share only the selected device and have an invariant each. `ConnInv`:
except from the moment a reset overtakes a handler until a reset or Connect finds all at their end, the
attempt under way is the only one, it keeps the page busy and so its rows selected, and a probe belongs
to the open tunnel. `RecInv`: the load under way is the only one, and the state of the panel is the one
it waits for. `IpInv`: the check with the latest number is about `leftIp`, unless the timer has still to
fire, and the field shows `leftIp` or what it was created with.

**What the abstract specifications say.** A refinement is worth what the abstract specification promises.
Each of the four states that at its end as an invariant (`Decided`, `Ownership`, `Restraint`, `Visible`), and
`LifecycleDecides`, `PoolOwnership`, `BoardRestraint` and `VisibleByPromise` prove it from the abstract
specification alone, each action rewritten in terms of the mapped variables first. `DecidedAlways`,
`OwnershipAlways`, `RestraintAlways` and `VisibleAlways` carry it over to the detailed specifications.

`OncePerLife`, `OverlapNeedsScan`, `FreedByOwner` and `SettledEditSeen` are properties of no run: they are
theorems only. `Restraint` contains the second and, with *stuck* for a failed rename, the first; `Visible`
is the last in terms of requests; that a slot goes back through its own claim is `GiveUp`.

Only model-checked: the liveness properties, and of course the violations. Liveness rests on fairness and
`ENABLED`, which the prover does not handle. Every invariant, every action property and every
refinement that a passing run checks is proved as well.

## 7. Findings and limits

Five runs show a disagreement between what a comment says and what the code does:

* `guac_grace`: the timer of an earlier park ends a session parked again before its grace period
  is over (`handler.rs:745`). `OwnTimerHonoursGrace` shows that nothing else does.
* `guac_reload`: a reload whose connection arrives before the old bridge has ended does not find
  its session; a second one is opened (`handler.rs:366`).
* `slots_linger`: WebSocket sessions survive the release of their slot (`guac_proxy.rs:191`,
  `ssh_proxy.rs`).
* `jobs_gap`: a job closed between the directory scan and the inotify watch waits for the next
  start (`guacrecord.rs:119`).
* `enroll_stale`: a page of a new attempt shows "enrolled" although its own client has not confirmed,
  when the run of an attempt that was left goes on beside it (`routes/api/clients/+server.ts:43`).

Not modelled, and why:

* The byte relays (`relay_guac`, `copy_tracked`, `relay_upgraded`), the HTTP transform proxy, the
  phases of a direct SSH connection, and the gateway's authorisation of a connection. They come next
  in the plan; nothing of them has been begun.
* The pure algorithms: the guacd codec, the parser of keystrokes, the segments and the subtitles of a
  recording, `port_in_spec`. They need a reference definition over bounded inputs, not a state machine.
* The bulk spools (classification, subscriptions, info proxy, DTM): each is exported in one pass and
  keeps nothing between passes that another step could meet.
* TLS, the verification of a JWT and the SSH library (library calls), and the SQL of
  `authz_resolve`, whose answer is a function of the grants in `AuthzCache`.
* Pages and forms whose server side is one statement; the lists, filters and page counts of the
  devices page (its detail panel is modelled); configuration and desktop integration (input and
  output without state shared between steps).
* `fleetshell-portal-old` (superseded, the same enrolment protocol), schema, import scripts, test
  servers and the installer.

Weak points of the code that were met while reading and that no property excludes:

* After a change of tab the Manage form shows the device's own address again, beside the warning about
  an address typed before (`devices/+page.svelte:783`, `:199`); `WarningIsCurrent` says which of the
  two the warning is about.
* `SlotManager::release` is to "abort all connection tasks" (`slot.rs:112`), but an accept loop that is
  being polled goes on pushing into the drained pool (`tunnel.rs:353-369`); `OnlyCaughtLoopsLeak` says
  from which loops connections escape, not that none does.
* After an overtaken attempt has come in late, the panel keeps its token with the target of nothing, and
  a click on a button sends the two (`devices/+page.svelte:373`), until the next reset.
* The monitor does not look at the clock again once it waits for the manager's mutex: bytes that flow
  then do not keep the slot (`slot.rs:167`).
* An idle keep-alive connection of the browser blocks the WebSocket upgrade of the next one, because
  `run_guac_slot` serves one connection at a time (`guac_proxy.rs:166`).
* When the gateway closes, `bridge` stays until the browser closes too: the ping echo keeps a sender
  of `browser_task` (`guac_proxy.rs:325`).
* `last_instruction_end` takes the length prefix for bytes while guacd counts characters
  (`guac_proxy.rs:364`).
* The relays write to one side while nobody reads the other; two full buffers stop both
  (`handler.rs:687`).
* A 1xx response is passed on as the final one (`transform.rs:439`).
* In agent mode an error before the status line ends the connection without one (`ssh.rs:449`).
* The gateway's `port_in_spec` and the client's `parse_ports` have to read one specification alike
  (`auth.rs:161`).
* `guacrecord` is started once; if it dies alone nobody starts it again before the gateway ends
  (`run.sh:100`).
* A product that is renamed, or a customer whose DTM variants change, is not spooled again for the
  devices that exist, and a flushed Valkey is filled again only by saves.

Abstractions to keep in mind. A tick is a tick of
the code's own timers, so all sleeps round to it. The job write is one step in `GuacSession`.
The gateway's and guacrecord's death come together in `RecordingJobs`, as their container ends
when the gateway does; guacrecord dying alone is not restarted by anybody and is not modelled.
