# A TLA+ development of easy-mc-server

easy-mc-server lets somebody without server experience open a Minecraft room on
their own PC: a desktop app prepares and runs a Fabric server, a control plane
hands out invites, has the host approve each friend and issues sessions, and a
relay carries the friends' streams to the host. This directory holds TLA+ models
of the parts that decide who gets in, what keeps running, what is on disk and
what is published, TLC configurations that check them on small instances, and
proofs for every instance.

All paths below are relative to the repository.

## 1. The system

| component | state | operations | interacts with | hard part |
|---|---|---|---|---|
| control plane, in memory (`services/control-plane/src/domain/simulation.mjs`) | Maps of rooms, invites, join requests, sessions; a clock | createRoom, heartbeatHost, createInvite, revokeInvite, createJoinRequest, decideJoinRequest, issueSession, readSession | called by the HTTP boundary | three timeouts; long sequences by three actors |
| HTTP boundary (`http/handlers.mjs`) | handle and binding Maps | one handler per operation | the simulation | its copies must not go stale |
| room service (`services/room-service.mjs` over `persistence/postgres/` or `memory-store.mjs`) | five tables | createRoom, createInvite, revoke, regenerate, createJoinRequest, decideJoinRequest, cleanup, presence | PostgreSQL or a memory store, every call awaited | overlapping calls, rollback, cleanup, rate limits |
| relay (`services/relay/src/relay-simulation.mjs`) | host tunnels, sessions, streams, byte counters, metrics | open/close tunnel, open stream, transfer, disconnect | asks the control plane to validate and consume a session, with an await | what was checked before the await |
| transport candidates (`services/control-plane/src/transport/candidates.mjs`) | expiring candidates | submit, select, resolve | the friend's join | expiry between two of them |
| local TCP relay preview (`local-tcp-relay-preview.mjs`) | sockets and their buffers | open frame, pipes | the friend's client, the server's port | chunks, half-open sockets, resets |
| server bridge mod (`mods/server-bridge-fabric/`) | approved, blocked, pending | join, decide, outage | the control plane, whitelist.json | outages, decisions not yet written |
| server lifecycle manager (`apps/desktop/src/runtime/node-local-runtime.mjs`) | state, process reference, timers, metrics | start, stop, restart, sendCommand, status | the OS: exit, error and data events | every order of events and timers |
| materialisation and Fabric bootstrap (same file, `node-fabric-bootstrap.mjs`, `node-java-detection.mjs`) | files | detect, verify, download, rename, copy | the file system, Fabric Meta | partial failure, crash |
| runtime bridge, room controller, command host (`desktop-*.mjs`) | current plan, room, invite, tunnel | prepare, open, close, restart, send, status, reset | lifecycle manager, control plane, relay | cleaning up after a failed step |
| command broker (`src-tauri/src/main.rs`) | pending responses, the Node child | one frame per command | Node host over stdio | its 20 s timeout |
| renderer (`app.js`, `state.js`) | the room view | reducer, polling | broker | late answers |
| compatibility engine, catalog, permission gate (`packages/`) | none; a host's selection | evaluate, suggest, curate, check | each other | rules stated twice, a catalog that moves |
| modpack builder and release scripts (`packages/modpack-builder/`, `scripts/`) | jars, manifests, packs | build, release, check, pack | the file system, a public URL | scripts that die, sources that change |

What makes them correct, and where it could fail unnoticed by a test, is listed
line by line under `hazards` in `PROJECT.json`. In short: nobody holds a session
the host did not approve for that room, invite and identity; a session is good
for one stream; a stream lives no longer than its tunnel; a live server is never
forgotten by its manager; a room shown open is open; no command waits for ever;
nobody plays whom the host did not approve; a room that is called ready has
exactly its files; and what is published is what was described.

## 2. The modules

    Maps                 the JavaScript Map the services keep their tables in
    Admission            abstract: what the control plane promises about admission
    ControlPlane         the simulation; refines Admission
    HttpBoundary         the HTTP handlers, EXTENDS ControlPlane
    RoomService          the room service over PostgreSQL or memory; refines
                         Admission when its calls are serialised
    Relay                the relay contract and the session service it asks

    ServerContract       abstract: what a lifecycle manager promises its callers
    ServerLifecycle      the manager and its processes; implements ServerContract
    ServerMetrics        EXTENDS ServerLifecycle with status() and its samples
    RoomHost             command host, room controller and bridge over ServerContract
    CommandBroker        the Tauri broker over ServerContract
    DesktopShell         the renderer, EXTENDS CommandBroker
    RoomFiles            what prepare and open write to disk

    TransportCandidates, TcpRelay, ServerBridge
    JoinPath             composes the three: a friend's way into the room

    PackPlan             a host's selection of mods and the pack made of it
    PackRelease          EXTENDS PackPlan with the build and release scripts

    ControlPlaneProofs, RoomServiceProofs, RelayProofs, ServerLifecycleProofs,
    RoomHostProofs, DesktopShellProofs, JoinPathProofs, FilesProofs
                         the theorems (section 5)

    MC*                  instances for TLC; one .cfg per question

Common conventions. An action is a whole handler or everything between two
awaits; it carries the name of the function. A call that is refused changes
nothing but logs and failure counters and is not a step. Identifiers come from
finite pools and are used once, like the UUIDs they stand for. Time is a clock
in ticks that any step may find advanced. Invite tokens are one-to-one with
invites, so presenting a token is naming its invite. Operators whose comment
begins with "Fault:" are not part of any specification: each is a broken variant
of the definition that follows it, used to see that a property can fail. Each
module's `TypeOK` (`PackTypeOK` in PackRelease) is the first conjunct of an
invariant that its run checks.

### ControlPlane, Admission

`rooms`, `invites`, `approvals` and `sessions` are the four Maps; an action per
function. `Admission` has neither clock nor rooms: invites are open or retired,
requests have a verdict, and pairs <<session, request>> are admitted. Expiry
under the running clock is a `Retire` of several invites at once. The step of
the simulation that approves and the one that issues the session are `Decide`
and `Admit`; the room service does both in a transaction (`ApproveAndAdmit`).

### HttpBoundary

Handlers do not await, so each is one action: the simulation's action and the
update of the boundary's own map. `ActorTypes` is the `x-actor-type` header.

### RoomService

A READ COMMITTED transaction writes atomically at its commit but acts on what
its statements read before. The calls that decide on such reads are split:
createJoinRequest into `beginJoinRequest` (the reads) and `finishJoinRequest`
(counters, insert, commit); decideJoinRequest into `beginDecision` (the approval
is read, and pending), `prepareSession` (invite and presence are read), and
`approve` or `decide` (the commit). The reads of one part are taken at one
instant, an abstraction: in the code another call may commit between two of them,
and what it changed would then be seen by the later read alone. The variable
`store` says over which repository the service was created and whether its calls
overlap, and never changes. Over the memory store the writes of an approval show
one by one (`approveInMemory`, `saveSessionInMemory`) and `abandon`, which stands for
every failure between two steps, leaves what is written. Rows that
`cleanupExpiredState` deletes stay in the tables and are marked in `deleted`, so
that the properties can speak of them; every read excludes them. Where calls do
not overlap nothing comes between the steps of a call: `ImplementsAdmission` is
about these services only (see the race below).

### Relay

With `AsyncService` a stream opens in three steps, as in the code: the call asks
(`askService`), the answer is taken into the relay's table (`serviceAccepts`),
and in a later microtask the stream is opened or refused (`finishOpen`,
`refuseOpen`). Session objects carry their `owner`, the call whose object they
are, because the code marks the object it validated and the table may by then
hold another. A request's token, invite, friend and UUID are one value, the
holder: the code compares each of them and refuses the same way.

### ServerLifecycle, ServerMetrics, ServerContract

`procs` holds each process's life, what it printed, what is still in its pipes,
what waits in the line buffers, and which events were delivered. `call` is the
command in progress: the command host awaits each command before it reads the
next, so there is one, and `at` says what it waits for. When a promise that
stop() awaits settles, stop() resumes in the same macrotask, so its continuation
(`stopReturns`) is part of the action that delivers the event. RESTARTING, which
restart() assigns and stop() overwrites before anything else can run, is never
seen. `KillMayFail` lets kill() emit 'error' (Node does on EPERM), `LateOutput`
lets 'exit' precede the last 'data' (Node documents that it may).

`ServerMetrics` adds the samples: a metric is the process it was measured on, and
a reading may end at any time after it was begun, after a restart too.

`ServerContract` is what `RoomHost` and `CommandBroker` are written over: the
state, whether a process is held, alive and being stopped, and the steps a start,
a stop, the end of a stop and the server itself may take. `ImplementsContract`
shows that the manager takes no other step until a signal fails.

### RoomHost

One frame is handled at a time (`frame`), and every await of its handler is a
place where the server may change (`serverHappens`), so a handler is a chain of
actions: `receive` → `prepareRoom` / `openRoom` / `startServer` → `createRoom` →
`createRelay` → `openHostTunnel` → `createInvite` → `heartbeatHost`, with
`failClosed` → `closeRelayTunnel` → `revokeInvite` → `stopServer` → `failedClosed`
when a step fails, and the close, restart, send, status and reset chains. The
control plane and the relay are external: each call is answered, refused or
fails. `tunnels` and `invites` say what is open and live outside, `orphans` how
many live servers nobody holds.

### CommandBroker, DesktopShell

The broker's mutex makes `wire` the one invocation in progress; what the Node
host does with a frame is RoomHost reduced to its effect on the server. `Slow`
commands may outlast the 20 second timeout, which kills the host but not its
server. The webview handles results and runtime events in the order they were
emitted (`inbox`), which is not the order in which things happened. `passes` is
what the broker lets through: the one of `main.rs` lets neither `catalogModId`
in a request nor `relay.session` in an answer pass, so that its renderer can
neither prepare nor open a room nor show a link; the run checks it, and a broker
that lets them pass, so that the properties about opened rooms mean something.

### RoomFiles

A file is absent, torn or what was written; a write in place is two steps, a
write to a temporary file and its rename is one. `hostDies`, `writeFails` and
`javaChanges` may come between any two of them (`MaxFaults`).

### TransportCandidates, TcpRelay, ServerBridge, JoinPath

`JoinPath` has a friend select a path, resolve a direct attempt or dial the relay,
stream chunks of its frame and its game, and log in to the server, whose bridge
asks only about the account it observes. `Accounts` lets two friends swap or
share accounts. Candidates are a set: which of several is tried makes no
difference to a join. The adapter that writes the bridge's whitelist payloads is not
in the repository (external): it writes them in order, later, and a restart of
the server loses those not written.

### PackPlan, PackRelease

A catalog entry is its version and its flaws, that is, what its metadata lacks or
says wrongly; a selection keeps the entries it was picked with while the catalog
moves (`refreshCatalog`). A jar is the revision of the sources it was built from,
which stands for its bytes, hash and size. The scripts run one at a time and may
die between two of their writes (`scriptDies`); uploading and importing are done
by hand.

## 3. The runs

| run | what it asks | bounds |
|---|---|---|
| http_boundary | tables and handler maps agree (`MapsMirrorTables`), Permission Rule, one session per request, freshness, implements Admission | two of every id, TTLs 2/1/1, clock to 3: an invite outlives a presence and a session, and each of them expires within the run; symmetric |
| relay_opens | no stream outlives its tunnel, no room is overfull, one stream per session, a stream is its session's | two hosts contending for one room, two friends, two calls in flight, one member slot; no transfers; clock to 1 |
| relay_transfers | byte accounting and ended streams, over local sessions | one host, two rooms, frames of 2 against quotas 4 and 5, so that a room quota, a host quota and both timeouts each stop a stream; clock to 3 |
| server_lifecycle | a live server is held and "stopped" means gone, running means ready, every command ends, the contract, stale metrics pass, with signals that may fail | two processes: one and its successor, which may overlap once a signal has failed; one reading of each in flight |
| room_service | an approved request has its one session, live sessions keep their rows, windows are limited, under overlap; the contract when serialised | two calls in flight over two invites, requests and sessions, limit 1 per window of 1, clock to 2; postgres overlapping, and either store serialised |
| room_host | links, tunnels, failing closed, orphans | two selections, two rooms: one and its successor; orphans counted up to 1 |
| desktop_shell | one execution, link only while open, clicks answered, view catches up | one invocation waiting and one message in the inbox besides those in progress; open and status slow |
| join_path | only the approved play, pending and whitelist follow the decisions, bytes in order, direct attempts safe | two friends, one candidate, a frame of the limit and one above, one unwritten payload, clock to 1, TTL 1; outage policy "allow_previously_approved", the code's default |
| room_files | ready means installed, launchers whole and described, preparing succeeds | two selections sharing a mod, one stray file, two Javas, two faults |
| pack_release | closed selections, engine, catalog and gate agree, releases described, packs pinned and imports whole, ready means buildable | a chain of three mods so that one level of look-ahead is not enough, three picks, one new version, two edits of the sources, two deaths |
| room_service_race, room_host_cleanup | findings, see below | one request and two calls; one room |

Bounds named in the modules: `MaxTime` stops the clock; `MaxCloses` bounds
disconnects once more closes than that are counted (the counter is otherwise
unbounded); `MaxCount` stops a rate-limit counter above its
limit, where nothing more can be told apart; `MaxProcesses`, `MaxReadings`,
`MaxCandidates`, `MaxWrites`, `MaxCalls`, `MaxInbox`, `MaxPicks`, `MaxRefreshes`,
`MaxEdits`, `MaxDeaths` and `MaxFaults` bound what their names say, and
`MaxOrphans` is where counting stops. Two of an id are enough for the
properties that compare two records or two actors; pools that run out make some
calls impossible at the end of a behaviour, and the runs that set
CHECK_DEADLOCK FALSE do so because ids, faults or edits are used up, the clock
stands, or, in room_host and desktop_shell, because nobody need click. Symmetry
is used for ids that no property or action tells apart, and in no run with a
liveness property.

Fairness.

- server_lifecycle: file checks and spawn() answer, a write's callback comes, Node
  fires the two timers of stop(). Nothing is assumed of the server: it may ignore
  "stop" and the signal for ever. A launch resolves one way or another, so its
  two outcomes share one fairness condition. For `StaleMetricsPass` the desktop
  polls, a reading ends within its timeout, and one that can succeed again and
  again at last does.
- room_host_cleanup: handlers go on after their awaits (services answer or fail),
  a stop in progress ends, which is `CommandsEnd` of the lifecycle manager, the
  user keeps closing the room, and a relay that can close a tunnel again and again
  at last does: the cleanup cannot finish even so.
- desktop_shell: broker, host and webview take their steps, the broker's timeout
  and the manager's hard timeout fire, and the timer of the status polls keeps
  firing. Nobody need click and no server need start, crash or stop.
- room_files: a command runs to its end, a download that is tried again and again
  succeeds, and the host tries each selection again.

## 4. What the checks found

1. Overlapping approval and denial of one request leave a session for a denied
   request, because the write does not match on the state that was read
   (room_service_race). Serialised, the service keeps the contract.
2. When the relay refuses to open a tunnel, failing closed asks it to close a
   tunnel that was never opened, is refused, and leaves a pending cleanup that no
   close can ever finish: the room cannot be opened again while the host process
   lives (room_host_cleanup).

Further disagreements between the code and its documents, each stated as a
property in its module that the code does not keep. TLC shows a counterexample
when the property is put into the configuration named:

- `ClosesAreBoundedByOpens` (Relay, MCRelayTransfers): `disconnectStream` turns a
  closed stream into a `disconnect_failed` one, and the next successful disconnect
  closes and counts it again.
- `QuotasEndStreams` (Relay, MCRelayTransfers): idle and duration quotas are only
  tested when bytes arrive, so a silent stream keeps its member slot.
- `OneLiveServer` (ServerLifecycle, MCServerLifecycle): an 'error' event from a
  failing kill() makes the manager forget a live server; start() then runs a
  second one on the same world. Until a signal fails, `LiveServerIsHeld` holds:
  the properties of the manager are stated under `signalsWorked`, which says that.
- `RunningMeansReady` with `LateOutput = TRUE` (MCServerLifecycle): observers do
  not know their process, and a late ready line of the old server marks the new
  one running.
- `OneServer` (RoomHost, MCRoomHost): a crashed or failed manager whose process
  still lives is dropped by a command with another selection, in spite of
  "Close the current room before changing the selected mods."
- `RequestsAreAccepted` (DesktopShell, MCDesktopShell): the broker refuses the
  `catalogModId` that the renderer puts into every prepare, open and restart; and
  since it drops `relay.session` from answers, the invite link is never shown.
- `PreparingAlwaysSucceeds` (RoomFiles, MCRoomFiles): a download cut off by a
  crash is a torn file that is neither replaced nor removed.
- `NoGaps` (JoinPath, MCJoinPath): bytes that a friend sends between its open
  frame and the relay's connection to the host are lost.

Observations that contradict no document: the relay uses up a session before it
knows that the room has a tunnel and a free slot; one identity's refused
attempts count against the invite for everybody; after the first session has
expired and been cleaned up, an approval still in flight issues a second one;
the memory store can keep an approved request without a session after a failure;
a status poll that finds a restarted server gives it a new room and forgets the
tunnel whose cleanup was pending; the broker's 20 seconds are shorter than the 35
that stop() may need, and a host that answers with more than 256 KB of events is
killed as if it had not; the controller sends a room's one heartbeat when it
opens it; the engine accepts files without a name that the catalog refuses
(`CurationAgrees` says that this is the one difference); a curated pack drops what
an entry says about rehosting; readiness never fetches the URL it approves; a
reset of a friend's connection before its frame is accepted ends the relay's
process; an approved player cannot be blocked any more, since only a pending
request is decided, and blocked players are forgotten by a restart.

## 5. What is proved

Every safety property that a passing run checks, invariant, action property and
refinement, is a theorem of its specification, for every value of the constants
that the modules' assumptions allow, over behaviours of any length. The runs show
each property on a small instance; the theorems have no bound but those that a
module's guards name, and these may be any number.

| module | about | theorems |
|---|---|---|
| ControlPlaneProofs | ControlPlane, HttpBoundary | TypeCorrect, AdmissionInvariant, SessionsObeyPermissionRule, OneSession, ReadableSessionsAreFresh, Refinement, MapsNeverDrift, HttpImplementsSimulation |
| RoomServiceProofs | RoomService | RowsAreWhole, LiveSessionsAreWhole, ApprovalsComeWithSessions, SerialisedCallsImplementAdmission, WindowsStayLimited |
| RelayProofs | Relay | TypeCorrect, EndedStaysEnded, StreamsKeepTheirTunnel, MembersWithinQuota, StreamsObeySessions, SessionsAreUsedOnce, QuotasHold, CountsAddUp |
| ServerLifecycleProofs | ServerLifecycle, ServerMetrics | LifecycleInvariant, LiveServersAreHeld, RunningServersAreReady, ContractImplemented, MetricsDoNotInterfere |
| RoomHostProofs | RoomHost | RoomHostInvariant, AnsweredLinksAreUsable, RoomsFailClosed, TunnelsAreNotForgotten, LiveServersAreNotReplaced |
| DesktopShellProofs | CommandBroker, DesktopShell | ShellInvariant, CommandsRunOnce, LinksAreOfOpenRooms |
| JoinPathProofs | JoinPath and its three parts | JoinInvariant, ApprovedPlayersOnly, WhitelistIsFollowed, BytesAreInOrder, DirectAttemptsAreSafe |
| FilesProofs | RoomFiles; PackPlan, PackRelease | FilesInvariant, ReadyRoomsAreInstalled, LaunchedJarsAreWhole; PackInvariant, PacksAreClosed, CuratorsAgree, OnlyDescribedJarsAreReleased, WrittenPacksArePinned, ReadinessIsTrue |

FilesProofs holds the theorems of two specifications that have nothing to do with
each other but that both are about what scripts and commands leave on disk.

### From which assumptions

Constants obey the `*Assumption` of their module, which say what they are sets of
and, where the code gives the reason, a little more: an invite lives a tick
(`TtlAssumption`); the ids of invites, requests and sessions differ, because they
carry their table's prefix (`RoomServiceAssumption`); a player's name is none of
the bytes that delimit a frame (`JoinPathAssumption`); no project is called
"none" (`PackPlanAssumption`). TLC evaluates them all in the runs.

Four theorems need more, and state it as their own hypothesis, because without it
they are false:

- `SessionsAreUsedOnce`: a session service that is asked asynchronously consumes
  the session it accepts (`AsyncService => ServiceConsumes`). The relay's own mark
  does not do: two calls may hold two copies of one session.
- `RunningServersAreReady`, `ContractImplemented`: 'exit' comes after the last
  'data' (`~LateOutput`; see section 4 for the other case). Whether kill() may
  fail is left open: what holds until it does is what the properties say.
- `ApprovalsComeWithSessions`: calls over a memory store do not overlap. Over
  PostgreSQL any number of them may.

### By which invariants

Few of the properties are inductive. What each of them rests on:

- *Simulation* (`AdmissionInv`). That a session's request was approved survives
  `decideJoinRequest` only because the request is no longer pending; that it has
  one session depends on the flag `sessionIssued` agreeing with the table
  (`SessionFlags`); records must refer to records that exist and agree with them
  (`References`); freshness needs the order of the timestamps at the moment of
  issue (`Timestamps`), which later heartbeats only relax. `Refinement` shows
  operation by operation that a step is a step of the contract or a stutter; the
  clock's step is the `Retire` of the invites it expires.
- *HTTP boundary* (`HttpInv`). A handler takes its ids from the boundary's own
  maps, so that it takes a step of the simulation depends on those ids being in
  the simulation's tables. Once shown, everything proved of the simulation holds
  behind the boundary (`HttpImplementsSimulation`).
- *Room service* (`RowsInv`). Rows name rows, calls in flight name requests that
  were there, cleanup leaves no row without what it names (`RowsLive`), and what
  commits together shows together (`SessionsIssued`). Two properties need a
  second invariant. Serialised calls keep the contract because what a call has
  read is still so when it writes (`NothingIsStale`). A window is limited because
  a counter that restarts has nothing to answer for: a request made now still has
  its counters (`RequestsCounted`).
- *Relay*. `TypeInv` adds that there are finitely many streams, without which the
  member count counts nothing. `HeldAreIssued` says that every session object the
  relay holds, in its table or in a call, is a copy of the one issued;
  `SoleUse`, that a call which may still open a stream with a session is alone
  with it. `CountsAddUp` needs sums over any number of streams: the fold that
  `bytesOf` is made of is shown, by induction on the size of the set, to add what
  one stream adds. The induction is on the least number at which it would fail,
  stated with the well-foundedness of the naturals, since the libraries'
  induction theorems take an operator.
- *Lifecycle manager* (`LifecycleInv`). Until a signal fails, the process held is
  the only one that has not reported its end, and the stop() that waits for an
  exit waits for that one's. That "running" means ready also needs that a process
  no longer held has nothing left in its pipes and buffers (`OutputIsCurrent`).
  `MetricsDoNotInterfere` carries this over to the specification that the run
  checks.
- *Room host* (`RoomHostInv`). What frame, server, link and tunnel owe each other
  at every await of every handler: which steps a failed frame can be at, what a
  stop has left of the server (`ServerInv`), where a link may be shown
  (`LinkInv`), and who answers for an open tunnel, which is the pending cleanup,
  the link, or the handler still at work on it (`TunnelInv`).
- *Desktop shell* (`ShellInv`). A frame is written twice at most, and again only
  after an answer that says its command was not executed (`WireInv`); the view
  shows a link beside an open room whatever broker passes what (`ViewInv`).
- *Join path* (`JoinInv`). The payloads the adapter has still to write name only
  players that are still approved, and the last one names them all
  (`PayloadsFollow`): a restart that loses them reads the whitelist it had. The
  order of bytes is an invariant of buffer and wire together, per state of a
  connection (`StreamInOrder`).
- *Room files* (`FilesInv`). What each step of a command has done so far: settings
  once they are configured, the mods already installed and those still to be
  (`RoomInv`), and jars that are written in their order and never torn (`JarsInv`).
- *Packs* (`PackInv`). What was said of a selection stays true of the entries it
  was made with, whatever the catalog becomes (`PlanSound`); the jar a script is
  about to copy has been described and no build replaces it meanwhile
  (`Described`); a pack is of pinned files from the moment it is built, before it
  is written (`PinnedPacks`); the report depends on the template alone
  (`ReportInv`).

### What is not

Liveness stays with TLC, since the proof system does not reason about ENABLED and
so not about fairness: `CommandsEnd`, `StaleMetricsPass`, `PendingEnds`,
`ViewCatchesUp` and `PreparingSucceeds`, on the instances of their runs. So do the
properties of section 4 that the code does not keep, which have counterexamples
instead. No other property of a passing run is only model-checked.

## 6. Not modelled

- HTTP transports (`router-adapter.mjs`, `fastify-app.mjs`): stateless translation
  of a framework's requests into the boundary's.
- Host tunnel (`apps/desktop/src/tunnel/host-tunnel.mjs`) and the client mod's
  connection plan (`mods/client-fabric/`): constructors of one plan each that only
  their tests run. The controller opens the relay's tunnel directly (RoomHost),
  and what a friend's client sends is modelled from the relay's side (TcpRelay).
- Redaction, audit events, support bundles, invite recovery texts and the closed
  alpha checklist of `packages/safety`, and the message shapes of
  `packages/protocol`: pure functions over documents, without state to relate.
- Of the control plane boundary adapter, how it builds requests and picks fields;
  of the renderer, the catalog selection, console lines, metrics, language, the
  browser mock and all DOM code; of the development plan and catalog, texts and
  URLs.
- The invite page, a static preview that calls nothing.
- Smoke tests, static verification, the local preview and the developers' hot
  reload. One observation there: closing the desktop within half a second of a
  backend change leaves `desktop-dev-hot.mjs`'s restart timer armed, which starts
  the desktop again without its development server.
- Two things inside modelled parts: the anomaly of two statements of one cleanup
  under READ COMMITTED, which the model takes as one step, and release scripts
  run at the same time on one checkout.
