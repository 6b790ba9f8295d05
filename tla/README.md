# A TLA+ verification of jump / jumpd

`jump` runs a command in a pseudo terminal that outlives the terminal it was
started from; `jumpd`, the daemon, keeps the list of these *sessions*, serves a
web interface, federates with other daemons and can be reached through
`jump-relayd`. This directory models the daemon, the runner and the relay,
checks the models with TLC and proves some of the results with TLAPS.

Line numbers are of the files under `src/`; `jumpd/` stands for
`services/jumpd/`, `internal/` for `services/jumpd/internal/`.

1. [The system](#1-the-system): components, and what is hard about each
2. [Modules](#2-modules): what models what, and the abstractions
3. [Runs](#3-runs): bounds, fairness, what each run shows
4. [Where code and text disagree](#4-where-code-and-text-disagree)
5. [Proofs](#5-proofs)
6. [Not modelled](#6-not-modelled) and [what is left](#7-what-is-left)

## 1. The system

| component | state it keeps | operations | interacts with |
|---|---|---|---|
| session store (`internal/store/store.go`) | map id → record under one `RWMutex`; the subscribers' channels (64 slots) | Upsert, UpsertRemote, Update, SetTerminalSize, Remove, RemoveByPeer, Subscribe, Broadcast | written by every handler, by subscriptions, the scanner, peers; read by everyone |
| event subscriptions (`internal/discovery/subscribe.go`) | table id → entry (a cancel function), one goroutine per entry | Subscribe (replacing), Unsubscribe, the deferred cleanup, handleEvent | read a runner's `/events`, write the store, call `OnExit`, `OnDead` |
| scanner and registration (`internal/discovery/discovery.go`) | the directory of sockets | Scan (every 3 s), Register, the liveness probe | `/meta` of runners, store, subscriptions, file monitor |
| session handlers (`jumpd/cmd/jumpd/main.go`) | `resumeMu` | register, deregister, kill, dismiss, resume, restart, launch, read | all of the above, runners' `/kill` |
| session metadata (`internal/sessionmeta`), retention (`internal/sessionfiles`) | `<state>/sessions/<id>/meta.json`; upserts not flushed yet | Write (temporary file and rename), Remove, Sweep at startup, WatchEvents; purges every 30 s | the store's events; `OnDead`; the runner's scrollback |
| runner (`cli/jump`: `run.go`, `daemon.go`, `state.go`, `handshake.go`) | its child, its state, the socket `<id>.sock` | BindSocket, register with retries, SetExited, deregister | jumpd over its Unix socket; the handshake pipe of `jump --no-attach` |
| terminal (`ptyserver.go`, `localterm`, `scrollback`, `wsproxy`) | virtual screen, clients with queues, sizes, two files; the proxied connections | read, coalesced flush, snapshot, resize, detach, close; two copy loops per browser | child, local terminal, browsers |
| wait, events (`wait.go`, `main.go`) | one subscription per request | answer on a terminal state; stream the store | store |
| peering (`internal/peering`, `sseclient`) | a table of peers, a goroutine and a stream per peer | AddPeer, RemovePeer, OnSleep, Stop, reconnection | other daemons' `/v1/events`, UpsertRemote, RemoveByPeer |
| who is a peer (`tsdiscovery`, `devcontainers`, `servermgr`, `db`) | netmap snapshots, a state file, tracked containers, rows | netmaps, probes, Docker events and scans, the peers API | the peer table, by name |
| notifications, presence (`notify`, `presence`) | pending and active notifications, timers, delivery histories; browser clients | schedule, fire, coalesce, cancel, acknowledge, expire | store events, browsers, ntfy |
| relay (`jump-relayd`, `relayclient`, `relayproto`) | pending requests and WebSockets by id, one agent | proxyHTTP, proxyWebSocket, dispatch, failAll; runOnce and its goroutines | browsers on one side, jumpd on the other |
| file monitor (`filemon.go`, `persist.go`), adapters (`packages/adapter`) | file ↔ session attributions, offsets, watches, a poke channel, `attributions.json` | attribution passes, reading, deaths, persistence | the agents' files, runners' screens, store |
| conversations (`internal/conversations`), projects (`internal/projects`, `rehydrate.go`) | an index; `projects.json` | scan, upsert, removal; assign, add, reorder, dismiss, clean up, rehydrate | file monitor, store, handlers, clients |

Authentication, the server and SSH manager, the other command line commands and
the web interface are listed in section 6.

### What is hard, and what must hold

*Store.* A writer changes the map under the mutex and broadcasts **after**
releasing it; a full channel drops the event; two rules rewrite slugs during a
write. Slugs must identify sessions, a write must not cost a live session its
record, subscribers that lost nothing must agree with the map when all is
delivered, and nothing may be sent on a closed channel.

*Runner, scanner, subscriptions, handlers.* Three parties tell the daemon that a
session lives or died - the runner's calls, its event stream, the scanner's
probe - in any order, and the runners of one session share its id and its path.
The table must not point to a stopped goroutine, a restart must keep the id, and
in the end a live runner is alive in the store and followed, a dead one is not.

*Disk.* Handlers write and remove `meta.json` directly while a goroutine flushes
coalesced events to it; jumpd may be killed between any two steps, and the
runner survives it. Once all is written the file must restore what the store
holds, and retention must spare what still lives.

*Wait.* A script acts on an id while the registration, its retries and the
scanner are still under way; three queues may drop the event it waits for.

*Terminal.* A client connects in the middle of a flush; sizes are recorded under
a lock and given to the kernel after it; the last output races the exit.

*Peering and discovery.* A removal races a reconnection, a restart after sleep
and an addition of the same name; names are claimed by four parties.

*Relay.* Answers race timeouts, openings race `closeAllWS`, agents are replaced;
one read loop serves all browsers.

*Notifications.* Timers fire after they were cancelled; the router's list and its
subscription are two steps; four ways of telling share one quota.

*Files.* Attribution looks at screens outside its lock; a directory is written
before it is watched; `projects.json` follows sessions by events and is written
back by clients that read it earlier; restarts fall between all of these.

`PROJECT.json` lists these hazards at their lines with the properties about them.

## 2. Modules

| module | models | state ↔ code |
|---|---|---|
| `SessionStore` | the store with any number of writers and subscribers | `sessions` = `Store.sessions`; `owed[a]` = events writer `a` broadcasts after its unlock; `registered`, `chan` = `Store.subs`; `pc`, `mirror` = a subscriber and what it derived |
| `Subscriptions` | the table and the goroutines' lives | `active` = `Subscriptions.active`; `phase` = position in `runSubscription`; `cancelled`; `removed[c]` = an entry caller `c` took out and has yet to cancel |
| `SessionLifecycle` (extends `Subscriptions`) | one session, its runners, its path, registration, scanner, handlers | `run`, `child`, `via` = the processes; `path` = who bound the socket file; `rec` = the record; `reg`, `meta` = progress of `Register`; `conn`, `unreadExits`, `known` = a stream, its unread exit, the handler's Get; `scan`, `req` = Scan and the user's request |
| `SessionMeta` | `meta.json`, its persister, direct writers, retention, sweep, crashes of jumpd | `todo[w]`, `val[w]` = the steps a goroutine has left and its record; `persistQ`, `pending` = WatchEvents; `dir`, `meta`, `temps`, `scroll` = the directory |
| `Wait` (extends `Subscriptions`) | a detached start, `--send` and `--wait`: runner, handshake, registration, event stream, transcript reads, wait handler | `box[e]` = the runner's channel of a stream; `pipe` = the handshake; `tries`, `reg`, `meta` = registration; `rec` = the record; `feed` = the handler's channel; `script` = where the commands are |
| `Terminal` | output from the PTY to screen, files, local terminal and browsers; sizes | `inCh`, `flushed`, `fl`, `pend` = readPTY and a flush; `clients`, `cl` = the server's table; `wire`, `browser`, `conns` = the proxy; `size`, `winsize`, `rz` = recorded width, the kernel's, resizes under way; `scroll` = the files |
| `Peering` | Manager, peer goroutines, sseclient, the spoke's stream | `table` = `Manager.peers`; `ctx`, `done`, `run` = generations of an entry's context and goroutine; `phase`, `got`, `wire` = a stream; `job`, `sleeper`, `stopped` = RemovePeer, OnSleep, Stop |
| `PeerDiscovery` | tailnet watcher, dev container watcher, rows, over the table of names | `prev`, `curr`, `todo`, `entries`, `disk` = `tsdiscovery`; `stream`, `scan`, `found`, `tracked` = `devcontainers`; `rows` = `db` |
| `RelayService`, `Relay` | the promise to a browser; both ends of the relay | `at`, `via`, `box`, `out` = a browser's handler; `pend`, `ws`, `loop` = `agentConn`; `cli`, `job`, `cws`, `local` = `runOnce` and its goroutines; `toAgent`, `toRelay` = frames |
| `Notify` | router, timers, limits, presence | `prev`, `pending`, `active`, `hist`, `wsHist`, `cool` = the fields of `Router`; `timer`, `fire` = a grace timer and its goroutine; `clients`, `job` = presence and its calls |
| `Adapters` | what pi, claude and codex make of a file, by kinds of lines | pure operators |
| `FileMonitor` (extends `Adapters`) | registration, attribution, reading, deaths, persistence, restarts | `on`, `attr`, `active`, `off`, `cands`, `dirWatched` = `FileMonitor`'s tables; `poke`, `throttle`, `pass` = its loop, a pass cut where it lets go of `fm.mu` (`PassMatches`, `PassGives`, `PassEnds`); `running` = the runners; `saved` = `attributions.json` |
| `ConversationIndex` | the index and the watches that feed it | `byKey`, `byToolID`; `toScan` = the files the first scan has still to read; `kernel`, `watched`, `roots` = fsnotify and what the monitor believes; `fsq`, `todo` = events and catch-ups |
| `Projects` (extends `ConversationIndex`) | `projects.json`, assigner, rehydration, clean-up, clients' writes | `items` = the file; `phase` = how far a start is (scanning, watching the roots, rehydrated, up); `queue` = the assigner's events; `adding`, `leaving`, `clean`, `view` = requests under way; `kept` = the keys that the start has to spare (history) |
| `MC*` | the instances TLC checks | scenarios where a run has several |
| `*Proofs` | section 5 | |

Every step that a lock, a system call, a channel or an HTTP call separates in
the code is an action of its own; what the code read before it is kept in a
variable and used after it, as the code does. `PROJECT.json` "map" gives the
lines of each definition. An operator whose comment begins with *Mutant* is a
plausible wrong version of the definition that follows it; no specification uses
one.

**History variables.** A few variables record what no code stores, for the
properties that need it. Some state an exception that the code makes and a
property has to grant: `crowded` (SessionLifecycle: a restart and another launch
overlap), `blurred`, `slept`, `missed`, `unseen` (Peering: a name added during
its removal, a peer on OnSleep's list, changes no stream carried), `demoted`, `confused`,
`unlisted`, `absent` (PeerDiscovery), `expired` (Relay: an opening timed out),
`blind` (Notify: an event between Subscribe and List, or dropped), `crossed`
(Terminal: two resizes overlapped), `cleared`, `dropped`, `raced` (FileMonitor),
`unseen` (ConversationIndex: changed where nothing was watched), `excused`,
`meddled` (Projects: a lost upsert, a key a client wrote back). Each is defined at its declaration,
and the property that uses it names it in its comment. They mark real
gaps; a reader of the code should know them as much as the property.

**Abstractions.**

* *Records.* `SessionStore` keeps the fields the slug rules read and those
  `Upsert` derives; a slug is a sequence, a base and the numbers appended to it,
  so that `fix-2` as given and `fix` numbered 2 collide as in the code.
  `SessionLifecycle` and `SessionMeta` keep absent, alive, dead and exited.
* *Time.* Intervals and timeouts are left open: a timer's step may happen at any
  moment. Only `Notify` has a clock, whose tick is a window of the limits.
* *Data.* Frames, conversation lines, chunks of output and netmaps are counted
  or classified; a file's line is one of eight kinds, a path is a sequence.
* *Granularity.* `SessionMeta` takes a `Register` and an exit handler as one
  step up to the broadcast, since `SessionLifecycle` splits them;
  `PeerDiscovery` takes AddPeer and RemovePeer as one step, since `Peering`
  splits them; `Wait` does the same to the store.
* *Reads* of a socket, a pipe or a file give a whole event, frame or line.

## 3. Runs

| run | instance | shows |
|---|---|---|
| `store` | 3 ids, 2 kinds, 2 peers, slugs `fix` and `fix-2`, 1 writer, 1 subscriber with 2 slots; scenarios *slugs* (no one listens) and *mirror* (two of the ids, followed) | `SlugIdentity`: a slug names one session per kind and peer. `LiveNotEvicted`: no write costs another live session its record. `NoSendOnClosed`. `MirrorAgrees`: a subscriber that lost nothing ends with the store |
| `life` | 2 runners, 2 entries, 1 request; 3 runners and 2 requests in *race*; scenarios *crash* (crash anywhere, `/meta` slow or not), *kill* (kill or dismiss), *restart* (restart, kill or resume, then a second runner that stays), *race* (a restart, and another launch while it is under way) | `RestartKeepsId`: the runner that a restart launches finds its path free, if nobody else launches one. `DeadIsNoticed`: who has gone is not alive in the end. `LiveIsFollowedWhenCalm`: who stays is followed in the end |
| `meta_disk` | 2 handlers, 2 runs, 1 crash of jumpd, 1 slot | `RestartKeeps`: when all is written, `meta.json` restores the store. `RetentionSparesLive`: retention never removes a runner that outlived jumpd |
| `wait` | 2 entries, 2 turns of the agent, 2 attempts to register, queues of 1; scenarios *agent* (works, dies), *slow* (late daemon), *dismiss* | `IdIsKnown`: an id the script holds can be used. `NoEarlyIdle`: not idle before the agent spoke. `WaitEnds`: no wait hangs on a session that has gone. `ActiveIsRunning`, `NoOrphan`, `ReplacedStayReplaced`: the table and the goroutines agree |
| `terminal` | 1 browser, queue of 1, 2 chunks, files of 1 chunk, 1 resize | `NoGapNoRepeat`: snapshot and queue meet exactly. `OutputSaved`: the local terminal and the file get the last chunk. `SizesAgree` |
| `peering` | 1 name, 2 entries, 1 caller, 1 change, 1 drop, 1 sleep | `RemovedStaysGone`, `HubAgrees`, `RemovalEnds`, `SessionsArrive` |
| `discovery` | 1 device, 1 container, 1 row, 2 names, 3 changes, 1 fault; a second scenario where Docker is started later | `DevicesRemembered`: the file has what the table has. `TrackedIsManaged`: a container has the peer it thinks it has. `ContainersArrive` |
| `relay` | 1 HTTP and 1 WebSocket browser, 2 agents, 1 break, 1 data frame | `RelaysRequests`: `Relay` implements `RelayService`. `NothingLostEarly`, `AgentLeavesNothing`, `BrowserLeavesNothing`: neither end keeps a WebSocket the other gave up |
| `notify` | 2 sessions of one workspace, 1 browser, limits of 1, 3 notifications, 2 changes, 1 move, 1 tick | `FinishIsReal`, `WorkspaceQuota`, `NotWhileViewed`, `NothingLingers` |
| `filemon` | pi, 1 retry, 2 files, 2 sessions, 3 lines, 2 starts, 1 restart | `ShowsItsFile`: status and title are those of the file read from its start. `NoFileOverlooked`. `RestartKeepsFiles` |
| `projects` | 2 local sessions and a peer's, 2 conversations, an old and a new directory, 3 changes of files, 3 events of sessions (1 when both), 1 restart | `IndexFollowsDisk`, `OneEntry`: no key twice. `RestartKeepsKeys`: the user's order survives. `LiveIsListed` |
| `wait_idle` | as `wait` | violated: `IdleIsAnswered` |

**Why the bounds are enough.** They are chosen so that each hazard can occur.

* `store`: three ids are what it takes for a numbered slug to collide with a
  slug given with that number while its holder is evicted by the third. Two slots
  let a channel hold two events, overflow and drain. The results are also proved
  for all bounds.
* `life`, `wait`: in `life` two runners are the dying and the succeeding one, a third competes; two
  entries are a replaced and a replacing goroutine, and are reused once theirs has left.
* `meta_disk`: an event can be in the channel, one pending and one being
  written, next to two direct writers; the second run is a resume. The handlers
  are alike, hence the symmetry.
* `peering`: two entries of one name are what a removal and an addition of the
  same name need; one drop and one sleep meet every step of either.
* `relay`: the second agent replaces the first while requests of the first are
  under way; one break is a cut, a lost connection or an aborted send. Ids never
  meet across browsers except through the read loop, for which two suffice.
* `discovery`: two names let a device be renamed onto the name of a container;
  the fault is a restart or a broken event stream.
* `notify`: limits of one are reached by the second notification, the third
  makes a summary possible; a tick opens the next window.
* `terminal`: with a queue of one a second chunk fills it, with a file of one
  the second chunk rotates it. One browser: clients share only the list, under
  one lock.
* `filemon`, `projects`: two files of two sessions can be taken for each other;
  a conversation in a new directory needs a catch-up.

Counters that would grow without end are capped by the constants whose names
begin with `Max`, in the guards of the environment's actions.

**Where a run may stop.** All but `store` and `life` set `CHECK_DEADLOCK FALSE`:
their environment is bounded, and when its changes are used up and every session,
browser and script is done nothing is left to do.

**Fairness.** Always weak, of goroutines that have something to do; nothing is
asked of a user, a child, a browser, a spoke, the network or a crash.

* `Subscriptions`: a caller that took an entry out cancels it, a cancelled
  goroutine leaves its stream (the request carries the context).
  `SessionLifecycle`: runners, subscription goroutines, scanner and a started
  handler, each group under one condition, which is less than the Go scheduler
  gives.
* `Wait`: everything that runs by itself under one condition, and the scanner's
  ticker, in `MCWait` as far as the scenario lets the scanner run.
* `Peering`: each peer's goroutine (its timers included), each removal, OnSleep.
* `PeerDiscovery`: handling a netmap, and the Docker goroutine with its retries.
* `Relay`: a browser's handler and its timeout, a stalled browser that in the end
  leaves, a request's goroutine, the relay's read loop, the agent's.
* `Terminal`: a proxied connection and the runner's hang-up, resizes; used by
  `LeaversForgotten` only.

## 4. Where code and text disagree

One disagreement is a run of its own. `wait_idle`: `store/attention.go:23` stores
no status for an empty one, which every adapter and the runner send at the end
of a turn, while `wait.go:158` answers `idle` only for a status that is there; a wait for an
agent that goes idle is not answered (against `wait.go:30`).

The others are definitions that state the sentence and that no configuration
names; adding one to the configuration below makes TLC print a counterexample,
except where larger constants are mentioned.

| definition | configuration | what happens |
|---|---|---|
| `NoGhostInMirror` (`SessionStore`) | `store`, 2 writers | broadcasts follow the unlock (`store.go:244`), so the remove of one writer can be announced before the upsert of another, and the persister writes a removed session back (against `sessionmeta.go:174-177`) |
| `ClientAgrees` (`SessionStore`) | `store`, `ListFirst = {s1}` | `/v1/events` lists, then subscribes (`main.go:1635-1650`): a write in between never reaches that client (against `state-management.md:103`) |
| `LateDeregisterIsHarmless` (`SessionLifecycle`) | `life` | deregistration is by session id (`main.go:1093`): a killed runner's takes the subscription of its successor until the next scan (against `subscribe.go:63-66`) |
| `OneResumeAtATime` (`SessionLifecycle`) | `life`, 3 requests | the lock covers the launch, the record turns alive at registration (`main.go:1244`) |
| `DismissedStayDismissed` (`SessionLifecycle`) | `life` | the exit handler writes back its copy of a session dismissed meanwhile (`subscribe.go:265-288`, against `changelog.mdx:603`) |
| `ExitIsDurable` (`SessionMeta`) | `meta_disk` | the flush of an older, live record may rename after `OnDead`'s (`sessionmeta.go:135`, against `main.go:441-444`) |
| `RemovedIsGone` (`Peering`) | `peering` | OnSleep starts a peer of its list that was removed meanwhile (`manager.go:123`, against `manager.go:164`) |
| `OnlyTheLeftGo` (`PeerDiscovery`) | `discovery`, 2 devices | of two devices with one name, the one that leaves takes the other's peer (`tsdiscovery.go:286`, against `:278`) |
| `CandidatesAreLive` (`FileMonitor`) | `filemon` | the exit handler leaves the dead in the monitor's table (`subscribe.go:257`, against `filemon.go:20`) |
| `DiedIsDead` (`Wait`) | `wait` | broadcasts of activity carry no session, and a wait takes that for a removal (`subscribe.go:296`, `wait.go:110`, against `wait.go:31`) |

Later steps may repair the state: `RestartKeeps`, `LiveIsFollowedWhenCalm`,
`DeadIsNoticed` and `HubAgrees` say how far they do.

Two comments are only that: projects offered to the user are said to be grouped
by remotes, and the code groups by directory; `SetConvIndex` is to be called
"before Run starts" (`filemon.go:121`), and is called after (`main.go:511`, `545`).

Without a configuration the modules also state their types (`TypeOK`, `SubsTypeOK`,
`LifeTypeOK`, `MetaTypeOK`, `MonitorTypeOK`; those of `ConversationIndex` and `Projects`
are in `ConversationProofs`), `LeftDevicesGo`, `LeaversForgotten` and
`SupersededFinish`, of which TLC finds no violation on the instances above, and
the general `LiveIsFollowed`, which does not hold there: a `/meta` that is too
slow each time leaves a runner without follower. So `life` checks the form for
runners that answer in time.

## 5. Proofs

Eight modules of proofs:

| module | about |
|---|---|
| `RecordProofs` | `SessionStore`, `SessionMeta` |
| `WaitProofs` | `Wait` and the `Subscriptions` it extends |
| `RunnerProofs` | `Terminal`, `SessionLifecycle` |
| `RelayProofs` | `Relay` and its service |
| `PeeringProofs`, `PeerDiscoveryProofs` | `Peering`, `PeerDiscovery` |
| `NotifyProofs` | `Notify` |
| `ConversationProofs` | `FileMonitor`, `ConversationIndex`, `Projects` |

Every invariant and every action property that the passing runs check is stated by a
theorem, so that TLC and TLAPS agree on all of the safety of the models. The
theorems are of the specification the runs check, for all values of the constants
that satisfy the module's assumption. The assumptions say that bounds are natural
numbers, that names are distinct (a device, a container and a row are different
things, none of them is the value for "nothing"), and little more: a channel has a slot, a limit
permits something, a summary is of two or more (`CoalesceAt`, a constant 3 in the
code), and a spoke's items are finitely many. Of `Projects` they say that a session's
id is no slug, and that a session with a conversation's id, as rehydration makes
one, is local.

* `StoreTypes`: `TypeOK` is inductive by itself. The only fact beyond types is
  that `Send` appends only below the capacity.
* `SlugsIdentifySessions`: `TypeOK /\ SlugIdentity` is inductive. `Put` writes
  one record whose slug is the first free number; *free* is relative to what is
  left after the evictions, so the proof shows that neither the written record
  nor two others can clash. Removals only shrink the map.
* `LiveSessionsSurviveWrites`: an action property; only `Put` removes and
  writes in one step, and what it removes is `Evicted`, hence dead.
* `NeverSendsOnClosed`: a subscriber whose `pc` is detached or closed has left
  `registered`, which is inductive.
* `MirrorsConverge`: with `SoleWriter` (one actor), `MirrorAgrees`. The
  inductive invariant `MirrorInv` says that for every subscriber that lost
  nothing and every id, the *last word* about the id - in the writer's owed
  events, else in the channel, else in the mirror - is the store's record; that
  owed events are true of the store; and that a subscriber that has not
  subscribed has an empty channel. It is needed because `MirrorAgrees` speaks
  only of quiet states. `SoleWriter` is needed too: `NoGhostInMirror` has the
  counterexample with two writers.
* `SubsInvariant`, `ActiveEntriesRun`, `NoOrphanGoroutines`,
  `SuccessorsSurviveCleanup`: `SubsInv` adds to the two properties that an entry
  taken out for cancellation is nowhere in the table (`RemovedIsOut`) and that
  only used entries are cancelled, without which a stale cancellation could hit
  a fresh entry.
* `WaitUsesTheTable`, `WaitFollowsTruly`: every step of `Wait` is a step of the
  table or leaves it alone, so the three results hold of the goroutines that feed
  a wait.
* `WaitInvariant`, `WaitTypes`, `IdsAreKnown`, `NeverIdleEarly`: while the user has
  not dismissed the session, a registration that has written, a handshake that has
  reported the id and a script that holds it all imply a record (`KnownInv`), since
  every other writer replaces the record and none removes it. `SpokenInv`,
  `StoreInv` and `BoxInv` follow a status that a wait takes for idle through all
  its places - the runner, what `/meta` told, the runner's channels, an event being
  handled, the record, the wait's channel: it is of an agent that has worked first.
  `TriesInv` bounds the attempts to register.
* `MetaTypes`: `MetaTypeOK` is inductive by itself; the work is in
  the lists of steps, whose heads and tails are sequences of steps again.
* `RetentionInvariant`, `RetentionSparesSurvivors`: the action property speaks
  of the step that removes, but what matters was decided earlier, when the
  session was put on retention's list. `RetentionInv` follows it back: a listed
  session has no live first runner (`ListedIsDead`), because it was dead in the
  store while jumpd was serving, and by then the first scan had registered
  every live runner (`FirstIsAlive`); an exit event may make it dead later, and
  is true (`ExitIsTrue`); a handler does nothing before jumpd runs (`Booting`),
  so that nothing is listed across a crash; and before the first runner there is
  nothing to restore or to list (`Fresh`). "First" cannot be dropped: a resumed
  runner has no record until it registers, and retention may list the dead one.
* `DurableInvariant`, `RestartRestores`: `RestartKeeps` speaks of the moment when
  everything is written. `LastWord` says of every other moment where the record of
  the store is: with a handler that has not told of it yet, else at the end of the
  persister's channel, else with the persister (`PersisterKnows`: pending, being
  written, being removed), else in `meta.json`. A handler that writes or removes
  the file itself has what the store has (`Agrees`), so it may come before or after
  the persister's write, but for the write of an older record under way, which the
  next event will correct. Handlers that overlap, and dropped events, break the
  order of events and are what `unordered` grants.

* `RelayTypesHold`, `RelayInvHolds`, `NothingIsLostEarly`,
  `AgentLeavesNoSocket`: what goes wrong in a relay goes wrong because a frame
  belongs to an earlier stage than its reader. `RelayInv` says so for every frame
  on a connection. A browser's frames are on the connection it took, and it sends
  one that starts its request only while nobody serves it (`SentOnce`); a goroutine
  that has got to a stage has asked jumpd as often as that stage says (`SeenOnce`);
  a success, on the wire or in the handler's channel, is of a request jumpd has seen
  (`AnswersRest`); a browser that may send data has its WebSocket in the agent's
  table, or had it (`OpenedInOrder`); and an open WebSocket has a goroutine that will
  close it (`OpenIsServed`), whether or not `closeAllWS` saw it in the table.
* `RelayTakesServiceSteps`: the safety part of `RelaysRequests`. Each action of
  `Relay` is matched with its step of `RelayService`; only those that ask jumpd and
  that answer the browser change anything, the first needs `SeenOnce`, the second
  `AnswersRest`, and all others stutter.
* `TerminalTypesHold`, `TerminalInvHolds`, `OutputIsInOrder`, `OutputIsSaved`,
  `WidthsAgree`: `NoGapNoRepeat` speaks of what a browser has read. `Chain` extends
  it over the connection and the queue: the frames follow each other, and the last
  ends where the server is, with a chunk missing as long as the flush in progress
  has not reached this client (`Tip`). So the places where a client joins in the
  middle of a flush, or leaves, become cases of one statement. `OutputInv` ties the
  files and the local terminal to the flushes and says that the end waits for the
  last one; `SizeInv` says that the goroutine between the record and the kernel is
  alone and carries the recorded width, unless two overlapped.
* `PeeringTypesHold`, `PeeringInvHolds`, `RemovedPeersStayGone`: the properties
  speak of a name, the code of goroutines. `RunInv` and `StoreInv` hold every
  goroutine and every session in the store to an account: its entry is in the
  table, or being removed by somebody who has not come past the wait, or started
  again by OnSleep. `SleepInv` and `Removal1` say what a removal waits for.
* `HubFollowsSpokes`: `StreamInv` is `HubAgrees` for streams that have not
  delivered everything. The *last word* about an item - on the wire, else in the
  reader's hands, else in the hub's store - is what the spoke has, for every entry
  in the table, but for what a late or broken stream has missed.
* `NotifyTypesHold`, `NotifyInvHolds`: `NotifyInv` is the conjunction of
  what the four properties need. A pending notification has a number of its own and
  a timer that is armed or has just fired (`PendingInv`, `TimerInv`); a fired timer
  holds one notification or several (`FireInv`).
* `WorkspaceQuotaHolds`: a permission is counted under the router's lock and used
  after it, when the window may be another. `QuotaInv` bounds, for every window,
  what was told *and* what is held by the loop and by fired timers by what the
  history of that window has counted.
* `TheToldIsTrue`: `TruthInv` replays the events on their way to the router, from
  the state it remembers to the one the store has; each finish on the way is still
  owed, so that a finish the router tells of is one that occurred. `blind` takes
  out what was never on the way.
* `NothingLingersHolds` is read off `PendingInv` and `ActiveInv`.
  `TheViewedIsNotTold` is an action property: `ViewInv` carries
  the second look of a fired timer to the moment it tells.
* `DiscoveryTypes`, `DiscoveryInvariant`: three sources share one table of names,
  and each removes by name alone. `OwnerInv` says whose a name is: if it was never
  used for two things at once, the device, the row or the container that claims it
  has its peer, also while the container is on a scan's list of those to be removed;
  and the name a scan has chosen is free until it registers. A removal by any of
  the three then takes its own peer. `ProbeInv` and `EntryInv` tie the file to the
  entries and the entries to the peers.
* `ContainersKeepPeers` is read off `OwnerInv`, `RestartRemembers` off `ProbeInv`
  and `EntryInv`: a probe sets `stateChanged`, so that the end of the netmap saves.

* `LifeTypesHold`, `RestartFindsPathFree`: `RestartKeepsId` speaks of a runner that
  probes the path of the one before it. `LifeInv` follows the path back to the
  request: once the kill of a restart is answered, no runner is on its way to the
  path and no file is there (`FreeWhenLaunched`); from then on the one that the restart
  launches is alone on its way and nobody listens there until it has probed
  (`FreeWhileStarting`). `crowded` grants that another was on its way or was launched.
* `MonitorTypesHold`, `SessionsShowFiles`: files are read in parts, from offsets that
  the tables keep; attributions and restarts make the monitor read a file again. The first
  lemmas say that a part read after another gives the status and the title of the
  whole. In `MonitorInv`, what a session shows is what some first lines of its only
  file say, all of them unless an event of the file is to come (`FilesRead`);
  `FilesBegin` says that files have begun with their header wherever the monitor
  knows them, `NewReadsAll` that a session without a file will be read from the start.
* `FilesAreSought`, `FilesSurviveRestarts`: `NoFileOverlooked` needs that the directory
  is watched as long as a session is monitored (`Watching`). `RestartKeepsFiles` needs
  that an attribution is in `attributions.json`, unless the pass that gave it has
  still to save it (`SavedKnown`).
* `IndexFollows`: `IndexFollowsDisk` speaks of the moment when everything is handled.
  `IndexInv` says of every other moment where a change is. Of a file that was never
  changed unseen (`Followed`): if it can be resumed, the index has it or a catch-up will
  read it, and no removal is to come; or it is told, by a write or by its directory, and
  no removal follows (`ToBeRead`). Otherwise the index has nothing of it, or its
  removal is to come. Before the monitor has the index, the same is prepared for
  removals told already (`BeforeWired`). The two maps are inverse to each other
  (`IndexAgrees`), for which a new slug must be free: of one number more than there
  are conversations, one is (`FirstFree`, by the pigeonhole principle).
* `OneEntryEach`: `ListInv` is types and `OneEntry` of the file *and* of what a client
  has read and will write back. An operation changes one list of keys (`GivesKeys`)
  or leaves every key that was there once at most once (`Keeps`).
* `RestartSparesKeys`: until the clean-up has listed what it knows, each key to be
  spared resolves in the store; after that it is on its list (`KeptInv`). Requests that
  overlap a start touch only keys they take out themselves.
* `LiveAreListed`: `LiveInv` has an account of each live session: an event of it is
  queued, or the pass after an addition has it or has still to list it, or its
  key is listed or no project matches it (`Accounted`); and the latest event of it carries the slug it
  has now (`QueueCurrent`), without which an assignment would be of an old key.
* Loops of `Projects` (`Filtered`, `AssignAll`) are recursive functions on numbers.
  What holds at their end is shown without induction over data: if it failed, it
  would fail first at some number, and before it holds (`LeastOf`, `LoopTyped`, `LoopRuns`,
  `InTheEnd`).

Only model-checked: liveness (`RelaysRequests` too, beyond its steps), since
liveness under fairness and ENABLED are out of TLAPS' reach. In `Adapters` and
`Projects` what an operator computes for all lists is proved where a property
needs it, and no further.

## 6. Not modelled

* *Authentication and access* (`auth`, cookies, origins, tokens): checks of one
  request, no protocol.
* *Server manager, SSH terminals, database*: rows and forwarded streams; only the
  rows that name peers are in `PeerDiscovery`.
* *Web interface, plugins, other commands of `jump`*: clients that send single
  requests. `cmdSend`, `cmdWait`, `--no-attach` and the local terminal are modelled.
* *Launch* (`main.go`): validation of the request and the choice of a command.
  What it starts, a runner, is in `SessionLifecycle`.
* *Requests forwarded to a peer* (`remote.go`, `apiclient`): plain proxies, no state.
* *Encodings*: JSON, the relay's frames, conversation formats, escape sequences.
  `Adapters` has what follows from a line's kind, not how the kind is read.
* Within modelled parts: titles and their resolution, unread marks of terminal
  output, the persister's last flush at an orderly shutdown, drops of the runner's
  queue in `SessionLifecycle` (they are in `Wait`), disk errors.

## 7. What is left

1. `relayproto`'s codec and the forwarded requests of peers, as pure operators.
2. Launch (`main.go`): the choice of a command and the directories it makes.
3. The three hazards without a property, which need a client of `/v1/events`, two
   overlapping resumes in `SessionLifecycle` and a wait next to broadcasts of activity
   stated as what the code should do; section 4 has what it does.
