# The AFK Pilot relay in TLA+

AFK Pilot lets a person drive a coding agent that runs on another machine. This
repository is the relay in between: an extension dials *out* to it, browsers
attach to it, and it ferries frames. It can also serve machines of its own
("cloud environments"), which it builds ahead of demand, hands out, puts to sleep
and wakes.

The modules here model what the relay *decides* and in which order, check it with
TLC on small instances, and prove the most important invariants with TLAPS for
every value of the constants. Source paths below are relative to the repository.

- [1 The system](#1-the-system)
- [2 Modules](#2-modules)
- [3 Runs](#3-runs)
- [4 Where code and documentation disagree](#4-where-code-and-documentation-disagree)
- [5 Proofs](#5-proofs)
- [6 What is not covered](#6-what-is-not-covered)
- [7 Plan](#7-plan)

## 1 The system

One Node.js process, one event loop, state in memory and in a database
(Supabase), machines at a provider reached over HTTP and websockets.

| Component | Code | State | Operations |
|---|---|---|---|
| Routing hub | `src/hub.ts`, `src/frames.ts` | per device: the uplink, its protocol, the clients and their tab tokens | `attachUplink`, `detachUplink`, `fromUplink`, `addClient`, `removeClient`, `fromClient` |
| Websocket edge | `src/server.ts` 425-442, 1286-1851 | per socket: readyState, pending frames, frame chain, pong flag; `uplinkSockets` | upgrade, `handleUplink`, `handleClient`, `handleFrame`, pinger, close handlers, `revokeDevice` |
| Pool filler | `src/pool-filler.ts`, `src/environment-pool.ts` | holds, `failedLaunches`, a sweep in progress | adopt, scrap, count, build; start, stop |
| Pool table | `src/environment-pool-store.ts`, `claim_pool_sprite` | a row per pooled machine: building, ready, claimed, failed | `add`, `building`, `staleBuilds`, `markFailed`, `counts`, `markReady`, `claim`, `remove` |
| Provisioner | `src/environment-provisioner.ts`, `src/sprite-exec.ts` | provisions in flight; at the provider: the machines | `createNamed`, `create`, `exec`, `destroy`, `spriteHold` |
| Installer | `src/pool-bootstrap.ts` | on the machine: a stamp, its name and secret, its environment file | install, report readiness, wait to be claimed, start the host |
| Cloud open, reset, handover | `src/server.ts` 633-769, 905-977, `src/environment-handover.ts` | opens in flight, codes with their expiry, the environments table | open, redeem, reset |
| Wake, keepalive, presence | `src/environment-waker.ts`, `src/environment-keepalive.ts`, `src/presence.ts`, `src/wake-scheduler.ts` | wakes in flight, last failures, holds with their last activity, heartbeats, `wakeAt` | wake on attach, on drop, on send, on schedule; note activity, sweep |
| Device registry | `src/devices*.ts`, `src/device-verify-cache.ts`, `src/link-store.ts` | rows with tombstones, a cache of lookups, link codes | issue, verify, revoke, list; start, approve, poll |
| Quota and rates | `src/usage*.ts`, `src/limits.ts` | weekly counters, minute buckets | increment, take |
| Update feed | `src/update-feed.ts`, `src/server.ts` 488-631 | cached releases and feeds, failure stamps, requests in flight | read, refresh |
| Sessions | `src/auth.ts`, `src/auth-clerk.ts` | none | verify |
| Browser page | `web/chat.html` | its socket; the tab's outbox and remembered conversation; prompts in flight, the restore under way, grace and fail timer | type, dial, close, give up a socket, reload; every kind of frame it hears; its timers |

How they meet. The edge calls the hub, synchronously, from socket events; between
a socket's upgrade and its entry in the hub lie calls to the registry, the
session verifier and the environments table, and in the frame chain calls to the
usage store. HTTP handlers reach live sockets only through `uplinkSockets`. The
filler, the installer and the open endpoint share the pool table and nothing
else. Uplink traffic feeds the keepalive; presence, sends and attaches feed the
waker.

What is hard. JavaScript gives atomic turns, so everything hard sits at an
`await` or between processes: a socket that died or was evicted while a lookup
ran; frames queued behind a metered send that run after their connection is
gone; a revocation that overlaps an admission; a host that reconnects and knows
nobody; a half-dead peer; a sweep that acts on a list it read several calls ago
while machines report and people claim; a call whose effect took place and whose
answer was lost; a crash anywhere between the row, the machine and the command.
`PROJECT.json` lists these hazards at the lines where they bite, each with the
properties that would catch it, or the reason why none does yet.

What makes each part correct:

- *hub and edge*: one tab token is one client; the host's view of the clients is
  the hub's; nothing stays in the hub that no event will remove; no browser is
  left open and unheard; frames keep their order; a removed device is cut off;
- *shelf*: a machine is handed over once; a machine that is paid for is named by
  something; a row is buried only when its machine is gone; what is for sale
  exists; a build that died is settled; builds are bounded; holds end;
- *cloud*: an account has at most one machine, or a retry leads there; reset
  leaves neither a machine nor a device behind; a code is redeemed once;
- *wake*: one provider call per device at a time; a machine that works is held,
  one that is quiet is let go; a schedule that was written is not lost;
- *page*: a prompt that was typed is always somewhere, runs at most once, in the
  conversation it was meant for, and in the end;
- *registry and quota*: a revoked token is refused within one TTL; a link is
  approved once; a message is charged at most once and never for nothing.

## 2 Modules

| Module | Models | Uses |
|---|---|---|
| `Hub` | the hub of one device and the host's reading of what it writes | |
| `Relay` | the websocket edge around it | EXTENDS `Hub` |
| `TabRoster` | what the relay promises the host about tabs (abstract) | INSTANCE in `Relay` |
| `Shelf` | filler, pool table, provider, installers, claims | |
| `Cloud` | open, reset, handover and removal of one account's cloud machine | |
| `Linking` | links, their approval and the limit of machines | |
| `Feed` | the update feed of a channel over the list of releases | |
| `Awake` | wakes, hold, presence and schedule of one cloud machine | |
| `Boot` | the script a cloud machine runs on every boot | |
| `Credential` | the verification of device tokens over its cache | |
| `Outbox` | what the browser page does with a prompt, over its socket and the host's absences | |
| `MCRelay`, `MCShelf` | instances for TLC | EXTENDS `Relay`, `Shelf` |
| `MCOutbox` | `Outbox` and the lane of one of its connections through `Relay`, side by side, for TLC | EXTENDS `Outbox`, INSTANCE of `RelayProofs` |
| `MCAccount` | `Cloud`, `Linking`, `Feed` and `Shelf` side by side, for TLC | INSTANCE of their proof modules, and of `Feed` |
| `MCDesk` | `Awake`, `Boot`, `Credential` side by side, and `Cloud` and `Shelf` for their liveness | INSTANCE of `Awake` and `Credential`, and of the others' proof modules |
| `RelayProofs`, `ShelfProofs`, `BootProofs`, `CloudProofs`, `LinkingProofs` | theorems about the module of that name | EXTENDS it |
| `OutboxProofs` | theorems about `Outbox`; the order of frames carried over to the sum | EXTENDS `MCOutbox` |
| `DeskProofs`, `AccountProofs` | theorems about `Awake` and `Credential`, and about `Feed`; the theorems of the parts carried over to the sums | EXTENDS `MCDesk`, `MCAccount` |

Operators whose comment begins with *Mutant* are variants of the definition they
precede, each with a mistake one could make in that code. They are used nowhere
in the specifications; putting one in the place of the original must break the
property `PROJECT.json` pairs it with.

**Sums.** `MCAccount`, `MCDesk` and `MCOutbox` put parts side by side that share no
variable: the update feed knows no accounts, the boot script runs on the machine,
`Cloud` has a shelf of its own that only claims touch, `Linking` has a cloud device of
its own, of which it models what the count sees (issued, then listed, or never
listed; reset), and `Outbox` a relay of its own, which only bounces and routes. A
behaviour is one of a single part, named by the variable `part`; the others keep their
initial states. It is the disjoint sum of the parts, so a
property of one part holds in the sum if and only if it holds of the part alone,
and the states add up instead of multiplying. The proof modules `AccountProofs`,
`DeskProofs` and `OutboxProofs` use just that: a step of the sum is a step or a stutter
of each part. In `MCOutbox` the page rests in one of its initial states while the lane
moves, and the lane, which stops when its connections are used up, stutters then
(`AllOver`), so that deadlock is checked of the page.

### Hub

Devices share only the counter that mints client ids, so one device is the whole
component. `uplink`, `hello`, `clients` and `tab` are `DeviceHub`; `socket` is
each connection's readyState, with `lost` for a peer that vanished while the
socket still looks open. The uplink is a reliable ordered channel to a host the
code does not contain, so what the host knows is a function of the frames written
to it; `host` holds that function's value rather than a queue of frames, and a
fresh uplink starts from `FreshHost`. Client ids are never reused, so a client is
its connection.

`AttachUplink` is the attach with its replay, count first. `ClientReady` is the
whole `ready` branch of `fromClient` in its order: write the token, evict
(`client-left` each), return early when nobody is reachable but close the evicted
all the same, `client-ready`, the count, then the closes. Like the code it does
not ask whether the sender still is a client, except to write its token.

Not modelled because they change no state: `host`, `host-to` and `working`
frames, and the transport probe.

### Relay

An action is one turn of the event loop. Links of a frame chain are microtasks:
while one can run (`Runnable`) no other turn starts, which is the guard `Quiet`
of every other action. What follows an `await` is an action of its own.

| Code | Actions |
|---|---|
| `server.on("upgrade")` | `UplinkDial`, `ClientDial` |
| `handleUplink` | `VerifyReads`, `VerifyRefuses`, then `UplinkDied`, `UplinkTaken` or `UplinkAttaches`; frames: `HostHello`, `HostSnapshot`, `HostRefused`; close: `UplinkClosed` |
| `revokeDevice` and its two endpoints | `RevokeCommits` (the row), `RevokeCloses` (the socket) |
| `bufferUntilAdmitted` and `admit` | `ClientFrame`, `Overflows` |
| `handleClient`'s lookups | `ClientJoins`, `ClientRefused` |
| `handleFrame` | `RunReady`, `RunAct`, `RunSendBounces`, `RunSendRoutes`, `RunSendMeters`, then `MeteredRoutes` or `MeteredBounces` |
| close of a client, pinger | `ClientClosed`, `PingTerminates` |
| the peers | `PeerVanishes`, `PeerCloses` |

A frame is `ready`, `act` (anything uncapped) or `send` (anything capped), and a
number. Whether a send is bounced for the burst limit or the quota, and whether it
is metered, is chosen freely. `uplinkSockets` is written exactly where the hub
attaches and detaches (`uplinkSockets.get(d) === ws` holds whenever `detach`
runs), so the model reads the hub's uplink instead. The pinger's two ticks are one
step on a lost socket. Frames that arrive after the relay's own `close()` are
handed over by the websocket library: `handleUplink`'s handler takes them,
`handleClient`'s drops them. Wake, keepalive and presence calls at these sites
change nothing of this state and come with their own components.

A browser sends `ready` first on a connection and may send it again: the page does,
when a send was bounced as "Device offline" (`web/chat.html` 3419-3431). `again` is
history: somebody has. Until then the relay implements `TabRoster`.

### TabRoster

The abstract promise: a roster of members, each perhaps holding a tab; a newcomer
displaces the holder in one step; who is gone never returns; with the link down
the roster is empty, and it comes back whole. `Relay!ImplementsRoster` maps the
host's view to the members and, as gone, the connections whose handler is over or
that were evicted.

### Shelf

An action is one call to the table or the provider: its effect over there and what
the filler does with the answer. A sweep walks `pc` through "stale", "scrap",
"counted" and "build"; builds of one sweep run in parallel, one `job` per machine
name. Every call may fail before its effect; with `LostAnswers` also after it.
`Crashes` may happen between any two calls, and forgets `holds` and
`failedLaunches` with the process; the table and the machines stay.

| Code | Actions |
|---|---|
| adoption (`pool-filler.ts` 144-182) | `SweepAdopts`, `SweepAdoptsNot` |
| the stale loop (184-206) | `FindsStale`, `FindsNone`, `DestroyTakes`, `DestroyFails`, `MarksFailed`, `MarkIsLost` |
| `counts` and `buildsToStart` (208-217) | `CountsReady`, `StartsBuilds`, `CountFails` |
| one build (215-266) | `Reserves`, `ReserveFails`, `Creates`, `CreateFails`, `CreateIsLost`, `Releases`, `Launches`, `LaunchFails` |
| end of the sweep, `running` | `SweepEnds` |
| the installer | `Installs`, `SendsReport` |
| `/api/environment/pool/ready` | `ReportArrives` |
| `claim_pool_sprite`, and the `remove` of an open | `Claims`, `Leaves` |

The clock is `aged`, the rows older than `BUILD_TIMEOUT_MS` (60 minutes); a sweep
decides by the clock it read at its start (`asOf`). A row does not age while its
own build attempt runs: one create and one exec, which gives up after
`EXEC_TIMEOUT_MS` (two minutes). `mishap` is history: machines whose create was
never answered, and machines whose report came after they aged. `given` is
history: machines a claim has returned.

### Cloud

One account. An action is one call, its effect over there and what the handler
does with the answer; a call fails before its effect, or takes effect and loses
its answer, or both arrive; `Crashes` falls between any two.

| Code | Actions |
|---|---|
| `cloudOpens` (`server.ts` 633-769) | `Attempts`; waiting for another's attempt is no step |
| the attempt: `listByUser`, `claim`, `createNamed`, `issue`, `create`, `remove` | `Lists`, `Claims`, `ClaimsNone`, `Creates`, `Issues`, `Writes`, `Unshelves`, `OpenFails` |
| the setup that runs on after the answer; `environment-handover.ts` | `JobInstalls`, `JobHands`, `JobFails`, `CodeExpires` |
| `/api/cloud/reset` | `ResetLists`, `Destroys`, `Revokes`, `RevokesAgain`, `Removes`, `ResetFails` |
| `DELETE /api/devices/:id`, `/api/device/unlink` | `RemovalChecks`, `RemovalRevokes`, `RemovalFails` |

A pooled machine has a name of its own, used once; a machine made to order always
has the name `Own`, which is what `ResetHitsItsOwn` is about. A second setup of
the same device does not exist: a device is issued once. History: `condemned` are
devices whose environment somebody asked to reset, `ghosts` those whose open
failed between the issue and the environment's row, `raced` those whose removal
looked before that row was there; they name the exceptions a property makes, and
the actions read none of them.

### Linking

`LinkStore` and `/api/link/approve` of one account: a link is started (`Starts`),
expires (`Expires`), is approved in any number of tabs; devices are removed
(`Deletes`); the relay restarts (`Crashes`).

| Code | Actions |
|---|---|
| `/api/link/approve` (`server.ts` 813-874): the session and the link | `Begins`; `entitled` is what the session said of the plan, which may have lapsed since the last link |
| `listByUser`, `revoke` of the superseded | `Lists`, `Supersedes` |
| without a plan: `listByUser`, then `environments.listByUser` and the limit | `Owns`, `Counts` |
| `issue`, `store.approve`; a call that throws | `Issues`; `Fails` |
| an open (700-713): `issue`, `environments.create`, a call that fails in between | `CloudIssues`, `CloudLists`, `CloudFails` |
| `/api/cloud/reset` (963-969) | `ResetRevokes`, `ResetRemoves` |

The two lists of the count are two calls, so the environments are read later than the
devices; `known` is FALSE where the second fails, and the cloud's device then counts
like any other (`Countable`). `CountMachines` is `countMachines` as it is written,
with its shortcut for accounts without a desktop install, and is proved to count what
`MachinesIn` says (`CountIsExact`, `CountIsEnough`). An install is a computer and
"editor" or "desktop", or `NoInstall` for an extension too old to say. Where there is
no free tier the limit is 0: everybody without a plan is refused.

History: `clouds` are devices issued for the cloud; `overlapped` says that two
approvals were under way at once; `stripped` collects of each refusal that had
superseded a device what it counted (`Ground`): a device of the cloud, machines above
the limit when the approval began, or neither.

### Feed

Two caches on top of each other: the list of releases, shared by the channels and
the download redirect, and one channel's file, made from the newest publishable
release of that list. `FeedAsks` is `loadUpdateFeed` where the cache has no
answer, `ListArrives`, `ListFailsOver` and `ListFails` are `cachedReleases`, and
`WalkFinds`, `WalkRejects`, `WalkErrs`, `WalkEndsEmpty` and `WalkFails` the walk
of `refreshUpdateFeed` over its candidates, one fetch at a time. GitHub publishes,
pulls a release or pulls only its installers. A text is reduced to whether it can
be published.

### Awake

One cloud machine: `machine` runs or is suspended, `uplink` is what the hub
thinks, `dead` being a socket nobody has noticed the end of. The actions are the
turns of `wakeSleepingEnvironment` and of `handleClient` that start a wake
(`Attaches`, `FreeFrameOffline`, `Drops`), the answers of its lookup (`Finds`,
`FindFails`), the provider's answers (`WakeSucceeds`, `WakeFails`), the keepalive
target of an uplink (`Links`, `TargetFound`, `TargetFails`, `Frame`), presence,
the scheduled wakes (`HostSchedules`, `SweepReads`, `SweepLooks`, `SweepClears`),
the sweep of the holds (`HoldReleased`), and the provider suspending what nobody
holds. `Trigger` bounds how many wakes are being looked up or awaited at a time.
The times are ages: `recent` says the last frame is within `KEEPALIVE_IDLE_MS`,
`held` whether the hold's last activity is.

### Boot

The script of `pool-bootstrap.ts`, an action per command: `at` is the command it
has reached. `Stops` is a pause of the machine or a restart of its service between
any two commands, a command that exits, or the end of the host; the files stay.
The install is `InstallLooks` to `InstallStamps`, then `Reports`, the wait for an
owner (`Claimed` is the handover of `Cloud`, seen from the machine), the weekly
`refresh_host_if_stale` with its resumable download (`RefreshChecksId` to
`RefreshDiscards`) and the swap (`SwapClears` to `SwapTidies`, `SwapRestores`),
and `Starts`. `Arms` is the operator's `refresh-sprite-hosts.mjs --apply`. A
partial download is the set of builds its bytes come from, which is what resuming
can get wrong.

### Credential

`SupabaseDeviceRegistry.verify`, `issue` and `revoke` over `DeviceVerifyCache`:
`Hits`, `Misses`, `Reads`, `ReadFails`, `Caches` are a verification with its
lookup in the database, `RevokeCommits` and `RevokeReturns` a revocation and its
`invalidateDevice`, `RevokeIsLost` one whose answer was lost. The cache is modelled
with its bound (`Evicted`) and both times to live, in ticks. `unanswered` and
`straddled` are history, and name the two exceptions of `RevokedIsRefused`.

### Outbox

One tab of the page. `outbox` and `remembered` are what the tab's storage keeps;
`live` is what was written to a socket and is not answered; `composer` is text the
person has back; `target`, `complete`, `ever`, `marked` and `armed` are
`identityTarget`, `identityRestoreComplete`, `identityEverCompleted`, the class
`identity-restoring` and the fail timer; `offline` is `offlineHold` and
`deviceOffline`. The page's socket is two channels, `up` to the relay and `down`
to the page, each in order; both are lost with it, but a prompt on its way up may
have reached the relay and be routed after the close (`late`).

| Code | Actions |
|---|---|
| the `postMessage` shim, `liveSendDisposition` | `Types`, `Asks`, `Switches` |
| the socket's open; its close; `abandonSocketAndRedial`; a reload | `Dials`; `Closes`; `GivesUpSocket`; `Reloads` |
| the "Device offline" branch of the message handler | `HearsBounce` |
| the rest of it, by what the frame is: acknowledgement, proof of a live host, renderer, restore | `HearsSession`, `HearsSnapshot`, `HearsRefused`, `HearsError`, `HearsAck`, `HearsLimit` |
| `handlePersistentDeviceOffline`, `armIdentityFailTimer` | `GraceEnds`, `FailTimer` |
| `handleFrame` and the hub, offline | `Bounces` |
| the same, online, with what a host may answer (external) | `RoutesReady`, `RoutesAsk`, `RoutesResume`, `RoutesSwitch`, `RoutesPrompt`, `RoutesLate` |
| `attachUplink`, `detachUplink` | `UplinkReturns`, `UplinkDrops` |

The operators `Begins`, `Finishes`, `Abandons` and `Flushes` are the four functions
of a restore, and `Confirms` is what a frame that names a conversation does to one.
A conversation is a number; its repository is not told apart from it, so a
snapshot is one frame where a host sends several. The host is anything the page
can meet: it binds a new connection to a conversation of its own, shows it or says
only an error, opens a conversation that is asked for, refuses it by name, or says
nothing; it may come back having forgotten where a connection was. History: `ran`
counts how often the host took a prompt; `meant` is the tab's conversation when it
was typed or last held, and `None` while an ask for another conversation, or the
answer to one, is on its way (`Settled` is false: the person has chosen, and only
the frames say what); `over` are prompts refused by a limit or forgotten without
an answer, `swayed` and `at` name the exceptions of `HeldRunsWhereMeant`.

## 3 Runs

All of them finish; times are from two workers of a small machine.

| Run | Instance | States | Shows |
|---|---|---|---|
| `relay_core` | 2 connections of one tab, 2 frames each, 2 uplinks that may vanish, repeated ready | 1.4 M, 90 s | `TypeOK`, `OneHolderPerTab`, `HostKnowsTabs`, `CountIsCurrent`, `NothingStranded`, `NoDeafSocket`, `ImplementsRoster` |
| `account_main` | `Cloud`: 1 pooled machine and one to order, 2 devices, 2 opens, 2 resets; `Linking`: 2 computers, 2 links, 2 devices, one of which may be the cloud's, 2 approvals that do not overlap, limit 1; `Feed`: 2 releases, 1 candidate, time to live 2; `Shelf`: 1 process, 2 machines, target 1, 2 crashes, lost answers, late reports | 1.2 M, 150 s | `OneEnvironment`, `NothingUnnamed`, `NoGhostDevice`, `StandsUntilReset`, `IdentityIsOwners`; `LimitHolds`, `InstallIsOne`, `RefusedRelinkIsExcused`; `PulledIsGone`; `GivenIsOffShelf`, `BuildsBounded`, `FailedIsGone`, `TableIsTrue` |
| `outbox_main` | 1 prompt, 2 sockets, 1 absence of the host (from the start or later), 1 of: a frame that is no prompt, a change of conversation, a reload; the lane: 1 connection with 3 frames, 2 uplinks of which one may vanish, fairness | 0.8 M, 100 s | `RunsOnce`, `Accounted`, `HeldRunsWhereMeant`, `RestoresEnd`; `FramesInOrder`, `EventuallySynced` |
| `desk_main` | `Awake`: 1 tab, 2 triggers; `Boot`: 3 releases; `Credential`: 2 keys, 2 lookups, room for 1; `Cloud` and `Shelf`: one of each | 78 k, 79 s | `TypeOK`; `OneWake`, `WorkIsHeld`, `Reachable`, `HoldsLapse`; `ReadyCanStart`, `NoMixedBuild`, `UpdatesArrive`; `RevokedIsRefused`, `RefusedInTheEnd`; `ResetSucceeds`; `StaleIsSettled`, `HoldsEnd`, `InstallIsHeld` |
| `relay_rival`, `relay_revoke`, `shelf_late`, `account_reset`, `relink_refused`, `feed_yank`, `desk_swap`, `outbox_strand` | small ones that show it, of the module alone where that is enough | | section 4 |

**Why the bounds are enough.** Everything the hub does relates at most two
connections that share a token (an eviction), or one connection and the change
from one uplink to the next; two of each, in every interleaving, contain a
takeover during an outage, a replay after it, a late frame of the evicted and a
refused second uplink. Two frames per connection let one wait for the usage store
while another is queued behind it, and the three frames of the lane in `outbox_main`
two of them behind a third that waits. `MaxPending` is 1 to 3 where the code has 32,
so that the overflow and its absence both occur. A frame's number and the two
counters of the host are bounded by the frames sent.

Two machines with target 1 contain a replacement built while its predecessor is
scrapped or claimed, and two crashes a crash during the recovery from a crash.
Instances of two processes are out of TLC's reach here; the theorems about `Shelf`
hold for any number of them.

In `account_main` two opens and two resets meet over two devices: an open during a
reset, the environment of one and the setup of the other, two resets of one
environment. A pooled machine and the one made to order are the two cases of a
name. A limit of 1 is where every second device is one too many: a second computer, the
cloud's device while it has no row, and both of two that were linked with a plan. The
properties of `Linking` say nothing once two approvals have overlapped, which never
ends, so `CONSTRAINT NoOverlap` leaves those states unexplored; the theorems are about
all of them. Two releases with
one candidate contain a publishable release hidden behind one that is not, a
release pulled while its file is cached, and one that appears during a walk; a
time to live of 2 tells "within one" from "within two". In `desk_main` three
releases are an installed one, one whose download was cut short and one that came
out meanwhile; two keys with room for one make every second lookup evict; two
triggers are a wake in flight and a second that joins it.

In `outbox_main` two sockets are one that is lost and the one that takes over; one
absence can fall before the first frame, between any two, and during a restore,
and can outlast the grace or not. With one prompt at a time a duplicate, a loss
and a prompt that goes astray are all visible; that prompts keep their order among
each other is not looked at.

**Deadlock** is checked in every run but the relay's, where connections are used up
(each identity dials once) and the system then rightly stops.

**Fairness.** `Relay`: the event loop runs what is queued (frame chains); the
usage store answers or fails; a close is followed by its close event, which the
websocket library guarantees within its close timeout; the pinger ticks; a host
that is linked greets the relay and answers each `client-ready`, as the protocol
asks of it. Nobody is obliged to dial, to send or to stay, and `EventuallySynced`
asks only for an uplink that stays up from some point on.

`Shelf`: a process that runs goes on and is restarted after a crash (weak), and a
call that every sweep makes anew is answered in the end (strong: it is enabled
again and again, not continuously). Nothing is assumed of machines, people or the
clock. Crashes are bounded by `MaxCrashes`: a process that may die in every sweep
need not get anything done.

`Awake`: timers run (weak); a lookup, a wake and a dial that are tried again and
again succeed at last, a missed ping ends a dead socket, and a page that is
offline goes on probing, as `chat.html` does every twelve seconds (strong: each is
interrupted by crashes and suspensions). `Boot`: the script runs, weeks pass, and
what is tried again and again works at last; and from some time on the machine is
stopped only while its host is starting or up. That last one is an assumption
about the world: a boot takes minutes, and a machine that is paused in every one
of them is updated by nobody. `Credential`: time passes and the database answers.
`Cloud`: somebody presses Reset until there is nothing left, and a call made again
and again is answered at last.

`Outbox`: frames that were written arrive, the relay bounces or routes them, the
page reads what it hears, and its two timers fire (weak; each stays enabled until
it is taken). Nothing makes a person type, a socket open or stay, or a host come
back; `RestoreEnds` (`RestoresEnd` of the sum) and `OutboxDrains` ask only what happens
once page and host stay connected.

In `MCDesk` a liveness property is that of one part under the fairness of that
part: `part = "boot" /\ B!Fairness => B!UpdatesArrive`. In `MCOutbox` it is the same
(`RestoresEnd`, `EventuallySynced`).

**Symmetry** is used in `relay_core` and `account_main`: the identities are
interchangeable there, no property names one and none is a liveness property
(`ImplementsRoster` is the safety part of the roster, an initial condition and a box,
and `LimitHolds` a box). In `MCAccount` the parts share model values, since they are
never active together.

## 4 Where code and documentation disagree

- `relay_rival` (`NoRivalArrival`): with a repeated `ready`, one that runs late on
  the chain of an evicted connection evicts its own successor and makes the host
  believe in a client that is gone; the tab's next connection then arrives beside
  a present holder of its token, which is what the eviction is there to prevent.
- `relay_revoke` (`RevokedIsDisconnected`): an uplink whose token was verified
  before a removal attaches after the removal looked for a socket to close.
- `shelf_late` (`RowsWithoutMachineHeal`): a report that lands between the destroy
  and the mark of a stale build puts a destroyed machine on the shelf, where no
  sweep looks at it.
- `account_reset` (`ResetHitsItsOwn`): the slower of two resets destroys the
  machine that was opened after the faster one, because a machine made to order
  has the account's name each time.
- `relink_refused` (`RelinkIsFree`): approving a re-link revokes the device it replaces
  before it asks the limit. A free account has its one computer linked; an open has
  issued the cloud's device and not written its environment yet, or failed there; the
  computer is linked again, its device is revoked, two are counted against one, and
  the answer is 403. The comment above that code says it is there to keep a re-link
  from meeting the device cap, and the one below that a cloud environment does not
  count. The same happens where the environments cannot be listed, and to an account
  whose plan lapsed above the limit.
- `feed_yank` (`NothingYankedOutlivesTtl`): the installers of a release are pulled just
  after the list of releases was read; the file is made just before that list expires
  and served for a time to live of its own. "Nothing yanked outlives one TTL" says
  `server.ts` 528.
- `desk_swap` (`HostIsNeverLost`): a boot script cut short between the two renames
  of an update leaves the machine without a host, and the check it stamped before
  keeps the boots of the next week from looking for one.
- `outbox_strand` (`OutboxDrains`): a prompt typed while the host is away, with
  nothing else held, goes to the outbox, and no restore is under way whose
  confirmation would flush it when the host returns. It waits for the next socket or
  the next bounce, though the page says that it "will be sent when VS Code
  reconnects"; and it follows the tab if another conversation is chosen meanwhile.

The passing properties state how far the damage goes: until somebody repeats `ready`
(`again`) the roster is implemented, and `OneHolderPerTab` holds even with late readies;
`RefusedRelinkIsExcused` says that a refusal after a revocation always counted a device
of the cloud or began above the limit, so that superseding alone never costs the room
it makes; `PulledIsGone` that a file which was pulled itself is gone after one time to
live, and one whose installers were after two, but where GitHub refuses a new list;
`TableIsTrue` holds of every machine that met no mishap;
`StandsUntilReset` holds of every machine with a name of its own; `UpdatesArrive`
holds, a week later, also of a machine that lost its host. `HeldRunsWhereMeant`
holds of a tab that keeps to its conversation while prompts wait (`swayed` is
FALSE). The tab can leave it without being asked: when the grace is over,
`handlePersistentDeviceOffline` takes away the class by which
`identityRestoreInFlight` (`web/chat.html` 3475-3479) keeps a host's interim
conversation from being remembered, "as ours" in the words of 3500-3501, while the
restore goes on; a socket lost before it is confirmed then restores the interim
one, and flushes the held prompt there.

## 5 Proofs

The theorems are of the form `Spec => []...`, but for two action properties
(`LaneInOrder`, `LimitIsKept`) and one refinement (`RosterIsImplemented`), for every
value of the constants that satisfies the assumptions the modules name: finite sets
where something is counted, natural numbers where something is compared, and
identities that do not coincide. No fairness is used. Every safety property that a passing run
checks is a theorem.

**`RelayProofs`.** `TypeCorrect` proves `TypeOK` with `AwaitingHasFrame`: a chain
that waits for the usage store has its frame at the head and was admitted. The
strengthening is needed for `MeteredRoutes` and `MeteredBounces`, which take the
head of the queue. `OneTokenOneClient`, `HostIsInformed`, `HostHasTheCount`,
`EntriesFollowSockets` and `SocketsHaveEntries` rest on one inductive invariant,
`TypeInv /\ HubSafe`, the conjunction of the five safety properties: none is
inductive alone. That an evicted socket is closed (`NoDeafSocket`) needs every
entry to belong to a joined handler (`NothingStranded`); that a host that is
reachable was reachable when the entries changed needs the uplink to be a joined
one, for a deliverable uplink to stay deliverable under every step that leaves the
hub alone; and what the host was told (`HostKnowsTabs`) is kept by an eviction
because it tells of exactly the entries that go. The proof has one lemma per
action that touches the hub, and one frame lemma, `OutsideHubSafe`, for all the
others: they leave the hub's variables as they are, and move sockets only away
from open.

`NoneOvertakes` (`FramesInOrder`) rests on `ChainsInOrder`: the frames on a chain are
numbered upwards, above what the host was given last and up to what was sent.
`StepMoves` reduces all the actions to four moves of one chain (kept, takes its
head, gets a frame, dropped), and `MoveKeepsOrder` treats those. The chain of a
metered send keeps its head while it waits, which is why nothing passes it.
`LaneInOrder` of `OutboxProofs` carries it over to the sum with the page.

`RosterIsImplemented` is the refinement: every step of `Relay` is a step of `TabRoster`
or a stutter until somebody repeats `ready`. `RosterInv` says what holds till then: a ready is the first frame
of its chain and never stands behind another (`ReadyIsFirst`), it does not wait
behind the usage store (`SendsAwait`), so it is run before its client can be evicted
or closed (`ReadyComesFresh`), and the host counts nobody present who is not in the
hub (`HostFollowsHub`, the converse of `HostKnowsTabs`). `StepKinds` then leaves
five cases. What passes unnoticed in the hub is `Unseen` or `LinkDown`; an attach is
`LinkUp`; a join is `Unseen`; a close is `Depart`, or `Unseen` if the host never
heard of the client; and a ready is `Arrive`, where the clients the hub evicts are
exactly the ones the roster displaces, by the two halves of what the host knows.
`NoneIsRefused` says that till then no arrival meets a rival at the host. Without
`again` that is false (`relay_rival`), and so is the refinement.

**`ShelfProofs`.** `ShelfInv` is `Parts /\ Bounded`. `Lifecycle` says a name not
yet reserved has no row and no owner's claim, and that a process outside "build"
has no build under way: it is why a sweep that counts finds all its builds in the
table. `Graves` says only old rows are scrapped, nobody builds behind an old row,
and what is about to be marked was destroyed: it carries `FailedIsGone` across the
two calls of destroy and mark, since a create of the same machine can no longer
come between. `Launched` carries `FailedLaunchNotHeld` across adoption. `Bounded`
counts the builds of one process that count, those about to be reserved included;
its step at `StartsBuilds` is the cardinality argument that `BuildsToStart` adds no
more than is missing. From it follow `HandedOverOnce`, `BuriedIsDestroyed`,
`FailedLaunchesSleep`, `OneTargetEach` and `ShelfTypes`. `Truth` follows a
machine and its row through a build: no machine before its create, a row while it is
being created, no machine after a release but for a mishap, reports from machines
that exist, and nothing on a scrap list that has been put on the shelf since, but
for a mishap. It carries `TableAgrees`, that the table tells the truth about every
machine that met no mishap.

**`CloudProofs`.** One inductive invariant of six parts besides the types.
`AttemptInv`: one attempt at a time, and no environment while it is on its way to
one; it is what makes the environment one although the table has no such
constraint. `HandInv` and `ResetInv`: what an attempt or a reset has in hand, and
what it has already done of it. `TieInv`: everything that puts a device and a
machine together (an environment, an identity, a setup, an attempt, a reset), so
that a machine with a name of its own is tied to one device for ever. It is the
part that none of the properties suggests: `OwnersIdentity` and `NothingIsUnnamed`
fail to be inductive because a setup or a reset could still hold on to the
machine. `StandInv` and `DeviceInv` are the two halves of `StandsUntilReset`, for
the machine and for its device, over everyone who may take them away.

**`LinkingProofs`.** First the arithmetic: `CountMachines` with its shortcut is the
number of machines (`CountIsExact`, `CountIsEnough`), and one more device of an
install that is already there is no more of them. `CloudInv` keeps the cloud's devices
apart: they have no install, and the environments name only them. Then `AloneInv`, for
as long as approvals have not overlapped: an approval past its list has every live
device of its install in hand (`OldIsListed`); within the limit, one that superseded
has room for what it will issue, as the others only ever leave while it is alone
(`HasRoom`); and what it listed to be counted is everything that is live now, each
install once, and none of what was superseded (`OwnedIsFair`). `LimitIsKept`,
`InstallsAreOne` and `RefusalsAreExcused` follow: a refusal after a revocation can
only have counted a device of the cloud, or machines that were too many before.

**`BootProofs`.** `InstallInv` says what is on the disk where the script stands;
`PartsInv` that the bytes are of the asset whose id lies beside them; `RecordInv`
orders record, disk, lookup and newest release, and carries the looked-up build
through the swap.

**`DeskProofs`.** About `Awake`: `WakesAreJoined` (the provider works on one wake
when somebody awaits one, and on none otherwise) with `WorkIsHeld` and the types.
About `Credential`: `AllForgotten`, that a revoked key is in the cache only while
its revocation is under way or for the two exceptions. And the theorems of the parts carried over to the sum, `DeskTypes` among
them: every part keeps its types, the ones that stand still included.

**`AccountProofs`.** First `Feed`, as ages: `ListInv` (what a list misses or names
wrongly is no older than the list), `WalkInv` (what a walk has left to try, from a
list that was fresh), `EntryInv` (one time to live more), together `FeedInv`. The two
bounds of `PulledIsGone` and `NotFoundIsBrief` follow. Then the theorems of the
parts carried over to the sum.

**`OutboxProofs`.** For any number of prompts, sockets, absences and moves.
`Invariance` is one inductive invariant: types; `Flight`, that a prompt is in one
place at a time on its way (held, on the way up, in an answer, or still at the relay
after the close), that what has not arrived was not taken, and that an answer says
whether it was; `Recorded`, that what is on its way was typed. `TakenOnce` (`RunsOnce`) and
`NoneVanishes` (`Accounted`) follow: a bounced prompt is held again only because its
bounce is the proof that the host did not take it.

`HeldGoesWhereMeant` (`HeldRunsWhereMeant`) needs more, because the page flushes on
what the host said and the host acts on what it is when the flush arrives. `HeldInv`
says why the two agree as long as the tab does not sway. What the host said last is
where it is, unless its uplink went since (`LastWordHolds`); while it is away
nothing it said before, and nothing flushed before, counts any more
(`SilentWhileAway`); as long as prompts are held the tab keeps its conversation and
nothing on the way leads elsewhere (`HeldStaysPut`), so that a flush finds the host
there; and behind it comes nothing that the host reads first (`FlushedGoesThere`).
`RestoresTab`, that a restore is for the tab's own conversation, and `Named`, that a
frame about a conversation names one, are what these four need of the page.

**Proved and checked by no passing run**: `FailedLaunchNotHeld` (`ShelfProofs`),
`NotFoundIsBrief` (`AccountProofs`), `RecordIsNotAhead` (`BootProofs`),
`NoRivalArrival` until somebody repeats `ready` (`RelayProofs`), and the type
invariants of `Boot`, `Cloud`, `Feed`, `Linking`, `Outbox` and `Shelf`, each by
itself.

**Model-checked only**: all liveness properties (`EventuallySynced`, `Reachable`,
`HoldsLapse`, `UpdatesArrive`, `RefusedInTheEnd`, `ResetSucceeds`, `StaleIsSettled`,
`HoldsEnd`, `InstallIsHeld`, `RestoresEnd`), which need `ENABLED` and fairness and are
out of the prover's reach.

## 6 What is not covered

- Frame parsing, payloads, wording, logging; close codes except as the step that
  closes. Bytes: the pending limit counts frames only.
- The voice chunk ceilings, the probe and presence, which pass the frame chain.
- The counters of quota and burst limits: `Relay` lets them answer either way.
- Sessions and entitlement: calls to an identity service with a token in and
  claims out.
- Of the page: voice, answers to cards and the drafts kept of them, queue releases
  with ids of their own, the transcript's cache, repository previews, held file
  requests, duplicate tabs, closes that end the page's work (4003, 4004, 4005), an
  old host's refusal without a name. Composer text is memory: what a reload does to
  it is not looked at.
- The page's further `ready` on an error that is a refusal or a limit
  (`web/chat.html` 3262-3271): the model sends it on the plain error (`HearsError`).
- A first `mv` of the boot script's swap that fails (`pool-bootstrap.ts` 253, swallowed):
  the second would then move the new build inside the old directory and record it.
- `spriteHold`'s socket, retry and watchdog: a hold is taken for what keeps a
  machine running.
- The operator's staging of a host build, and the check and test scripts.
- A provider that carries out a request after the process that sent it gave up or
  died, *later than* the next calls about the same machine; an effect takes place
  before the answer, the loss of the answer or the crash.
- The stopper of the filler, which lets go of its holds while a sweep may be
  running; the process exits right after.
- A claim whose answer is lost: its row stays "claimed", which the model has as a
  claim that never leaves.

Noticed while modelling, and stated by no property:

- A send that is bounced because the host is offline wakes nothing: it is answered
  at `server.ts` 1732, before the wake at 1768 whose comment reads "WAKE ON SEND".
  The page's next `ready` does (`FreeFrameOffline`).
- A wake by schedule is the one wake that opens no hold (`wake-scheduler.ts` 79),
  so that the machine may be suspended before its host has dialled back, though
  `docs/cloud-environments.md` 102 has every woken machine held.
- A prompt that was written is dropped from the tab's storage when it is written,
  not when it is delivered: a reload before its answer forgets it (`over` in
  `Outbox`).
- A re-link revokes the superseded devices without closing their uplinks.
- Two approvals that overlap both pass the limit, and can leave an install with two
  live devices (`overlapped` in `Linking`): the rows are listed, counted and issued in
  separate calls.
- A create whose answer is lost leaves a machine without a row (`mishap` in `Shelf`);
  a wake that fails lets go of the machine's hold even if its uplink is back (`letgo`
  in `Awake`); a handover code that expires or is lost after it was redeemed leaves
  the machine without its identity until a reset (`Cloud`). The properties name these
  cases as exceptions.
- A schedule the host writes while the scheduler is between its read and its clear
  is cleared with the one that was due.

## 7 Plan

Done: the relay, the shelf, the cloud endpoints, linking, the feed, what keeps a
machine awake, the boot script, the verification of tokens, the page's outbox.

Next, in this order:

1. `Quota`: weekly counter and minute buckets with retries of bounced sends.
2. A claim whose answer is lost and a provider that answers late, in `Shelf` and
   `Cloud` together.
3. Proofs: what is left of the roster after a repeated `ready`; the steps of the liveness
   arguments that are safety (that a waiting chain can always be answered, that a
   stale build is always found by some sweep).
