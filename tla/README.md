# A verification project for DeviceApp

DeviceApp relays the cameras of a site to Qt clients. It is two C++ programs:

* **DeviceServer** finds the devices (Sub-Pis by their UDP beacon, Hanwha
  cameras by WS-Discovery and ARP), keeps a registry of them, relays the
  Sub-Pis' video over RTSP and passes their events on to ClientServer;
* **ClientServer** keeps one TCP connection to DeviceServer, caches what it
  pushes, and serves the Qt clients over TLS: log-in, registration, camera list,
  status, motor commands, AI events and images.

This directory models the parts of the two programs in which threads, sockets
and failures interact, checks the models with TLC and proves the main invariants
with TLAPS.

## 1. Inventory

| component | state | operations | hard part |
|---|---|---|---|
| `DeviceManager` | `devices_`, `device_status_` behind `device_mutex_`; `send_mutex_` | callbacks *registered?*, *found*, *available*; `monitorLoop`; `sendMotorCommand` | the monitor checks and closes descriptors it copied before unlocking; commands use a descriptor after unlocking |
| `SubPiManager` | beacon thread, `listener_threads_`, `finished_ids_`, `next_port_` | `runBeaconReceiver`, `requestStartStream`, `subPiListener`, `cleanupFinishedThreads`, `stop` | threads that outlive their descriptor, joins that wait, ids that outlive their thread |
| `OnvifScanner` | `sunapi_fail_count_` | multicast/ARP scan, SUNAPI probing, channels `CH_0..`, `stop` | one channel stands for all; one failed attempt bans an address; a request without a time limit against `stop`'s join |
| `RtspServer` | `mounts_` | `start`, `addRelayPath`, `removeRelayPath`, `stop` | called from two threads, before and after `start` |
| `InternalServer` | `client_fds_`, `client_threads_`, `finished_fds_` | accept, welcome push, request handlers, broadcasts | lists read before the lock that orders the sends; replies outside the lock; descriptors reused while their thread is not yet joined |
| `DeviceController`, `main` | wiring | `run`, `stop` (from the signal handler) | start-up and shut-down order |
| `InternalClient` | `current_fd_`, the camera, status caches | `connectionLoop`, `handleIncoming`, `sendDeviceCommand`, `stop` | reconnects, caches that go stale, framing after a rejected packet |
| `QtCommServer` | clients, roles, TLS sessions, threads | accept, handler, TLS handshake, `broadcast*`, clean-up, `stop` | descriptor reuse against per-descriptor maps |
| `AuthManager` | SQLite `users` | fill the first table, register, log in, list, approve | a start cut short; roles copied out under one mutex and filed under another |
| `ClientController`, `main` | wiring, 5-second loop | `onQtMessage`, `stop` (from the signal handler) | the signal handler may interrupt the thread that holds a lock |
| `SystemMonitor` | none of interest | reads `/proc` | pure I/O |
| `NetUtil.h`, `Common.h` | none | `sendExact`, `recvExact`, packet header | size limits that differ from reader to reader; bodies that grow on the way |
| `tls.hpp`, `dtls.hpp` | memory-BIO session | handshake, encrypt, decrypt | used under `tls_mutex_`; `dtls.hpp` is not used |
| `json.hpp` | none | vendored JSON library | not modelled |

How they interact: `SubPiManager` and `OnvifScanner` call back into
`DeviceManager`, which calls back through `DeviceController` into `RtspServer`
and `InternalServer`. `InternalServer` pushes `CAMERA`, `AVAILABLE`, `AI`, `META`
and `IMAGE` packets to `InternalClient`, which calls `ClientController`, which
calls `QtCommServer`. Motor commands travel the other way.

## 2. What is modelled, and where

### Device side of DeviceServer: `DeviceServer.tla`

| module | code | state |
|---|---|---|
| `Sockets` (external) | kernel, network and Sub-Pis as seen through `socket`, `connect`, `recv(MSG_PEEK)`, `send`, `close` | `sock`: descriptor to connection; `up`; `crashes` |
| `RtspServer` | `start`, `addRelayPath`, `removeRelayPath` | `rtspStarted`, `mounts` |
| `DeviceManager` | constructor callbacks, `monitorLoop`, `sendMotorCommand` | `devices`, `device_status`, `monitor`, `motor`, `send_mutex` |
| `SubPiManager` | `runBeaconReceiver`, `requestStartStream`, `subPiListener`, `cleanupFinishedThreads` | `beacon`, `listener`, `finished_ids`, `next_port` |
| `DeviceServer` | `DeviceController::run`: which thread runs what; properties | none of its own |

Each thread of the program has a record with its program point and the locals
it carries from one critical section to the next (`monitor.targets`,
`beacon.fd`, `motor[c].fd`, `listener[d].fd`), because that is where the code
keeps copies of shared state after unlocking. A critical section of
`device_mutex_` is one action. Between two actions every other thread, and
every Sub-Pi, may step: the monitor's three phases, the beacon thread's path
from beacon to connect to registration to relay to listener, a motor command's
header and body. A send of a motor command may also time out (`SO_SNDTIMEO`) and
leave its frame `Torn` on a connection that stays in use
(`MotorSendTimesOut`). `on_device_changed_` only triggers a push and is modelled on
the other side of the link.

### Link between the two servers: `InternalLink.tla`

| module | code | state |
|---|---|---|
| `LinkSockets` (external) | TCP on the loopback interface, DeviceServer's descriptor table | `conn`, `fds`, `lastConn` |
| `InternalServer` | `acceptLoop`, `clientHandler`, `broadcast*`, `cleanupFinishedThreads` | `acceptor`, `handler`, `client_fds`, `client_mutex`, `finished_fds`, `pusher`, `registry` |
| `InternalClient` | `connectionLoop`, `handleIncoming`, `dispatchPushEvent`, `sendDeviceCommand` | `client`, `current_fd`, `cache` |
| `InternalLink` | both programs, restarts of either, fairness, properties | none |
| `PushedList` | abstract specification: what the cached list promises | `registry`, `cache`, `inStep` |

The device list is a version number; one list stands for CAMERA and AVAILABLE,
which are cached and pushed in the same way. AI, META and IMAGE packets are one
content, `Event`. A packet is two pieces, header and body, as `sendMessage`
sends them; the kernel buffers `MaxPieces` of them, and `send` blocks when they
are full. `accept` takes a descriptor number before it waits, as Linux does. A
reader that has fallen out of step reads anything that the bytes may happen to
say (`ClientReadsTorn`).

### Qt clients: `QtService.tla`

| module | code | state |
|---|---|---|
| `QtCommServer` | `acceptLoop`, `clientHandler`, `sendMessage`, `sendImageMessage`, `sendRaw`, `broadcast*`, `setClientRole`, `cleanupFinishedThreads`; `ClientController::onQtMessage` as far as it sends | `client_fds`, `client_roles`, `tls_sessions`, `finished_fds`, `client_mutex`, `tls_mutex`, `handler`, `acceptor`, `task`, `tls`, `conn`, `fds` |
| `QtService` | the threads, `ClientController::run`'s two kinds of broadcast, fairness, properties | none |

Who has logged in on a descriptor is recorded as the *connection* that logged
in, not as its role's name: that is what tells a stale entry from a current
one. A TLS session likewise remembers the connection it was made for, and how
many of the client's two flights it has processed. A send is two steps, header
and body, and blocks while the receiver does not read. The JPEG that
`sendImageMessage` adds is part of the body. The choice by role between two
bodies (`broadcastByRole`) is not distinguished.

`Subsequences` holds what is done to the vectors of descriptors, here and in
`InternalServer`: `Keep` is `erase(remove(...))`, which keeps the order of the rest
(`Framing` filters packets with it). It is written as a recursive function,
because the provers can expand that.

A SIGINT that arrives while the main thread waits runs `ClientController::stop`
on it (`Stopping`, `StopSpec`): InternalClient's join, QtCommServer's closing of
the server socket and of every client's descriptor, the join of the accept
thread and of every handler. With `Signals = {"idle", "busy"}` it may also
interrupt the main thread inside a broadcast.

### Hanwha cameras: `CameraDiscovery.tla`

| module | code | state |
|---|---|---|
| `OnvifScanner` | `runScan`, `arpFallbackScan`, `getRtspUrls`, `getSingleRtspUrl`; the cameras, curl and the ARP table (external) | `camera`, `exhausted`, `matches`, `scanner`, `sunapi_fail_count`, `requests` |
| `CameraDiscovery` | `DeviceManager`'s callbacks for cameras, the monitor's branch for them, `stopDiscovery` | `devices` (one entry per channel), `monitor`, `stop` |

One SUNAPI request is one step, and the camera may fail between two of them.
`devices` is `devices_` restricted to cameras: the keys of Sub-Pis and cameras
are disjoint, so the two halves of `DeviceManager` are modelled apart.
`requests` counts what a camera has refused; the code does not keep it.
`stopDiscovery` joins the Sub-Pi threads first (`JoinsSubPis`); that this join
returns is neither modelled nor assumed, scanner and monitor run on meanwhile.

### Accounts: `Accounts.tla`

| module | code | state |
|---|---|---|
| `AuthManager` | `init`, `seedTestData`, `registerUser`, `loginUser`, `approveUser` | `users`, the table, which survives the process |
| `Accounts` | `onQtMessage`'s requests about accounts, `setClientRole`, the end and the restart of the program | `program`, `seeded`, `handler`, `client_roles` |

A method is one step, under `db_mutex_`, and may fail (`DbFails`); between its
result and what the handler does with it (filing the role under `client_mutex_`,
answering) others step. `loggedIn` and `told` are history.

### Packet lengths: `Framing.tla`

One module follows a packet through the four readers: `subPiListener`,
`InternalClient::handleIncoming`, `QtCommServer::clientHandler` and
`InternalServer::clientHandler`, each with its own limits (1 MiB, 10 MiB,
inclusive or exclusive). A packet is its type, the length of its body, whether
that is JSON, the length of the JPEG behind it, and the length `dump` of the body
once it has been parsed and written again by `json::dump`. That length is free:
white space goes, `device_id` and `ip` are added, and a number may be written
longer (1e9 becomes 1000000000.0). TLS adds its record to what a Qt client sends.
What a reader does not take is left in the stream (`rest`). Nothing is said of a
reader that is out of step.

## 3. Runs

All runs finish with two workers in less than the times given. `MC*.tla` only
give the constants values and the symmetry sets; symmetry is used in safety
runs only.

| run | cfg | checks | size |
|---|---|---|---|
| `registry` | `MCDeviceServer` | `TypeOK`, `OnlineOwnsSocket`, `DescriptorsAccounted`, `MonitorTargetsFresh`, `RelayPortAgrees`, `ListenerCoversOnline`, `HealthyNeverClosed` | 1.8 M states, 45 s |
| `commands` | `MCCommands` | `HalfFrameHasWriter`, `StatusHasIp` | 1.2 M, 25 s |
| `recovery` | `MCRecovery` | `DisconnectNoticed`, `EveryoneRecovers` | 36 k, 10 s |
| `link` | `MCInternalLink` | `TypeOK`, `ServedAreListed`, `JoinNeverWaits`, `ConnectionsOwned`, `CurrentFdIsOpen` | 1.8 M, 40 s |
| `promise` | `MCLinkPromise` | `KeepsPromise` (refines `PushedList`), `ConnectedIsServed`, `CommandsTaken` | 154 k, 95 s |
| `cameras` | `MCCameraDiscovery` | `TypeOK`, `ForeignCamerasSpared`, `SameVerdict`, `CamerasTracked`, `StopReturns` | 730 k, 120 s |
| `qt` | `MCQtService` | `TypeOK`, `MapsAreCurrent`, `NothingLeftBehind`, `EndedAreAnnounced`, `RecordsInOrder`, `RoleStaysWhileSending` | 2.6 M, 65 s |
| `qt_progress` | `MCQtProgress` | `StatusArrives` | 523 k, 160 s |
| `qt_ends` | `MCQtEnds` | `HandlersEnd`, `StopsCleanly` | 125 k, 110 s |
| `framing` | `MCFraming` | `TypeOK`, `StaysInStep`, `EventsInOrder` | 2.5 M, 50 s |
| `accounts` | `MCAccounts` | `TypeOK`, `SuccessOwns`, `RolesCurrent`, `AdminExists` | 106 k, 15 s |
| `qt_reuse` | `MCQtReuse` | `FinishedAreRemoved` fails | |

Bounds, and why they are enough:

* **Two descriptors** (`Fds`), two Sub-Pis or two connections: the hazards are
  about a number that passes from one owner to the next, which takes one number
  and two owners; the second number lets both be open at once and lets `accept`
  or `socket` find none free.
* **`MaxCrashes` = 2** gives a Sub-Pi that fails, comes back and fails again:
  the second failure meets what the first recovery left behind. `MaxConns` = 2
  does the same for the two TCP servers.
* **`MaxUnread` = 1**: the one thing that unread data changes is that it hides
  the end of the connection from the peek; one packet does that.
* **`MaxVersion` = 1**: two versions of the list, so that an old one can arrive
  after the new one. **`MaxPieces`** = 1 or 2: a full buffer is one piece away,
  and with 2 a header and body of different packets can be next to each other.
* **`MaxStalls` = 1** (`qt_progress`, `qt_ends`): one client stops reading once,
  at any point. `qt` needs no stalls: without fairness any thread may stop
  anywhere. `qt_progress` has one broadcaster (the main loop), TLS, and clients
  that log in and leave; with a second broadcaster and other requests the
  liveness graph no longer fits five minutes. Sessions may fail (`SslFails`) in
  `qt` and `qt_ends`; in `qt_progress` they do not, for the same reason. `qt_ends` has both broadcasters,
  TLS and plain, sessions that fail, but one client; its requests are one that
  is answered and files a role, one that is not answered, and one that throws.
* **Cameras**: one of two channels and one of another team's, so that a failure
  falls between two requests and between two checks; `MaxChanges` = 3 lets one
  fail, return and fail again while the process is short of descriptors.
  `MaxChannels` is 2 instead of 4: the list ends at its first failure.
* **Accounts**: three handlers, so that a third approves while two register or
  log in; `MaxRestarts` = 2 cuts the first filling short and starts again twice.
* **Framing**: `MaxBody` = `MaxJpeg` = 2, bodies of 0 to 3 bytes that `json::dump`
  shortens, keeps or lengthens, one byte added by TLS: below, at and above every
  limit, before and after. Four packets
  (`MaxPackets`): three bad ones end the listener, and one in front or between.
* `CHECK_DEADLOCK FALSE`: the system may stop when no device boots any more and
  nobody connects, and a program that has called `std::terminate` stops.

What the runs show, in short:

* Copies that a thread takes under a mutex and uses later are still right when
  they are used **where only the monitor can invalidate them**
  (`MonitorTargetsFresh`, `OnlineOwnsSocket`, `HealthyNeverClosed`,
  `RelayPortAgrees`): the `is_online` test in the beacon callback and in phase 3
  is what keeps two threads apart. They are not where the monitor is not the
  user: motor commands and listeners (section 6).
* No descriptor leaks (`DescriptorsAccounted`), because a beacon of an online
  Sub-Pi is dropped *before* the connection is made.
* No second motor command gets into a frame on a working connection, since
  `send_mutex_` spans both sends (`HalfFrameHasWriter`), unless the send of the
  first timed out: that frame stays torn (`FramesAreWhole`, section 6).
* With one Sub-Pi, every close or reset is noticed and repaired
  (`DisconnectNoticed`, `EveryoneRecovers`), although unread packets hide it
  from the monitor for a while. With two Sub-Pis it is not: `MCBeaconStuck`.
* The link's threads, lists and descriptors stay matched (`ServedAreListed`,
  `JoinNeverWaits`, `ConnectionsOwned`), and the cached list heals after stale
  or lost pushes (`KeepsPromise`) because the monitor pushes in every cycle.
* On the Qt side, maps keyed by a descriptor are right for everybody who is
  served (`MapsAreCurrent`), and TLS records leave in the order of encryption
  because `tls_mutex_` is held across the send (`RecordsInOrder`), at the price
  that one client who does not read stops everybody for as long
  (`StatusArrives` needs it to read again or to go).
* A SIGINT that finds the main thread waiting ends ClientServer with every
  thread joined and every descriptor closed (`StopsCleanly`), wherever accept
  thread, handlers and link thread are. `client_fds_` is closed by two threads,
  but nothing is accepted between the two closes; that SQLite or a salt's
  `/dev/urandom` gets the number in between is outside the model.
* Every number whose handler has ended is announced to the accept thread, and no
  other, but those whose `SSL_new` failed; these leave a session and a list
  entry as well (`EndedAreAnnounced`; `AllEndedAreAnnounced`, section 6).
* `stopDiscovery`, once the Sub-Pi threads are joined, returns wherever scanner and
  monitor are (`StopReturns`), unless the scanner asks a camera that never answers:
  curl has no limit for that (`StopAlwaysReturns`, section 6).
* The registry follows a camera that stays as it is (`CamerasTracked`; for one that
  stays up this, too, needs the scanner not to be held for ever), all
  channels of an address get one verdict although it may fail between their
  checks (`SameVerdict`), and another team's camera is never sent more than the
  two requests of one attempt although two loops ask (`ForeignCamerasSpared`).
* A registration that was answered with success is its owner's across restarts
  and concurrent registrations (`SuccessOwns`); a role in `client_roles_` cannot
  go stale, because roles change from pending only and nobody who is pending
  logs in (`RolesCurrent`); a filling of the table that was cut short leaves no
  table without an administrator, because he is first (`AdminExists`).
* A Sub-Pi whose packets keep to the narrowest of the limits, as sent and as
  `json::dump` writes them again, puts no reader out of step, nor does a Qt client
  whose commands fit once they are passed on; with TLS it is enough that
  passing them on makes none longer (`StaysInStep`). Events arrive once and in
  order, and the listener leaves only after three bad packets without a good one
  between (`EventsInOrder`).

## 4. Fairness

* Device side: weak fairness for every thread; strong fairness for a Sub-Pi's
  beacon and its acceptance of the connection, because a Sub-Pi that is up
  broadcasts for ever and the thread comes back to it. Nothing makes a Sub-Pi
  fail, boot or send.
* Link: strong fairness for DeviceServer's threads as a whole: a mutex that is
  free again and again is obtained in the end. Weak fairness for ClientServer's
  connection thread, whose callbacks are assumed to return (that they do is
  `StatusArrives`' business), and for the monitor's periodic push.
* Qt: strong fairness for each handler and each broadcaster, and weak fairness
  for "a client that has stopped reading reads again, or leaves". The latter is an
  assumption about Qt clients: neither the code nor TCP enforces it, since a peer
  that acknowledges and never opens its window is waited for without end. Nothing
  is assumed of `accept`, and clients need not say anything.
* `StopsCleanly`: strong fairness for the accept thread and for `stop()` as well,
  once the program is to stop. Before that nobody need connect.
* Cameras: weak fairness for the scanner, the monitor and the joins, which share
  nothing they could be kept from for ever. Nothing is assumed of cameras: one
  that has accepted may stay silent, which holds curl and the scanner (`CurlWaits`).
  The two promises that need the scanner have `[]<>~CurlWaits` as a hypothesis:
  no camera holds it for ever. Without it `stop()` need not return
  (`MCCameraHangs`). Ctrl+C at a terminal reaches curl as well, a signal to the
  program alone does not.
* `Framing` and `Accounts` have safety properties only.

No property assumes that failures stop, except where it says so
(`<>[](d \in up)`, `[]<>~CurlWaits`, "unless it leaves").

## 5. Proofs

Each system has a proof module beside it. The theorems hold for any sets of
devices, descriptors, threads and clients and for any bounds; the named
assumptions of the modules (`SocketsAssumption`, `LinkAssumption`,
`QtAssumption`, ...) only say that bounds are naturals, that some sets are finite
or not empty, and that `None` is none of the other values.

| module | theorem | states |
|---|---|---|
| `DeviceServerProofs` | `TypeCorrect` | `[]TypeOK` |
| | `OnlineOwnsItsSocket` | `[]OnlineOwnsSocket` |
| | `NoDescriptorLeaks` | `[]DescriptorsAccounted` |
| | `MonitorNeverStale` | `[]MonitorTargetsFresh` |
| | `RelayPortsRight` | `[]RelayPortAgrees` |
| | `HealthyStayOpen` | `HealthyNeverClosed` (an action property) |
| `DeviceThreadsProofs` | `FramesHaveWriters` | `[]HalfFrameHasWriter` |
| | `StatusesHaveIps` | `[]StatusHasIp` |
| | `OnlineIsListenedTo` | `[]ListenerCoversOnline` |
| `CameraProofs` | `TypeCorrect` | `[]TypeOK` |
| | `ForeignAreSpared` | `[]ForeignCamerasSpared` |
| | `VerdictsAgree` | `[]SameVerdict` |
| `LinkProofs` | `JoinsAreImmediate` | `[]JoinNeverWaits` |
| | `ConnectionsHaveOwners` | `[]ConnectionsOwned` |
| | `CommandsUseOpenFd` | `[]CurrentFdIsOpen` |
| | `HandlersAreConnected` | `[]ServedAreConnected` |
| | `TypeCorrect` | `[]TypeOK` |
| | `ServedGetBroadcastsOnce` | `[]ServedAreListed` |
| | `CopyFollowsList` | `PL!ListInit /\ [][PL!ListNext]_(PL!listVars)` |
| `QtProofs` | `RecordsStayInOrder` | `[]RecordsInOrder` |
| | `RolesStay` | `[]RoleStaysWhileSending` |
| | `NumbersInheritNothing` | `[](stop = "running" => NothingLeftBehind)` |
| | `EndsAreAnnounced` | `[](stop = "running" => EndedAreAnnounced)` |
| | `TypeCorrect` | `[]TypeOK` |
| | `ServedByTheirOwn` | `[](stop = "running" => MapsAreCurrent)` |
| | `NoConnectionForgotten` | `[]EveryConnectionOwned` |
| | `StopLeavesNothing` | `[]NothingSurvives`, the safety half of `StopsCleanly` |
| `AccountsProofs` | `TypeCorrect` | `[]TypeOK` |
| | `RegistrationsHold` | `[]SuccessOwns` |
| | `RolesStayCurrent` | `[]RolesCurrent` |
| | `AdministratorStays` | `[]AdminExists`, if the administrator comes first in the first table and SQLite takes that table (`AdminFirst`) |
| `FramingProofs` | `TypeCorrect` | `[]TypeOK` |
| | `ReadersStayInStep` | `[]StaysInStep` |
| | `EventsArriveInOrder` | `[]EventsInOrder` |
| `SubsequenceProofs` | lemmas only | what `Keep` returns |

The arguments:

* **Device side.** None of the properties is inductive alone. That an online
  Sub-Pi's descriptor is its own depends on what the beacon thread brings to the
  registration (`BeaconHoldsSocket`), that depends on the monitor closing nothing
  but what the registry holds (`MonitorTargetsFresh`), that again on nobody else
  replacing a descriptor while the device is online (`OnlineOwnsSocket`), and the
  relay ports on all of them and on `NoMountsBeforeStart`. `IndInv` is their
  conjunction. Most actions touch none of the variables it is about; `Quiet` says
  so once, and only the monitor's and the beacon thread's actions are taken apart.
* **Its threads.** `WriterHoldsMutex` carries `HalfFrameHasWriter`, and a frame that
  timed out is `Torn`, which later writes leave so; `KnownInv`
  (listeners and the beacon thread only have registered devices) carries
  `StatusHasIp`. `ListenerCoversOnline` needs two facts of the moment between
  `registerDevice` and the start of the listener: the listener will get the
  registered descriptor (`PendingHasFd`), and a device that is online without
  one has a dead connection (`NoZombie`).
* **Cameras.** `RefusedInv` counts: a refused attempt stops before any stream is
  found, so its second request raises `sunapi_fail_count`, after which neither of
  the two loops starts another. `MonitorInv` ties the verdicts of a cycle
  to `ip_check_cache`, which is filled once per camera and cycle.
* **Link.** `ServerInv` says who owns each descriptor: the accept thread from
  `accept` to the start of the handler, then that handler until its `close`, and
  nobody twice. `ClientInv` says that `current_fd` is the connection thread's
  socket or unset. `VersionsExist` types queues by what may be in them, so that
  only versions of the list that have existed are on their way; with it every
  step of the link maps to one of `PushedList`'s or to a stutter
  (`StepRefines`), a restart of either program included. `Listing` says for each
  handler's point how often its number stands in `client_fds`: once from before
  the thread starts until its `close`, and not at all once it has taken it out;
  between those two the number may be listed a second time, and nothing is said.
  That the bug of `FinishedAreRemoved` is the only way for a *served* connection
  to get there is what makes it inductive: the program has ended then (`Alive`).
* **Qt clients.** `HeldInv` says what a thread that sends holds: `tls_mutex_`
  from the encryption to the last byte, `client_mutex_` for a whole broadcast, and
  the role that it looked up. That the mutexes are released by nobody else is
  what makes it inductive. `CleanInv` follows a handler through its cleanup in
  the order of its points, and needs `SenderInv` (a handler that sends is in no
  other step). It is stated until SIGINT, since `stop()` joins without clearing
  `finished_fds_`. A handler that gives up because `SSL_new` failed is the only one
  that is not announced; `LeftInv` says that its session and its entry in
  `client_fds_` stay, which is the second half of `EndedAreAnnounced`. `TypeInv` adds to the types what kind of work a thread's record may
  hold (`TodoInv`) and which descriptors the accept thread and the handlers have at
  which point (`SockInv`): a number that `accept` has only reserved must not come to
  be served, however `stop()` cuts in. `CurrentInv` says that a handler's role
  and session are of the connection it serves (`OwnInv`) and that its number is
  listed once (`Listing`); that holds only because the number was clean when it was
  handed out (`CleanInv`), so both are stated until SIGINT.
  `OwnershipInvariant` is not: `OwnerInv` gives each number in use a thread
  that is still to close it, also past `stop()`, and `ConnInv` matches numbers and
  connections; together they leave nothing behind when `stop()` has returned.
* **Accounts.** Between its two locks a handler relies on what it read under the
  first (`HandlersHold`); that stays true because the table only grows (`Grows`:
  no account is removed, no password changes, a role changes from "pending"
  only). For `AdminExists` the table is empty or has its administrator at every
  moment (`AdminInv`), wherever a start was cut short.
* **Lengths.** `WiresCarry` bounds what can be on each hop by what its writer lets
  through, for commands by what the clients have asked (`CommandReadable`); a reader loses step only over packets outside that. `OrderInv`
  adds to `EventsInOrder` how far the listener has read (`Taken`: what it has not
  read is the end of what was sent) and what its count of errors stands for
  (`BadRun`: as many bad packets, read in this order, with no good one behind the
  first). Each reader and writer moves one packet across, so that each step needs
  one lemma about `Keep` and concatenation.
* **Lists.** `SubsequenceProofs` proves what `Keep` does to `Append`, `Tail` and
  `\o`, which elements it keeps and how often. Its recursion is over the length of
  the list. The library's induction theorems cannot be used (they take a
  predicate), so the induction goes over the *set* of lengths for which
  the claim holds, and the fact that a nonempty set of naturals has a least
  element does the rest.

Only model-checked:

* all liveness, and the fairness in `KeepsPromise`: fairness and ENABLED are out
  of the prover's reach;
* the counterexamples of section 6, which are runs.

So every invariant and action property of a passing run has its theorem. Three
(`MapsAreCurrent`, `NothingLeftBehind`, `EndedAreAnnounced`) are stated until
SIGINT, as their run `qt` has none.

## 6. Where the code and what is said of it disagree

`qt_reuse` is the finding of `PROJECT.json`: a handler closes its descriptor
before it announces its end, `accept` may hand the number out again, and
`client_threads_[fd]` is then assigned while the old thread of that number is
joinable, which is `std::terminate`. The same may happen in DeviceServer
(`FinishedAreRemoved` of `MCLinkClaims`).

More counterexamples, each with its cfg (`tlc -config <cfg> <module>`). They
state what a comment or a document promises, or what one would expect, and are
kept for the day the code is changed. A cfg named `...Claims` states several, all
but one commented out.

| cfg | module | fails | what happens |
|---|---|---|---|
| `MCDeviceClaims` | `MCDeviceServer` | `NoZombie` | Three malformed packets in a row end the listener and leave the connection open: the Sub-Pi stays online and nobody reads it. (`DeviceServer/src/SubPiManager.cpp:228`) |
| `MCDeviceClaims` | `MCDeviceServer` | `OnlineIsMounted` | A beacon that arrives before rtsp_server_.start() registers the Sub-Pi, but its relay is silently not mounted and never will be while it stays online. (`DeviceServer/src/DeviceController.cpp:60`) |
| `MCDeviceClaims` | `MCDeviceServer` | `OfflineIsUnmounted` | The monitor's removeRelayPath can overtake the beacon thread's addRelayPath, both called after unlocking: an offline Sub-Pi keeps its relay. (`DeviceServer/src/DeviceManager.cpp:50`) |
| `MCPowerCut` | `MCDeviceServer` | `EveryoneRecovers` | After a power cut no segment ever tells the monitor: the Sub-Pi is believed online, so the beacons of its restarted self are ignored for ever. (`DeviceServer/src/DeviceManager.cpp:271`) |
| `MCDeviceClaims` | `MCDeviceServer` | `CommandsReachTarget` | sendMotorCommand uses a descriptor after unlocking: it may have been closed and given to another Sub-Pi's connection. (`DeviceServer/src/DeviceManager.cpp:204`) |
| `MCDeviceClaims` | `MCDeviceServer` | `FramesAreWhole` | SO_SNDTIMEO (2 s) stays set on the command socket: a motor command to a Sub-Pi that does not read may end in the middle of its frame, the socket stays in use, and the next command is taken for the rest; `NetUtil.h:9` says sendExact prevents partial writes. (`DeviceServer/src/SubPiManager.cpp:138`) |
| `MCDeviceClaims` | `MCDeviceServer` | `EventsLabelledRight` | A listener that outlives its connection reads another Sub-Pi's packets from the reused descriptor under its own device id. (`DeviceServer/src/SubPiManager.cpp:213`) |
| `MCDeviceClaims` | `MCDeviceServer` | `FinishedAreDone` | An id announced between cleanupFinishedThreads' swap and the join outlives its thread: it then names the live listener. (`DeviceServer/src/SubPiManager.cpp:110`) |
| `MCBeaconStuck` | `MCDeviceServer` | `EveryoneRecovers` | With two Sub-Pis the beacon thread can block in join() on a listener that lives on: the other Sub-Pi is never registered. (`DeviceServer/src/SubPiManager.cpp:110`) |
| `MCLinkClaims` | `MCInternalLink` | `PacketsInStep` | A handler's welcome push takes no lock: a broadcast may write its packet between that packet's header and body, and the client reads out of step. (`DeviceServer/src/InternalServer.cpp:135`) |
| `MCLinkClaims` | `MCInternalLink` | `ListedAreConnected` | The handler closes its descriptor before it takes it out of client_fds_: a broadcast in between writes to a closed descriptor, or to whoever got the number. (`DeviceServer/src/InternalServer.cpp:183`) |
| `MCLinkClaims` | `MCInternalLink` | `FinishedAreRemoved` | accept may be given the number of a handler that has closed it and is not joined yet; storing the new thread then calls std::terminate. (`DeviceServer/src/InternalServer.cpp:127`) |
| `MCCameraBanned` | `MCCameraDiscovery` | `KnownCamerasReturn` | A camera that was online fails, is asked once while it is still in the ARP table but down, and is never asked again. (`DeviceServer/src/OnvifScanner.cpp:261`) |
| `MCCameraPartial` | `MCCameraDiscovery` | `AllChannelsReturn` | A request that fails in the middle of the list registers some of the channels; channel 0 stands for the camera from then on. (`DeviceServer/src/OnvifScanner.cpp:106`) |
| `MCCameraHangs` | `MCCameraDiscovery` | `StopAlwaysReturns` | curl has no time limit for the answer: a camera that accepts and stays silent holds the scanner, and stop() with it. (`DeviceServer/src/OnvifScanner.cpp:170`) |
| `MCQtSignal` | `MCQtService` | `StopsCleanly` | SIGINT interrupts the main thread in a broadcast, under client_mutex_ or tls_mutex_; the handler runs stop() on that thread and waits for the mutex it holds. (`ClientServer/src/main.cpp:10`) |
| `MCQtClaims` | `MCQtService` | `AnswerBeforeRecords` | The last handshake answer is taken out under tls_mutex_ and sent after unlocking: a broadcast may encrypt and send its record before it. (`ClientServer/src/QtCommServer.cpp:255`) |
| `MCQtClaims` | `MCQtService` | `PacketsWhole` | Plain packets and handshake packets are sent without a lock: two threads may interleave header and body on one client's stream. (`ClientServer/src/QtCommServer.cpp:364`) |
| `MCQtClaims` | `MCQtService` | `AllEndedAreAnnounced` | When SSL_new fails the handler closes and returns without the cleanup at its end. (`ClientServer/src/QtCommServer.cpp:190`) |
| `MCQtClaims` | `MCQtService` | `OnlyToLoggedIn` | The handler closes its descriptor before it erases the role: in between, the next client on that number is sent what was meant for the one before. (`ClientServer/src/QtCommServer.cpp:308`) |
| `MCFramingLink` | `MCFraming` | `LinkInStep` | What the listener reads and passes on, the added fields, json::dump or a JPEG of exactly 10 MiB make unreadable for InternalClient, which stays connected and reads on in the middle of it. (`ClientServer/src/InternalClient.cpp:144`) |
| `MCAccountsClaims` | `MCAccounts` | `AdminExists` | seedTestData does not look at the results of its INSERTs: if the administrator's fails and another one does not, no later start makes up for it. (`ClientServer/src/AuthManager.cpp:264`) |
| `MCAccountsClaims` | `MCAccounts` | `SeedsComplete` | A start that is cut short while the first table is filled leaves part of the accounts, and the next start finds the table filled. (`ClientServer/src/AuthManager.cpp:246`) |

Not every row is an error of the code. `MCCameraPartial` and `MCCameraBanned`
are the price of the ban (`docs/version_history.md:186`); `MCCameraHangs` needs
a camera that accepts and never answers.

Two disagreements are about what the models leave to the users:

* `ClientServer/src/ClientController.cpp:134` and
  `docs/qt_protocol_reference.md`, section 6, call listing and approving pending
  accounts the administrator's. `onQtMessage` looks at nobody's role there: any
  client may ask. `Accounts` lets every handler approve, as the code does, and
  `RolesCurrent` and `SuccessOwns` hold nevertheless.
* `docs/troubleshooting_history.md`, Issue 16, speaks of two failed SUNAPI attempts
  before a camera is banned. The later AN-103 (`docs/version_history.md:31`) and the
  code have one, which `Banned` models.

## 7. Not modelled

* DeviceServer's end, apart from the scanner and the monitor:
  `SubPiManager::stop` walks `listener_threads_` while the beacon thread may
  change it, which is undefined; `InternalServer::stop`, `RtspServer::stop` and
  the signal handler, which calls them on whatever thread it interrupts. Ends of
  DeviceServer are the end of the process.
* `START_STREAM`'s send (`SubPiManager.cpp:147`), which is neither checked nor
  `MSG_NOSIGNAL`: it succeeds in the model. Sends on the link and to Qt clients,
  whose sockets have no time limit, are whole or wait.
* A `connect` that fails (`SubPiManager.cpp:142`) is one step, without the moment at
  which its descriptor is open.
* The contents of messages: for instance the exception on a JSON message that
  is not an object (`ClientController.cpp:95`), beyond that a handler may meet a
  request that throws (`malformed`); the same in a listener, which only catches
  parse errors, ends DeviceServer; CPU figures, motor commands, AI results.
* Requests that the code understands and nobody sends: `CAMERA`, `AVAILABLE` and
  `ACK` to InternalServer.
* On the link, connections end only because a program closes them or restarts:
  it is the loopback interface.
* `SystemMonitor` (reads `/proc`), `dtls.hpp` (unused), GStreamer's pipelines,
  cryptography, SQLite, the XML and text that WS-Discovery and curl return.
* `json.hpp`, a vendored library, is 24 765 of the repository's 29 066 lines of
  code; the two programs themselves are the other 4 300, of which declarations,
  logging and JSON building are a large part.

## 8. Plan

Done: the device side, cameras, the link with its abstract specification, Qt
clients with ClientServer's end, accounts, packet lengths. Left:

1. DeviceServer's end: `stop()` of `InternalServer` and `SubPiManager` against
   their accept and beacon threads.
2. Abstract specifications for the Qt side and the accounts, with the refinement
   proved as for `PushedList`.

A run that is added takes the place of one whose question it contains.
