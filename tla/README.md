# Smart demand response gateway: formal models

This directory is a verification development of the demand response system in
`src/`: an ESP32 gateway that measures a household's current and sheds loads on
command (`src/firmware`), a Go backend that collects the readings, pushes the
peak-stress command to the gateways and the grid status to dashboards
(`src/backend`), and a Flutter dashboard (`src/app`). The modules are TLA+,
checked with TLC and proved with TLAPS. `PROJECT.json` maps each definition to the
source lines it stands for and lists runs, hazards, findings and theorems.

- [The system](#the-system)
- [The modules](#the-modules)
- [The runs](#the-runs)
- [Fairness](#fairness)
- [What is proved](#what-is-proved)
- [Where code and documents disagree](#where-code-and-documents-disagree)
- [What is not modelled](#what-is-not-modelled)
- [Plan](#plan)

## The system

### Gateway firmware (C++, FreeRTOS)

| part | state it keeps | operations | used by |
| --- | --- | --- | --- |
| `GatewayState` | averaged power, peak flag, one mutex | `write_power`, `read_power`, `set_peak_stress`, `get_peak_stress`, each with a 50 ms take | all three tasks |
| `RelayController` | GPIO levels, `is_shedding` | `init`, `shed_loads`, `restore_loads` (500 ms between loads) | `NetworkClient` |
| `NetworkClient` | `connected` | `event_handler` and `handle_message` in the WebSocket client's task, `send_telemetry` in the network task | backend, relays, state |
| `CurrentSensor` | I2C handles, the ADS1115's configuration, ring buffer of 6 RMS values, index | `init` in four steps over I2C, `compute_rms_amps` (430 samples), `read_smoothed_amps` | `app_main`, sensor task |
| Wi-Fi station | event group, retry counter | `wifi_init_sta` in `app_main`, `wifi_event_handler` in the event loop task | ESP-IDF driver |
| NVS configuration | five values and which of them were read; two tiers, flash before build defaults | `load` over two namespaces, getters | `app_main`, `NetworkClient::init`, Wi-Fi station |
| `app_main`, two tasks | boot progress | init calls in a fixed order, task creation, task loops | all of the above |

Three tasks and the event loop share the state through one mutex whose take may
time out; commands are executed in the WebSocket client's task, which runs before
the other two exist. Hard here: a timeout in the middle of a command, a reset in
the middle of a relay loop or of a boot, boot order, the event group's lifetime, a
configuration of which only some keys can be read, buffers of different sizes between
flash, driver and URI, a setup over I2C that stops half way. Correct means:
loads go off and come back in priority order and one at a time, the relays follow
the commands, nobody keeps the mutex, nothing is used before it is initialised,
each value of the configuration comes from its own tier and arrives whole, and the
reported value depends on the last six measurements of the current only.

### Backend (Go)

| part | state it keeps | operations | used by |
| --- | --- | --- | --- |
| gateway hub (`hub.go`) | `clients` by gateway id, RWMutex | `Register`, `Unregister`, `BroadcastPeakStress`, `ConnectedCount` | WebSocket handler |
| dashboard hub (`dashboard_hub.go`) | `clients` by uuid, RWMutex | `Register`, `Unregister`, `Broadcast` | WebSocket handler |
| WebSocket handler (`handler.go`) | `peakStress`, no lock | `HandleWebSocket`, `HandleDashboardWebSocket`, `SetPeakStress` | gateways, dashboards, both stores |
| gateway status store | latest status per id, RWMutex | `UpdateStatus`, `GetAll` | WebSocket handler, `GET /status` |
| telemetry store | up to 100 readings per id, RWMutex | `Store`, `GetLatest` | WebSocket handler, `POST /telemetry` |
| HTTP endpoints | none | `POST /telemetry`, `GET /status` | anyone, the dashboard |
| server lifecycle (`server.go`, `main.go`) | the `http.Server` | `Start`, `Shutdown` with a 15 s drain | signals |
| middleware | none | recovery, logging, CORS | every request |

One goroutine serves each connection; they meet in the two maps, the stores and a
plain boolean. Hard here: handlers of an old and a new connection of one device
overlap; snapshots are taken under one lock and sent under another; an acknowledgment
and a broadcast overtake each other; one write may block behind a
peer that does not read; readings are stamped before the store's lock; a signal finds
requests in progress, or the listener already failed. Correct means: the map holds the
connections that are served, every frame is answered, devices end up following the operator,
dashboards end up showing the store, the telemetry store keeps the newest readings and
never an older one of a gateway in place of a newer, an answer tells what happened to a
reading, and a signal ends the process.

### Dashboard app (Dart, Flutter)

| part | state it keeps | operations | used by |
| --- | --- | --- | --- |
| `DashboardWebSocketService` | channel, reconnect timer, `_disposed` | `connect`, three callbacks, `_scheduleReconnect`, `dispose` | providers |
| repository and providers | fetch result, stream value | `fetchGridStatus` with a 5 s timeout, invalidation | screen |
| screen | `latestStatus` and `connectionState`, which only a new value of their streams changes | `build`, Retry | user |
| theme, models, platform runners | none | | |

One event loop, but several sources of events. Hard here: one failed attempt makes
three callbacks, each of which asks for a reconnection; `dispose` during a
connection attempt; the answer of the HTTP fetch races the stream; a service reports
"connecting" before anybody listens to it; the backend's handler registers a dashboard,
takes a snapshot and writes it in three steps with pushes in between. Correct means:
one connection or one timer, never both and never neither; the indicator shows which
once the service in use has reported anything; nothing the backend pushes is missed;
old data does not replace new, but for a first status that a push overtook; the screen
catches up.

### Hardware

`src/hardware` holds the KiCad project; no program.

## The modules

| module | models | state and actions |
| --- | --- | --- |
| `LoadBank` | abstract: what the relays promise | `off`, `direction`; one load at a time in priority order |
| `GatewayState` | `gateway_state.cpp` | `mutex` is its holder; `Take`, `TakeTimesOut`, `Give`, the accessors' locked parts |
| `RelayController` | `relay_controller.cpp` | `pins`, `is_shedding`, the loop's kind and index; one action per GPIO write and per return |
| `NetworkClient` | `network_client.cpp` | link and inbox (environment), `ws_pc`/`net_pc` per task; one action per accessor call, decision and relay call |
| `GatewayFirmware` | `main.cpp`, composes the three above | `boot`, `ready`, `sensor_pc`; the calls of `app_main`, the sensor task, `Reset` |
| `RollingMean` | abstract: mean of the last measurements | `last`, `total` |
| `SensorPipeline` | `current_sensor.cpp` | the setup's stages, converter registers and the two bytes on the bus, ring buffer, index, counters of a burst; one action per call of `init`, per sample and per outcome |
| `WifiStation` | `wifi_station.cpp` | `pc` of `wifi_init_sta`, event group, handler registration, event queue, driver |
| `NvsConfig` | `nvs_config.cpp` | the flash, `load` key by key with its local `len`, buffers, which keys were read |
| `GatewayBoot` | `main.cpp`, `network_client.cpp` (`init`); composes `WifiStation` and `NvsConfig` | `boot` stage, the driver's `sta` configuration, the URI, the client; flash init and erase, load, Wi-Fi, URI, client, `Reset` |
| `GatewayHub`, `DashboardHub` | `hub.go`, `dashboard_hub.go` | the two maps and the holders of their read locks |
| `WebSocketHandler` | `handler.go`, `client.go`, gateway store; composes both hubs with devices, dashboards and operator | a slot per connection with its program counter, locals and unread frames; one action per lock section, read of the shared flag, and write |
| `TelemetryStore` | `telemetry/memory_store.go` | `readings` by gateway, a history of all that was stored; `Store`, `GetLatest` |
| `BackendServer` | `main.go`, `server.go`, `telemetry/handler.go`, CORS; composes the store | where `main` and the listener are, signals, how the process ended; per reading where its handler is, stamp and answer |
| `DashboardClient` | the Flutter app's service, providers and screen, and `HandleDashboardWebSocket` at the other end | channels, timers, pending callbacks, fetch, screen, indicator; one action per Dart event; where the backend's handler of each connection is and its snapshot; register, snapshot, write and push are one action each |
| `MC*` | instances for TLC | |
| `SumTheorems` | facts about the sum of a function over a set | |
| `*_proofs` | proofs about the module they extend | |

How the composition works: a component module has its own variables and operators;
the composing module EXTENDS it, says which task or goroutine takes each step, and
frames the rest. `GatewayFirmware` composes state, relays and client; `GatewayBoot`
the configuration and the station; `WebSocketHandler` the two hubs; `BackendServer` the
store, the process and the requests. `GatewayFirmware` has the boot as seen from the
tasks, `GatewayBoot` as seen from configuration and network; what a frame sets off
beside the telemetry store is in `WebSocketHandler` only. A blocking lock is a guard: `Register`
waits until no one reads, as `sync.RWMutex.Lock` does.

Abstractions that matter when reading the modules:

- **Granularity.** A step ends where another task, goroutine or event can come in:
  at a mutex, at a read or write of an unprotected shared field, at a network write.
  Local computation joins the step before or after it. In the firmware, `is_shedding`
  and `pins` belong to one task and are still stepped write by write, because a
  reset can come between two writes.
- **Frames** are a type and a flag, or a reading, or "no JSON". The text is never
  built. The summed load of a grid status is determined by the statuses, which are
  kept instead.
- **Time** is a choice: a take may time out whenever another task holds the mutex, a
  wait may end, a timer may fire.
- **The broadcast frame** goes out with its `type` left empty (`hub.go:61`); the
  firmware looks at the flag and not at the type, so the frame is treated as the
  command it is.
- **Operator.** No code of the repository calls `SetPeakStress`; it is called by the
  environment, by one or more `Callers`.
- **The current** is a square wave, steady within a burst, in steps of 3 A, for which
  microvolts, counts and amperes are whole numbers; the mean is kept as a sum. So the
  path from the clamp through gain, register, byte order and calibration to the value
  reported is checked exactly. Float rounding is not modelled.
- **Strings of the configuration** are their lengths: what is decided about them is
  whether they fit, and two that differ are given different lengths. The port is the
  number it is.
- **net/http** is what `main` relies on: `Shutdown` closes the listener and polls until
  no connection has a request in progress; hijacked connections are not among them. A
  connection made earlier may bring a request after that.
- **Dart's event loop.** Callbacks that an event leaves behind run before the next
  event (`Idle` guards every other action). The library's order of the callbacks of
  one failure is not relied on, except that the stream's error precedes its end.
- **The dashboard's backend** is reduced in `DashboardClient` to a counter of the changes
  of its status. The handler of a dashboard registers it, takes its snapshot and writes
  it in separate steps; a push is one step and brings the status of now, changed or not,
  to all that are registered. That the pushes of two gateways' handlers overtake each
  other is checked in `WebSocketHandler`.
- **A broadcast stream** of Dart keeps nothing for those who listen later. `state` is
  what `connectionStateProvider` has received and not what was added: the "connecting"
  of a new service's `connect()` is lost, as the provider listens after it.

Every definition that begins with "Mutant:" in its comment is a plausible error in
the definition next to it, used to show that a property can fail; no specification
uses it.

## The runs

| run | configuration | bounds | distinct states |
| --- | --- | --- | --- |
| `firmware` | `GatewayFirmware.cfg` | 3 relays, 2 unread frames, 2 power values | 461 801 |
| `firmware_timeout` | `GatewayFirmware_timeout.cfg` | 1 unread frame | violation |
| `sensor` | `SensorPipeline.cfg` | window 6, 5 samples, currents 0 and 48 A | 22 288 |
| `boot` | `GatewayBoot.cfg` | 8 contents of the flash, 2 networks, 3 retries, 3 queued events, 2 lost links, 2 resets | 405 742 |
| `boot_ssid` | `GatewayBoot_ssid.cfg` | the same with 2 retries, 1 reset | violation |
| `wifi_reconnect` | `WifiStation_reconnect.cfg` | 3 retries, 3 queued events, 3 lost links | violation |
| `hub_safety` | `WebSocketHandler_safety.cfg` | 2 gateways, 2 connections, 2 readings and malformed frames, 1 call, 1 cut | 1 574 830 |
| `handler_follow` | `WebSocketHandler_follow.cfg` | 1 gateway, 2 connections, 1 call, 1 cut | 86 447 |
| `handler_catchup` | `WebSocketHandler_catchup.cfg` | 2 gateways, 1 dashboard that comes and goes | 274 107 |
| `hub_registered` | `WebSocketHandler_registered.cfg` | 1 gateway, 2 connections, 1 cut | violation |
| `server` | `BackendServer.cfg` | 2 requests, 2 frames, 2 gateways, 2 readings kept | 1 208 059 |
| `dashboard` | `DashboardClient.cfg` | 2 channels, 2 services, 1 grid change, 2 unread frames | 343 675 |

**firmware.** `PriorityOrder`, `NeverHalfShed` and `StaggeredRestore` say that loads
go off and come back in order at every instant, resets included, and
`ImplementsLoadBank` that the relays refine the abstract bank. `FlagAndRelaysAgree`
relates flag, relays and last command: they agree as long as no take has timed out,
and again after a clean command of each kind. `MutexMatchesSections`
and `TasksOnlyUseReadyParts` cover locking and boot order; `SamplingNeverStalls` and
`HandlerReturns` say that a task comes round whatever the others do. Three relays is
`RELAY_COUNT`; two unread frames let a second command arrive during the first; a
power value is only carried, so two suffice.

**sensor.** `SamplesOnlyWhatIsConfigured`: a setup that fails at any step never leads
to readings over a bus, a device or a converter that is not set up.
`ImplementsRollingMean` compares what is reported with the mean of the last
six measurements of the current that flowed, under every pattern of lost samples and
failed bursts; it fails for a byte order, gain or offset that does not match, too.
`SettlesOnTheLoad` says that a steady current is reported exactly in the end. Window 6
is the real one; five samples with a threshold of three contain every case the 430
with a threshold of 322 have (none, too few, just enough, all). 0 A and 48 A are both
ends of the range, and 48 A takes the voltage close to both of its own ends.

**boot.** From power-on to a started client, resets anywhere in between. `EveryKeyOnItsOwn`: each
getter gives the flash's value, or the default if that key is missing, too long or
unreadable, whatever happened to the other keys; `len`, which goes in as room and comes
out as size, is what could break it. `UriNamesTheGateway`: no combination of values
overflows the URI's buffer into the gateway id. `UpAsProvisioned`: a gateway that is
up uses its own flash's configuration and nothing of an earlier boot.
`HandlerHasItsGroup`: the handler, in another task, never touches a deleted
event group. `FailOnlyAfterAllRetries`: counter, resets of it and limit fit together.
`BootEnds`: only the timeout saves the caller from an access point that never
answers. The eight sheets hold complete, empty and partial configurations and lengths
at, below and above each buffer; the networks are the one the full sheet names and the
one of the defaults. The queue never holds more than two events, so three is no limit.
Two resets let a third boot follow one that was erased half way. The model
stops once the gateway is up and every bound is used up, hence `CHECK_DEADLOCK FALSE`.

**server.** `KeepsTheLast`: eviction keeps the newest readings, per gateway, in order.
`NewerOutlivesOlder`: of two readings of a gateway, one sent after the other was
answered, it is never the newer that is gone while the older is kept, nor is the newer
stamped earlier, although stamps are taken before the lock and the two may come over
HTTP and WebSocket. It says nothing of the order in which the list is returned.
`AnswerTellsWhatHappened`: of all ways through the POST handler only the one that stored
says so. `ServerEnds`: a signal, or a listener that cannot start, ends the process
whatever clients do. That a clean exit leaves no request in progress is what `net/http`
promises and is assumed. Two readings kept and three of one gateway let eviction happen;
they come both ways, which is what can overlap. The process ends, hence
`CHECK_DEADLOCK FALSE`.

**hub_safety.** `MapHoldsOpenConnections`: no entry and no target of a broadcast in
progress outlives the loop that serves it. `OnlyOverlapLosesEntries`: the one way a
served connection loses its entry is an overlap with another connection of the same
id. `PushContainsOwnReading`: what a handler pushes contains the reading it was called
with, and as that gateway's status; two well-formed readings tell the own one from an
older one that stayed in the store. Two connections are what the overlap needs; there
are no dashboards, as what is pushed is the handler's snapshot. `SYMMETRY` exchanges
connections, callers, dashboards and the two readings, which no definition tells apart;
`VIEW` leaves out the operator's flag with its copies, the contents of frames to devices
and dashboards, and what these made of them: all of it is written and never read by a
guard or by these invariants (that it keeps its type is proved). Both are used for
safety only.

**handler_follow, handler_catchup.** Liveness with neither symmetry nor
view. Devices end up following the operator although broadcasts miss them and late
acknowledgments undo them (`GatewaysFollowOperator`); dashboards end up with the
store's statuses when readings settle, in whatever order the pushes of two
gateways came (`DashboardsCatchUp`); and every loop gets back to its read, past locks,
dashboards that leave in the middle of a push and frames that fill a window
(`FrameIsAcknowledged`). Each needs its own population of devices, connections and
dashboards, and together they are out of reach.

**dashboard.** `ConnectionOrTimer`: three callbacks of one failure make one timer, and
no order of events leaves a service with nothing to wait for.
`IndicatorMatchesConnection`: what the next frame shows is the state of the connection
of the service in use; the one exception is its first attempt after Retry, during which the
indicator still has what the service before reported. `NothingIsMissed`: once the backend's
handler reads, the last frame to come, or the last that came, is the status of now, or the
first status when a push came between its snapshot and its writing; the handler registers
first for this. `StreamStatusStays`: neither the fetch nor an older frame replaces a status
of the stream, with the same exception. `DisposedServicesLetGo` and `ScreenCatchesUp`: in
the end disposed services have no connection and no timer, and screen and indicator show
a backend that stays up. The history variable `overtaken` has the statuses the exception
is about, and each exemption is needed: without it the property it is in fails. One Retry
gives two services; a service has one channel at most, so two are enough; one grid change
tells older from newer, and two unread frames let a first status come after a push. A
backend that stops and starts, and a connection that fails, may do so without limit.

## Fairness

- **Firmware.** Weak fairness per task, and only of the task a property is about:
  FreeRTOS runs a ready task, as those above it block most of the time.
  `SamplingNeverStalls` and `HandlerReturns` do not assume that any other task runs.
- **Backend.** Strong fairness per goroutine (`ServeGateway`, `Broadcast`,
  `ServeDashboard`): the steps that can be disabled again are waits for a lock or for
  room on a connection, and `sync.RWMutex` admits no new reader past a waiting writer.
  Weak fairness of devices: one that is switched on reconnects, reports every 10 s and
  reads. `ViewersFair` has dashboards read what they are sent: without it one that stays
  connected and does not read holds up every acknowledgment, as `Broadcast` writes
  without a deadline under its read lock. Nothing is assumed of the operator, of link
  breaks or of dashboards leaving.
- **Backend process.** `main` and the fatal exit run; 15 seconds pass even if polls go on
  (strong fairness of `DrainTimeout`). Nothing is assumed of clients, frames or handlers.
- **Boot.** `BootEnds` assumes the main task only. `WifiStation!FairSpec`, for the
  disagreement about reconnection, gives the access point the benefit of the doubt.
- **Dashboard.** The event loop takes every event in its turn: weak fairness of the
  callbacks, the timers, the frames and the build, the weaker assumption, is enough. An attempt to connect ends, and so does a connection whose other end has
  closed (strong fairness of `Connection` for each channel, since other events' callbacks
  come in between). The backend's handlers go on to their read loop (`Greets`), and the
  gateways go on reporting (`Push`), which is what puts an overtaken first status right. A
  link that dies without a word is not an end: the app has no ping and would never know.

## What is proved

`GatewayFirmware_proofs`, for any number of relays, any inbox bound, any readings:

| theorem | property |
| --- | --- |
| `TypeCorrect` | `TypeOK` |
| `MutexDiscipline` | `MutexMatchesSections` |
| `PriorityOrderHolds`, `NeverHalfShedHolds` | `PriorityOrder`, `NeverHalfShed` |
| `StaggeredRestoreHolds` | `StaggeredRestore` |
| `TasksOnlyUseReadyPartsHolds` | `TasksOnlyUseReadyParts` |
| `FlagAndRelaysAgreeHolds` | `FlagAndRelaysAgree` |
| `FirmwareImplementsLoadBank` | `ImplementsLoadBank` |

Three strengthenings carry them. `RelayLoops`: at every index of either loop the pins
below it are high and the others low, and loops run only inside a command;
`PriorityOrder` alone forgets how far a loop has got. `Stages`: which parts are
ready at each boot stage. `CommandInv`: what flag, relays and the value read at the
start of a command have to do with each other at each control point, and which way of
being apart each clean command has excluded; without the second part, agreement
after a timeout is not inductive. The refinement maps `Energized` and the loop's kind
to `LoadBank`, each step to one step of it or to none.

`WebSocketHandler_proofs`, for any number of gateways, ids, connections, dashboards and
callers:

| theorem | property |
| --- | --- |
| `MapHoldsOpenConnectionsHolds` | `MapHoldsOpenConnections` |
| `OnlyOverlapLosesEntriesHolds` | `OnlyOverlapLosesEntries` |
| `PushContainsOwnReadingHolds` | `PushContainsOwnReading` |
| `TypeCorrect` | `TypeOK` |

`HubInv` adds that a connection has an owner from upgrade to return,
that the read lock is held exactly while a broadcast writes (so that `Unregister`
cannot take an entry from under it), and that an id without overlaps has one open
connection. `DataInv` is the types of what connections carry, with the one fact typing
needs, that a handler at work has a well-formed reading. `OwnInv` follows that reading
into the store and into the snapshot: between `UpdateStatus` and the end of the pushes
nobody else writes the status of an id that has one connection. As ids are given by any
function `IdOf`, gateways that kept the same default id are included.

Five more theorems of this module are the safety halves of its liveness properties: what
must not happen on the way, for any number of actors, where TLC checks that the way has
an end.

- `LinksHold`: a device and its handler mean the same connection (`LinkInv`), and a
  connection used again carries nothing of the one before.
- `DashboardHubHolds`: a push goes to dashboards alone whose handler has not returned, and
  the read lock is held for pushes alone (`DashInv`).
- `LocksAreReleasedHolds`: the holder of either hub's read lock waits for peers to read and
  for no lock, and a peer that is waited for has something to read. So no circle of
  goroutines waits for each other; `FrameIsAcknowledged` needs that.
- `KeepsFollowingHolds`: a device that has the operator's flag, with no older flag in a frame
  or in a handler's hands, keeps it until the next call or cut. What
  `GatewaysFollowOperator` has to show beyond it is that such a state is reached.
- `KeepsShowingHolds`: the same of a dashboard, the store and the next reading, for
  `DashboardsCatchUp`.

`SensorPipeline_proofs`, for any window, sample count and set of levels:

| theorem | property |
| --- | --- |
| `SamplesOnlyWhatIsConfiguredHolds` | `SamplesOnlyWhatIsConfigured` |
| `TypeCorrect` | `TypeOK` |
| `ImplementsRollingMeanHolds` | `ImplementsRollingMean` |
| `SettlesOnTheLoadHolds` | `SettlesOnTheLoad`, for windows up to the firmware's 6 |
| `BufferIsAQueue` | |

`SensorInv` says which handles and which configuration each stage of the setup has,
and that the sum of squares is the number of valid samples times the square of the
current, whichever of them were lost. A successful burst then measures exactly the
current that flowed, and the ring buffer takes it in place of its oldest value
(`BufferIsAQueue`). `RangeInv` bounds the buffer's values, so that the sums have a type. For
the refinement, the queue of `RollingMean` is the buffer read from the index on; a burst
moves it on by one, and the sum over the buffer is the sum over the queue because one is a
renaming of the other's indices. `SettlesOnTheLoad` says itself which steps recur and needs
no fairness: each successful burst at a steady level makes one more of the latest values
that level (`LatestAre`), none takes it back (`LatestStay`), and six of them fill the buffer
(`SteadyIsExact`). That chain is laid out link by link, as its length cannot be a
parameter of a temporal proof here; hence the limit on the window.

`SumTheorems` has what the refinement needs of `SumFunctionOnSet`: the sum is a
natural number and bounded (`SumIsNat`, `SumIsBounded`), one index can be taken out
(`SumTakesOut`), equal values add up to a product (`SumOfEquals`), and names of
indices do not matter (`SumRenamed`). The induction is done without an induction
theorem: the counterexamples would be a set of numbers, and its least element
(`LeastNumber`, `LeastSet`) is refuted.

`WifiStation_proofs`, for any number of retries and losses: `TypeCorrect` (`TypeOK`),
`HandlerHasItsGroupHolds` and `FailOnlyAfterAllRetriesHolds`, from `StationInv`. The
invariant says what the event
queue can hold in each state of the driver, that the group covers the registration,
and that the counter never runs ahead of the failures.

`GatewayBoot_proofs`, for any contents of the flash, any defaults that fit their buffers
and any number of resets:

| theorem | property |
| --- | --- |
| `EveryKeyOnItsOwnHolds` | `EveryKeyOnItsOwn` |
| `UriNamesTheGatewayHolds` | `UriNamesTheGateway` |
| `UpAsProvisionedHolds` | `UpAsProvisioned` |
| `StationHoldsThroughBoots` | `HandlerHasItsGroup` and `FailOnlyAfterAllRetries`, resets included |
| `BootTypeCorrect` | `BootTypeOK` |

`BootInv` joins `LoadInv` (after each read, exactly the keys handled so far are settled,
and each on its own), `StationInv`, `StagesInOrder` (what each boot stage presupposes),
`UsesItsConfig` (driver and URI hold what the getters give) and `ConnectedAsConfigured`
(a connection that was reported is one to the configured network). The properties
themselves speak of the end of `load` or of the boot only and are not inductive.

`BackendServer_proofs`, for any number of requests, frames and gateways and any limit of
the store: `KeepsTheLastHolds`, `NewerOutlivesOlderHolds`, `AnswerTellsWhatHappenedHolds`
and `TypeCorrect`, each for the property of its name (`TypeOK` for the last). `ServerInv`
speaks of the log instead of the list, which forgets: what is logged is being answered or
done with, once, and nothing before what was sent before it; a stamp is not later than the
clock; "ok" is said of what is logged. With `KeepsTheLast`, which makes the list the end
of the log, the newer of two readings is in the list when the older is.

`DashboardClient_proofs`, for any number of channels, services and changes of the grid
status: `TypeCorrect` (`TypeOK`), `ConnectionOrTimerHolds`,
`IndicatorMatchesConnectionHolds`, `NothingIsMissedHolds` and `StreamStatusStaysHolds`. The
second and the third speak of moments when no callback is pending and say nothing of the
moments between, so they are not inductive.
`ServiceInv` says what the callbacks to come belong to: a channel that has opened
(`Opening`: its state is about to be reported), one that has closed (`Failing`: the end
of the stream, if still to come, sets the timer, and otherwise it is set), or one of a
disposed service (`Muted`: nothing will change). Its other half, `Others`, says that the
services before the one in use are disposed and have no timer, and that closing
channels are theirs. `FreedKeepsService` is the step common to a failed attempt and the
end of a connection. `StreamInv` carries the last two: up to statuses in `overtaken`, the
frames on their way to the service in use are in the order of the changes and none is older
than what stream and screen have; nothing is newer than the backend's status; and a
snapshot that is still to be written is the status of now or in `overtaken`, so that
writing it late breaks neither (`AppendedArrives`). It needs `ServiceInv`: a second
connection could deliver an older frame after a newer one of the first. `NothingIsMissed`
then needs that the handlers that read are registered, and is the safety half of
`ScreenCatchesUp`. That of `DisposedServicesLetGo` is `NoOrphansHolds`: every connection
is its service's or is closing, whenever Retry and Leave come.

Assumed of the constants: named sentinels (`Free`, `NoSlot`, `None`) are none of the
values they stand beside, `RelayCount`, the sensor's window and the store's limit are
positive, bounds are natural numbers, each device has an id and each reading a gateway,
currents are multiples of 3 A within the clamp's range, and the build's defaults fit the
buffers of the values they stand in for (`DefaultsFitAssumption`; `sdkconfig.defaults`
keeps to it, `Kconfig` does not demand it). TLC evaluates these assumptions on every run.

Every invariant and every action property of the passing runs is proved, and so are both
refinements. Only model-checked are the nine liveness properties under fairness,
`SamplingNeverStalls`, `HandlerReturns`, `GatewaysFollowOperator`, `FrameIsAcknowledged`,
`DashboardsCatchUp`, `DisposedServicesLetGo`, `ScreenCatchesUp`, `BootEnds` and `ServerEnds`:
fairness is defined with `ENABLED`, which the prover has no rules for; and
`SettlesOnTheLoad` for windows above six. The invariants of the safety halves
(`LocksAreReleased`, `KeepsFollowing` and the like) belong to the proofs and are no run's
properties; TLC agreed with them on instances of `WebSocketHandler` and
`DashboardClient` before they were proved.

## Where code and documents disagree

Each has a run that ends in a counterexample and an entry under "findings".

1. `firmware_timeout`: a `get_peak_stress()` that times out reads as "not active" and a
   `set_peak_stress()` that times out is ignored, so the clear command that follows can
   restore nothing: loads stay shed, where `gateway_state.cpp:59` has the default keep
   them connected.
2. `wifi_reconnect`: the handler that reconnects is unregistered after the first
   connection, where the comments of `wifi_station.cpp` have reconnection automatic.
3. `hub_registered`: the late `Unregister` of a broken connection removes the entry
   of its successor, so a broadcast skips a connected gateway; the next
   acknowledgment repairs it (`handler_follow`).
4. `boot_ssid`: `strlcpy()` into the 32 bytes of `wifi_config.sta.ssid` keeps 31
   characters, so a gateway provisioned with an SSID of 32, which `nvs_config.hpp:23`
   and `README.md:101` of the repository allow, looks for another network.

Seen while reading, without a run: a dashboard's first status is read without the
dashboard hub's lock and may be written after a newer push, so store and dashboard are
not always in sync (`backend/README.md:206`) until the next reading
(`handler_catchup`); `GetLatest` returns oldest first where `repository.go:20` says
descending; after Retry the indicator, for which `dashboard_providers.dart:54` provides the
"current" state, keeps what the thrown away service last reported while the new one's first
attempt lasts, as "connecting" is added before anyone listens
(`dashboard_websocket_service.dart:41`); the broadcast frame's `type` is empty where
`backend/README.md:107` shows one; statuses of gateways that left are never removed, while
`backend/README.md:56` speaks of connected gateways; the first five
means divide by six; the app's reconnection delay is constant, where
`dashboard_websocket_service.dart:6` speaks of exponential backoff; one dashboard that
stops reading blocks the acknowledgments of all gateways (`dashboard_hub.go:84`), which
`handler.go` calls immediate; the six readings of the mean span about six
seconds, as each takes 500 ms of samples and 500 ms of delay, where
`current_sensor.hpp:26` has three; `load()` never returns false, where
`nvs_config.hpp:43` says when it would; the `Kconfig` strings have no length limit, so a
build could have defaults that do not fit; `main.cpp:66` erases all that was
provisioned when the partition is full or of another version; a Wi-Fi setup that fails
leaves the gateway halted until a reset; WebSockets are not among the connections the
server drains, where `main.go:78` speaks of active connections.

## What is not modelled

- `ESP_ERROR_CHECK` aborts outside the boot sequence (a reset, which may come anyway),
  float rounding, the converter's readback, which `current_sensor.cpp:122` does not
  compare either.
- The 500 ms between two loads (`relay_controller.cpp:70`) as a time: that loads come back
  in steps of their own, in which anything else may happen, is modelled, how far apart the
  steps are is not. A restore without the pause would keep every property.
- Anything that reacts to `xTaskCreatePinnedToCore` failing (`main.cpp:94`), as the code
  does not: either task may be absent in `GatewayFirmware`, and no property says that the
  gateway then works.
- Two gateways of one id at once (`handler.go:56`): the proofs allow them, and
  `OnlyOverlapLosesEntries` exempts them.
- An IP acquired between the timeout and the unregistering (`wifi_station.cpp:115`) is
  reported as a failure in the model, too; no property is about it.
- Two callers of `SetPeakStress` at once (`handler.go:258`): no code calls it, and the
  runs have one caller. The proofs hold for any number.
- Removal of statuses: there is none (`gateway/memory_store.go:32`), so gateways that
  left stay in the list and in the total.
- A wall clock that is set back: stamps are taken from a clock that only advances.
- Links of the app that die without a word (`dashboard_websocket_service.dart:56`).
- Logging and recovery middleware: stateless, and no handler panics. Of CORS the answer
  to a preflight is modelled, the headers are not.
- `GetLatest`, which no production code calls, is modelled as the view the properties
  look through; `ConnectedCount` only reads.
- JSON text, logging, theme and widgets, KiCad
  files, the app's platform runners (C++ that the Flutter tool generates for Windows and
  Linux: window procedures without logic of this system) and generated Dart code,
  third-party libraries other than through what the code uses of them.

`PROJECT.json` lists each with its status, and the hazards that no property covers yet
with the reason.

## Plan

Done: the firmware's command path, relays, boot, configuration, Wi-Fi station and
sensor; the backend's WebSocket layer, telemetry store, POST handler and process; the
dashboard client; proofs about each of them. What would come next, in this order:

1. **DemandResponse**: operator, handler, hub and the firmware's command handler end
   to end, with the abstract promise that every load follows the operator; refinement
   of the delivery assumed in `NetworkClient` by the slots of `WebSocketHandler`.
   `GatewaysFollowOperator` ends at the device's flag, `FlagAndRelaysAgree` begins
   there; the composition would join them, at the price of a state space that needs a
   coarser model of one side.
2. Liveness of the backend's handlers from their fairness, when a prover has rules for
   `ENABLED`; the safety halves above are what such proofs would rest on.
