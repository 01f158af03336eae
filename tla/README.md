# TLA+ models of go-nms

This directory holds TLA+ models of the go-nms network management system,
together with the TLC configurations that check them. Each module is
translated from the Go sources under `src/`. `PROJECT.json` maps every
modelled definition to the lines it stands for, and lists the runs, mutants,
findings and hazards.

## The system

The poll pipeline is made of three processes. They share no memory and meet
only on core NATS:

| process | code | role |
|---|---|---|
| collector | `internal/collector/scheduler.go`, `cmd/collector/main.go` | Every tick it lists devices through `DeviceService.ListDevices` and publishes a `PollTask` for every enabled one on `nms.poll.tasks`. |
| worker | `unnamed/part_005` (package worker), `internal/worker/ping_adapter.go`, the `MikrotikAdapter` in `scheduler.go`, worker `main` in `cmd/alert/main.go` | It subscribes to the tasks and runs `processTask` in a goroutine per task. That goroutine pings, or calls the Mikrotik API and then pings, writes a point to InfluxDB, and publishes a `Metric` on `nms.metrics`. |
| alert engine | `internal/alert/engine.go`, alert `main` | It subscribes to metrics and evaluates the two hardcoded rules against each one: rtt_ms > 100 and success = 0. It calls `notifier.Send` for every rule that triggers. |

Core NATS is at-most-once. A message published while nobody is subscribed
is dropped, and the publisher only logs a `Publish` error. Each main stops
its service by closing a stop channel and then returns from `main`. Any
goroutine still running dies with the process.

The repository has further parts besides the pipeline:
- the device service and repository (gorm/Postgres);
- the ZTE C320 SNMP client and the OLT feature that serves it over HTTP;
- the Mikrotik protocol client;
- the monitoring feature (an in-memory inventory and a collection scheduler);
- discovery, command execution and configuration management over SSH;
- configuration loading and the API gateway.

`PROJECT.json` lists every one of them with its status.

## Modules

- `PipelineTypes` declares the constants and the message shapes:
  - the device table (`Devices`, `Enabled`, `Protocol`);
  - `Tasks`, one per device and tick;
  - the metric `values` map, each value tagged with the dynamic Go type it has after the JSON round trip (`float64`, `bool`);
  - the `Rules` of `NewEngine`.
- `CollectorScheduler` covers `Start`/`schedulePolls`/`Stop` and the collector main.
  - `schedPc` is where the Start goroutine is.
  - `Tick` is the ticker case of the select, together with `ListDevices`. `ListDevices` may fail, and the page size is clamped by `ClampPageSize`.
  - `PublishTask(d)` is one iteration of the loop over the page.
  - `FinishTick` is the end of the loop. `Stop` is `close(stopChan)`, `Return` is the stop case of the select, and `Exit` is main returning.
  - `taskBus` holds the tasks NATS delivers to the worker. `sent` records every task `Publish` was called for.
- `Worker` covers `Start`, the subscription callback (`Receive`), `processTask` and `Stop`.
  - `processTask` is split at the points where its goroutine blocks: `Poll` (the adapter calls), `WritePoint` (the blocking InfluxDB write) and `PublishMetric`.
  - `job[t]` is where the goroutine of task `t` is. `Exit` kills the goroutines still running.
- `AlertEngine` covers `Start`, the callback `Evaluate`, `evaluate` with `Triggered`/`Compare`/`ToFloat`, `Stop` and the alert main.
  - `notifications` is the bag of `Send` calls.
- `Pipeline` composes the three by `INSTANCE`. The processes share `taskBus`, `metricBus`, and each other's subscription state (`workerPc`, `alertPc`).
  - Every step of one process leaves the variables of the others unchanged.
  - `Terminated` is the stuttering step once all three have exited. Every other final state is a deadlock, and it is reported as one.
- `MCPipeline` instantiates `Pipeline` with three devices:
  - a Mikrotik router and an SNMP OLT, both enabled;
  - a disabled SSH switch.

  Ping times are 0, 40 and 150 ms, so both rules can trigger.

### The abstract poll-to-alert specification

`PollAlert` states what the pipeline promises, with no processes and no buses:
- `Schedule(t)` dispatches a poll, only for an enabled device.
- `Measure(t)` fixes the poll's outcome (success and rtt).
- `Lose(S)` drops measured polls that were not yet evaluated. Core NATS is at-most-once, and a worker exit kills several goroutines in one step, so `S` is a set.
- `Decide(t)` raises exactly the alerts of spec 4 for the outcome, once.

`Pipeline` defines `Abs == INSTANCE PollAlert WITH ...`. The mapping is:
- `scheduled` is `sent`;
- `measured` is the tasks whose goroutine has its result and is alive;
- `outcome` is `result`, `decided` is `evaluated`, and `alerts` is `notifications`.

The run `pipeline_alerts` checks `PollAlertSpec == Abs!Spec` as a property, on the same instance as its invariants.

### The OLT SNMP client

Three parts are modelled together:
- `ZteOltClient` is one HTTP request of the OLT feature (`unnamed/part_008`, `oltService`). A request connects a fresh `ZTEOLTClient` and then calls one of its three methods.
- The methods are in `internal/worker/protocols/snmp/zte/client.go`.
- The OID constants and result types are in `unnamed/part_006`.

Each method ranges over a Go map of walk OIDs.
- The runtime picks the order, so `BeginWalk(b)` may take any OID left in `todo`.
- `Deliver` hands the next PDU of the agent's column to the method's callback:
  - `CardUpdate` keeps a running maximum, starting at 0;
  - `PonAccumulate` and `OntAccumulate` create a record lazily per index and set one field.
- `WalkFails` is a BulkWalk error after any number of PDUs. `GetSystemMetrics` ignores it, and the other two methods return it.
- `Return` ends the method, and `Respond` writes 200 or 500 (`code`) and starts the next request.
- `BindRejected` and `PonPortRejected(p)` are the gin `Handler`'s 400 answers, for a body that does not bind or for `pon_port < 0`. The service is not called.
- `GetONTMetrics` ignores its `ponPortIndex`: its own comment says the filter is skipped "for now". The model therefore returns every ONT for any port, and no property claims otherwise.
- `Handler.GetONTStatus` calls `GetONTStatus`, which the `OLTService` interface does not declare. The package does not compile as written, so that handler is not modelled.

The helpers are operators:
- `pduToInt`;
- `extractLastOIDIndex`, over an OID as a sequence of arcs;
- the 0.1 dBm scaling, kept as an exact quotient.

The agent's answers are the constant `Agent`. `MCZteOltClient` gives two cards and three PON ports with uneven columns:
- one port appears only in the ONT-count column;
- the optical table lacks a port;
- one PDU has a type `pduToInt` does not know;
- the card rows arrive largest first.

The properties compare the result with reference tables, written from spec 4.3 directly over `Agent`.

### The device registry

`DeviceRegistry` is `RegisterDevice` of the device service under concurrent
HTTP requests. Each request first looks up its IP with `GetByIPAddress`:
- `LookupFound` answers "already exists";
- `LookupMissed` finds no row;
- `LookupFailed` is a database error, which the code treats like a miss. It is enabled by the constant `DbErrors`.

`Create` then inserts the row, or fails. The check and the insert are two
steps, and nothing (lock, transaction or unique index) joins them.
`MCDeviceRegistry` sends two requests for one IP.

### The monitoring feature

`MonitoringScheduler` models the monitoring part of the API gateway.
- `SyncInventory(r)` and `SyncRejected(r)` are `Handler.SyncInventory` with a body the binder accepts or rejects.
- `BuildTargets` is the conversion of the request, and `StoreReplaceAll` is `TargetStore.ReplaceAll`, a fold over the request into a fresh map in which the later duplicate IP wins.
- `Tick` is the ticker case of `Scheduler.Start`. It runs `runCollection`: a `GetAll` copy, and `Spawn` gives one goroutine per copied target, handed the target as its argument.
- `Step(key)` is one call of the `PollDevice` goroutine `key` = <<tick, ip>>: `Connect`, `GetSystemMetrics` or `GetInterfaceMetrics` of the Mikrotik client, answered or failed. `NextStage` is the order of `PollDevice`: a connect error returns, a metrics error is only logged. An answered metrics call hands `MetricPoint` to the writer.
- `Scheduler.Stop` is not modelled. `main` defers it behind `r.Run`, which only returns through `log.Fatalf`, so it never runs.

`MCMonitoringScheduler` has two IPs, two credentials and three requests:
- `r1` lists one IP twice with different credentials;
- `r2` replaces the inventory with the other IP alone;
- `r3` is malformed.

Two ticks let the polls of two collections overlap and straddle a sync.

### Realtime execution on Mikrotik

`MikrotikExecution` models the `/realtime/execute` and `/realtime/stats` endpoints:
- `ExecutionHandler` (`unnamed/part_007`);
- `executionService` (`internal/features/execution/service.go`);
- the `MikrotikClient` calls they make (`internal/worker/protocols/mikrotik/client.go`).

Every request builds its own client and shares nothing with the others, so the requests are served one after another:
- `Receive(r)`: a body that does not bind gets 400, and an unsupported driver gets 500, before any connection.
- `Connect`, `Run`, `GetSystem` and `GetIface` are the client calls, answered or failed.
- `After(stage, ok)` is the service's control flow. A `Connect` error answers at once, and every later return runs the deferred `Disconnect` first.
- `Respond` writes 200, with `ServiceStatus` as the response status.
- `GetSystem` decodes the first sentence of `/system/resource/print` with `SystemMetricsOf`:
  - `ParseUint64` leaves a missing or unparsable field at 0;
  - `Usage` is the uint64 `total - free` (mod 2^`UintWidth`) over `total`, kept as an exact quotient and guarded by `total > 0`;
  - `ParseRouterOSUptime` is the code's placeholder, which returns 0. Every Mikrotik uptime is therefore reported as 0 s, although `TestParseRouterOSUptime` expects parsed durations (and calls an exported name that does not exist). This shows in the code itself, so no run is spent on it.
- CPU, temperature, voltage and the interface counters feed no property, so they are abstracted to the call's outcome.

`MCMikrotikExecution` has four requests:
- a command;
- a stats request;
- a stats request for the `ssh` driver;
- a malformed body.

Memory and disk fields range over missing, unparsable, 0, 1024 and 4096, so `free > total` occurs. `UintWidth` is 16 with the readings scaled to fit, because TLC's integers are 32-bit. The wrap is the same at any width.

### Devices and configuration management

`DeviceConfig` puts the device endpoints next to `POST /config/execute`, all over one devices table:
- `Register(r)` is a step of `DeviceRegistry`, taken by `INSTANCE`. The registry's rows now carry the protocol.
- `List(l)` and `Count(l)` are `GET /devices`:
  - `Atoi` is `strconv.Atoi` of the query parameter. A bad value parses to 0.
  - `ClampPage` and `ClampSize` are the service's clamps.
  - `ListWindow` is `List` with `Limit` and `Offset` and no ORDER BY. A window is any set of rows of the right size.
  - `CountRows` is `Count`, a second query with the filter only.
  - Registrations can run between the two queries. Either query may fail (500).
- `GetDevice(g)` is `GET /devices/:id`. `LookupById` is `GetByID`, and any error is answered 404.
- The config request goes through these steps:
  - `CfgBind` is the binder: 400, or a body whose target, words and form are chosen from small sets.
  - `CfgLookup` is `GetDevice`. A miss or a database error is answered 500. `AdapterFor` sends `mikrotik_api` to the RouterOS API and every other protocol to SSH.
  - `SshDial`, `SshSession` and `SshRun` are `SSHAdapter.Execute`.
  - `ApiDial` and `ApiRun` are `RunCommandStructured`.
  - A command runs (`ok`), runs and fails (a non-zero exit or a `!trap`), or is lost (`RunOn`). `executed` records what each device received.
  - `Return` runs the deferred Closes (`DeferredClose`) and answers 200 or 500.
- The tags column is modelled by `TagArray`, where a string is the sequence of its characters:
  - `Value` writes `{` + `strings.Join(tags, ",")` + `}` without quoting;
  - `Scan` trims the braces and splits on commas;
  - `PgArrayIn`, `PgQuote` and `PgArrayOut` model Postgres' `text[]` input and output. They are written from the Postgres documentation, not from this repository, and are not mapped.
  - `Register` stores what `PgArrayIn` makes of `Value(tags)`, or fails the insert. `GetDevice` answers `Scan(PgArrayOut(tags))`.
- Commands are sequences of tokens: words, `"/"` and `" "`.
  - `Normalize` is the code's normalisation, written with SequencesExt `ReplaceAll` and `Contains` and a `TrimSpace` operator.
  - `Cli` and `ApiPath` build the three forms a client writes: `system resource print`, `/system resource print` and `/system/resource/print`.

`MCDeviceConfig` has these requests:
- two registrations, a `mikrotik_api` router and an `ssh` switch;
- a list request whose page and `page_size` range over missing, bad, 1 and 2;
- a read;
- one config request, which may target either device or an unknown id;
- the tags `core` for the router, and `rack 2` and `core` for the switch, so one tag needs quoting on output.

Config requests share no state, so one of them is enough. Two of them took over six minutes and found nothing new.

## Runs

| run | cfg | expect | what it shows |
|---|---|---|---|
| pipeline_alerts | `MCPipeline.cfg` | pass | Checks `AlertsExactlyOncePerMatch`: every `Send` comes from a metric the engine evaluated, for an enabled device, exactly once for each rule the poll result breaks and never for another rule. It holds under every interleaving of the three processes, message drops, and shutdown in any order. `PollAlertSpec`: every behaviour of the three services implements `PollAlert`, NATS losses and shutdowns included. Also checks `TypeOK`. |
| scheduler_page_cap | `MCPipeline_PageCap.cfg` | violation | `TickCoversEnabledDevices` (spec 4.1) is broken. `ListDevices` turns the requested 1000 into the default page size, and `List` has no ORDER BY, so a tick can end with an enabled device unpolled. |
| zte_collections | `MCZteOltClient.cfg` | pass | Holds under every walk order and a failure of any walk at any point. `TableCollectionIsAuthoritative`: a PON-port or unfiltered ONT list that is returned is exactly the agent's table. `SystemMetricsAreMaxima`: system metrics from successful walks are the column maxima, with uptime in seconds and memory used derived from them. Also checks `TypeOK`. 2,200 states. |
| zte_system_walk_error | `MCZteOlt_SystemWalkError.cfg` | violation | `SystemWalkFailureAborts` (spec 4.3) is broken. `GetSystemMetrics` returns metrics after a card walk failed, because its error branch is empty. |
| registry_duplicate_ip | `MCDeviceRegistry.cfg` | violation | `IpUniqueAmongDevices` (spec 3: "IP address is unique among non-deleted devices") is broken. Two concurrent `RegisterDevice` calls for one IP both miss in `GetByIPAddress` and both `Create`. |
| monitoring_inventory | `MCMonitoringScheduler.cfg` | pass | Holds under concurrent syncs, two overlapping collections, and device calls failing at any point. `StoreHoldsOneWholeSync`: the store is always exactly one accepted request's targets, with the last duplicate winning. `PollDevicePartialFailure`: a goroutine that connected asks for both kinds of metrics and writes exactly those that were answered. `SyncedTargetEventuallyPolled`: every stored target is polled by a later collection with its stored credentials, unless it is replaced first. Also checks `TypeOK`. 43,878 states. |
| worker_poll_unbounded | `MCPipeline_PollTimeout.cfg` | violation | `PollReturns` (spec 5: adapter calls are bounded by a timeout) is broken. `FetchSystemResources` dials and runs without a deadline, so a Mikrotik poll can stay in the poll forever. The ping poll always returns. |
| mikrotik_execution | `MCMikrotikExecution.cfg` | pass | `ConnectionReleased`: no request leaves a routeros connection open, whichever return the service takes. |
| mikrotik_memory_usage | `MCMikrotikExecution_MemoryUsage.cfg` | violation | `MemoryUsageFromReadings` (spec 7(b): a field that does not decode is skipped) is broken. A reply without a parsable `free-memory` reports 100% memory usage, and `free > total` wraps. |
| device_config | `MCDeviceConfig.cfg` | pass | Holds while registrations, a paged listing, a device read and a `/config/execute` request interleave, with database errors and failures of every SSH or API step. `ApiCommandIsPath`: word, CLI-path and API-path commands reach RouterOS as the API path. `ConfigSessionsReleased`: no SSH client, SSH session or RouterOS connection is open after the answer. `ListTotalCoversPage`: the separate `Count` never reports fewer rows than the page and the rows before it. Also checks `TypeOK` (the offset is never negative). 311,364 states. |
| device_tags | `MCDeviceConfig_Tags.cfg` | violation | `TagsReadBack` (the `StringArray.Value` comment: Postgres expects `{"a","b"}`) is broken. `Value` writes the tags unquoted. Postgres keeps them, but it outputs `rack 2` quoted, and `Scan` does not unquote, so `GET /devices/:id` returns `"rack 2"` with its quotes. A comma inside a tag would split it, and an empty tag makes the insert fail. |
| worker_shutdown_inflight | `MCPipeline_ShutdownInflight.cfg` | violation | `InFlightPollsFinish` (spec 5) is broken. The worker main returns right after `Stop`, and a goroutine that has its poll result never writes or publishes it. |

Each property of the passing runs has a mutant in `PROJECT.json`. The mutant
is a plausible bug in the code that the property catches:
- a sentinel rtt of -1 for a failed ping;
- an `evaluate` loop that stops after its first `Send`;
- power read as 0.01 dBm;
- a PON record recreated on every PDU;
- a card callback that stores every value instead of the larger one;
- a target slice made with a length and then appended to;
- `ReplaceAll` writing into the old map;
- `PollDevice` returning on the first metrics error;
- a goroutine closure reading the loop variable (Go 1.21) instead of its argument;
- an `evaluate` callback that leaves the metric to be delivered again (breaks the refinement);
- a usage percentage without the `total > 0` guard;
- an early return before `defer client.Disconnect()`;
- a normalisation that converts only words-only commands;
- `client.Close` deferred only after `NewSession` succeeds;
- `Count` run with the page's `Limit` and `Offset`;
- a page below 1 used without the clamp, which makes the offset negative.

## Bounds

- Three devices cover the cases that matter:
  - each branch of the worker's adapter selection;
  - the disabled row the scheduler skips;
  - a page (of size `DefaultPageSize` = 2, scaled from 20) smaller than the table.
- The requested page size stays 1000, and `MaxPageSize` stays 100.
- One tick (`MaxTicks = 1`) gives 60,972 distinct states. Two ticks exceed several million, because the Mikrotik result ranges over all six combinations of success and rtt.
  - Goroutines of different devices interleave within the tick, which is where the races of the pipeline are.

## Fairness

- Weak fairness is assumed for:
  - a non-Mikrotik poll: `ping -W 1` returns within a second;
  - the InfluxDB write: the HTTP client has a timeout;
  - `Publish`, which does not block;
  - the engine's callback, which NATS runs for each pending message.
- These assumptions are used by the liveness properties of the violation runs `worker_shutdown_inflight` and `worker_poll_unbounded`. Under them, the only way a poll can fail to finish is the code's own behaviour: the exit of the main, or a poll with no deadline.
- No fairness is assumed for the Mikrotik poll. `routeros.Dial` and `Run` are called without a deadline and may block forever.
- No fairness is assumed for `Stop`, `Tick` or `Exit`. Signals and ticks are the environment's choice.
- In `MonitoringScheduler` only the ticker is fair (`WF(Tick)`). The gateway never stops it, and its goroutine only spawns and loops.
  - Device calls get no fairness: `Connect` ignores the poll's context, and `Run` has no deadline.
  - Sync requests get no fairness either: they come from clients.

## Not modelled yet

These parts are planned in this order:
1. The discovery subnet scan (`ScanSubnet`, with `inc`) as an operator. No route reaches it. The same holds for `BackupConfig` and for the repository's `Update`, `UpdateStatus`, `Delete` and `GetByGroup`, which have no caller. The `Delete` comment says "soft deletes", but the model has no `DeletedAt`, so the delete is hard.
2. A bound on outstanding poll goroutines per device, for devices that never answer.

Twelve hazards in `PROJECT.json` have no property:
- task drops by core NATS, which `PollAlertSpec` permits;
- metric drops while the alert engine is unsubscribed, which `PollAlertSpec` also permits;
- a tick that runs after `Stop`;
- the rtt a Mikrotik poll takes from an ignored ping;
- the `GetStats` status after an interface failure. One request is served at a time, so a property would only restate `ServiceStatus`;
- the card maxima starting at 0;
- the deferred `scheduler.Stop` in the gateway main;
- the unused dial context of the Mikrotik client;
- the `count` of a sync with duplicate IPs;
- the unordered paging across requests;
- the echoed, unclamped `page_size`;
- `routeros.Dial` without a timeout.

The note on each says why.

Some code is left out because no behaviour depends on it:
- `extractTwoLastOIDIndexes`, `formatSerialNumber` and `MikrotikAdapter.RunCommand` have no caller.
- `parsePercentage` and `parseBytes` fill the Mikrotik metrics that the worker publishes. No alert rule reads those keys, so the model keeps only the poll's success flag.
- `applyFilter` is the identity for the only filter the service builds, which sets nothing but `Limit` and `Offset`.

Configuration loading, connection setup, HTTP routing and the one-shot tools
are pure I/O and are not modelled.
