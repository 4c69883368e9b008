# Probara verification

TLA+ models of the parts of Probara whose correctness depends on the order of
events: how check results become the state of a monitor, how checks reach a
worker, how an outage becomes an alert, an incident, a page and a push, and how
results and metrics become rollups. TLC checks the models on small instances;
TLAPS proves every safety property for every value of the modules' parameters, and that
the rollup ledger implements what its readers are promised. `PROJECT.json` lists the
runs, the mutants every property is tried against, the line of source behind every
definition, the hazards and the findings.

## 1. The system

Probara is an uptime monitor. Go services share one Postgres database, which is
the source of truth. NATS JetStream carries durable work (check jobs, check
results, notifications); core NATS is only used for live updates.

```
 API  ──writes──► monitors, locations ◄──reads── scheduler ──jobs──► JetStream ──► workers
  │                      ▲                                                           │
  │ push / OTLP          │ one transaction per result                                │ results
  └──────────────► Record│◄────────────── ingest ◄───────────── JetStream ◄──────────┘
                         │◄── absence watchdog (in the scheduler)
                         ▼
              current_state, timeline ──reads──► alerter (N replicas) ──► providers
```

| Component | State it keeps | Operations | Hard behaviour | What makes it correct |
|---|---|---|---|---|
| State machine (`shared/monitorstate`) | none, pure | `Apply`, `AggregateLocations`, freshness horizon | clamps, order of tests | a state agrees with its failure count |
| Result recording (`record.go`, `intervals.go`) | `monitors.current_state`, `consecutive_failures`, watermarks, `check_results`, `monitor_state_intervals` | `Record`, `RecordIntervalTx` | redelivery, late results, `NOW()` older than the lock | evidence counted once and in order; a timeline without gaps |
| Results ingest (`scheduler/internal/ingest`) | JetStream consumer, per-location rows | `handleResult`, location verification, `persistAtLocation` | verification before the lock, at-least-once delivery | a removed location never comes back; quorum |
| Absence watchdog (`watchdog.go`) | advisory lock | three passes: active, quorum, heartbeat | scan and transaction are separate | silence is noticed; fresh monitors are left alone |
| Monitor and location API | `monitors`, `monitor_locations`, `locations` | pause, delete, set locations; quorum, threshold and interval; disable and delete a location | races with results in flight; an edit judges no state again | state, rows and membership stay consistent |
| Check dispatch (`scheduler.go`) | `next_run_at`, batch transaction | fetch, publish, reschedule, commit | publish is outside the transaction; several schedulers | no slot skipped, no monitor starved |
| Worker (`worker/internal/worker`) | the job in hand | run, skip, expire, publish, ack | redelivery of checks with side effects, shutdown | one call per slot; no ack without a result, save the jobs it drops in silence |
| Alert lifecycle (`alerter/internal/alerter`) | `alerts`, `alert_notification_states`, sweep cursor | open, resolve, dispatch, acknowledge, recover | replicas, crash between commit and send, stale lists | one alert, one page per event, every recovery announced |
| Incidents (`evaluator.go`, `services/incidents`) | `incidents`, links, timeline, publications | find or create, note a recovery, operator edits | READ COMMITTED, advisory keys, several incidents per alert | one automatic incident, one recovery entry, no circular wait |
| Asynchronous notifications (`worker/notifications`) | JetStream, recipient ledger | publish, deliver, supersede, retry | redelivery, an update overtaking its trigger, partial delivery | the pager follows the alert; nobody texted twice or forgotten |
| Rollups, retention, purge (`rollups*.go`, `retention.go`, `purger.go`) | dirty ledger, hourly and daily rollups, cursor, downtime tables | mark, rebuild, prune, purge, project | a mark made while it is being cleared; retention ahead of the rebuild | a rollup loses and invents no row |
| OTLP receiver, metric store (`services/otlp`, `metricstore`) | series registry, its cache, partitions, marks | ingest, retry, maintain partitions, rebuild | rolled back transactions, retried exports, dropped partitions | an accepted sample is stored, readable and rolled up |
| AI triage and analysis (`worker/internal/airca`) | job rows, locks, stream | claim, publish, run, time out, sweep | publish after commit, lost workers, caps across replicas | exact caps, no job pending for ever, no outcome overwritten |
| SIP call checks (`sip_*.go`) | dialog table, event buffer, linger pool | INVITE, CANCEL, BYE, failover, linger | three goroutines, forks, late answers, panics | every dialog hung up, one call at a time |
| Status pages (`status-page/internal/statuspage`) | push ledger, subscriptions; render cache, generations, streams | reconcile, claim, send; build, invalidate, broadcast | replicas, lost claims; a build older than the event | told once; a refetch is fresh |
| Dependency suppression, groups, mesh, accounts, analytics, dashboards | tables of their own | SQL in one statement or transaction | section 8 | not modelled |

Every part of the repository, the ones left out too, is under `components` in
`PROJECT.json`.

## 2. The modules

| Module | Models | Source |
|---|---|---|
| `MonitorState` | the pure layer: `Apply`, `AggregateLocations`, `EffectiveQuorum`, the freshness horizon | `shared/monitorstate/{state,aggregate,freshness}.go` |
| `MonitorPipeline` | every transaction that writes the state, the location rows, the membership or the timeline of one monitor | `shared/monitorstate`, `scheduler/internal/ingest`, `watchdog.go`, monitor and location services of the API |
| `MonitorPipelineProofs`, `CheckDispatchProofs`, `AlertLifecycleProofs`, `RollupLedgerProofs`, `SipCallProofs` | theorems about the module they are named after (section 7) | |
| `StatusPageProofs` | theorems about `StatusPush` and `StatusPageCache` | |
| `WorkerProofs` | theorems about `AiJobs` | |
| `ServicesProofs` | theorems about `Incidents`, `NotificationDelivery`, `MetricStore` and `DowntimeProjection`, a part for each | |
| `CheckDispatch` | scheduler replicas, the work queue and the workers, for several monitors | `scheduler.go`, `shared/queue`, `shared/models`, `worker.go`, run-now and monitor edits of the API |
| `AlertLifecycle` | the tick of several alerter replicas on the availability alerts of one monitor | `alerter/internal/alerter` |
| `SipCall` | one SIP test call: dispatcher, call goroutine, linger and the far end | `worker/internal/worker/sip_*.go` |
| `Incidents` | alert transactions statement by statement, with their locks, and the operators' edits | `evaluator.go`, `services/incidents`, `services/alerts` |
| `RollupLedger` | recording, marking, rebuilding, pruning and purging of check results | `rollups.go`, `rollups_dirty.go`, `retention.go`, `purger.go`, `record.go` |
| `RollupView` | abstract: what the hourly rollups promise a reader | |
| `DowntimeProjection` | the downtime tables and the window the projection looks back | `rollups.go`, `rollups_dirty.go` |
| `MetricStore` | OTLP exports against registry, cache, partitions and metric rollups | `services/otlp`, `handlers/otlp`, `metricstore`, `metric_rollups.go` |
| `AiJobs` | triage relay, queue, runs, time limits; analysis requests and their sweep | `worker/internal/airca`, `services/incidents/ai_analysis.go` |
| `NotificationDelivery` | envelopes of one alert and channel, to a pager or to SMS recipients | `worker/notifications`, `recipientledger`, the PagerDuty and Twilio plugins |
| `StatusPush` | reconciler and senders of several replicas over the push ledger | `statuspage/push_*.go` |
| `StatusPageCache` | render cache, single flight, subscriber, throttle, hub, browsers | `statuspage/{cache,subscriber,throttle,hub,handlers}.go`, the page's script |
| `MCMonitorPipeline`, `MCSipCall`, `MCMetricStore` | constants for TLC that a cfg cannot write (functions, symmetry sets) | |
| `MCDispatchCall`, `MCAlertsPage`, `MCDispatchAiJobs`, `MCAlertsRollups`, `MCServices` | several components in one run | |

`MonitorPipeline` extends `MonitorState`. The components meet where one writes what
another reads, and each module takes the other side as an input that may do more than
the other component can: `CheckDispatch` ends where a result is published and
`MonitorPipeline` begins where one arrives; `AlertLifecycle` takes the state of the
monitor, `Incidents` and `NotificationDelivery` take the alert's life, `StatusPush`
and `DowntimeProjection` take the timeline, `RollupLedger` takes recorded results.

The `MC` modules of several components hold components that share no variable. A
variable `part` says which of them moves in a behaviour while the others stay in one
initial state, so the states of a run are the sum of its parts and not their
product. Fairness is conditional on `part`.

### 2.1 MonitorPipeline

State. `mon` is the `monitors` row; `selected` is `monitor_locations`;
`locEnabled` and `locDeleted` are columns of `locations`; `locState` is
`monitor_location_state`; `results` is `check_results`, whose unique key
`(job_id, result_source)` is `Duplicate`; `open` and `closedAt` are the end of the
timeline (older intervals never change); `queue` holds results published and
not acknowledged; `verified` those the ingest has authenticated and not yet
persisted; `wd` the pass whose scan has this monitor as a candidate; `pending` a
`SetLocations` transaction between its check of the locations and its commit.
The quorum, the failure threshold and the interval are columns of `mon`, since an
operator may edit them. `lastApplied` and `thresholds` (every threshold the monitor has
had) are observers that no action reads.

Atomicity. Each writer starts with `SELECT ... FOR UPDATE` on the monitor row, so
its effect is one step, and `MonitorUnlocked` is its guard. `NOW()` in Postgres
is the start of the transaction: the parameter `t` of each action is any
moment up to `LockWait` ticks before the lock was obtained. Everything
the code does before the lock is a step of its own: `VerifyLocationResult`
(`locationCredential`), the three scans, and the lookup of the push endpoint.
`SetLocations` is split because `locations.Delete` locks only the monitors that
are already members.

Evidence reaches the pipeline in three ways, one per `mon.type`. An active monitor's
results, expired jobs too, are published by workers (`RunCheck`, `ExpireJob`) and delivered at least once. A push
endpoint is called directly (`ReceivePush`). An agent's export is decoded by the OTLP
service (`ReceiveExport`); its job id is a digest of the payload, so a retried export
has the id of the first and is a duplicate. A request either commits or answers with
an error (`RequestFails`); nobody redelivers it for the client.

Actions and code: `HandleFleetResult`/`HandleLocationResult` = `handleResult` with
`persist`, `Record` or `persistAtLocation`, and the acknowledgement, which may be
lost; `IngestFails` = a rolled-back transaction or a restart; `markMonitorUnknown`,
`reaggregateMonitor`, `recordAbsence` = the three watchdog transactions;
`SetEnabled`, `DeleteMonitor`, `SetLocationsBegin/Commit`, `UpdateMonitor`,
`UpdateLocation`, `DeleteLocation` = the services of the API. `UpdateMonitor` writes
quorum, threshold and interval in one UPDATE under the lock and touches neither the state
nor the location rows: what they say was judged by the threshold of its time, until the next
evidence. The other columns it writes (names, targets, labels) are not read by the pipeline.

### 2.2 CheckDispatch

State. `nextRun` and `enabled` are columns of `monitors`; `batch[s]` is the open
transaction of a scheduler: the rows it has locked, those still to publish, the
`next_run_at` values it has written, and whether a statement has failed, after
which Postgres turns its commit into a rollback. `jobs` holds every stored job with
its delivery count and its phase, so de-duplication by `Nats-Msg-Id` is a question
about stored jobs. `rows` are the results published by workers.

A publish has three outcomes: not stored, stored without confirmation, confirmed.
`publishMonitorJobs` takes the stored and the confirmed targets as inputs.
`Broken` monitors are those whose job cannot be built. The queue is external: it
is modelled from the options the client sets (message id, window, max deliver,
explicit ack). JetStream may redeliver a job whose check is still running, because
the progress heartbeat has a ceiling: `AckWaitExpires` does not ask whether a
worker is busy.

`processJob` acknowledges some jobs without running or publishing anything (`RefuseJob`,
`ResultRow`). Constants name the monitors whose jobs are such: `Unreadable` (envelope or
payload cannot be parsed, or are of another kind or version), `Unrunnable` (unknown or passive type,
no config, no timeout), and `Unroutable`: a mesh probe without a target location is run, but its result
is dropped. An `Unrunnable` job that is late is expired like any other, because that test comes first.

### 2.3 AlertLifecycle

State. `alerts` and `row` are `alerts` and `alert_notification_states`; `mon` is what the
candidate queries see of the monitor; `proc[r]` is the program counter of a
replica in its tick, with the list it read, the deliveries it still has to make,
the claim it holds (a transaction that keeps the alert row locked while the
provider is called) and the cursor of its recovery sweep; `inbox` is what a provider
accepted.

The tick is `openAlertsForDownMonitors`, `resolveAlertsForRecoveredMonitors`,
`dispatchOpenAlerts`, `dispatchAcknowledgements`, `dispatchPendingRecoveries`, in
this order. A query and the statement that acts on its answer are separate steps.
`PhaseFails`, `SweepAborted`, `DeliveryFails` and `Crash` are the error paths.

Left out of the model, on purpose: the dependency rules behind "suppressed" (an
input here) and the shift of the escalation clock they cause (`eligibleSince` is
the time the alert was triggered); the `suspected_cause` event; the incident a policy
opens and annotates in the same transaction as the alert (`Incidents`). The two
queries of `dispatchOpenAlerts` are one step. Alert ids are taken in any order, as
random UUIDs are.

### 2.4 SipCall

`dialogs` is the dialog table under the call's mutex; `events` the bounded buffer between
dispatcher and call; `peer` what the far end did. The dispatcher acknowledges a 2xx and
updates the table before it emits the event, and may find the buffer full: the event is
then dropped. `drive`, teardown and linger are program counters of one goroutine, which
waits for its own CANCEL and BYE transactions while the dispatcher goes on. Where the
goroutine drains the buffer, it takes one event at a time (`flowEnd`, `settleEnd`, `byeAll`)
and the dispatcher may queue another meanwhile. `overlooked` is a history variable: an answer
was dropped at a full buffer while the linger waits for an event to look at the table.
The drive, the teardown and the linger may panic and are recovered, in every phase of theirs. A
linger that panics (`LingerPanics`), or whose worker shuts down (`WorkerStops`, the end of the process:
nobody waits for a linger), closes the connection without a BYE. The loss of a worker before the linger
is not modelled: then no code is left that could act. SIP timers are choices: a wait may end at any time.
The far end is assumed not to answer an INVITE with 2xx after it has rejected it.

### 2.5 Incidents

A transaction holds its writes and its locks (alert rows, incident rows, the two advisory
keys) until it ends; a statement sees what is committed and its own writes. `clock` orders
resolutions. Of the timeline only recovery entries are kept: how many there are for an incident
and the time its last alert closed (`notes`, and `wrote` before the commit). Operators' edits are one step
each under the incident's row lock; titles, free entries and `UpdateIncident` change
nothing that the properties read.

### 2.6 RollupLedger, RollupView, DowntimeProjection

A rollup is the set of rows it counts. `stamp` is `clock_timestamp()` at the mark, not
at the start of the transaction, which the conditional delete relies on. `RollupLedger`
implements `RollupView` with `base`, `due` and `view` mapped to the rows recorded, the
rows marked and the rows counted (`RollupsShowEveryResult`); the safety part of the view
stands alone as `ViewSafety`. A recording transaction is
assumed to last less than an hour. `DowntimeProjection` has the look-back of the
projection (ten minutes before the start of the run). A change carries the time its
transaction began (`BeginChange`) and is visible when that commits (`ChangeState`), possibly
after a run that began later. A run may fail before it reaches the projection (`FailRun`);
it may also fail on this one monitor, which is logged, and the run succeeds (`FailMonitorSync`).

### 2.7 MetricStore

`export[q]` is a request with the position of its transaction; `seriesCache` is
written before the commit, as in the code. A missing partition aborts the
transaction, is created, and the batch is tried once more. Partitions are dropped by
maintenance. The collector repeats what was answered with 429 or 503.

### 2.8 AiJobs

The relay's tick is one transaction (under an advisory lock) followed by publications;
what could not be published is undone in another. Delivery runs under a session lock per
job. The time limits keep the order they have in the code: republish, not started, failed,
stale. A time unit is some minutes, longer than a tick and its calls.

### 2.9 NotificationDelivery

`mail` are the envelopes in the stream with their delivery counts; `incident` is the
provider's incident; `ledger` the recipients recorded. The share lock on the alert makes a
resolve wait for a trigger that is being sent (`UpdateWaits`). What the provider
does, it does when the worker sends; a worker may be lost before it records it.
`Due` is when the alerter publishes: an opening whenever the channel has no claim yet
(`notifyFiredChannels`), an acknowledgement or a recovery only where a committed
`alert_notification_states` row says that the opening was claimed
(`dispatchAcknowledgements`, `dispatchPendingRecoveries`), and nothing on a channel that is off.

### 2.10 StatusPush, StatusPageCache

`intervals` is the timeline of one monitor on one page; `deliveries` the ledger,
keyed by interval. A pass reconciles, claims (committed before anything is sent), sends
and completes; it may be lost at any point, and another replica takes its claims over
after `ClaimStaleAfter`. The ledger and the subscriptions are pruned. The observer
`resent` holds the intervals whose claim was lost.

The content of a page is the number of changes it shows. `Get` is split where the mutex is
released: lookup, joining or leading the flight, second lookup and generation, build,
store. `Invalidate` is two steps, because `Forget` comes after the mutex is released.
Events may be lost, dropped at a full channel, delayed by the throttle or coalesced.

## 3. Runs and bounds

| Run | Question | Bounds, and why they reach the hard cases |
|---|---|---|
| `pipeline_fleet` | Is evidence counted once and from real observations, does a confirmed state have the failures it needs, and does the timeline stay monotonic, for a monitor on the default fleet? | an active or an agent monitor, threshold 1 or 2 and edited between them, three results (under 2, fail, pass, fail is not down and fail, fail is); redelivery and retried exports, expired jobs; a transaction up to one tick older than its lock; one pause, deletion or edit |
| `pipeline_locations` | Does "down" need a quorum of locations that each confirmed it, is the evidence of each location applied in order, does only absence turn the monitor unknown, and do edits of the membership, of locations and of the pause flag leave state, rows and timeline consistent while results are in flight? | two locations, quorum 2, thresholds 1 and 2, two results, two edits (of the threshold too; `pipeline_silence` edits the interval): one location reporting twice is not enough, and a location can be removed, added again or deleted around a verified result |
| `pipeline_silence` | Is a monitor whose results stop noticed? | every type, with or without a location; threshold 2, so two absences are needed; one edit (a pause, or an interval of 1 made 2) in between; a clock well past the longer horizon |
| `dispatch_and_call` | Is a check with a side effect run once per slot, and is nothing acknowledged without a result? Is every call hung up, cancelled and labelled correctly? | two schedulers, one worker, a call or an ordinary check scheduled, a job of unknown type and a probe without target besides (run by hand), two deliveries per job, one fault, one edit; two addresses of one host, two forked dialogs, ring mode and answer mode with credentials and media, one provisional per INVITE, one linger slot, one panic (of the drive, the teardown or the linger) and a worker that stops during the linger, both in the first INVITE at the first address (`CutAtFirst`) |
| `dispatch_and_ai_jobs` | Is a slot ever skipped, or a healthy monitor starved by a broken one? Are the AI job caps exact, outcomes kept, and jobs settled? | three monitors, batches of two, one broken monitor that always sorts first, one fault and one edit; two triages against a cap of one, two relays, two deliveries per job, one fault; one analysis |
| `alerts_and_page` | One open alert, one page per event, no stale page? Is a refetch of a status page fresh? Is a browser told of a transition once? | two replicas, two alert ids, one fault, one change of the outside world in addition to the outage; two browsers, two changes of the page, a stream that holds one event, one lost event, failed query or reset; two push replicas, two transitions, a claim that grows stale (the run ends before retention takes a row of the ledger: `ToldOnce` past it is proved only) |
| `recoveries_and_rollups` | Is every outage paged and every recovery announced, with crashes in between? Do the rollups count every marked row and no other? | one replica, three alerts against a sweep batch of one, two changes, one fault; two rows over four hours and two days, batches of one, raw retention shorter than the backlog, one failure, a purge |
| `services` | Incidents, downtime tables, metric store, asynchronous deliveries | three alerts of two kinds on one monitor, two incidents, two concurrent transactions (one may be a bulk resolve), two operator edits; six minutes of timeline with a look-back of three, changes that commit late; two exports, one series, two days with a retention of one, one fault; two recipients, two attempts, two failures |
| `pipeline_deleted_location`, `pipeline_unbound_candidate`, `sip_late_ringing`, `metric_dead_series` | The findings of section 6 | the smallest instance that shows them |

Bounds of all modules: a clock (`MaxNow`), inputs (`MaxResults`, `MaxEdits`,
`MaxChanges`), failures (`MaxFaults`), all in guards. `LastInput` stops reports and
edits early enough for the watchdog to act before the clock ends; `Tick` then waits for
results in flight and due heartbeats, which is what an unbounded clock would give.
An interval of 0 with `MinFreshness = 0` makes evidence fresh within its own tick
only, the shortest window in which staleness can race a result; `pipeline_fleet` and `pipeline_silence` use windows of one tick or more. In
`dispatch_and_call` monitors are not paused (`dispatch_and_ai_jobs` has that), schedulers start
in order (which of the two moves first is a matter of names), de-duplication does not expire (`Window >= MaxNow`) and a
suspect monitor is not rechecked sooner (`Recheck >= Interval`); `dispatch_and_ai_jobs`
has the shorter recheck. `EventBuffer` of the SIP calls is 2 where the code has 64, so that a full buffer and
dropped events happen; `sip_late_ringing` has room for every event. A BYE that reaches the
far end is answered with 200 in `dispatch_and_call` (`ByeAnswers`); with 481 or another code
the call goes on in the same way and carries another label, which the proof covers. `CHECK_DEADLOCK FALSE` is used where the clock and
the inputs run out; alerters poll for ever, so `alerts_and_page` checks
for deadlock, and lets the page and the push senders rest once their inputs are used up.

Symmetry is used in safety runs only, on locations, replicas of one kind, transactions,
alert kinds, browsers and dialogs. No property or guard orders them.

## 4. Properties

Evidence and state (rules S-.. of `docs/state-semantics.md`):

- `ConfirmedState`: state and failure count agree on the monitor and on every
  location row, under a threshold the monitor has had, whichever of the six writers was last.
- `EvidenceBacked`: a failure count is never higher than the number of distinct
  failing rows of one stream in `check_results`.
- `LateResultNeverApplied`: evidence of the fleet and of each location is applied in the
  order in which checks started. For locations the order holds while the row exists: a
  pause deletes the rows, and their watermarks with them.
- `QuorumRespected`: "down" has an effective quorum of locations behind it, each of which has
  enough failing rows and was heard of within the horizon.
- `TimelineAgrees`, `TimelineMonotonic`: the timeline shows the state and never runs backwards.
- `NoResurrectedRow`: state rows exist for selected locations only.
- `AbsenceOnlyWhenStale`: the watchdog makes no monitor unknown that has fresh evidence, as
  long as its pass finds the monitor bound to locations, or not bound, as the scan did.
- `UnknownOnlyFromAbsence`: the same without the proviso, as the document has it; violated
  (finding 4).
- `SilenceIsNoticed`: silence ends in "unknown" or "down".

Dispatch: `OneCallPerSlot`, `AckedHasResult`, `NoSlotSkipped`, `NoHealthyMonitorStarves`.

Alerts and what follows from them: `OneOpenAlert`, `OncePerEvent`, `NoStalePage`,
`PagedChannelsHearRecovery`, `OutageIsPaged`; `OneOpenAutoIncident`,
`RecoveryIsNotedOnce` (exactly one entry, with the right time), `SingleResolvesNeverDeadlock`;
`PagerFollowsAlert`, `TextedOnce`, `EveryRecipientTexted`; `ToldOnce`, `RefetchIsFresh`.

Rollups and metrics: `FoldedOrMarked`, `DailyIsSumOfHourly`, `RollupsShowEveryResult`
(the refinement), `ProjectionTrailsOneRun`, `SampleFoldedOrMarked`.

AI jobs: `CapsAreExact`, `TimeoutComesLast`, `SweepSparesRuns`, `PendingIsSettled`.

SIP calls: `EveryDialogHungUp`, `CancelFollowsProvisional`, `OneCallRings`, `LabelTruthful`.

Each is stated in words, with the code it is about, above its definition. The exceptions a
property makes are part of its statement and are exactly the disturbances the code
documents or cannot see: a claim whose pass was lost (`ToldOnce`), a reset of the
generations (`RefetchIsFresh`), an incident whose links an operator changed meanwhile
(`RecoveryIsNotedOnce`), a lost worker (`TimeoutComesLast`), calls and the jobs that are
acknowledged in silence (`AckedHasResult`), an opening whose claim never committed, a channel switched
off and deliveries given up (`PagerFollowsAlert`), a linger that did not run to its end
(`EveryDialogHungUp`), a monitor not synced for longer than the look-back (`ProjectionTrailsOneRun`).
Section 6 says what follows where an exception is not harmless.

Types are proved rather than run: the type invariants of the components in `ServicesProofs`
and `WorkerProofs` are a conjunct of each inductive invariant, those of the others theorems. TLC
also checks `MonitorPipeline`'s.

## 5. Fairness

- Pipeline: the clock; the commit of an open transaction; the watchdog's scans (a
  ticker starts a pass for ever) and its transactions, strongly, since a pass may
  time out or its replica stop, but the next tick tries again. Delivery with an
  acknowledgement is strongly fair: JetStream redelivers until a message is
  acknowledged (the results consumer has no delivery limit, `ingest.go:209`), and the
  ingest stops failing at some point.
- Dispatch: every scheduler keeps fetching and ends the batch it has opened. Workers need no
  fairness: their properties are safety.
- Alerts: every replica keeps ticking and a provider call returns (it has a
  timeout). Failures and operator actions are finite (`MaxFaults`, `MaxChanges`).

- Rollups: the maintenance and purge tickers of the scheduler, and the end of a recording
  transaction that has begun. One step of maintenance at a time; failures are finite.
- AI jobs: relay ticks, the sweep, delivery and end of a run (each has a timeout), and the
  clock. Lost workers and failed publications are finite.

No fairness is assumed of anything a user, an agent or an operator does. Incidents,
deliveries, metric exports, SIP calls and status pages have safety properties only.

## 6. Findings

1. **A monitor can stay bound to a deleted location** (`pipeline_deleted_location`).
   `SetLocations` counts live locations without locking them; a deletion
   committing before it does sees no membership to remove.
2. **A phone can go on ringing** (`sip_late_ringing`). A provisional answer queued
   when the teardown of a call without any answer gives up is consumed by `byeAll`,
   which sends no CANCEL, and the linger cancels only for provisionals it reads itself.
3. **A retried export can lose its samples** (`metric_dead_series`). The id of a new
   series enters the cache before the transaction commits and stays there after a
   rollback; the retry stores its samples under an id that has no row, and answers 200.
4. **A fresh monitor can turn unknown** (`pipeline_unbound_candidate`). The quorum pass of the
   watchdog lists stale monitors with locations, then locks them one by one and aggregates their
   rows without asking whether locations are left. One that lost its last location in between
   and was checked by the fleet has no rows, which means unknown. The proof of
   `AbsenceOnlyWhenStale` came to a halt at this case.

### Observations

Seen while modelling, without a run of their own: most because no document says
otherwise or the documents accept them.

Pipeline, dispatch and alerts: `Record` and `persistAtLocation` do not look at `enabled`,
so a result in flight at the moment of a pause moves a paused monitor away from
`unknown` and nothing moves it back; saving an empty location list resets a fleet
monitor although the set did not become empty; the heartbeat pass records a failure although a ping
arrived, or the monitor was paused, after its scan; a push monitor resumed
after a pause longer than its window fails at once, since `SetEnabled` keeps
`last_result_at`; after a resume an older location result is applied, since the
watermark went with the row; an edit of the failure threshold judges nothing again, so that a
monitor stays down below a raised threshold, or suspect at or above a lowered one, until its next
evidence; a job of a type the worker does not know, one it cannot read, or a probe without a target is
acknowledged without a row, so that only the watchdog notices; an
expired-job row may be published for a job that ran before; as many broken
monitors as a batch holds (500) starve the healthy ones, because broken monitors
keep the oldest `next_run_at`; one location whose credential cannot be decrypted fails its
batch; an alert can open just after recovery or the start of a maintenance window (S-M2 accepts
it); a page accepted by the provider, or published to the stream, whose claim was rolled back has no
recovery message if the alert resolves before it is claimed again, since recoveries go only to channels
with a committed row: the pager's incident stays open; a channel its provider refuses for good keeps its claim; the alerter's shutdown
does not wait for its loop; locations may be bound to a push monitor, whose pings are
then history only; the policy evaluation of `evaluator.go` (`evaluateAlerts`,
`createAlert`, `dispatchNotifications`) is called by tests only.

Incidents: two bulk resolves whose alerts share incidents may take the recovery keys in
opposite orders (`bulk.go:108`, alert by alert) and one is aborted by Postgres; attaching or
detaching an alert writes no recovery entry.

Rollups and metrics: metric rollups shrink when a late sample re-creates a partition
retention has dropped and its hour is rebuilt (`metric_rollups.go` and migration 000084 say the
rollups survive); an export using the cached id of another transaction that has not
committed has its sample left out of the rollup until the hour is marked again; a gap of
more than ten minutes between runs that reach the projection loses intervals
(`docs/correctness-notes.md:124` accepts it), and so does a gap between two successful syncs of one
monitor, because a failed one (`rollups_dirty.go:278`) is logged and nothing retries it; `loadHourlyBucketSeries24h` counts rows folded
before the cursor advances twice; a row too late to be marked is counted after
all if its bucket is marked; a partition dropped between its creation and the retry
gives 503; the series cap can be exceeded by concurrent requests; `forgetMonitor` is never
called; a maintenance lock lost with its connection could let two consumers run.

AI jobs: the caps are configured per tenant and constants here; lowering one while as many
rows are claimed leaves more than the new cap until they end. A publication repeated after an outage whose attempts were undone can fall outside
the de-duplication window and store a second copy, which the job lock makes harmless;
the time limit of a started triage does not cover the longest chain of deliveries when
every worker dies late.

Notifications: the share lock is lost with the database connection, in the middle of a send; an
event published twice outside the window may text twice.

Status pages. Push: the debounce asks for the age of an interval and not for its
length (`push_reconciler.go:78`), so an outage that ended within a minute is announced a
minute later, although line 21 of the file says that it "never creates a ledger row at all"; a recovery
is announced although its outage was suppressed by maintenance, opt-out or horizon; outage and
recovery rows of one pass have the same `created_at` and may be sent in either order; the
subscription cap is counted without a lock. Page: `subscriber.go:337` skips an event when
nothing is cached and nobody listens although a build may be in flight, which then stores the
older page until its TTL ends; a browser that connects its stream after it fetched
the page misses the events in between.

SIP: a linger that panics, or is under way when its worker stops, leaves the calls up that it had not
hung up yet (`sip_linger.go:20` accepts the latter). An answer dropped at a full event buffer during a blocked linger is hung up only if another
event arrives, since the linger looks at the table only when it reads the event of an answer.
The comment of `emit` (`sip_invite.go:566`) says that a dropped event "loses nothing that matters" because the
linger finds dialogs in the table; with a buffer of 64 events the case is remote.
`EveryDialogHungUp` excepts it by `overlooked`: its proof came to a halt without.

Accounts and dependencies (not modelled): the test for the last active superadmin is made
outside the transaction that demotes or deletes; two bootstrap requests can create
two superadmins; a revoked session is accepted during the refresh grace of 60 s; two concurrent
additions can close a cycle of dependencies.

## 7. Proofs

Eight modules prove the theorems below with TLAPS: for every set of locations, monitors,
replicas, workers, browsers, recipients, requests, alerts and incidents, and for every set of
thresholds and intervals an operator may choose from, every window, limit and bound, as far as the named assumption of the module
allows. The assumptions ask for numbers where the code has numbers, for finite sets, and for the
order of the time limits where the code keeps one (`PushAssumption`: a claim grows stale only
after a pass can have ended, and the ledger remembers at least as far back as the reconciler
looks; `RollupAssumption`: rollups outlive the raw rows by at least a day; `AiJobsAssumption`:
the compile-time guards of `relay.go` and `sweep.go`). Names the model keeps
for nobody or nothing are not members of the sets. Numbered sets (alerts, incidents, exports)
stand for ids that are compared.

| Module | Theorem | Says |
|---|---|---|
| `MonitorPipelineProofs` | `TypeCorrect` | `Spec => []TypeOK` |
| | `TimelineAlwaysAgrees` | `Spec => []TimelineAgrees` |
| | `TimelineNeverRunsBackwards` | `Spec => TimelineMonotonic` |
| | `RemovedLocationsStayRemoved` | `Spec => []NoResurrectedRow` |
| | `StatesAreConfirmed` | `Spec => []ConfirmedState` |
| | `FailuresAreBacked` | `Spec => []EvidenceBacked` |
| | `DownTakesAQuorum` | `Spec => QuorumRespected` |
| | `EvidenceInOrder` | `Spec => LateResultNeverApplied` |
| | `AbsenceIsReal` | `Spec => AbsenceOnlyWhenStale` |
| `CheckDispatchProofs` | `DispatchTypeCorrect` | `Spec => []TypeOK`, with it: no monitor is in two open batches |
| | `CallsAreNotRepeated` | `Spec => []OneCallPerSlot` |
| | `AckedJobsHaveRows` | `Spec => []AckedHasResult` |
| | `SlotsAreNotSkipped` | `Spec => NoSlotSkipped` |
| `AlertLifecycleProofs` | `AlertsTypeCorrect` | `Spec => []TypeOK` |
| | `AtMostOneOpenAlert` | `Spec => []OneOpenAlert` |
| | `NoPageIsStale` | `Spec => NoStalePage` |
| | `EventsAreSentOnce` | `Spec => []OncePerEvent` |
| `RollupLedgerProofs` | `RollupTypeCorrect` | `RollupSpec => []RollupTypeOK` |
| | `RowsAreFoldedOrMarked` | `RollupSpec => []FoldedOrMarked` |
| | `DaysAreSumsOfHours` | `RollupSpec => []DailyIsSumOfHourly` |
| | `LedgerImplementsView` | `RollupSpec => View!ViewSafety`, the refinement without its liveness |
| `StatusPageProofs` | `PushTypeCorrect` | `PushSpec => []PushTypeOK` |
| | `TransitionsAreToldOnce` | `PushSpec => []ToldOnce` |
| | `PageTypeCorrect` | `PageSpec => []PageTypeOK` |
| | `RefetchesAreFresh` | `PageSpec => []RefetchIsFresh` |
| `ServicesProofs` | `OneAutoIncidentPerMonitor` | `IncidentsSpec => []OneOpenAutoIncident` |
| | `SingleResolvesAreOrdered` | `IncidentsSpec => []SingleResolvesNeverDeadlock` |
| | `RecoveriesAreNotedOnce` | `IncidentsSpec => []RecoveryIsNotedOnce` |
| | `NobodyIsTextedTwice` | `DeliverySpec => []TextedOnce` |
| | `EveryoneIsTexted` | `DeliverySpec => []EveryRecipientTexted` |
| | `PagerAgreesWithAlert` | `DeliverySpec => []PagerFollowsAlert` |
| | `SamplesAreFoldedOrMarked` | `MetricSpec => []SampleFoldedOrMarked` |
| | `DowntimeTablesTrailOneRun` | `DowntimeSpec => ProjectionTrailsOneRun` |
| `WorkerProofs` | `CapsHoldExactly` | `AiJobsSpec => []CapsAreExact` |
| | `RunsAreSpared` | `AiJobsSpec => SweepSparesRuns` |
| | `TimeoutIsLast` | `AiJobsSpec => TimeoutComesLast` |
| `SipCallProofs` | `SipTypes` | `SipSpec => []SipTypeOK` |
| | `DialogsHungUp` | `SipSpec => []EveryDialogHungUp` |
| | `CancelsAfterProvisional` | `SipSpec => []CancelFollowsProvisional` |
| | `LabelsTruthful` | `SipSpec => []LabelTruthful` |
| | `OneCall` | `SipSpec => OneCallRings` |

The form is the same everywhere: an invariant made of named conjuncts, a lemma that the initial
states satisfy it, a lemma per action or group of actions that the step keeps it, and a short
temporal conclusion.

### 7.1 Evidence (`MonitorPipelineProofs`)

- `TypeOK` is inductive as it is, with a lemma per group of actions (`ReportsType`, `IngestType`,
  `WatchdogType`, `AdministrationType`) and one per helper below them.
- Every step either leaves state and timeline alone or closes the open interval at a moment not
  before its start and opens one for the new state where it ended. This action formula
  (`TimelineMove`) is shown of each action once; agreement and monotonicity both follow from it.
  The clamp of `RecordIntervalTx` is what makes the second hold although `t` may be older than
  the open interval.
- `NoResurrectedRow` rests on the test of membership under the lock in `persistAtLocation`: a
  verified result proves nothing about the present.
- `ConfirmedState` (`ConfirmedInv`) needs the rows and the monitor together, and that the threshold in
  force is one of those the monitor has had: `Apply` keeps a machine confirmed
  (`ApplyConfirms`), what one set of thresholds confirms a larger one does (`StillConfirmed`), the aggregate is confirmed if its voters are and its count is the maximum
  over them. `MaxFailuresIsMax` states that the maximum exists and is attained, from the
  well-foundedness of finite subsets (`MaxExists`).
- `EvidenceBacked` (`EvidenceInv`) needs the finiteness of `check_results`, and that an unbound
  monitor counts failures of the fleet. `PersistCases` says what a message does on whatever
  path it takes: it is inserted and applied, or inserted only; so a failure is counted only in the
  step that inserts its row. Every reset, removal and pause leaves a count of 0 or
  one of the counts that were backed (`AggregateBacked`, `KeepRowsKeeps`).
- `QuorumRespected` is about the steps that write the state (`StateWriters`): an aggregate that
  is down counts an effective quorum of voters (`DownHasQuorum`), each confirmed and
  backed by the two invariants above, and fresh at a time no further back than `LockWait`.
- `LateResultNeverApplied` (`WatermarkInv`): the watermarks of monitor and rows are those of the
  evidence applied last, and only results write a row (`OnlyResultsWriteRows`).
- `AbsenceOnlyWhenStale` uses that no row is ever `unknown`, so that an aggregate that is has
  no voter, and none at a time before `now` either (`UnknownHasNoVoter`).

### 7.2 Dispatch (`CheckDispatchProofs`)

`TypeOK` carries the disjointness of open batches (`FOR UPDATE SKIP LOCKED`). `OneCallPerSlot`
rests on `CallInv`: a call runs only on the first delivery of a job, and two stored jobs of a slot
lie further apart than the de-duplication window. `AckedHasResult`: of a job that is neither a call nor one
of those kept silent about, each step that acknowledges publishes first, and rows are never removed. `SlotInv` says that a monitor an open transaction has moved
has a job of its old slot in the stream; with it, a commit skips nothing (`SlotMoves`).

### 7.3 Alerts (`AlertLifecycleProofs`)

Every step makes one claim, ends one, or makes none (`ClaimMove`). What is being sent fits the
alert as it is, because the claim locks the row (`HoldsFit`): a page is never stale however old
the list it was taken from. `OnceInv`: no two replicas hold the same alert and channel
(`HoldsApart`), what is being sent is not remembered yet (`HoldsAreNews`), and every acceptance is
remembered or was paid for with a fault (`Accounted`).

### 7.4 Rollups (`RollupLedgerProofs`)

`LedgerInv` adds to `FoldedOrMarked` what the four kinds of step rely on: a mark being
written is newer than the committed one of its bucket (`Marks`); what is counted was recorded
(`Counts`); a rollup counts a row that is gone only where no mark can bring the rebuild back
(`Settled`); what a run has loaded is still marked, and what it built misses only rows
whose mark is newer than the one it loaded (`Run`). The conditional delete then removes no mark of
a row that was missed (`RebuildKeeps`), and retention removes no row a rebuild still needs
(`RetentionKeeps`). For the days, `DayDivision` is the arithmetic: the hours of a day
that is kept are kept. The refinement is `ViewStarts` and `ViewStep`: every step adds recorded
rows to the view, gives up the history of rows as a whole, or is a stutter.

### 7.5 Status pages (`StatusPageProofs`)

Push: `Once(i)` holds of an interval whose claim was not lost: nobody holds or was told what is
still ahead, a holder is alone and has told a browser only when he took it off his list. A pass
lasts at most one unit (`Passes`), so the claim of one that still runs cannot be stale;
what the prune forgets the reconciler no longer looks back at (`PruneKeeps`).

Page: `Coherent` names a change c such that everything told, about to be told or heard is at
most c (`ToldUpTo`), while the cache, any build that may still enter it and any flight that may
still be joined show at least c (`CacheShows`, `FlightShows`). `Invalidate` raises the generation
before `Forget`, and only then may c grow (`ForgetCoherent`).

### 7.6 Services (`ServicesProofs`)

- Incidents, opening (`AutoInv`): the key of a monitor is held from the search to the commit,
  so what the search did not find is still not there.
- Incidents, locking (`DeadlockInv`): keys are taken in ascending order and rows after the
  keys they belong to (`KeysBeforeRows`, `TakenInOrder`), and a key has one holder. Two
  single-alert resolves that waited for each other would hold keys that ascend and
  descend. `SortedIncidents` exists and leaves out no id (`SortedExists`, `SortedOnto`).
- Incidents, recovery (`RecoveryInv`): alerts being closed belong to one transaction
  (`AlertsAreOwned`); the incidents of the alerts it has looked at are ahead of it or locked by it
  (`LinkedIsVisited`); whoever holds the key of an incident that has recovered has noted it
  (`LockedIsNoted`), and entries are written under the key only. Of two transactions that
  close the last two alerts at once, the second to get the key sees the first committed.
- Deliveries: the ledger counts the texts of events that are not in doubt and nothing is on its
  way to a recipient it shows as reached (`TextInv`); a message skips only recipients in the
  ledger, and one that is gone undropped reached all but the refused (`ReachInv`); a resolve
  closes, an acknowledgement silences, and nothing is sent after the resolve it would undo
  (`PagerInv`). The agreement of pager and alert holds from the committed claim of the opening on.
- Metrics (`MetricInv`): one transaction at a time marks a day, with a newer version than the
  committed one; a run holds versions no newer than that and has aggregated every sample of a
  day whose mark it will remove.
- Downtime (`DowntimeInv`): as long as no run was late, what had ended when the last successful sync
  of the monitor began is in the tables. What became visible later carries a stamp at most `slowest`
  older than that, so the next run still finds the monitor.

### 7.7 AI jobs (`WorkerProofs`)

- Caps (`CapsInv`): one tick is between its claim and its commit (`OneTick`), and what it has
  claimed fits under both caps together with the rows that are there (`ClaimsFit`). Rows only
  leave the backlog or the hour meanwhile, so the sums still hold at the commit.
- Sweep (`LockInv`): a running delivery holds its job's lock (`LocksHeld`), and a lock is held by a
  running delivery or is that of a dead worker's session (`LocksBacked`). The sweep fails a row
  whose lock is free, which no run leaves it, or one older than `LockCeiling`.
- Timeout (`TimeoutInv`, with `LockInv`): for a job with one message that was never lost, the
  run is no older than the deliveries its message has behind it and the time into the current one
  (`InTime`), a delivery lasts `RunTime` at most and its successor starts within `RetryDelay`
  (`Shaped`). The compile-time guard on `triageFailAfter` says that all of them take less, so a run
  past it has no message left. While a relay still has to publish a job whose run has begun, its
  message is in the stream, so the publication is dropped or disturbs the job.

### 7.8 SIP calls (`SipCallProofs`)

One inductive invariant, `SipIInv`, carries the types and what ties the three parties together.
None of the four properties is inductive: each is about what the call knows, which is what it
has read of a queue that the far end goes on filling.

- `QueueInv` says what had happened before a queued event was emitted: a provisional was said, a
  final closed this INVITE and is last, an answer or a BYE is in the dialog table.
- `PeerInv` is what the call may conclude: a confirmed dialog is an answered INVITE, a final a
  rejected one, `proceeding` a provisional to the current transaction. If the far end said anything
  and the call has not noticed, a provisional is at the head of the queue. `OneCallRings` follows:
  a failover needs a final, which is last, and no provisional noticed.
- `PhaseInv` and `NoCallInv`: a call that is over has its verdict unless it fails over, and
  before its first INVITE there is nothing.
- `DialogInv`, `ByeInv`, `LabelInv`: what is known of a dialog, of the BYE in progress and of the
  label.
- `LateInv`: once the linger waits for events, a confirmed dialog without a BYE of either side is
  left only while an answer is queued or being emitted, or was overlooked. `EveryDialogHungUp`
  is this at the end of a linger that was not cut short (`CutShort` carries its outcome along).

`HandleFollows` sums up what one event does to a call whatever phase it is in (`Follows`), for
`DriveEvent`, `drainEvents` and `settleInvite` alike. Frames do the rest: a step of the goroutine keeps the
queue and what is known of the far end (`GoroutineFrame`), every step before the linger is a
`CallStep`, every BYE a `ByeFrame`; then one lemma per action.

### 7.9 What is only model-checked

- Liveness: `SilenceIsNoticed`, `NoHealthyMonitorStarves`, `OutageIsPaged`,
  `PagedChannelsHearRecovery`, `PendingIsSettled`, and the last conjunct of `RollupView`
  (`EventuallyShown`). The prover has no fairness and no ENABLED.
- What a recursive definition computes would be an induction over data, which needs an induction
  theorem that takes an operator. No module has one: maxima, orders and queues are stated by what
  they are, and a loop of the code that matters is a step taken again.
- The findings are counterexamples of TLC.

## 8. Not modelled

The repository has about a hundred thousand lines of implementation; the modules stand for about a
tenth of them. What is left is not state that several actors race on:

- the checkers other than SIP: one exchange with a target, whose outcome is an input;
- parsing, validation, encoding and rendering: handlers, import and export, dashboards,
  the status page's queries and layout, notification texts, configuration, the MCP and OpenAPI
  surface. They change no state or write one row in one statement;
- statistics in SQL: analytics over the timeline, anomaly thresholds, SLAs, latency
  percentiles, dependency predicates. A model would repeat the query;
- accounts, sessions and OIDC: request by request, with the races noted in section 6;
- media of a SIP call (codecs, jitter, tones) beyond its start and stop;
- mesh probes: their states follow `MonitorState`; groups are derived in one statement;
- web console, website, collector, inference service, deployment, generated code.

Of the modelled parts, clock skew between services is left out: the deadlines that matter are
compared on the database's clock, except the heartbeat deadline and the job deadline, which
use the scheduler's and the worker's. Live updates over core NATS may be lost; a client
that misses one reloads from Postgres.

## 9. Plan

1. `MonitorState`, `MonitorPipeline`, `CheckDispatch`, `AlertLifecycle`, `SipCall`, `Incidents`,
   `RollupLedger` with `RollupView`, `MetricStore`, `DowntimeProjection`, `AiJobs`,
   `NotificationDelivery`, `StatusPush`, `StatusPageCache`: done, model-checked.
2. Proofs of every safety property of these modules, and of the safety part of the refinement
   of `RollupView`: done (section 7).
3. What could follow: the alert kinds of section 8 that open and resolve on statistics, and mesh
   probes, whose edge states are a second client of `MonitorState`.

## 10. Running it

`tlc -config PipelineFleet.cfg MCMonitorPipeline`, and likewise for the other cfg
files (the module of each is in `PROJECT.json`). The longest runs take two or three minutes with
two workers.

`tlapm MonitorPipelineProofs.tla`, and likewise for `CheckDispatchProofs`, `AlertLifecycleProofs`,
`RollupLedgerProofs`, `StatusPageProofs`, `ServicesProofs`, `WorkerProofs` and `SipCallProofs`. From
nothing each takes some minutes; what was proved before is not proved again.
