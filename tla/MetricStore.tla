------------------------------ MODULE MetricStore ------------------------------
(***************************************************************************)
(* Metrics pushed over OTLP: export requests, the series registry and its  *)
(* cache, daily partitions of raw samples, and the hourly metric rollups.  *)
(*                                                                         *)
(* A request carries one data point: a series key and the day of its       *)
(* timestamp (days and hours are not told apart).  The collector sends the *)
(* same body again after 429 and 503.  A transaction's effects are held in *)
(* the request's record until it commits.  Decoding, attribute hashing and *)
(* the columns of a rollup are left out: a rollup is the set of samples it *)
(* aggregates.                                                             *)
(***************************************************************************)
EXTENDS Integers, FiniteSets

CONSTANTS
    Exports,          \* export requests: consecutive numbers from 1
    SeriesKeys,       \* (metric name, attributes)
    LastDay,          \* last day of the clock (bound)
    MetricRetention,  \* METRIC_RAW_RETENTION_DAYS
    MaxSeries,        \* OTLP_MAX_SERIES_PER_MONITOR
    MaxIngestFaults   \* statements that fail, requests that are refused (bound)

ASSUME MetricAssumption ==
    /\ Exports \subseteq Nat \ {0} /\ IsFiniteSet(Exports)
    /\ MetricRetention \in Nat \ {0} /\ LastDay \in Nat /\ MetricRetention <= LastDay
    /\ MaxSeries \in Nat /\ MaxIngestFaults \in Nat

VARIABLES
    today,        \* the day of the clock
    agentMonitor, \* "enabled", "disabled" or "deleted"
    export,       \* request -> its progress
    registry,     \* metric_series: id -> key, of the committed rows
    lastID,       \* ids handed out by the identity column
    seriesCache,  \* key -> id, 0 when not cached
    partitions,   \* days that have a partition of metric_samples
    samples,      \* committed rows: <<series id, request, whether the series was
                  \* registered when the row committed (history)>>
    beats,        \* request -> heartbeats recorded for it
    metricDirty,  \* day -> version of its committed mark, 0 when unmarked
    metricRollup, \* day -> samples aggregated by metric_rollups_hourly
    metricJob,    \* the metric part of rollup maintenance
    ingestFaults

metricVars == <<today, agentMonitor, export, registry, lastID, seriesCache, partitions,
                samples, beats, metricDirty, metricRollup, metricJob, ingestFaults>>

MetricDays == 0..LastDay
NewExport == [pc |-> "unsent", key |-> "", day |-> 0, id |-> 0, new |-> FALSE,
              attempt |-> 0, mark |-> 0]
MetricIdle == [pc |-> "idle", batch |-> <<>>, built |-> <<>>]

MetricInit ==
    /\ today = MetricRetention /\ agentMonitor = "enabled"
    /\ export = [q \in Exports |-> NewExport]
    /\ registry = <<>> /\ lastID = 0
    /\ seriesCache = [k \in SeriesKeys |-> 0]
    /\ partitions = {MetricRetention}
    /\ samples = {} /\ beats = [q \in Exports |-> 0]
    /\ metricDirty = [d \in MetricDays |-> 0]
    /\ metricRollup = [d \in MetricDays |-> {}]
    /\ metricJob = MetricIdle
    /\ ingestFaults = 0

IngestKept == <<today, agentMonitor, partitions, metricRollup, metricJob, ingestFaults>>
Go(q, pc) == export' = [export EXCEPT ![q].pc = pc]

-----------------------------------------------------------------------------
(* Ingest *)

\* The collector reports a point of today or, after an outage, of an earlier day.
Send(q, k, d) ==
    /\ export[q].pc = "unsent" /\ d <= today
    /\ \A p \in Exports : p < q => export[p].pc # "unsent"
    /\ export' = [export EXCEPT ![q].pc = "lookup", ![q].key = k, ![q].day = d]
    /\ UNCHANGED <<today, agentMonitor, registry, lastID, seriesCache, partitions, samples, beats,
                   metricDirty, metricRollup, metricJob, ingestFaults>>

\* lookupMonitor and its refusals: 404 and 403 are final.
Ingest(q) ==
    /\ export[q].pc = "lookup"
    /\ Go(q, IF agentMonitor = "enabled" THEN "resolve" ELSE "refused")
    /\ UNCHANGED <<registry, lastID, seriesCache, samples, beats, metricDirty>> /\ UNCHANGED IngestKept

\* allow: 429, the collector sends the request again.
RateLimited(q) ==
    /\ export[q].pc = "lookup" /\ agentMonitor = "enabled" /\ ingestFaults < MaxIngestFaults
    /\ ingestFaults' = ingestFaults + 1
    /\ UNCHANGED <<today, agentMonitor, export, registry, lastID, seriesCache, partitions, samples,
                   beats, metricDirty, metricRollup, metricJob>>

Registered(k) == {i \in DOMAIN registry : registry[i] = k}
\* An open transaction has inserted the registry row of the key.
Resolving(k, q) == \E p \in Exports \ {q} :
    export[p].new /\ export[p].key = k /\ export[p].pc \in {"insert", "commit"}

\* The cache answers without touching the registry.
resolveCached(q) ==
    /\ export[q].pc = "resolve" /\ seriesCache[export[q].key] # 0
    /\ export' = [export EXCEPT ![q].pc = "insert", ![q].id = seriesCache[export[q].key]]
    /\ UNCHANGED <<registry, lastID, seriesCache, samples, beats, metricDirty>> /\ UNCHANGED IngestKept

\* The cardinality cap: the point is dropped, the request goes on.
overCap(q) ==
    /\ export[q].pc = "resolve" /\ seriesCache[export[q].key] = 0
    /\ Cardinality(DOMAIN registry) >= MaxSeries
    /\ Go(q, "beat")
    /\ UNCHANGED <<registry, lastID, seriesCache, samples, beats, metricDirty>> /\ UNCHANGED IngestKept

\* ResolveSeries: the id is cached at once, before the transaction commits.
ResolveSeries(q) ==
    LET k == export[q].key IN
    /\ export[q].pc = "resolve" /\ seriesCache[k] = 0
    /\ Cardinality(DOMAIN registry) < MaxSeries
    /\ ~Resolving(k, q)
    /\ lastID' = IF Registered(k) = {} THEN lastID + 1 ELSE lastID
    /\ LET id == IF Registered(k) = {} THEN lastID + 1 ELSE CHOOSE i \in Registered(k) : TRUE
       IN  /\ export' = [export EXCEPT ![q].pc = "insert", ![q].id = id,
                                       ![q].new = (Registered(k) = {})]
           /\ seriesCache' = [seriesCache EXCEPT ![k] = id]
    /\ UNCHANGED <<registry, samples, beats, metricDirty>> /\ UNCHANGED IngestKept

\* EnsurePartitions: the days the points fall on.
EnsuredDays(d) == {d}

\* InsertSamples fails when no partition covers the timestamp: the transaction
\* is rolled back, the partition created, and the batch written once more.
missingPartition(q) ==
    /\ export[q].pc = "insert" /\ export[q].day \notin partitions
    /\ IF export[q].attempt = 0
       THEN /\ partitions' = partitions \cup EnsuredDays(export[q].day)
            /\ export' = [export EXCEPT ![q].pc = "resolve", ![q].attempt = 1, ![q].new = FALSE]
       ELSE /\ export' = [export EXCEPT ![q].pc = "unavailable", ![q].new = FALSE]
            /\ UNCHANGED partitions
    /\ UNCHANGED <<today, agentMonitor, registry, lastID, seriesCache, samples, beats, metricDirty,
                   metricRollup, metricJob, ingestFaults>>

MetricMarkHeld(d, q) == \E p \in Exports \ {q} : export[p].pc = "commit" /\ export[p].day = d

\* marked_at, as the number of times the mark was set since it is there: a
\* refreshed mark is newer than any version of it a rebuild has loaded.
RemarkKept(d) == IF metricDirty[d] = 0 THEN 1 ELSE metricDirty[d]
Remark(d) == metricDirty[d] + 1

\* InsertSamples (idempotent on the primary key), TouchSeries and MarkDirty.
MarkDirty(q) ==
    /\ export[q].pc = "insert" /\ export[q].day \in partitions
    /\ ~MetricMarkHeld(export[q].day, q)
    /\ export' = [export EXCEPT ![q].pc = "commit", ![q].mark = Remark(export[q].day)]
    /\ UNCHANGED <<registry, lastID, seriesCache, samples, beats, metricDirty>> /\ UNCHANGED IngestKept

writeBatchOnce(q) ==
    LET e == export[q] IN
    /\ e.pc = "commit"
    /\ export' = [export EXCEPT ![q].pc = "beat", ![q].new = FALSE, ![q].mark = 0]
    /\ registry' = IF e.new THEN [i \in DOMAIN registry \cup {e.id} |->
                                    IF i = e.id THEN e.key ELSE registry[i]] ELSE registry
    /\ samples' = IF \E s \in samples : s[1] = e.id /\ s[2] = q THEN samples
                  ELSE samples \cup {<<e.id, q, e.new \/ e.id \in DOMAIN registry>>}
    /\ metricDirty' = [metricDirty EXCEPT ![e.day] = e.mark]
    /\ UNCHANGED <<lastID, seriesCache, beats>> /\ UNCHANGED IngestKept

\* The heartbeat's job id is derived from the body: a repeated request
\* records none (ON CONFLICT DO NOTHING).
RecordsBeat(q) == beats[q] = 0

heartbeat(q) ==
    /\ export[q].pc = "beat"
    /\ Go(q, "answer")
    /\ beats' = [beats EXCEPT ![q] = IF RecordsBeat(q) THEN @ + 1 ELSE @]
    /\ UNCHANGED <<registry, lastID, seriesCache, samples, metricDirty>> /\ UNCHANGED IngestKept

Answer(q) ==
    /\ export[q].pc = "answer"
    /\ Go(q, "accepted")
    /\ UNCHANGED <<registry, lastID, seriesCache, samples, beats, metricDirty>> /\ UNCHANGED IngestKept

\* A statement fails, the process stops or the response is lost: an open
\* transaction is rolled back, the collector sees 503 or nothing.
FailureAnswer == "unavailable"

IngestFails(q) ==
    /\ export[q].pc \in {"lookup", "resolve", "insert", "commit", "beat", "answer"}
    /\ ingestFaults < MaxIngestFaults
    /\ ingestFaults' = ingestFaults + 1
    /\ export' = [export EXCEPT ![q].pc = FailureAnswer, ![q].new = FALSE, ![q].mark = 0]
    /\ UNCHANGED <<today, agentMonitor, registry, lastID, seriesCache, partitions, samples, beats,
                   metricDirty, metricRollup, metricJob>>

\* The process restarts with an empty cache; open requests are repeated.
RestartAPI ==
    /\ ingestFaults < MaxIngestFaults
    /\ ingestFaults' = ingestFaults + 1
    /\ seriesCache' = [k \in SeriesKeys |-> 0]
    /\ export' = [q \in Exports |->
           IF export[q].pc \in {"unsent", "accepted", "refused"} THEN export[q]
           ELSE [export[q] EXCEPT !.pc = "unavailable", !.new = FALSE, !.mark = 0]]
    /\ UNCHANGED <<today, agentMonitor, registry, lastID, partitions, samples, beats,
                   metricDirty, metricRollup, metricJob>>

\* The exporter's retry.
Retry(q) ==
    /\ export[q].pc = "unavailable"
    /\ export' = [export EXCEPT ![q].pc = "lookup", ![q].attempt = 0]
    /\ UNCHANGED <<registry, lastID, seriesCache, samples, beats, metricDirty>> /\ UNCHANGED IngestKept

-----------------------------------------------------------------------------
(* Maintenance *)

MaintainKept == <<today, agentMonitor, export, registry, lastID, seriesCache, beats, ingestFaults>>

\* maintainMetricPartitions: upcoming days are created, days past the raw
\* retention are dropped with their samples.
maintainMetricPartitions ==
    /\ metricJob.pc = "idle"
    /\ LET old == {d \in partitions : d < today - MetricRetention}
       IN  /\ partitions' = (partitions \ old) \cup {today}
           /\ samples' = {s \in samples : export[s[2]].day \notin old}
    /\ metricJob' = [MetricIdle EXCEPT !.pc = "load"]
    /\ UNCHANGED <<metricDirty, metricRollup>> /\ UNCHANGED MaintainKept

loadMetricDirtyBatch ==
    LET marked == {d \in MetricDays : metricDirty[d] # 0} IN
    /\ metricJob.pc = "load"
    /\ metricJob' = IF marked = {} THEN MetricIdle
                    ELSE [MetricIdle EXCEPT !.pc = "rebuild", !.batch = [d \in marked |-> metricDirty[d]]]
    /\ UNCHANGED <<partitions, samples, metricDirty, metricRollup>> /\ UNCHANGED MaintainKept

\* Only samples of registered series are aggregated.
Aggregated(d) == {s \in samples : export[s[2]].day = d /\ s[1] \in DOMAIN registry}

rebuildMetricBuckets ==
    /\ metricJob.pc = "rebuild"
    /\ metricJob' = [metricJob EXCEPT !.pc = "consume",
                                      !.built = [d \in DOMAIN metricJob.batch |-> Aggregated(d)]]
    /\ UNCHANGED <<partitions, samples, metricDirty, metricRollup>> /\ UNCHANGED MaintainKept

rebuildMetricDirtyBatchTx ==
    LET batch == metricJob.batch IN
    /\ metricJob.pc = "consume"
    /\ \A d \in DOMAIN batch : ~MetricMarkHeld(d, 0)
    /\ metricRollup' = [d \in MetricDays |-> IF d \in DOMAIN batch THEN metricJob.built[d] ELSE metricRollup[d]]
    /\ metricDirty' = [d \in MetricDays |->
                          IF d \in DOMAIN batch /\ metricDirty[d] <= batch[d] THEN 0 ELSE metricDirty[d]]
    /\ metricJob' = MetricIdle
    /\ UNCHANGED <<partitions, samples>> /\ UNCHANGED MaintainKept

\* The monitor is disabled, enabled again or deleted.
EditAgentMonitor ==
    /\ agentMonitor # "deleted"
    /\ ingestFaults < MaxIngestFaults /\ ingestFaults' = ingestFaults + 1
    /\ agentMonitor' \in {"enabled", "disabled", "deleted"} \ {agentMonitor}
    /\ UNCHANGED <<today, export, registry, lastID, seriesCache, partitions, samples, beats,
                   metricDirty, metricRollup, metricJob>>

NextDay ==
    /\ today < LastDay
    /\ today' = today + 1
    /\ UNCHANGED <<agentMonitor, export, registry, lastID, seriesCache, partitions, samples, beats,
                   metricDirty, metricRollup, metricJob, ingestFaults>>

HandleExportMetrics(q) ==
    \/ Ingest(q) \/ resolveCached(q) \/ overCap(q) \/ ResolveSeries(q) \/ missingPartition(q)
    \/ MarkDirty(q) \/ writeBatchOnce(q) \/ heartbeat(q) \/ Answer(q) \/ Retry(q)

consumeMetricDirtyBuckets ==
    loadMetricDirtyBatch \/ rebuildMetricBuckets \/ rebuildMetricDirtyBatchTx

MetricNext ==
    \/ \E q \in Exports : \/ \E k \in SeriesKeys, d \in MetricDays : Send(q, k, d)
                          \/ HandleExportMetrics(q)
                          \/ RateLimited(q)
                          \/ IngestFails(q)
    \/ RestartAPI
    \/ maintainMetricPartitions
    \/ consumeMetricDirtyBuckets
    \/ EditAgentMonitor
    \/ NextDay

MetricSpec == MetricInit /\ [][MetricNext]_metricVars

-----------------------------------------------------------------------------
(* Properties *)

\* A sample stored when its series was registered is aggregated by its hour's rollup,
\* or the hour still carries a committed mark (MarkDirty in the transaction of
\* the sample, the conditional delete of rebuildMetricDirtyBatchTx).
SampleFoldedOrMarked ==
    \A s \in samples : s[3]
        => s \in metricRollup[export[s[2]].day] \/ metricDirty[export[s[2]].day] # 0

\* "transient server trouble must surface as 503 (data delayed, not lost)":
\* the sample of an accepted export belongs to a registered series, so that
\* readers and rollups, which join metric_series, can find it.
AcceptedSampleIsReadable ==
    \A s \in samples : export[s[2]].pc = "accepted" => s[1] \in DOMAIN registry
===============================================================================
