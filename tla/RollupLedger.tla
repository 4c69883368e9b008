----------------------------- MODULE RollupLedger -----------------------------
(***************************************************************************)
(* The dirty-bucket ledger behind the hourly and daily rollups.            *)
(*                                                                         *)
(* Recording a check result inserts its row and marks its (monitor, hour)  *)
(* bucket in rollup_dirty in one transaction.  Rollup maintenance rebuilds *)
(* marked buckets wholesale from the raw rows it can see, derives the days *)
(* they belong to, and deletes the marks it had loaded.  Retention deletes *)
(* old raw rows, and the purger deletes everything a tombstoned monitor    *)
(* has.  A rollup is modelled by the set of rows it counts: its columns    *)
(* (checks, successes, errors, latency sum, newest status) are functions   *)
(* of that set.  Transactions are READ COMMITTED: each statement sees what *)
(* is committed when it starts, and a statement that needs a mark another  *)
(* transaction has written waits for that transaction.                     *)
(***************************************************************************)
EXTENDS Integers, FiniteSets

CONSTANTS
    MaxRow,          \* check results recorded (bound)
    RolledMons,      \* monitors, ordered by their ids
    MaxHour,         \* last hour of the database clock (bound)
    RawRetention,    \* CheckResultsRawRetentionDays, in hours
    RollupRetention, \* rollupRetentionDays, in hours
    DayLen,          \* hours of a day
    BatchSize,       \* rollupMaintenanceBatchSize
    MaxFails         \* maintenance and purge runs that stop early (bound)

ASSUME RollupAssumption ==
    /\ MaxRow \in Nat /\ MaxHour \in Nat /\ MaxFails \in Nat
    /\ RolledMons \subseteq Nat /\ IsFiniteSet(RolledMons)
    /\ DayLen \in Nat \ {0} /\ BatchSize \in Nat \ {0}
    /\ RawRetention \in Nat /\ RollupRetention \in Nat
    /\ RawRetention + DayLen <= RollupRetention

VARIABLES
    hour,     \* the hour of the database clock
    stamps,   \* stamps handed out: NOW() of transactions, marked_at of marks
    live,     \* monitor -> "live", "tombstoned" (deleted_at set) or "gone"
    record,   \* row -> the transaction that records it
    raw,      \* committed rows of check_results
    dirty,    \* bucket -> marked_at of its committed mark, 0 when unmarked
    hourly,   \* bucket -> rows counted by monitor_hourly_rollups
    daily,    \* <<monitor, day>> -> rows counted by monitor_daily_rollups
    cursor,   \* rollup_job_state: <<hour, row>>, or <<-1, 0>> when unset
    job,      \* the run that holds the maintenance advisory lock
    fails,    \* runs that stopped early
    dropped   \* rows whose rollup was pruned (history variable)

rollupVars == <<hour, stamps, live, record, raw, dirty, hourly, daily, cursor,
                job, fails, dropped>>

Rows    == 1..MaxRow
Hours   == 0..MaxHour
Buckets == RolledMons \X Hours
Days    == 0..(MaxHour \div DayLen)

RecordState == [st : {"none", "open", "written", "done", "aborted"}, mon : RolledMons \cup {0},
                at : Hours, began : Nat, began_hour : Hours, stamp : Nat]

NoRecord == [st |-> "none", mon |-> 0, at |-> 0, began |-> 0, began_hour |-> 0, stamp |-> 0]
NoRun     == [pc |-> "idle", batch |-> <<>>, built |-> <<>>, mon |-> 0]

\* A run, or none: what it has loaded and what it has built of it.
IsRun(j) ==
    /\ DOMAIN j = {"pc", "batch", "built", "mon"}
    /\ j.pc \in {"idle", "load", "rebuild", "advance", "prune",
                 "purge_rollups", "purge_raw", "purge_monitor"}
    /\ j.mon \in RolledMons \cup {0}
    /\ DOMAIN j.batch \subseteq Buckets /\ j.batch \in [DOMAIN j.batch -> Nat]
    /\ DOMAIN j.built \subseteq DOMAIN j.batch /\ j.built \in [DOMAIN j.built -> SUBSET Rows]

Bucket(r) == <<record[r].mon, record[r].at>>
RowsOf(b) == {r \in raw : Bucket(r) = b}
HoursOf(d) == {h \in Hours : h \div DayLen = d}

RollupInit ==
    /\ hour = 0 /\ stamps = 0
    /\ live = [m \in RolledMons |-> "live"]
    /\ record = [r \in Rows |-> NoRecord]
    /\ raw = {}
    /\ dirty = [b \in Buckets |-> 0]
    /\ hourly = [b \in Buckets |-> {}]
    /\ daily = [k \in RolledMons \X Days |-> {}]
    /\ cursor = <<-1, 0>>
    /\ job = NoRun
    /\ fails = 0
    /\ dropped = {}

-----------------------------------------------------------------------------
(* Recording a result *)

Recording(r) == record[r].st \in {"open", "written"}

\* The transaction starts: NOW() is fixed.  The result may be late: its
\* started_at is in any hour up to the current one.
BeginRecord(r, m, h) ==
    /\ record[r].st = "none" /\ \A q \in 1..(r - 1) : record[q].st # "none"
    /\ live[m] = "live"
    /\ h <= hour
    /\ stamps' = stamps + 1
    /\ record' = [record EXCEPT ![r] =
           [st |-> "open", mon |-> m, at |-> h, began |-> stamps + 1,
            began_hour |-> hour, stamp |-> 0]]
    /\ UNCHANGED <<hour, live, raw, dirty, hourly, daily, cursor, job, fails, dropped>>

\* RollupMarkHorizonSQL: raw rows of an older bucket may have been pruned.
Markable(r) == record[r].at >= record[r].began_hour - RawRetention

\* marked_at of a new mark is the transaction's NOW(); the mark of a bucket
\* that has one is refreshed from the wall clock.
MarkStampKept(r) == IF dirty[Bucket(r)] = 0 THEN record[r].began ELSE dirty[Bucket(r)]
MarkStamp(r) == IF dirty[Bucket(r)] = 0 THEN record[r].began ELSE stamps + 1

\* Another transaction holds the mark of bucket b.
MarkHeld(b, r) == \E q \in Rows \ {r} :
                      record[q].st = "written" /\ record[q].stamp # 0 /\ Bucket(q) = b

insertRow(r) ==
    /\ record[r].st = "open"
    /\ Markable(r) => ~MarkHeld(Bucket(r), r)
    /\ stamps' = stamps + 1
    /\ record' = [record EXCEPT ![r] =
           [@ EXCEPT !.st = "written", !.stamp = IF Markable(r) THEN MarkStamp(r) ELSE 0]]
    /\ UNCHANGED <<hour, live, raw, dirty, hourly, daily, cursor, job, fails, dropped>>

CommitRecord(r) ==
    /\ record[r].st = "written"
    /\ record' = [record EXCEPT ![r].st = "done"]
    /\ raw' = raw \cup {r}
    /\ dirty' = IF record[r].stamp = 0 THEN dirty
                ELSE [dirty EXCEPT ![Bucket(r)] = record[r].stamp]
    /\ UNCHANGED <<hour, stamps, live, hourly, daily, cursor, job, fails, dropped>>

\* The transaction is rolled back, whatever it had written.
AbortRecord(r) ==
    /\ Recording(r)
    /\ record' = [record EXCEPT ![r] = [@ EXCEPT !.st = "aborted", !.stamp = 0]]
    /\ UNCHANGED <<hour, stamps, live, raw, dirty, hourly, daily, cursor, job, fails, dropped>>

-----------------------------------------------------------------------------
(* Rollup maintenance, under the advisory lock *)

\* triggerRollupMaintenance: the lock is only tried, a run that does not get
\* it is skipped.
StartRollups ==
    /\ job = NoRun
    /\ job' = [NoRun EXCEPT !.pc = "load"]
    /\ UNCHANGED <<hour, stamps, live, record, raw, dirty, hourly, daily, cursor, fails, dropped>>

\* ORDER BY bucket_hour, monitor_id
Earlier(a, b) == a[2] < b[2] \/ (a[2] = b[2] /\ a[1] < b[1])

\* LIMIT rollupMaintenanceBatchSize
BatchOfFinishedHours ==
    LET marked == {b \in Buckets : dirty[b] # 0 /\ b[2] < hour}
        picked == {b \in marked : Cardinality({a \in marked : Earlier(a, b)}) < BatchSize}
    IN  [b \in picked |-> dirty[b]]

Batch == LET marked == {b \in Buckets : dirty[b] # 0}
             picked == {b \in marked : Cardinality({a \in marked : Earlier(a, b)}) < BatchSize}
         IN  [b \in picked |-> dirty[b]]

loadDirtyBatch ==
    /\ job.pc = "load"
    /\ job' = IF DOMAIN Batch = {} THEN [NoRun EXCEPT !.pc = "advance"]
              ELSE [NoRun EXCEPT !.pc = "rebuild", !.batch = Batch]
    /\ UNCHANGED <<hour, stamps, live, record, raw, dirty, hourly, daily, cursor, fails, dropped>>

\* One INSERT ... SELECT per bucket, in batch order: the rows it sees are the
\* ones committed by then.
rebuildBucket ==
    /\ job.pc = "rebuild"
    /\ \E b \in DOMAIN job.batch \ DOMAIN job.built :
           /\ \A a \in DOMAIN job.batch \ DOMAIN job.built : ~Earlier(a, b)
           /\ job' = [job EXCEPT !.built = [c \in DOMAIN job.built \cup {b} |->
                                              IF c = b THEN RowsOf(b) ELSE job.built[c]]]
    /\ UNCHANGED <<hour, stamps, live, record, raw, dirty, hourly, daily, cursor, fails, dropped>>

\* The hourly table as the rebuilding transaction sees it.
Rebuilt == [b \in Buckets |-> IF b \in DOMAIN job.built THEN job.built[b] ELSE hourly[b]]

\* A day is summed over all its hours.
DayTotalOfBatch(m, d) == UNION {job.built[b] : b \in {c \in DOMAIN job.built : c[1] = m /\ c[2] \in HoursOf(d)}}
DayTotal(m, d) == UNION {Rebuilt[<<m, h>>] : h \in HoursOf(d)}

\* The marks the run deletes: those not refreshed since it loaded them.
ConsumedAnyway(b) == b \in DOMAIN job.batch
Consumed(b) == b \in DOMAIN job.batch /\ dirty[b] <= job.batch[b]

\* The days of the batch, the conditional delete of its marks and the commit.
\* The delete waits for a transaction that has refreshed one of the marks.
rebuildDirtyBatchTx ==
    /\ job.pc = "rebuild" /\ DOMAIN job.built = DOMAIN job.batch
    /\ \A b \in DOMAIN job.batch : dirty[b] # 0 => ~MarkHeld(b, 0)
    /\ hourly' = Rebuilt
    /\ daily' = [k \in RolledMons \X Days |->
                    IF \E b \in DOMAIN job.batch : b[1] = k[1] /\ b[2] \in HoursOf(k[2])
                    THEN DayTotal(k[1], k[2]) ELSE daily[k]]
    /\ dirty' = [b \in Buckets |-> IF Consumed(b) THEN 0 ELSE dirty[b]]
    /\ job' = [NoRun EXCEPT !.pc = IF Cardinality(DOMAIN job.batch) < BatchSize
                                  THEN "advance" ELSE "load"]
    /\ UNCHANGED <<hour, stamps, live, record, raw, cursor, fails, dropped>>

\* (created_at, id)
After(p, q) == p[1] > q[1] \/ (p[1] = q[1] /\ p[2] > q[2])
Tuple(r) == <<record[r].at, r>>

\* GREATEST by (created_at, id) of the cursor and the newest raw row.
Advances(p) == After(p, cursor)

advanceRollupCursor ==
    /\ job.pc = "advance"
    /\ IF raw = {} THEN UNCHANGED cursor
       ELSE \E r \in raw : /\ \A q \in raw \ {r} : After(Tuple(r), Tuple(q))
                           /\ cursor' = IF Advances(Tuple(r)) THEN Tuple(r) ELSE cursor
    /\ job' = [NoRun EXCEPT !.pc = "prune"]
    /\ UNCHANGED <<hour, stamps, live, record, raw, dirty, hourly, daily, fails, dropped>>

RollupCutoff == hour - RollupRetention
Expired(b) == b[2] < RollupCutoff
DayExpired(k) == k[2] < RollupCutoff \div DayLen

pruneRollupTables ==
    /\ job.pc = "prune"
    /\ hourly' = [b \in Buckets |-> IF Expired(b) THEN {} ELSE hourly[b]]
    /\ daily' = [k \in RolledMons \X Days |-> IF DayExpired(k) THEN {} ELSE daily[k]]
    /\ dropped' = dropped \cup UNION {hourly[b] : b \in {c \in Buckets : Expired(c)}}
    /\ job' = NoRun
    /\ UNCHANGED <<hour, stamps, live, record, raw, dirty, cursor, fails>>

\* The run fails, times out or its process stops; an open transaction is
\* rolled back and the session that holds the lock ends.
AbandonRun ==
    /\ job # NoRun /\ fails < MaxFails
    /\ fails' = fails + 1
    /\ job' = NoRun
    /\ UNCHANGED <<hour, stamps, live, record, raw, dirty, hourly, daily, cursor, dropped>>

-----------------------------------------------------------------------------
(* Retention, under a lock of its own *)

\* RawPruneCutoffSQL: one full hour behind the mark horizon.
RawPruneCutoff == hour - RawRetention - 1

\* checkResultNotPendingRollup
NotPendingRollupIgnored(r) == TRUE
NotPendingRollup(r) == dirty[Bucket(r)] = 0

Prunable(r) == r \in raw /\ record[r].at < RawPruneCutoff /\ NotPendingRollup(r)

\* Oldest first, batch by batch: each batch is a statement of its own.
pruneTenantCheckResults(r) ==
    /\ Prunable(r)
    /\ \A q \in Rows : Prunable(q) => record[r].at <= record[q].at
    /\ raw' = raw \ {r}
    /\ UNCHANGED <<hour, stamps, live, record, dirty, hourly, daily, cursor, job, fails, dropped>>

-----------------------------------------------------------------------------
(* Deleting a monitor *)

\* DELETE /monitors/{id} sets deleted_at.  A result being recorded holds the
\* monitor's row lock.
Tombstone(m) ==
    /\ live[m] = "live"
    /\ \A r \in Rows : Recording(r) => record[r].mon # m
    /\ live' = [live EXCEPT ![m] = "tombstoned"]
    /\ UNCHANGED <<hour, stamps, record, raw, dirty, hourly, daily, cursor, job, fails, dropped>>

\* runOnce takes the lock rollup maintenance takes.
StartPurge ==
    /\ job = NoRun
    /\ \E m \in RolledMons : /\ live[m] = "tombstoned"
                       /\ job' = [NoRun EXCEPT !.pc = "purge_rollups", !.mon = m]
    /\ UNCHANGED <<hour, stamps, live, record, raw, dirty, hourly, daily, cursor, fails, dropped>>

\* The rollup tables of the monitor, then its raw rows.
purgeRollups ==
    /\ job.pc = "purge_rollups"
    /\ hourly' = [b \in Buckets |-> IF b[1] = job.mon THEN {} ELSE hourly[b]]
    /\ daily' = [k \in RolledMons \X Days |-> IF k[1] = job.mon THEN {} ELSE daily[k]]
    /\ job' = [job EXCEPT !.pc = "purge_raw"]
    /\ UNCHANGED <<hour, stamps, live, record, raw, dirty, cursor, fails, dropped>>

\* At most a batch of raw rows at a time.
purgeRaw ==
    /\ job.pc = "purge_raw"
    /\ LET rows == {r \in raw : record[r].mon = job.mon}
       IN  \/ /\ rows # {}
              /\ \E r \in rows : raw' = raw \ {r}
              /\ UNCHANGED job
           \/ /\ rows = {}
              /\ job' = [job EXCEPT !.pc = "purge_monitor"]
              /\ UNCHANGED raw
    /\ UNCHANGED <<hour, stamps, live, record, dirty, hourly, daily, cursor, fails, dropped>>

\* DELETE FROM monitors; what is left of the monitor goes by cascade.
purgeMonitor ==
    /\ job.pc = "purge_monitor"
    /\ live' = [live EXCEPT ![job.mon] = "gone"]
    /\ dirty' = [b \in Buckets |-> IF b[1] = job.mon THEN 0 ELSE dirty[b]]
    /\ hourly' = [b \in Buckets |-> IF b[1] = job.mon THEN {} ELSE hourly[b]]
    /\ daily' = [k \in RolledMons \X Days |-> IF k[1] = job.mon THEN {} ELSE daily[k]]
    /\ job' = NoRun
    /\ UNCHANGED <<hour, stamps, record, raw, cursor, fails, dropped>>

-----------------------------------------------------------------------------
\* Recording a result takes less than an hour: its transaction is over before
\* the second hour that begins after its own.
TickHour ==
    /\ hour < MaxHour
    /\ \A r \in Rows : Recording(r) => record[r].began_hour = hour
    /\ hour' = hour + 1
    /\ UNCHANGED <<stamps, live, record, raw, dirty, hourly, daily, cursor, job, fails, dropped>>

RecordRow == \E r \in Rows :
             \/ \E m \in RolledMons, h \in Hours : BeginRecord(r, m, h)
             \/ insertRow(r)
             \/ CommitRecord(r)
             \/ AbortRecord(r)

runRollupMaintenance ==
    \/ StartRollups \/ loadDirtyBatch \/ rebuildBucket \/ rebuildDirtyBatchTx
    \/ advanceRollupCursor \/ pruneRollupTables

runRetentionCleanup == \E r \in Rows : pruneTenantCheckResults(r)

runPurge == StartPurge \/ purgeRollups \/ purgeRaw \/ purgeMonitor

RollupNext ==
    \/ RecordRow
    \/ runRollupMaintenance
    \/ AbandonRun
    \/ runRetentionCleanup
    \/ \E m \in RolledMons : Tombstone(m)
    \/ runPurge
    \/ TickHour

\* A transaction ends, a run that has the lock goes on, and maintenance is
\* triggered by a ticker.
RollupFairness ==
    /\ WF_rollupVars(runRollupMaintenance)
    /\ WF_rollupVars(purgeRollups \/ purgeRaw \/ purgeMonitor)
    /\ \A r \in Rows : WF_rollupVars(insertRow(r) \/ CommitRecord(r) \/ AbortRecord(r))

RollupSpec == RollupInit /\ [][RollupNext]_rollupVars /\ RollupFairness

-----------------------------------------------------------------------------
(* Properties *)

RollupTypeOK ==
    /\ hour \in Hours /\ stamps \in Nat /\ fails \in 0..MaxFails
    /\ live \in [RolledMons -> {"live", "tombstoned", "gone"}]
    /\ record \in [Rows -> RecordState]
    /\ raw \subseteq Rows /\ dropped \subseteq Rows
    /\ dirty \in [Buckets -> Nat]
    /\ hourly \in [Buckets -> SUBSET Rows]
    /\ daily \in [RolledMons \X Days -> SUBSET Rows]
    /\ cursor \in (Hours \cup {-1}) \X (Rows \cup {0})
    /\ IsRun(job)

\* A recorded row that was marked is counted by its hourly rollup, or its
\* bucket still carries a committed mark: no interleaving of recording and
\* rebuilding loses a row (rebuildDirtyBatchTx's conditional delete,
\* insertRow's refresh of marked_at).
FoldedOrMarked ==
    \A r \in raw :
        record[r].stamp # 0 /\ live[record[r].mon] = "live"
            => r \in hourly[Bucket(r)] \cup dropped \/ dirty[Bucket(r)] # 0

\* A day's rollup counts exactly what the hourly rollups of the day count,
\* as long as no hour of the day is past the rollup retention.
DailyIsSumOfHourly ==
    \A m \in RolledMons, d \in Days :
        live[m] = "live" /\ d * DayLen >= RollupCutoff
            => daily[<<m, d>>] = UNION {hourly[<<m, h>>] : h \in HoursOf(d)}

\* The ledger implements the view its readers rely on: no rollup counts a row
\* that was not recorded, none loses a row it counts, and every row whose
\* bucket was marked is counted in the end.
Recorded == {r \in Rows : record[r].st = "done" /\ live[record[r].mon] = "live"} \ dropped
Counted  == {r \in UNION {hourly[b] : b \in Buckets} : live[record[r].mon] = "live"} \ dropped

View == INSTANCE RollupView WITH
            ViewRows <- Rows, base <- Recorded, view <- Counted,
            due <- {r \in Recorded : record[r].stamp # 0}

RollupsShowEveryResult == View!ViewSpec
===============================================================================
