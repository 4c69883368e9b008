---------------------------- MODULE CheckDispatch ----------------------------
(***************************************************************************)
(* From a due monitor to a published result: the scheduler replicas that   *)
(* dispatch due monitors in locked batches, the JetStream work queue that  *)
(* stores, de-duplicates and redelivers check jobs, and the workers that   *)
(* run them.  Recording the results is MonitorPipeline's part.             *)
(*                                                                         *)
(* A batch is one transaction: fetch and lock, publish monitor by monitor, *)
(* commit.  Jobs are published outside it, so they stay when it is rolled  *)
(* back.  A stored job is known by what it was stored for and when.        *)
(***************************************************************************)
EXTENDS Integers, FiniteSets

CONSTANTS
    Monitors,       \* monitor ids, numbers: ties are broken by id
    Targets,        \* Targets[m]: the locations (or the fleet) monitor m runs from
    SideEffecting,  \* monitors whose check places a real call
    InitialEnabled, \* bound: sets of monitors that may be enabled at first
    Broken,         \* monitors for which no job can be built (no worker credential)
    Unreadable,     \* a worker cannot read their jobs: other version, broken payload
    Unrunnable,     \* it will not run them: passive or unknown type, no config or timeout
    Unroutable,     \* mesh probes without a target location: their results are dropped
    Schedulers,
    Workers,
    BatchSize,      \* SchedulerBatchSize
    Interval,       \* interval_seconds of every monitor, in ticks
    Recheck,        \* suspectRecheckInterval
    JobLife,        \* deadline of a job: twice its timeout
    Window,         \* Nats-Msg-Id de-duplication window of the stream
    MaxDeliver,     \* deliveries of one job
    MaxFaults,      \* bound: failed publishes and statements, rollbacks, crashes, lost acks
    MaxEdits,       \* bound: run-now, pause, resume and interval changes
    MaxNow          \* bound: the clock stops here

ASSUME DispatchAssumption ==
    /\ Monitors \in SUBSET Nat /\ IsFiniteSet(Monitors)
    /\ DOMAIN Targets = Monitors /\ \A m \in Monitors : Targets[m] # {}
    /\ InitialEnabled \subseteq SUBSET Monitors
    /\ SideEffecting \subseteq Monitors /\ Broken \subseteq Monitors
    /\ Unreadable \cup Unrunnable \cup Unroutable \subseteq Monitors
    /\ BatchSize \in Nat \ {0} /\ Interval \in Nat \ {0} /\ Recheck \in Nat \ {0}
    /\ JobLife \in Nat /\ Window \in Nat /\ MaxDeliver \in Nat
    /\ MaxFaults \in Nat /\ MaxEdits \in Nat /\ MaxNow \in Nat

VARIABLES
    now,      \* the clock
    nextRun,  \* monitors.next_run_at
    enabled,  \* monitors with enabled = true
    batch,    \* the open transaction of each scheduler
    jobs,     \* every job the stream has stored, and what became of it
    working,  \* the job each worker is running
    rows,     \* results published: <<job, source>>
    faults, edits

vars == <<now, nextRun, enabled, batch, jobs, working, rows, faults, edits>>

Null == -1      \* next_run_at IS NULL, the slot called "initial"
Manual == -2    \* a run-now job has no slot and no message id

Locs == UNION {Targets[m] : m \in Monitors}

Job == [mon : Monitors, loc : Locs, slot : Nat \cup {Null, Manual}, at : Nat]

\* A batch: monitors locked, those still to publish, next_run_at values
\* written so far (Null: none), and whether the transaction is still usable.
Batch == [held : SUBSET Monitors, todo : SUBSET Monitors,
          moved : [Monitors -> Nat \cup {Null}], ok : BOOLEAN]

NoBatch == [held |-> {}, todo |-> {}, moved |-> [m \in Monitors |-> Null], ok |-> TRUE]

Moved(s) == {m \in Monitors : batch[s].moved[m] # Null}

Idle == [mon |-> Null]     \* a worker without a job

Phases == {"queued", "unacked", "acked"}

JobState == [deliveries : 0..MaxDeliver, phase : Phases, runs : Nat]

TypeOK ==
    /\ now \in Nat /\ faults \in Nat /\ edits \in Nat
    /\ nextRun \in [Monitors -> Nat \cup {Null}]
    /\ enabled \in SUBSET Monitors
    /\ batch \in [Schedulers -> Batch]
    /\ \A s \in Schedulers : /\ batch[s].todo \subseteq batch[s].held
                             /\ Moved(s) \subseteq batch[s].held \ batch[s].todo
    /\ \A s, u \in Schedulers : s # u => batch[s].held \cap batch[u].held = {}
    /\ DOMAIN jobs \subseteq Job
    /\ jobs \in [DOMAIN jobs -> JobState]
    /\ working \in [Workers -> DOMAIN jobs \cup {Idle}]
    /\ rows \subseteq (DOMAIN jobs) \X {"monitor", "platform"}

\* A monitor is created with next_run_at = now; an old row may have none.
Init ==
    /\ now = 0 /\ faults = 0 /\ edits = 0
    /\ nextRun \in [Monitors -> {Null, 0}]
    /\ enabled \in InitialEnabled
    /\ batch = [s \in Schedulers |-> NoBatch]
    /\ jobs = [j \in {} |-> 0]
    /\ working = [w \in Workers |-> Idle]
    /\ rows = {}

Faulty == faults < MaxFaults /\ faults' = faults + 1

-----------------------------------------------------------------------------
(* The scheduler.                                                          *)

Locked == UNION {batch[s].held : s \in Schedulers}

\* Due monitors that no other transaction has locked (SKIP LOCKED).
Due == {m \in enabled : nextRun[m] <= now}

\* ORDER BY next_run_at NULLS FIRST, id
Before(a, b) == nextRun[a] < nextRun[b] \/ (nextRun[a] = nextRun[b] /\ a < b)

Dispatchable == Due \ Locked

fetchDueMonitors(s) ==
    /\ batch[s] = NoBatch
    /\ Dispatchable # {}
    /\ LET B == {m \in Dispatchable :
                    Cardinality({k \in Dispatchable : Before(k, m)}) < BatchSize}
       IN  batch' = [batch EXCEPT ![s] = [@ EXCEPT !.held = B, !.todo = B]]
    /\ UNCHANGED <<now, nextRun, enabled, jobs, working, rows, faults, edits>>

\* No message id: the stream stores every copy.
DuplicateNever(m, l) == FALSE

\* The stream already stored a job for this slot within its window.
Duplicate(m, l) ==
    \E j \in DOMAIN jobs : /\ j.mon = m /\ j.loc = l /\ j.slot = nextRun[m]
                           /\ now - j.at <= Window

Stored(new) == [j \in DOMAIN jobs \cup new |->
                   IF j \in DOMAIN jobs THEN jobs[j]
                   ELSE [deliveries |-> 0, phase |-> "queued", runs |-> 0]]

\* A suspect monitor is looked at again sooner, unless its check is a call.
nextCheckDelay(m) ==
    IF m \in SideEffecting \/ Recheck >= Interval THEN {Interval} ELSE {Interval, Recheck}

\* A monitor without a published job is rescheduled like the others.
ReschedulesAnyway(acked) == TRUE

\* Reschedule if at least one publish was confirmed.
Reschedules(acked) == acked # {}

\* A monitor without a published job fails its whole batch.
UsableIfPublished(updated, acked) == updated /\ acked # {}

\* The transaction survives a monitor without a job, not a failed UPDATE.
Usable(updated, acked) == updated \/ ~Reschedules(acked)

\* The body of the loop over the batch.  The stream stored the jobs of the
\* targets in "stored" and confirmed those in "acked"; a duplicate is confirmed
\* too.  A failed UPDATE aborts the transaction, and the loop goes on.
publishMonitorJobs(s, m, stored, acked, updated, delay) ==
    /\ m \in batch[s].todo
    /\ \A k \in batch[s].todo : k = m \/ Before(m, k)
    /\ acked \subseteq stored
    /\ m \in Broken => stored = {}
    /\ IF updated /\ (m \in Broken \/ acked = Targets[m])
       THEN UNCHANGED faults ELSE Faulty
    /\ jobs' = Stored({[mon |-> m, loc |-> l, slot |-> nextRun[m], at |-> now] :
                          l \in {x \in stored : ~Duplicate(m, x)}})
    /\ LET b == batch[s]
           moved == IF Reschedules(acked) THEN [b.moved EXCEPT ![m] = now + delay] ELSE b.moved
       IN  batch' = [batch EXCEPT ![s] = [b EXCEPT !.todo = b.todo \ {m}, !.moved = moved,
                                                    !.ok = b.ok /\ Usable(updated, acked)]]
    /\ UNCHANGED <<now, nextRun, enabled, working, rows, edits>>

Commit(s) ==
    /\ batch[s] # NoBatch /\ batch[s].todo = {} /\ batch[s].ok
    /\ nextRun' = [m \in Monitors |-> IF m \in Moved(s) THEN batch[s].moved[m] ELSE nextRun[m]]
    /\ batch' = [batch EXCEPT ![s] = NoBatch]
    /\ UNCHANGED <<now, enabled, jobs, working, rows, faults, edits>>

\* The commit of an aborted transaction is a rollback.
CommitAborted(s) ==
    /\ batch[s].todo = {} /\ ~batch[s].ok
    /\ batch' = [batch EXCEPT ![s] = NoBatch]
    /\ UNCHANGED <<now, nextRun, enabled, jobs, working, rows, faults, edits>>

\* The scheduler crashes or loses its connection in the middle of a batch.
SchedulerFails(s) ==
    /\ batch[s] # NoBatch
    /\ Faulty
    /\ batch' = [batch EXCEPT ![s] = NoBatch]
    /\ UNCHANGED <<now, nextRun, enabled, jobs, working, rows, edits>>

-----------------------------------------------------------------------------
(* The API: the operations that touch what the scheduler reads.            *)

Edits == edits < MaxEdits /\ edits' = edits + 1

\* One job per target, without a message id; stops at the first failure.
RunMonitorNow(m, stored) ==
    /\ Edits
    /\ stored \subseteq Targets[m]
    /\ jobs' = Stored({[mon |-> m, loc |-> l, slot |-> Manual, at |-> now] : l \in stored})
    /\ UNCHANGED <<now, nextRun, enabled, batch, working, rows, faults>>

\* Both wait for the row lock of an open batch.
SetEnabled(m) ==
    /\ Edits
    /\ m \notin Locked
    /\ enabled' = (enabled \ {m}) \cup ({m} \ enabled)
    /\ UNCHANGED <<now, nextRun, batch, jobs, working, rows, faults>>

UpdateInterval(m) ==
    /\ Edits
    /\ m \notin Locked
    /\ nextRun' = [nextRun EXCEPT ![m] = now]
    /\ UNCHANGED <<now, enabled, batch, jobs, working, rows, faults>>

-----------------------------------------------------------------------------
(* The workers.  A delivery that is not acknowledged comes back, up to     *)
(* MaxDeliver deliveries; JetStream counts them in NumDelivered.           *)

Deliverable(j) == jobs[j].phase = "queued" /\ jobs[j].deliveries < MaxDeliver

Redelivery(j) == jobs[j].deliveries > 0

\* Only a redelivery after the deadline is skipped.
SkipsExpiredOnly(j) == Redelivery(j) /\ j.mon \in SideEffecting /\ now > j.at + JobLife

\* A redelivered call may already have been placed.
redeliveredSideEffect(j) == Redelivery(j) /\ j.mon \in SideEffecting

IsExpired(j) == now > j.at + JobLife

Delivered(j, phase) == [jobs[j] EXCEPT !.deliveries = @ + 1, !.phase = phase]

\* What a delivery leaves behind when the job has been handled.
Settle(j, phase) == [jobs EXCEPT ![j] = Delivered(j, phase)]

\* Acknowledged without running or publishing anything.
SkipRedelivered(j, acked) ==
    /\ Deliverable(j) /\ redeliveredSideEffect(j)
    /\ jobs' = Settle(j, IF acked THEN "acked" ELSE "unacked")
    /\ UNCHANGED <<now, nextRun, enabled, batch, working, rows, faults, edits>>

\* A message that no retry can mend is acknowledged, and nobody hears of it.
RefuseJob(j, acked) ==
    /\ Deliverable(j)
    /\ j.mon \in Unreadable \/ (j.mon \in Unrunnable /\ ~IsExpired(j))
    /\ jobs' = Settle(j, IF acked THEN "acked" ELSE "unacked")
    /\ UNCHANGED <<now, nextRun, enabled, batch, working, rows, faults, edits>>

\* A platform row, before the payload is checked; without it the job is handed
\* back (NAK).
publishExpiredJob(j, published, acked) ==
    /\ Deliverable(j) /\ ~redeliveredSideEffect(j) /\ IsExpired(j)
    /\ j.mon \notin Unreadable
    /\ rows' = IF published THEN rows \cup {<<j, "platform">>} ELSE rows
    /\ jobs' = Settle(j, IF ~published THEN "queued" ELSE IF acked THEN "acked" ELSE "unacked")
    /\ UNCHANGED <<now, nextRun, enabled, batch, working, faults, edits>>

StartCheck(w, j) ==
    /\ working[w] = Idle
    /\ Deliverable(j) /\ ~redeliveredSideEffect(j) /\ ~IsExpired(j)
    /\ j.mon \notin Unreadable \cup Unrunnable
    /\ working' = [working EXCEPT ![w] = j]
    /\ jobs' = [jobs EXCEPT ![j] = [Delivered(j, "unacked") EXCEPT !.runs = @ + 1]]
    /\ UNCHANGED <<now, nextRun, enabled, batch, rows, faults, edits>>

\* Every check is acknowledged, published or not.
AcksAlways(j, published) == TRUE

\* A call is never handed back: if its result cannot be published, or the
\* worker's shutdown cut it short, the sample is dropped.
Acks(j, published) == published \/ j.mon \in SideEffecting

\* The result reaches the stream, unless it is dropped on the way.
ResultRow(j, published) ==
    IF published /\ j.mon \notin Unroutable THEN {<<j, "monitor">>} ELSE {}

\* The check ends.  An ack settles the job even when it was redelivered in the
\* meantime; the ack itself may be lost.
FinishCheck(w, published, acked) ==
    LET j == working[w]
    IN  /\ j # Idle
        /\ working' = [working EXCEPT ![w] = Idle]
        /\ rows' = rows \cup ResultRow(j, published)
        /\ jobs' = [jobs EXCEPT ![j].phase =
               IF @ = "acked" \/ (Acks(j, published) /\ acked) THEN "acked"
               ELSE IF Acks(j, published) THEN @ ELSE "queued"]
        /\ UNCHANGED <<now, nextRun, enabled, batch, faults, edits>>

\* The worker stops in the middle of a check.
WorkerDies(w) ==
    /\ working[w] # Idle
    /\ working' = [working EXCEPT ![w] = Idle]
    /\ UNCHANGED <<now, nextRun, enabled, batch, jobs, rows, faults, edits>>

\* Nobody extended the delivery: the worker died, its ack was lost, or the
\* check outlived the ceiling of the progress heartbeat.
AckWaitExpires(j) ==
    /\ jobs[j].phase = "unacked"
    /\ jobs' = [jobs EXCEPT ![j].phase = "queued"]
    /\ UNCHANGED <<now, nextRun, enabled, batch, working, rows, faults, edits>>

Tick ==
    /\ now < MaxNow
    /\ now' = now + 1
    /\ UNCHANGED <<nextRun, enabled, batch, jobs, working, rows, faults, edits>>

-----------------------------------------------------------------------------
Dispatch(s) ==
    \E m \in batch[s].todo, updated \in BOOLEAN :
        \E stored \in SUBSET Targets[m], delay \in nextCheckDelay(m) :
            \E acked \in SUBSET stored : publishMonitorJobs(s, m, stored, acked, updated, delay)

Scheduling ==
    \E s \in Schedulers :
        \/ fetchDueMonitors(s)
        \/ Dispatch(s)
        \/ Commit(s)
        \/ CommitAborted(s)
        \/ SchedulerFails(s)

Api ==
    \E m \in Monitors :
        \/ \E stored \in SUBSET Targets[m] : RunMonitorNow(m, stored)
        \/ SetEnabled(m)
        \/ UpdateInterval(m)

Working ==
    \/ \E j \in DOMAIN jobs, acked \in BOOLEAN : SkipRedelivered(j, acked)
    \/ \E j \in DOMAIN jobs, acked \in BOOLEAN : RefuseJob(j, acked)
    \/ \E j \in DOMAIN jobs, published, acked \in BOOLEAN : publishExpiredJob(j, published, acked)
    \/ \E w \in Workers, j \in DOMAIN jobs : StartCheck(w, j)
    \/ \E w \in Workers, published, acked \in BOOLEAN : FinishCheck(w, published, acked)
    \/ \E w \in Workers : WorkerDies(w)
    \/ \E j \in DOMAIN jobs : AckWaitExpires(j)

Next == Scheduling \/ Api \/ Working \/ Tick

Spec == Init /\ [][Next]_vars

\* Every scheduler keeps its ticker and finishes the batch it is in; outages
\* (MaxFaults) end.
Fairness ==
    /\ WF_vars(Tick)
    /\ \A s \in Schedulers : /\ WF_vars(fetchDueMonitors(s))
                              /\ WF_vars(Dispatch(s))
                              /\ WF_vars(Commit(s))
                              /\ WF_vars(CommitAborted(s))

FairSpec == Spec /\ Fairness

-----------------------------------------------------------------------------
(* Properties.                                                             *)

SameSlot(i, j) == i.mon = j.mon /\ i.loc = j.loc /\ i.slot = j.slot /\ i.slot # Manual

\* A check with a side effect runs at most once per job, whatever is redelivered,
\* and two runs for one due slot come only from a dispatch retried after the
\* stream's de-duplication window (architecture.md, at-most-once checks).
OneCallPerSlot ==
    \A i \in DOMAIN jobs : i.mon \in SideEffecting =>
        /\ jobs[i].runs <= 1
        /\ \A j \in DOMAIN jobs : /\ i # j /\ SameSlot(i, j)
                                   /\ jobs[i].runs > 0 /\ jobs[j].runs > 0
                                 => i.at - j.at > Window \/ j.at - i.at > Window

\* The scheduler moves a monitor to its next slot only when a job of the current
\* one is in the stream, so a broker outage, a lost confirmation or a rolled
\* back batch never skips an interval.
NoSlotSkipped ==
    [][edits' = edits => \A m \in Monitors : nextRun'[m] # nextRun[m] =>
            \E j \in DOMAIN jobs : j.mon = m /\ j.slot = nextRun[m]]_nextRun

\* Monitors whose jobs a worker neither refuses nor keeps silent about.
Answered == Monitors \ (SideEffecting \cup Unreadable \cup Unrunnable \cup Unroutable)

\* Check jobs are at-least-once: a job leaves the queue only after a row of it was
\* published, whichever deliveries, acks and workers are lost.  Excepted by name
\* are the jobs that processJob acknowledges in silence: calls (at most once), jobs
\* it cannot read or will not run, and probes whose result has no target.
AckedHasResult ==
    \A j \in DOMAIN jobs : jobs[j].phase = "acked" /\ j.mon \in Answered
        => \E source \in {"monitor", "platform"} : <<j, source>> \in rows

\* Monitors whose jobs cannot be built stay first in the order; as long as they
\* are fewer than a batch, every other enabled monitor is dispatched whenever it
\* is due.
NoHealthyMonitorStarves ==
    <>[](\A m \in enabled \ Broken : nextRun[m] > now)

=============================================================================
