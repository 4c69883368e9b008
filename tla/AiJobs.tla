-------------------------------- MODULE AiJobs --------------------------------
(***************************************************************************)
(* The two kinds of AI job: triage of an alert, claimed and published by   *)
(* the relay of the workers, and root cause analysis of an incident,       *)
(* requested through the API.  Both are work-queue messages whose delivery *)
(* runs under an advisory lock and ends in a guarded write of the job's    *)
(* row; a relay pass and a sweep fail the rows no delivery will settle.    *)
(*                                                                         *)
(* Time is counted in units of a few minutes: a relay tick, whose calls    *)
(* all carry timeouts of seconds, lasts less than one, and a replica ticks *)
(* at most once in each.  Which alerts are eligible, why a run is skipped  *)
(* and what it finds are free choices.  The broker (JetStream) is external:*)
(* a work queue with MaxAge, MaxDeliver, BackOff and de-duplication by id. *)
(***************************************************************************)
EXTENDS Integers, FiniteSets

CONSTANTS
    Triages,                \* alerts, numbered as they trigger; each has at most one triage
    Analyses,               \* analysis requests
    Relays,                 \* worker replicas running the relay
    MaxTriageAttempts,      \* maxTriageAttempts
    TriageRepublishAfter,   \* triageRepublishAfter
    TriageMaxAge,           \* triageMaxAge
    TriageDuplicatesWindow, \* triageDuplicatesWindow
    TriageNotStartedAfter,  \* triageNotStartedAfter
    TriageFailAfter,        \* triageFailAfter
    StaleAfter,             \* staleAfter
    LockCeiling,            \* lockCeiling
    HourlyWindow,           \* the hour of triage_max_per_hour
    TriageMaxPerHour,       \* triage_max_per_hour
    RelayMaxPending,        \* relayMaxPending
    MaxDeliveries,          \* maxDeliver
    RunTime,                \* deadline of a delivery, and the first AckWait
    RetryDelay,             \* unavailableRetryMax
    MaxRows,                \* rows ever created (bound)
    MaxJobFaults            \* failures (bound)

\* The compile-time guards of relay.go and sweep.go.
ASSUME AiJobsAssumption ==
    /\ TriageFailAfter > MaxDeliveries * RunTime + (MaxDeliveries - 1) * RetryDelay
    /\ TriageNotStartedAfter > TriageMaxAge + (MaxTriageAttempts - 1) * TriageRepublishAfter
    /\ TriageDuplicatesWindow > (MaxTriageAttempts - 1) * TriageRepublishAfter
    /\ TriageMaxAge >= TriageDuplicatesWindow
    /\ StaleAfter >= (MaxDeliveries - 1) * (RunTime + RetryDelay)
    /\ LockCeiling > StaleAfter + RunTime
    /\ Triages \subseteq Nat /\ IsFiniteSet(Triages) /\ Triages \cap Analyses = {}
    /\ {MaxTriageAttempts, TriageRepublishAfter, TriageMaxAge, TriageDuplicatesWindow,
        TriageNotStartedAfter, TriageFailAfter, StaleAfter, LockCeiling, HourlyWindow,
        TriageMaxPerHour, RelayMaxPending, RunTime, RetryDelay, MaxRows, MaxJobFaults} \subseteq Nat
    /\ MaxDeliveries \in Nat \ {0}

VARIABLES
    jobRow,    \* job -> its alert_triage or incident_ai_analyses row
    copy,      \* job -> slot -> message of the job in its stream
    dupAge,    \* triage -> time since the stream recorded its message id
    jobLock,   \* job -> slot whose delivery holds the lock, 0, or Ghost
    relay,     \* replica -> its tick
    request,   \* analysis -> the API request: "idle", "publishing" or "failing"
    disturbed, \* jobs with a lost worker, a lost message or two messages (history)
    jobFaults

jobVars == <<jobRow, copy, dupAge, jobLock, relay, request, disturbed, jobFaults>>

Jobs == Triages \cup Analyses
Slots == {1, 2}
Ghost == 3
NotStarted == -1
\* Ages are counted up to the first that no statement tells apart.
OldestAge == 1 + CHOOSE n \in {TriageNotStartedAfter, LockCeiling, TriageFailAfter, HourlyWindow} :
                    \A m \in {TriageNotStartedAfter, LockCeiling, TriageFailAfter, HourlyWindow} : m <= n
NoRow == [status |-> "none", age |-> 0, enq |-> 0, run |-> NotStarted, attempts |-> 0]
NoCopy == [st |-> "none", n |-> 0, t |-> 0, age |-> 0, held |-> FALSE]
NewRow == [NoRow EXCEPT !.status = "pending", !.attempts = 1]
NewCopy == [NoCopy EXCEPT !.st = "queued", !.held = TRUE]
IdleRelay == [pc |-> "idle", jobs |-> {}]
WaitingRelay == [pc |-> "waiting", jobs |-> {}]

AiJobsInit ==
    /\ jobRow = [j \in Jobs |-> NoRow]
    /\ copy = [j \in Jobs |-> [c \in Slots |-> NoCopy]]
    /\ dupAge = [j \in Triages |-> TriageDuplicatesWindow + 1]
    /\ jobLock = [j \in Jobs |-> 0]
    /\ relay = [r \in Relays |-> IdleRelay]
    /\ request = [j \in Analyses |-> "idle"]
    /\ disturbed = {} /\ jobFaults = 0

Pending(j) == jobRow[j].status = "pending"
JobRows == {j \in Jobs : jobRow[j].status # "none"}
JobFault == jobFaults < MaxJobFaults /\ jobFaults' = jobFaults + 1

\* A row with an outcome: its other columns are not read again.
Settled(j, status) == [NoRow EXCEPT !.status = status, !.age = jobRow[j].age]
\* Every write of an outcome is guarded by status = 'pending'.
Guarded(j, status) == IF Pending(j) THEN Settled(j, status) ELSE jobRow[j]

-----------------------------------------------------------------------------
(* The relay *)

\* pg_try_advisory_xact_lock: a tick that finds it taken does nothing.
RelayLockIgnored(r) == TRUE
RelayLockFree(r) == \A q \in Relays : relay[q].pc # "tx"

\* Rows of the last hour count against the tenant's cap, unless skipped.
Used == {j \in Triages : jobRow[j].status \notin {"none", "skipped"} /\ jobRow[j].age < HourlyWindow}
Backlog == {j \in Triages : Pending(j)}

\* The claim statement reads its counts and candidates; its rows are seen by
\* others when the transaction commits.  Older alerts come first, but one that
\* another tick is claiming may have been resolved since.
ClaimTx(r) ==
    /\ relay[r].pc = "idle" /\ RelayLockFree(r)
    /\ \E claimed \in SUBSET {j \in Triages : jobRow[j].status = "none"} :
          /\ claimed # {} => /\ Cardinality(Used) + Cardinality(claimed) <= TriageMaxPerHour
                             /\ Cardinality(Backlog) + Cardinality(claimed) <= RelayMaxPending
                             /\ Cardinality(JobRows) + Cardinality(claimed) <= MaxRows
          /\ \A j \in claimed, i \in Triages :
                i < j => \/ i \in claimed \/ jobRow[i].status # "none"
                         \/ \E q \in Relays : i \in relay[q].jobs
          /\ relay' = [relay EXCEPT ![r] = [pc |-> "tx", jobs |-> claimed]]
    /\ UNCHANGED <<jobRow, copy, dupAge, jobLock, request, disturbed, jobFaults>>

AttemptsLeft(j) == jobRow[j].attempts < MaxTriageAttempts
Republishes(j) ==
    /\ Pending(j) /\ jobRow[j].run = NotStarted
    /\ jobRow[j].enq > TriageRepublishAfter /\ AttemptsLeft(j)
    /\ jobRow[j].age <= TriageNotStartedAfter

\* A run is timed out from its first delivery, not from the claim.
RunTimedOutSinceClaim(j) == jobRow[j].run # NotStarted /\ jobRow[j].age > TriageFailAfter
RunTimedOut(j) == jobRow[j].run > TriageFailAfter
NotStartedNeverFails(j) == FALSE
NotStartedInTime(j) == jobRow[j].run = NotStarted /\ jobRow[j].age > TriageNotStartedAfter
RelayFails(j) == Pending(j) /\ (RunTimedOut(j) \/ NotStartedInTime(j))

\* Claims (ON CONFLICT DO NOTHING), republishes and failures commit together;
\* the jobs are published afterwards.
CommitTick(r) ==
    LET inserted == {j \in relay[r].jobs : jobRow[j].status = "none"}
        republished == {j \in Triages : Republishes(j)}
        publish == inserted \cup republished
    IN  /\ relay[r].pc = "tx"
        /\ jobRow' = [j \in Jobs |->
                     CASE j \in inserted -> NewRow
                       [] j \in republished -> [jobRow[j] EXCEPT !.enq = 0, !.attempts = @ + 1]
                       [] j \in Triages /\ RelayFails(j) -> Settled(j, "failed")
                       [] OTHER -> jobRow[j]]
        /\ relay' = [relay EXCEPT ![r] = IF publish = {} THEN WaitingRelay
                                         ELSE [pc |-> "publish", jobs |-> publish]]
        /\ UNCHANGED <<copy, dupAge, jobLock, request, disturbed, jobFaults>>

\* The transaction fails or runs into its statement timeout: nothing is published.
AbortTick(r) ==
    /\ relay[r].pc = "tx" /\ JobFault
    /\ relay' = [relay EXCEPT ![r] = WaitingRelay]
    /\ UNCHANGED <<jobRow, copy, dupAge, jobLock, request, disturbed>>

\* The stream stores one message per id within its duplicates window.
Stores(j) == j \in Analyses \/ dupAge[j] > TriageDuplicatesWindow
Store(j) ==
    IF ~Stores(j) THEN UNCHANGED <<copy, dupAge, disturbed>>
    ELSE LET slot == IF copy[j][1].st = "none" THEN 1 ELSE 2
         IN  /\ copy[j][slot].st = "none"
             /\ copy' = [copy EXCEPT ![j][slot] = NewCopy]
             /\ dupAge' = IF j \in Triages THEN [dupAge EXCEPT ![j] = 0] ELSE dupAge
             /\ disturbed' = IF slot = 2 THEN disturbed \cup {j} ELSE disturbed

PublishJob(r, j) ==
    /\ relay[r].pc = "publish" /\ j \in relay[r].jobs
    /\ Store(j)
    /\ relay' = [relay EXCEPT ![r] = IF relay[r].jobs = {j} THEN WaitingRelay
                                     ELSE [relay[r] EXCEPT !.jobs = @ \ {j}]]
    /\ UNCHANGED <<jobRow, jobLock, request, jobFaults>>

\* A publish fails, stored or not: the tick stops and gives every remaining row
\* its attempt back.
PublishJobFails(r, j) ==
    /\ relay[r].pc = "publish" /\ j \in relay[r].jobs /\ JobFault
    /\ Store(j) \/ UNCHANGED <<copy, dupAge, disturbed>>
    /\ relay' = [relay EXCEPT ![r].pc = "undo"]
    /\ UNCHANGED <<jobRow, jobLock, request>>
UndoPublish(r) ==
    /\ relay[r].pc = "undo"
    /\ jobRow' = [j \in Jobs |-> IF j \in relay[r].jobs /\ Pending(j) /\ jobRow[j].attempts > 0
                              THEN [jobRow[j] EXCEPT !.attempts = @ - 1] ELSE jobRow[j]]
    /\ relay' = [relay EXCEPT ![r] = WaitingRelay]
    /\ UNCHANGED <<copy, dupAge, jobLock, request, disturbed, jobFaults>>
RelayCrash(r) ==
    /\ relay[r].pc \in {"publish", "undo"} /\ JobFault
    /\ relay' = [relay EXCEPT ![r] = WaitingRelay]
    /\ UNCHANGED <<jobRow, copy, dupAge, jobLock, request, disturbed>>

-----------------------------------------------------------------------------
(* Analysis requests *)

RequestAIAnalysis(j) ==
    /\ jobRow[j].status = "none" /\ Cardinality(JobRows) < MaxRows
    /\ jobRow' = [jobRow EXCEPT ![j] = NewRow]
    /\ request' = [request EXCEPT ![j] = "publishing"]
    /\ UNCHANGED <<copy, dupAge, jobLock, relay, disturbed, jobFaults>>
Enqueue(j) ==
    /\ request[j] = "publishing" /\ Store(j)
    /\ request' = [request EXCEPT ![j] = "idle"]
    /\ UNCHANGED <<jobRow, jobLock, relay, jobFaults>>
EnqueueFails(j) ==
    /\ request[j] = "publishing" /\ JobFault
    /\ Store(j) \/ UNCHANGED <<copy, dupAge, disturbed>>
    /\ request' = [request EXCEPT ![j] = "failing"]
    /\ UNCHANGED <<jobRow, jobLock, relay>>
FailPendingAIAnalysis(j) ==
    /\ request[j] = "failing"
    /\ jobRow' = [jobRow EXCEPT ![j] = Guarded(j, "failed")]
    /\ request' = [request EXCEPT ![j] = "idle"]
    /\ UNCHANGED <<copy, dupAge, jobLock, relay, disturbed, jobFaults>>
RequestCrash(j) ==
    /\ request[j] # "idle" /\ JobFault
    /\ request' = [request EXCEPT ![j] = "idle"]
    /\ UNCHANGED <<jobRow, copy, dupAge, jobLock, relay, disturbed>>

\* The sweep takes the job's lock, unless the row is older than lockCeiling.
UnclaimedIgnored(j) == TRUE
Unclaimed(j) == jobRow[j].age > LockCeiling \/ jobLock[j] = 0
StaleJobs == {j \in Analyses : Pending(j) /\ jobRow[j].age > StaleAfter /\ Unclaimed(j)}
SweepStale ==
    /\ StaleJobs # {}
    /\ jobRow' = [j \in Jobs |-> IF j \in StaleJobs THEN Guarded(j, "failed") ELSE jobRow[j]]
    /\ UNCHANGED <<copy, dupAge, jobLock, relay, request, disturbed, jobFaults>>

-----------------------------------------------------------------------------
(* Deliveries *)

\* A waiting message counts its delay down and is redelivered at zero.
CopyDue(j, c) == copy[j][c].st = "queued" \/ (copy[j][c].st = "waiting" /\ copy[j][c].t = 0)
Final(j, c) == copy[j][c].n >= MaxDeliveries
Back(j, c, delay) ==
    IF Final(j, c) \/ ~copy[j][c].held THEN NoCopy
    ELSE [copy[j][c] EXCEPT !.st = "waiting", !.t = delay]

\* Another session holds the job's lock: retried, and dropped on the final delivery.
DeliverBusy(j, c) ==
    /\ CopyDue(j, c) /\ jobLock[j] # 0
    /\ copy' = [copy EXCEPT ![j][c] =
                    IF copy[j][c].n + 1 >= MaxDeliveries THEN NoCopy
                    ELSE [copy[j][c] EXCEPT !.st = "waiting", !.n = @ + 1, !.t = 1]]
    /\ UNCHANGED <<jobRow, dupAge, jobLock, relay, request, disturbed, jobFaults>>
DeliverSettled(j, c) ==
    /\ CopyDue(j, c) /\ jobLock[j] = 0 /\ ~Pending(j)
    /\ copy' = [copy EXCEPT ![j][c] = NoCopy]
    /\ UNCHANGED <<jobRow, dupAge, jobLock, relay, request, disturbed, jobFaults>>
DeliverRun(j, c) ==
    /\ CopyDue(j, c) /\ jobLock[j] = 0 /\ Pending(j)
    /\ copy' = [copy EXCEPT ![j][c].st = "running", ![j][c].n = @ + 1, ![j][c].t = 0]
    /\ jobLock' = [jobLock EXCEPT ![j] = c]
    /\ jobRow' = IF j \in Triages /\ jobRow[j].run = NotStarted THEN [jobRow EXCEPT ![j].run = 0] ELSE jobRow
    /\ UNCHANGED <<dupAge, relay, request, disturbed, jobFaults>>

Running(j, c) == copy[j][c].st = "running"
Outcomes(j) == IF j \in Triages THEN {"ready", "failed", "skipped"} ELSE {"ready", "failed"}

\* The run ends with an outcome; the message is acknowledged even when the
\* guarded write lost the race.
Finish(j, c, outcome) ==
    /\ Running(j, c)
    /\ jobRow' = [jobRow EXCEPT ![j] = Guarded(j, outcome)]
    /\ copy' = [copy EXCEPT ![j][c] = NoCopy]
    /\ jobLock' = [jobLock EXCEPT ![j] = 0]
    /\ UNCHANGED <<dupAge, relay, request, disturbed, jobFaults>>

\* A transient error, an unavailable model or the delivery deadline: retried
\* after a delay, recorded as failed on the final delivery.
SettleDelivery(j, c, delay) ==
    /\ Running(j, c)
    /\ jobRow' = IF Final(j, c) THEN [jobRow EXCEPT ![j] = Guarded(j, "failed")] ELSE jobRow
    /\ copy' = [copy EXCEPT ![j][c] = Back(j, c, delay)]
    /\ jobLock' = [jobLock EXCEPT ![j] = 0]
    /\ UNCHANGED <<dupAge, relay, request, disturbed, jobFaults>>

\* The worker shuts down, or cannot record the failure of a final delivery.
LeaveUnrecorded(j, c) ==
    /\ Running(j, c) /\ JobFault
    /\ copy' = [copy EXCEPT ![j][c] = Back(j, c, 1)]
    /\ jobLock' = [jobLock EXCEPT ![j] = 0]
    /\ disturbed' = disturbed \cup {j}
    /\ UNCHANGED <<jobRow, dupAge, relay, request>>

\* The worker dies.  Its database session may outlive it.  The message comes
\* back once its AckWait, extended by every heartbeat, has passed.
WorkerLost(j, c, session) ==
    /\ Running(j, c) /\ JobFault
    /\ copy' = [copy EXCEPT ![j][c] = Back(j, c, copy[j][c].n * RunTime)]
    /\ jobLock' = [jobLock EXCEPT ![j] = session]
    /\ disturbed' = disturbed \cup {j}
    /\ UNCHANGED <<jobRow, dupAge, relay, request>>
SessionEnds(j) ==
    /\ jobLock[j] = Ghost
    /\ jobLock' = [jobLock EXCEPT ![j] = 0]
    /\ UNCHANGED <<jobRow, copy, dupAge, relay, request, disturbed, jobFaults>>

\* The broker restarts with an empty store: messages and message ids are gone.
StoreLost ==
    /\ JobFault /\ \E j \in Jobs, c \in Slots : copy[j][c].st # "none"
    /\ copy' = [j \in Jobs |-> [c \in Slots |->
                  IF Running(j, c) THEN [copy[j][c] EXCEPT !.held = FALSE] ELSE NoCopy]]
    /\ dupAge' = [j \in Triages |-> TriageDuplicatesWindow + 1]
    /\ disturbed' = disturbed \cup {j \in Jobs : \E c \in Slots : copy[j][c].st # "none"}
    /\ UNCHANGED <<jobRow, jobLock, relay, request>>

Older(n) == IF n < OldestAge THEN n + 1 ELSE n
OlderOutcome(n) == IF n < HourlyWindow THEN n + 1 ELSE n
AgedRow(j) ==
    [jobRow[j] EXCEPT !.age = CASE Pending(j) -> Older(@)
                            [] jobRow[j].status = "none" -> @
                            [] OTHER -> OlderOutcome(@),
                   !.enq = IF Pending(j) THEN Older(@) ELSE @,
                   !.run = IF Pending(j) /\ @ # NotStarted THEN Older(@) ELSE @]
\* A message older than the stream's MaxAge is removed, whatever its deliveries.
AgedCopy(j, c) ==
    LET m == copy[j][c]
        expired == j \in Triages /\ m.age >= TriageMaxAge
        age == IF j \in Triages /\ ~expired THEN m.age + 1 ELSE m.age
    IN  CASE m.st = "none" -> m
          [] m.st = "queued" -> IF expired THEN NoCopy ELSE [m EXCEPT !.age = age]
          [] m.st = "waiting" -> IF expired THEN NoCopy ELSE [m EXCEPT !.age = age, !.t = @ - 1]
          [] m.st = "running" -> [m EXCEPT !.age = age, !.t = @ + 1, !.held = @ /\ ~expired]

\* Time passes: not while a tick is under way, beyond a delivery's deadline or
\* past a redelivery that is due.
PassTime ==
    /\ \A r \in Relays : relay[r].pc \in {"idle", "waiting"}
    /\ \A j \in Jobs, c \in Slots : /\ Running(j, c) => copy[j][c].t < RunTime
                                    /\ copy[j][c].st = "waiting" => copy[j][c].t > 0
    /\ jobRow' = [j \in Jobs |-> AgedRow(j)]
    /\ copy' = [j \in Jobs |-> [c \in Slots |-> AgedCopy(j, c)]]
    /\ dupAge' = [j \in Triages |-> IF dupAge[j] <= TriageDuplicatesWindow
                                    THEN dupAge[j] + 1 ELSE dupAge[j]]
    /\ relay' = [r \in Relays |-> IdleRelay]
    /\ UNCHANGED <<jobLock, request, disturbed, jobFaults>>

DeliverJob == \E j \in Jobs, c \in Slots : DeliverBusy(j, c) \/ DeliverSettled(j, c) \/ DeliverRun(j, c)
EndRun == \E j \in Jobs, c \in Slots :
    \/ \E o \in Outcomes(j) : Finish(j, c, o)
    \/ \E d \in 1..RetryDelay : SettleDelivery(j, c, d)
RelayStep == \E r \in Relays :
    ClaimTx(r) \/ CommitTick(r) \/ UndoPublish(r) \/ \E j \in Triages : PublishJob(r, j)
RelayFault == \E r \in Relays :
    AbortTick(r) \/ RelayCrash(r) \/ \E j \in Triages : PublishJobFails(r, j)
WorkerFault == \E j \in Jobs, c \in Slots :
    LeaveUnrecorded(j, c) \/ \E s \in {0, Ghost} : WorkerLost(j, c, s)
AnalysisStep == \E j \in Analyses :
    RequestAIAnalysis(j) \/ Enqueue(j) \/ EnqueueFails(j) \/ FailPendingAIAnalysis(j) \/ RequestCrash(j)

AiJobsNext ==
    \/ RelayStep \/ RelayFault \/ AnalysisStep \/ SweepStale
    \/ DeliverJob \/ EndRun \/ WorkerFault \/ StoreLost \/ PassTime
    \/ \E j \in Jobs : SessionEnds(j)

\* The relay and the sweep tick for ever, and time passes: a delivery in the
\* way of it ends by its deadline, a due redelivery arrives.
AiJobsFairness ==
    WF_jobVars(RelayStep) /\ WF_jobVars(SweepStale)
    /\ WF_jobVars(DeliverJob \/ EndRun) /\ WF_jobVars(PassTime)

AiJobsSpec == AiJobsInit /\ [][AiJobsNext]_jobVars /\ AiJobsFairness

-----------------------------------------------------------------------------
(* Properties *)

\* The hourly cap and the backlog bound are exact although replicas tick at once.
CapsAreExact ==
    Cardinality(Used) <= TriageMaxPerHour /\ Cardinality(Backlog) <= RelayMaxPending

\* The relay gives up on a started triage only when no delivery of it is running
\* or still to come, unless a worker or message was lost or the job was copied.
TimeoutComesLast ==
    [][\A j \in Triages :
          (/\ \E r \in Relays : relay[r].pc = "tx" /\ relay'[r].pc # "tx"
           /\ Pending(j) /\ jobRow[j].run # NotStarted /\ jobRow'[j].status = "failed"
           /\ j \notin disturbed)
          => \A c \in Slots : copy[j][c].st = "none"]_jobVars

\* The sweep never fails an analysis under the run that holds its lock before
\* that run could have ended.
SweepSparesRuns ==
    [][\A j \in Analyses, c \in Slots :
          (Running(j, c) /\ Running(j, c)' /\ Pending(j) /\ ~Pending(j)')
          => jobRow[j].age > LockCeiling \/ request[j] = "failing"]_jobVars

\* No job shows as running for ever (the rows ever created are bounded).
PendingIsSettled == JobRows # {} ~> \A j \in Jobs : ~Pending(j)
=============================================================================
