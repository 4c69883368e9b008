--------------------------- MODULE MonitorPipeline ---------------------------
(***************************************************************************)
(* The evidence pipeline of ONE monitor: every transaction that writes     *)
(* monitors.current_state, monitor_location_state, monitor_locations or    *)
(* monitor_state_intervals, run by the processes that share those rows --  *)
(* the results ingest, the push and agent endpoints, the absence watchdog  *)
(* and the API's pause, delete and location operations.                    *)
(*                                                                         *)
(* A transaction takes the monitor row FOR UPDATE first, so its effect is  *)
(* one step; its NOW() is the moment it began, up to LockWait ticks before *)
(* it got the lock.  What happens outside the lock (a verification, a      *)
(* watchdog scan, the check of "enabled" before a push is recorded) is a   *)
(* step of its own.                                                        *)
(***************************************************************************)
EXTENDS MonitorState, FiniteSets

CONSTANTS
    Locations,     \* private locations of the tenant
    Fleet,         \* "no location": the default worker fleet
    MonitorTypes,  \* types the monitor may have: "active", "push", "agent"
    Thresholds,    \* bound: what consecutive_failures_threshold may be set to
    Intervals,     \* bound: what interval_seconds may be set to, in ticks
    Grace,         \* grace_period_seconds of a push monitor
    LockWait,      \* bound: how long a transaction may wait for the row lock
    InitialLocations, \* the locations the monitor was created with
    InitialQuorum, \* and its quorum
    Observations,  \* bound: what a job may end in: "success", "failure", "expired"
    MaxEdits,      \* bound: administrative operations
    MaxResults,    \* bound: results reported by workers, pushes and agents
    LastInput,     \* bound: no report and no administration after this tick; from then
                   \* on the clock waits for results in flight and for the watchdog
    MaxNow         \* bound: the clock stops here

ASSUME PipelineAssumption ==
    /\ IsFiniteSet(Locations)
    /\ Fleet \notin Locations
    /\ MonitorTypes \subseteq {"active", "push", "agent"}
    /\ Thresholds \subseteq Nat /\ Intervals \subseteq Nat /\ Grace \in Nat
    /\ InitialLocations \subseteq Locations /\ InitialQuorum \in Nat
    /\ Observations \subseteq {"success", "failure", "expired"} /\ MaxEdits \in Nat
    /\ LockWait \in Nat /\ MaxResults \in Nat /\ LastInput \in Nat /\ MaxNow \in Nat

VARIABLES
    now,         \* the database clock
    mon,         \* the monitors row
    selected,    \* monitor_locations of the monitor
    locEnabled,  \* locations.enabled
    locDeleted,  \* locations.deleted_at IS NOT NULL
    locState,    \* monitor_location_state: a function on the locations with a row
    pending,     \* a SetLocations transaction that holds the row lock
    queue,       \* results published and not yet acknowledged
    verified,    \* results the ingest has authenticated and will now persist
    results,     \* check_results
    nextId,      \* the next job id: reports and absences so far
    edits,       \* administrative operations so far (for the bound only)
    wd,          \* the watchdog pass that has scanned this monitor as a candidate
    open,        \* the open row of monitor_state_intervals
    closedAt,    \* ended_at of the row closed last
    lastApplied, \* observer: started_at of the evidence applied last, per stream
    thresholds   \* observer: the thresholds that the monitor has had

adminVars == <<selected, locEnabled, locDeleted, pending>>
timeline == <<open, closedAt>>
vars == <<now, edits, mon, adminVars, locState, queue, verified, results, nextId, wd, timeline,
          lastApplied, thresholds>>

NoTx == [active |-> FALSE, locs |-> {}, at |-> 0]

Streams == Locations \cup {Fleet}
Never == -1     \* a NULL started_at watermark: older than every result

Horizon == FreshnessHorizonSeconds(mon.interval)

Message == [id : Nat, loc : Streams, status : {"success", "failure", "error"},
            source : {"monitor", "platform"}, started : Nat, synthetic : BOOLEAN]

LocRow == [state : StreamStates, cf : Nat, checkAt : Nat, started : Nat]

Reasons == {"created", "result", "watchdog_stale", "pause", "resume", "location_change"}

TypeOK ==
    /\ now \in Nat /\ edits \in Nat
    /\ mon \in [type : MonitorTypes, enabled : BOOLEAN, deleted : BOOLEAN,
                state : MonitorStates, cf : Nat, threshold : Nat, interval : Nat, quorum : Nat,
                lastResultAt : Nat, lastStarted : Nat \cup {Never}]
    /\ selected \in SUBSET Locations
    /\ locEnabled \in SUBSET Locations
    /\ locDeleted \in SUBSET Locations
    /\ DOMAIN locState \in SUBSET Locations
    /\ locState \in [DOMAIN locState -> LocRow]
    /\ pending \in [active : BOOLEAN, locs : SUBSET Locations, at : Nat]
    /\ queue \in SUBSET Message
    /\ verified \in SUBSET Message
    /\ results \in SUBSET Message
    /\ nextId \in Nat
    /\ wd \in {"idle", "active", "quorum", "heartbeat"}
    /\ open \in [state : MonitorStates, reason : Reasons, start : Nat]
    /\ closedAt \in Nat
    /\ lastApplied \in [Streams -> Nat \cup {Never}]
    /\ thresholds \in SUBSET Nat

\* A monitor just created: unknown, its "created" interval open.
\* last_result_at starts as created_at: every reader COALESCEs the two.
Init ==
    /\ now = 0 /\ edits = 0
    /\ \E ty \in MonitorTypes, th \in Thresholds, iv \in Intervals :
           mon = [type |-> ty, enabled |-> TRUE, deleted |-> FALSE, state |-> "unknown", cf |-> 0,
                  threshold |-> th, interval |-> iv, quorum |-> InitialQuorum,
                  lastResultAt |-> 0, lastStarted |-> Never]
    /\ selected = InitialLocations
    /\ locEnabled = Locations
    /\ locDeleted = {}
    /\ locState = [l \in {} |-> 0]
    /\ pending = NoTx
    /\ queue = {} /\ verified = {} /\ results = {} /\ nextId = 0
    /\ wd = "idle"
    /\ open = [state |-> "unknown", reason |-> "created", start |-> 0]
    /\ closedAt = 0
    /\ lastApplied = [s \in Streams |-> Never]
    /\ thresholds = {mon.threshold}

-----------------------------------------------------------------------------
(* Helpers: the row lock, the timeline, the fresh location counts.         *)

MonitorUnlocked == ~pending.active

\* The possible NOW() of a transaction that has the lock at this moment.
TxStarts == {t \in 0..now : now - t <= LockWait}

Later(a, b) == IF a > b THEN a ELSE b

Live == locEnabled \ locDeleted

Bound == selected # {}

\* Without the clamp the close precedes the interval's own start when the
\* transaction began before the one it queued behind.
RecordIntervalUnclamped(st, reason, t) ==
    /\ closedAt' = t
    /\ open' = [state |-> st, reason |-> reason, start |-> t]

\* Close the open interval and open the next one where it ended.
RecordIntervalTx(st, reason, t) ==
    LET end == Later(t, open.start)
    IN  /\ closedAt' = end
        /\ open' = [state |-> st, reason |-> reason, start |-> end]

\* The interval is written only when the transition changed the state.
RecordIfChanged(st, reason, t) ==
    IF st # mon.state THEN RecordIntervalTx(st, reason, t) ELSE UNCHANGED timeline

\* Stale rows vote as well.
FreshVotersAll(rows, t) == {l \in selected \cap Live : l \in DOMAIN rows}

\* Locations whose row votes: selected, live, and checked within the horizon.
FreshVoters(rows, t) ==
    {l \in selected \cap Live : l \in DOMAIN rows /\ rows[l].checkAt >= t - Horizon}

LoadFreshLocationCounts(rows, t) ==
    LET In(st) == Cardinality({l \in FreshVoters(rows, t) : rows[l].state = st})
    IN  [down |-> In("down"), suspect |-> In("suspect"), up |-> In("up"),
         selected |-> Cardinality(selected \cap Live)]

\* MAX(consecutive_failures) over the voting rows, 0 when there is none.
MaxFailures(rows, t) ==
    LET counts == {0} \cup {rows[l].cf : l \in FreshVoters(rows, t)}
    IN  CHOOSE n \in counts : \A m \in counts : m <= n

Duplicate(r) == \E x \in results : x.id = r.id /\ x.source = r.source

\* ON CONFLICT (job_id, result_source) DO NOTHING.
insertResult(r) == results' = IF Duplicate(r) THEN results ELSE results \cup {r}

-----------------------------------------------------------------------------
(* Evidence: what workers, push clients and agents report.                 *)

\* Jobs go to the selected live locations; with none of them, to the fleet.
DispatchTargets == IF selected \cap Live = {} THEN {Fleet} ELSE selected \cap Live

Report(id, s, status, source) ==
    /\ now <= LastInput
    /\ nextId < MaxResults
    /\ mon.enabled /\ ~mon.deleted
    /\ queue' = queue \cup {[id |-> id, loc |-> s, status |-> status, source |-> source,
                             started |-> now, synthetic |-> FALSE]}
    /\ nextId' = nextId + 1
    /\ UNCHANGED <<now, edits, thresholds, mon, adminVars, locState, verified, results, wd,
                   timeline, lastApplied>>

\* A worker ran the check for stream s and published what it observed.
RunCheck(s, status) ==
    /\ mon.type = "active"
    /\ s \in DispatchTargets
    /\ status \in Observations
    /\ Report(nextId, s, status, "monitor")

\* A worker found the job past its deadline: a platform row, no observation.
ExpireJob(s) ==
    /\ mon.type = "active"
    /\ s \in DispatchTargets
    /\ "expired" \in Observations
    /\ Report(nextId, s, "error", "platform")

\* The push endpoint has looked up the monitor, found it enabled, and is about
\* to call Record.
ReceivePush(status) ==
    /\ mon.type = "push"
    /\ status \in Observations
    /\ Report(nextId, Fleet, status, "monitor")

\* So has the OTLP endpoint.  The job id is a digest of the request, so an export
\* sent again keeps its id; its started_at is the moment it was received.
ReceiveExport(id) ==
    /\ mon.type = "agent"
    /\ "success" \in Observations
    /\ id \in {nextId} \cup {r.id : r \in {x \in queue \cup results : ~x.synthetic}}
    /\ Report(id, Fleet, "success", "monitor")

\* Record failed: the caller gets an error, and nothing was written.
RequestFails(r) ==
    /\ mon.type # "active"
    /\ r \in queue
    /\ queue' = queue \ {r}
    /\ UNCHANGED <<now, edits, thresholds, mon, adminVars, locState, verified, results,
                   nextId, wd, timeline, lastApplied>>

-----------------------------------------------------------------------------
(* The transactions that apply a result.                                   *)

\* A redelivered row runs the machine again.
AppliesAgain(r) == ~Bound /\ (r.synthetic \/ ~(r.started < mon.lastStarted))

\* The late-result guard is dropped.
AppliesLate(r) == ~Bound /\ ~Duplicate(r)

\* Location-bound monitors keep location-less rows as history (S-E5); a known
\* job is a no-op (S-E3); older evidence is history (S-O2), except synthetic.
Applies(r) == /\ ~Bound
              /\ ~Duplicate(r)
              /\ r.synthetic \/ ~(r.started < mon.lastStarted)

Record(r, t) ==
    LET tr == Apply([state |-> mon.state, cf |-> mon.cf], IsFailureStatus(r.status), mon.threshold)
    IN  /\ MonitorUnlocked
        /\ insertResult(r)
        /\ IF Applies(r)
           THEN /\ mon' = [mon EXCEPT !.state = tr.to, !.cf = tr.cf, !.lastResultAt = t,
                              !.lastStarted = IF r.synthetic THEN @ ELSE r.started]
                /\ RecordIfChanged(tr.to, "result", t)
                /\ lastApplied' = IF r.synthetic THEN lastApplied
                                  ELSE [lastApplied EXCEPT ![Fleet] = r.started]
           ELSE UNCHANGED <<mon, timeline, lastApplied>>
        /\ UNCHANGED <<adminVars, locState>>

\* The row the location machine starts from; no row is "unknown", no watermark.
LocSnapshot(l) ==
    IF l \in DOMAIN locState THEN locState[l]
    ELSE [state |-> "unknown", cf |-> 0, checkAt |-> 0, started |-> Never]

\* A result of a location that is no longer selected revives its row.
AppliesAtUnselected(r) == ~Duplicate(r) /\ ~(r.started < LocSnapshot(r.loc).started)

\* The location's watermark is not looked at.
AppliesLateAtLocation(r) == ~Duplicate(r) /\ r.loc \in selected

AppliesAtLocation(r) == /\ ~Duplicate(r)
                        /\ r.loc \in selected
                        /\ ~(r.started < LocSnapshot(r.loc).started)

UpsertLocState(l, row) ==
    [x \in DOMAIN locState \cup {l} |-> IF x = l THEN row ELSE locState[x]]

\* Run the location's machine, then aggregate over the fresh locations.
persistAtLocation(r, t) ==
    LET snap == LocSnapshot(r.loc)
        tr == Apply([state |-> snap.state, cf |-> snap.cf], IsFailureStatus(r.status), mon.threshold)
        rows == UpsertLocState(r.loc, [state |-> tr.to, cf |-> tr.cf,
                                       checkAt |-> t, started |-> r.started])
        st == AggregateLocations(LoadFreshLocationCounts(rows, t), mon.quorum)
    IN  /\ MonitorUnlocked
        /\ insertResult(r)
        /\ IF AppliesAtLocation(r)
           THEN /\ locState' = rows
                /\ mon' = [mon EXCEPT !.state = st, !.cf = MaxFailures(rows, t),
                                      !.lastResultAt = t]
                /\ RecordIfChanged(st, "result", t)
                /\ lastApplied' = [lastApplied EXCEPT ![r.loc] = r.started]
           ELSE UNCHANGED <<locState, mon, timeline, lastApplied>>
        /\ UNCHANGED adminVars

InsertOnly(r) == /\ insertResult(r)
                 /\ UNCHANGED <<mon, adminVars, locState, timeline, lastApplied>>

persist(r, t) ==
    IF r.source = "platform" THEN InsertOnly(r)
    ELSE IF r.loc = Fleet THEN Record(r, t) ELSE persistAtLocation(r, t)

\* The ack may be lost, and the message is then delivered again.  A push or an
\* export is one HTTP request: nothing redelivers it.
Acknowledge(r, acked) ==
    /\ acked \/ mon.type = "active"
    /\ queue' = IF acked THEN queue \ {r} ELSE queue

\* Ingest of a location-less result, or the Record call of a push or export.
HandleFleetResult(r, t, acked) ==
    /\ r \in queue /\ r.loc = Fleet
    /\ persist(r, t)
    /\ Acknowledge(r, acked)
    /\ UNCHANGED <<now, edits, thresholds, verified, nextId, wd>>

\* locationCredential: the location is live and selected, the monitor exists.
Authentic(r) == r.loc \in selected \cap Live /\ ~mon.deleted

\* Ingest authenticates a location result before any lock; a refused result is
\* acknowledged and dropped without a history row.
VerifyLocationResult(r, acked) ==
    /\ r \in queue \ verified /\ r.loc # Fleet
    /\ IF Authentic(r)
       THEN verified' = verified \cup {r} /\ UNCHANGED queue
       ELSE Acknowledge(r, acked) /\ UNCHANGED verified
    /\ UNCHANGED <<now, edits, thresholds, mon, adminVars, locState, results, nextId, wd,
                   timeline, lastApplied>>

HandleLocationResult(r, t, acked) ==
    /\ r \in verified
    /\ persist(r, t)
    /\ Acknowledge(r, acked)
    /\ verified' = verified \ {r}
    /\ UNCHANGED <<now, edits, thresholds, nextId, wd>>

\* The transaction failed or the ingest restarted: the message will come back.
IngestFails(r) ==
    /\ r \in verified
    /\ verified' = verified \ {r}
    /\ UNCHANGED <<now, edits, thresholds, mon, adminVars, locState, queue, results,
                   nextId, wd, timeline, lastApplied>>

-----------------------------------------------------------------------------
(* The absence watchdog.  One instance acts at a time (advisory lock); each *)
(* pass first scans for candidates and then handles them one transaction    *)
(* each, so a candidate may have changed in between.                        *)

Stale(t) == mon.lastResultAt < t - Horizon

Scan(pass) ==
    /\ wd = "idle"
    /\ wd' = pass
    /\ UNCHANGED <<now, edits, thresholds, mon, adminVars, locState, queue, verified,
                   results, nextId, timeline, lastApplied>>

WatchdogDone == wd' = "idle" /\ UNCHANGED <<now, edits, thresholds, adminVars, queue,
                                            verified, nextId>>

ScanActive ==
    /\ mon.type = "active"
    /\ mon.enabled /\ ~mon.deleted /\ mon.state # "unknown" /\ ~Bound /\ Stale(now)
    /\ Scan("active")

\* The scan's verdict is trusted: nothing is read again under the lock.
MarksAnyway(t) == TRUE

\* Staleness is checked again under the lock.
MarksUnknown(t) == mon.enabled /\ ~mon.deleted /\ mon.state # "unknown" /\ Stale(t)

markMonitorUnknown(t) ==
    /\ wd = "active" /\ MonitorUnlocked
    /\ IF MarksUnknown(t)
       THEN /\ mon' = [mon EXCEPT !.state = "unknown", !.cf = 0]
            /\ RecordIntervalTx("unknown", "watchdog_stale", t)
       ELSE UNCHANGED <<mon, timeline>>
    /\ WatchdogDone
    /\ UNCHANGED <<locState, results, lastApplied>>

\* Some selected location is not live, has never reported or is stale.
ScanQuorum ==
    /\ mon.enabled /\ ~mon.deleted
    /\ selected \ FreshVoters(locState, now) # {}
    /\ Scan("quorum")

\* The aggregate moves without a timeline row.
reaggregateSilently(t) ==
    LET st == AggregateLocations(LoadFreshLocationCounts(locState, t), mon.quorum)
    IN  /\ wd = "quorum" /\ MonitorUnlocked
        /\ IF mon.enabled /\ ~mon.deleted /\ st # mon.state
           THEN mon' = [mon EXCEPT !.state = st, !.cf = MaxFailures(locState, t)]
           ELSE UNCHANGED mon
        /\ WatchdogDone
        /\ UNCHANGED <<timeline, locState, results, lastApplied>>

reaggregateMonitor(t) ==
    LET st == AggregateLocations(LoadFreshLocationCounts(locState, t), mon.quorum)
    IN  /\ wd = "quorum" /\ MonitorUnlocked
        /\ IF mon.enabled /\ ~mon.deleted /\ st # mon.state
           THEN /\ mon' = [mon EXCEPT !.state = st, !.cf = MaxFailures(locState, t)]
                /\ RecordIntervalTx(st, "watchdog_stale", t)
           ELSE UNCHANGED <<mon, timeline>>
        /\ WatchdogDone
        /\ UNCHANGED <<locState, results, lastApplied>>

\* How long a push or agent monitor may stay silent.
HeartbeatWindow == IF mon.type = "push" THEN mon.interval + Grace ELSE Horizon

\* The SQL scan admits after one interval (push) or the horizon (agent); the
\* exact deadline is then compared with the scheduler's clock.
HeartbeatDue ==
    /\ mon.type \in {"push", "agent"}
    /\ mon.enabled /\ ~mon.deleted
    /\ mon.lastResultAt < now - (IF mon.type = "push" THEN mon.interval ELSE Horizon)
    /\ now >= mon.lastResultAt + HeartbeatWindow

ScanHeartbeat == HeartbeatDue /\ Scan("heartbeat")

\* The candidate gets a synthetic failure through Record; nothing is re-read.
recordAbsence(t) ==
    /\ wd = "heartbeat"
    /\ Record([id |-> nextId, loc |-> Fleet, status |-> "failure", source |-> "monitor",
               started |-> now, synthetic |-> TRUE], t)
    /\ nextId' = nextId + 1
    /\ wd' = "idle"
    /\ UNCHANGED <<now, edits, thresholds, queue, verified>>

\* The run timed out, failed or its scheduler stopped before the transaction.
WatchdogAborts ==
    /\ wd # "idle"
    /\ WatchdogDone
    /\ UNCHANGED <<mon, locState, results, timeline, lastApplied>>

-----------------------------------------------------------------------------
(* Administration: the API's operations on the monitor and its locations.  *)

Administers == /\ now <= LastInput /\ edits < MaxEdits
               /\ edits' = edits + 1

\* A real toggle resets the state and drops every per-location row.
SetEnabled(b, t) ==
    /\ Administers /\ MonitorUnlocked /\ ~mon.deleted
    /\ b # mon.enabled
    /\ mon' = [mon EXCEPT !.enabled = b, !.state = "unknown", !.cf = 0]
    /\ locState' = [l \in {} |-> 0]
    /\ RecordIntervalTx("unknown", IF b THEN "resume" ELSE "pause", t)
    /\ UNCHANGED <<now, adminVars, queue, verified, results, nextId, wd, lastApplied,
                   thresholds>>

DeleteMonitor ==
    /\ Administers /\ MonitorUnlocked /\ ~mon.deleted
    /\ mon' = [mon EXCEPT !.deleted = TRUE]
    /\ UNCHANGED <<now, adminVars, locState, queue, verified, results, nextId, wd,
                   timeline, lastApplied, thresholds>>

\* Only a monitor that workers check can be bound to locations.
ValidateMonitorLocationFields(L) == L = {} \/ mon.type = "active"

\* SetLocations has the row lock and has found every location to be live.
SetLocationsBegin(L, t) ==
    /\ Administers /\ MonitorUnlocked /\ ~mon.deleted
    /\ ValidateMonitorLocationFields(L)
    /\ L \cap locDeleted = {}
    /\ pending' = [active |-> TRUE, locs |-> L, at |-> t]
    /\ UNCHANGED <<now, mon, selected, locEnabled, locDeleted, locState, queue, verified,
                   results, nextId, wd, timeline, lastApplied, thresholds>>

\* UpdateMonitor's own UPDATE: the quorum, clamped to the set it will have, the
\* threshold and the interval.  State, failure counts and location rows stay as
\* they are until the next evidence.
UpdateMonitor(q, th, iv) ==
    /\ Administers /\ MonitorUnlocked /\ ~mon.deleted
    /\ mon' = [mon EXCEPT !.quorum = q, !.threshold = th, !.interval = iv]
    /\ thresholds' = thresholds \cup {th}
    /\ UNCHANGED <<now, adminVars, locState, queue, verified, results, nextId, wd,
                   timeline, lastApplied>>

KeepRows(S) == [l \in DOMAIN locState \cap S |-> locState[l]]

\* Rows of removed locations go; an emptied set returns the monitor to the
\* fleet with a machine that restarts from "unknown".
SetLocationsCommit ==
    LET L == pending.locs
    IN  /\ pending.active
        /\ selected' = L
        /\ locState' = KeepRows(L)
        /\ IF L = {}
           THEN /\ mon' = [mon EXCEPT !.state = "unknown", !.cf = 0]
                /\ RecordIfChanged("unknown", "location_change", pending.at)
           ELSE UNCHANGED <<mon, timeline>>
        /\ pending' = NoTx
        /\ UNCHANGED <<now, edits, thresholds, locEnabled, locDeleted, queue, verified,
                       results, nextId, wd, lastApplied>>

\* locations.Update: only the row; no monitor is re-aggregated.
UpdateLocation(l) ==
    /\ Administers
    /\ l \notin locDeleted
    /\ locEnabled' = (locEnabled \ {l}) \cup ({l} \ locEnabled)
    /\ UNCHANGED <<now, mon, selected, locDeleted, locState, pending, queue, verified, results,
                   nextId, wd, timeline, lastApplied, thresholds>>

Clamp(quorum, remaining) ==
    ClampLow(IF quorum < remaining THEN quorum ELSE remaining)

\* locations.Delete waits for the lock only of monitors that are members.
DeleteLocation(l, t) ==
    LET left == selected \ {l}
        resets == l \in selected /\ left = {}
    IN  /\ Administers
        /\ l \notin locDeleted
        /\ l \in selected => MonitorUnlocked
        /\ locDeleted' = locDeleted \cup {l}
        /\ selected' = left
        /\ locState' = KeepRows(Locations \ {l})
        /\ mon' = [mon EXCEPT !.quorum = IF l \in selected THEN Clamp(@, Cardinality(left)) ELSE @,
                              !.state = IF resets THEN "unknown" ELSE @,
                              !.cf = IF resets THEN 0 ELSE @]
        /\ IF resets THEN RecordIfChanged("unknown", "location_change", t)
                     ELSE UNCHANGED timeline
        /\ UNCHANGED <<now, locEnabled, pending, queue, verified, results, nextId, wd,
                       lastApplied, thresholds>>

Tick ==
    /\ now < MaxNow
    /\ now < LastInput \/ (queue = {} /\ ~HeartbeatDue)
    /\ now' = now + 1
    /\ UNCHANGED <<edits, thresholds, mon, adminVars, locState, queue, verified, results,
                   nextId, wd, timeline, lastApplied>>
-----------------------------------------------------------------------------
Reports ==
    \/ \E s \in Streams, status \in {"success", "failure"} : RunCheck(s, status)
    \/ \E s \in Streams : ExpireJob(s)
    \/ \E status \in {"success", "failure"} : ReceivePush(status)
    \/ \E id \in 0..nextId : ReceiveExport(id)
    \/ \E r \in queue : RequestFails(r)

Ingest ==
    \/ \E r \in queue, t \in TxStarts, acked \in BOOLEAN : HandleFleetResult(r, t, acked)
    \/ \E r \in queue, acked \in BOOLEAN : VerifyLocationResult(r, acked)
    \/ \E r \in verified, t \in TxStarts, acked \in BOOLEAN : HandleLocationResult(r, t, acked)
    \/ \E r \in verified : IngestFails(r)

Watchdog ==
    \/ ScanActive \/ ScanQuorum \/ ScanHeartbeat
    \/ \E t \in TxStarts : markMonitorUnknown(t)
    \/ \E t \in TxStarts : reaggregateMonitor(t)
    \/ \E t \in TxStarts : recordAbsence(t)
    \/ WatchdogAborts

Administration ==
    \/ \E b \in BOOLEAN, t \in TxStarts : SetEnabled(b, t)
    \/ DeleteMonitor
    \/ \E L \in SUBSET Locations, t \in TxStarts : SetLocationsBegin(L, t)
    \/ SetLocationsCommit
    \/ \E q \in {mon.quorum} \cup 1..Cardinality(Locations), th \in Thresholds, iv \in Intervals :
           UpdateMonitor(q, th, iv)
    \/ \E l \in Locations : UpdateLocation(l)
    \/ \E l \in Locations, t \in TxStarts : DeleteLocation(l, t)

Next == Reports \/ Ingest \/ Watchdog \/ Administration \/ Tick

Spec == Init /\ [][Next]_vars

\* What keeps running: the clock, deliveries until one is acknowledged, the
\* commit of an open transaction, and the watchdog, which retries every tick of
\* its ticker until a run gets through.
Fairness ==
    /\ WF_vars(Tick)
    /\ WF_vars(SetLocationsCommit)
    /\ SF_vars(\E r \in queue, t \in TxStarts : HandleFleetResult(r, t, TRUE))
    /\ SF_vars(\E r \in queue : VerifyLocationResult(r, TRUE))
    /\ SF_vars(\E r \in verified, t \in TxStarts : HandleLocationResult(r, t, TRUE))
    /\ WF_vars(ScanActive) /\ WF_vars(ScanQuorum) /\ WF_vars(ScanHeartbeat)
    /\ SF_vars(markMonitorUnknown(now))
    /\ SF_vars(reaggregateMonitor(now))
    /\ SF_vars(recordAbsence(now))

FairSpec == Spec /\ Fairness

-----------------------------------------------------------------------------
(* Properties.                                                             *)

\* Every path that moves current_state also writes the timeline in the same
\* transaction, and each interval starts where the previous one ended (S-U4).
TimelineAgrees ==
    /\ open.state = mon.state
    /\ open.start = closedAt

\* No interval ends before it starts, although NOW() is the transaction's start
\* and may precede that of the transaction it queued behind (S-U4).
TimelineMonotonic == [][closedAt' >= open.start]_timeline

\* State and failure count agree, under one of the thresholds in T each.
FailureCountMatches(st, cf, T) ==
    /\ st \in {"unknown", "up"} => cf = 0
    /\ st = "suspect" => cf >= 1 /\ \E th \in T : cf < ClampLow(th)
    /\ st \in {"down", "degraded"} => \E th \in T : cf >= ClampLow(th)

\* "down" (or "degraded") is only ever shown with a failure count that a threshold
\* of the monitor has confirmed, "suspect" with one that a threshold left open, and
\* "up" with none, whichever machine, aggregate or reset wrote the two columns last
\* (S-T1, S-T2, S-A9).  An edit of the threshold judges nothing again, so the
\* threshold need not be the one in force (UpdateMonitor).
ConfirmedState ==
    /\ FailureCountMatches(mon.state, mon.cf, thresholds)
    /\ \A l \in DOMAIN locState : FailureCountMatches(locState[l].state, locState[l].cf, thresholds)

FailingRows(s) == {r \in results : /\ r.loc = s /\ r.source = "monitor"
                                   /\ IsFailureStatus(r.status)}

\* Redelivery, expired jobs and races never count a failure that check_results
\* does not hold as a distinct observed row of the stream (S-E1, S-E3).
EvidenceBacked ==
    /\ \E s \in Streams : mon.cf <= Cardinality(FailingRows(s))
    /\ \A l \in DOMAIN locState : locState[l].cf <= Cardinality(FailingRows(l))

\* Failures of a location that check_results holds, enough for some threshold that
\* the monitor has had.
ConfirmedDown(l) ==
    \E th \in thresholds :
        Cardinality({r \in results' : /\ r.loc = l /\ r.source = "monitor"
                                      /\ IsFailureStatus(r.status)}) >= ClampLow(th)

\* The location's last word still counts, for a transaction that waited for its lock.
StillFresh(l) == l \in DOMAIN locState' /\ locState'[l].checkAt >= now - LockWait - Horizon

\* A bound monitor goes "down" only on the word of an effective quorum of its
\* live selected locations, each confirmed down by distinct results of its own and
\* heard of within the freshness horizon: one location seen twice, one still
\* confirming, one silent for too long, one just removed or disabled, or a quorum
\* lowered on the way never makes a quorum (S-A1, S-A3).
QuorumRespected ==
    [][Bound /\ mon'.state = "down" /\ mon.state # "down"
        => Cardinality({l \in selected \cap Live : ConfirmedDown(l) /\ StillFresh(l)})
             >= EffectiveQuorum([selected |-> Cardinality(selected \cap Live)], mon.quorum)]_mon

\* A location that is not selected has no state row, so a result in flight
\* while the set was edited can never bring one back (S-E4).
NoResurrectedRow == DOMAIN locState \subseteq selected

HasFreshEvidence ==
    IF Bound THEN FreshVoters(locState, now) # {} ELSE mon.lastResultAt >= now - Horizon

\* Evidence of a stream is applied in the order in which the checks started
\* (S-O2), over the whole life of the monitor for the fleet and for as long as the
\* location is selected and the monitor not paused, which deletes the row and its
\* watermark, for a location.
LateResultNeverApplied ==
    [][\A s \in {Fleet} \cup DOMAIN locState : lastApplied'[s] >= lastApplied[s]]_lastApplied

\* A pass of the watchdog makes the monitor unknown.
TurnsUnknown == wd # "idle" /\ wd' = "idle" /\ mon.state # "unknown" /\ mon'.state = "unknown"

\* The watchdog turns a monitor unknown only when the evidence it has is stale,
\* also when a result lands between its scan and its transaction (S-F2, S-T5); the
\* monitor that was bound to locations, or lost its last one, in between is the
\* exception that UnknownOnlyFromAbsence shows.
AbsenceOnlyWhenStale ==
    [][TurnsUnknown /\ (wd = "active" <=> ~Bound) => ~HasFreshEvidence]_vars

\* "`unknown` comes only from absence (S-F) or resets" (docs/state-semantics.md,
\* S-T5), whatever happened between the scan of the watchdog and its transaction.
UnknownOnlyFromAbsence == [][TurnsUnknown => ~HasFreshEvidence]_vars

\* Silence is noticed: an active monitor whose results stop ends up "unknown",
\* never frozen at its last state (S-F2, S-A10); a push or agent monitor that
\* goes silent is confirmed down, one synthetic failure per window (S-F4).
SilenceIsNoticed ==
    <>[](mon.enabled /\ ~mon.deleted
            => mon.state = IF mon.type = "active" THEN "unknown" ELSE "down")

\* Monitors are bound to live locations only.
BoundToLiveLocations == selected \cap locDeleted = {}

=============================================================================
