------------------------ MODULE MonitorPipelineProofs ------------------------
(***************************************************************************)
(* Theorems about MonitorPipeline for every set of locations, threshold,   *)
(* quorum, interval and bound: the types, the timeline, the location rows  *)
(* and the failure counts.  Init, the steps and the temporal conclusion    *)
(* are separate; the facts about Apply, the aggregate and the maximum that *)
(* the steps share are lemmas.                                             *)
(***************************************************************************)
EXTENDS MonitorPipeline, FiniteSetTheorems, TLAPS

-----------------------------------------------------------------------------
(* Facts about the operators.                                              *)

\* A finite nonempty set of naturals has a greatest element: a smallest
\* counterexample would lose its property by giving up one element.
LEMMA MaxExists ==
    ASSUME NEW S \in SUBSET Nat, IsFiniteSet(S), S # {}
    PROVE  \E n \in S : \A m \in S : m <= n
<1> DEFINE Bad == {U \in FiniteSubsetsOf(Nat) : U # {} /\ ~ \E n \in U : \A m \in U : m <= n}
<1>1. SUFFICES ASSUME Bad # {} PROVE FALSE
  BY DEF FiniteSubsetsOf
<1>2. IsWellFoundedOn(StrictSubsetOrdering(Nat), FiniteSubsetsOf(Nat))
  BY FS_StrictSubsetOrderingWellFounded
<1>3. Bad \subseteq FiniteSubsetsOf(Nat)
  OBVIOUS
<1>4. \E x \in Bad : \A y \in Bad : ~(<<y, x>> \in StrictSubsetOrdering(Nat))
  <2> HIDE DEF Bad
  <2> QED BY <1>1, <1>2, <1>3, WFMin
<1>5. PICK U \in Bad : \A y \in Bad : ~(<<y, U>> \in StrictSubsetOrdering(Nat))
  BY <1>4
<1>6. PICK x \in U : TRUE
  BY <1>5
<1>7. U \subseteq Nat /\ IsFiniteSet(U) /\ IsFiniteSet(U \ {x})
  BY <1>5, FS_RemoveElement DEF FiniteSubsetsOf
<1>8. <<U \ {x}, U>> \in StrictSubsetOrdering(Nat)
  BY <1>6, <1>7 DEF StrictSubsetOrdering
<1>9. U \ {x} \notin Bad
  BY <1>5, <1>8
<1>10. CASE U = {x}
  BY <1>5, <1>7, <1>10
<1>11. CASE U \ {x} # {}
  <2>1. PICK n \in U \ {x} : \A m \in U \ {x} : m <= n
    BY <1>7, <1>9, <1>11 DEF FiniteSubsetsOf
  <2>2. \E k \in U : \A m \in U : m <= k
    <3>1. CASE n <= x
      BY <2>1, <3>1, <1>6, <1>7
    <3>2. CASE ~(n <= x)
      BY <2>1, <3>2, <1>6, <1>7
    <3> QED BY <3>1, <3>2
  <2> QED BY <2>2, <1>5
<1> QED BY <1>6, <1>10, <1>11

\* What one result makes of a machine whose count matches its state: a stream
\* state, and again a count that matches.
LEMMA ApplyConfirms ==
    ASSUME NEW T \in SUBSET Nat, NEW th \in T, NEW st \in MonitorStates, NEW cf \in Nat,
           FailureCountMatches(st, cf, T), NEW fails \in BOOLEAN
    PROVE  LET tr == Apply([state |-> st, cf |-> cf], fails, th)
           IN  tr.to \in StreamStates /\ tr.cf \in Nat /\ FailureCountMatches(tr.to, tr.cf, T)
<1>1. \A n \in T : ClampLow(n) \in Nat \ {0}
  BY DEF ClampLow
<1> HIDE DEF ClampLow
<1>2. CASE fails
  <2>1. CASE st = "down" \/ cf + 1 >= ClampLow(th)
    BY <1>1, <1>2, <2>1 DEF Apply, ConsecutiveFailures, FailureCountMatches, MonitorStates, StreamStates
  <2>2. CASE ~(st = "down" \/ cf + 1 >= ClampLow(th))
    BY <1>1, <1>2, <2>2 DEF Apply, ConsecutiveFailures, FailureCountMatches, MonitorStates, StreamStates
  <2> QED BY <2>1, <2>2
<1>3. CASE ~fails
  BY <1>3 DEF Apply, ConsecutiveFailures, FailureCountMatches, MonitorStates, StreamStates
<1> QED BY <1>2, <1>3

\* The same without the counts: what the type invariant needs.
LEMMA ApplyType ==
    ASSUME NEW st \in MonitorStates, NEW cf \in Nat, NEW fails \in BOOLEAN, NEW th
    PROVE  LET tr == Apply([state |-> st, cf |-> cf], fails, th)
           IN  tr.to \in StreamStates /\ tr.cf \in Nat
BY DEF Apply, ConsecutiveFailures, MonitorStates, StreamStates

\* A result is a failure or it is not (IsFailureStatus).
LEMMA IsFailureType == \A status : IsFailureStatus(status) \in BOOLEAN
BY DEF IsFailureStatus

\* AggregateLocations returns a monitor state, whatever the counts.
LEMMA AggregateType ==
    ASSUME NEW c, NEW q PROVE AggregateLocations(c, q) \in MonitorStates
BY DEF AggregateLocations, MonitorStates

\* MAX(consecutive_failures) is one of the voters' counts, or 0, and bounds
\* them all.
LEMMA MaxFailuresIsMax ==
    ASSUME NEW rows, DOMAIN rows \subseteq Locations, rows \in [DOMAIN rows -> LocRow], NEW t
    PROVE  /\ MaxFailures(rows, t) \in Nat
           /\ \A l \in FreshVoters(rows, t) : rows[l].cf <= MaxFailures(rows, t)
           /\ \/ MaxFailures(rows, t) = 0
              \/ \E l \in FreshVoters(rows, t) : rows[l].cf = MaxFailures(rows, t)
<1> DEFINE V == FreshVoters(rows, t)
           img == {rows[l].cf : l \in V}
           counts == {0} \cup img
           f == [l \in V |-> rows[l].cf]
<1>1. V \subseteq DOMAIN rows /\ V \subseteq Locations
  BY DEF FreshVoters
<1>2. IsFiniteSet(V)
  BY <1>1, FS_Subset, PipelineAssumption
<1>3. f \in Surjection(V, img)
  BY DEF Surjection
<1>4. IsFiniteSet(img)
  <2> HIDE DEF f, img
  <2> QED BY <1>2, <1>3, FS_Surjection
<1>5. IsFiniteSet(counts) /\ counts # {}
  <2>1. counts = img \cup {0}
    OBVIOUS
  <2>2. IsFiniteSet(img \cup {0})
    <3> HIDE DEF img
    <3> QED BY <1>4, FS_AddElement
  <2> QED BY <2>1, <2>2
<1>6. counts \in SUBSET Nat
  BY <1>1 DEF LocRow
<1>7. \E n \in counts : \A m \in counts : m <= n
  <2> HIDE DEF counts
  <2> QED BY <1>5, <1>6, MaxExists
<1>8. MaxFailures(rows, t) = CHOOSE n \in counts : \A m \in counts : m <= n
  BY DEF MaxFailures
<1>9. MaxFailures(rows, t) \in counts /\ \A m \in counts : m <= MaxFailures(rows, t)
  <2> HIDE DEF counts
  <2> QED BY <1>7, <1>8
<1> QED BY <1>6, <1>9

-----------------------------------------------------------------------------
(* Types.                                                                  *)

\* The freshness horizon of the interval in force is a number of ticks.
LEMMA HorizonType == ASSUME TypeOK PROVE Horizon \in Int
BY FreshnessAssumption DEF Horizon, FreshnessHorizonSeconds, TypeOK

\* The NOW() of a transaction is a time.
LEMMA TxStartsType == ASSUME TypeOK, NEW t \in TxStarts PROVE t \in Nat
BY DEF TxStarts, TypeOK

\* RecordIntervalTx leaves a well-typed open interval.
LEMMA RecordIntervalType ==
    ASSUME TypeOK, NEW st \in MonitorStates, NEW reason \in Reasons, NEW t \in Nat,
           RecordIntervalTx(st, reason, t)
    PROVE  /\ open' \in [state : MonitorStates, reason : Reasons, start : Nat]
           /\ closedAt' \in Nat
BY DEF RecordIntervalTx, Later, TypeOK

\* So does the conditional write of Record and persistAtLocation.
LEMMA RecordIfChangedType ==
    ASSUME TypeOK, NEW st \in MonitorStates, NEW reason \in Reasons, NEW t \in Nat,
           RecordIfChanged(st, reason, t)
    PROVE  /\ open' \in [state : MonitorStates, reason : Reasons, start : Nat]
           /\ closedAt' \in Nat
BY RecordIntervalType DEF RecordIfChanged, timeline, TypeOK

\* A worker that publishes a result keeps every type.
LEMMA ReportType ==
    ASSUME TypeOK, NEW id \in Nat, NEW s \in Streams,
           NEW status \in {"success", "failure", "error"},
           NEW source \in {"monitor", "platform"}, Report(id, s, status, source)
    PROVE  TypeOK'
<1> DEFINE msg == [id |-> id, loc |-> s, status |-> status, source |-> source,
                   started |-> now, synthetic |-> FALSE]
<1>1. msg \in Message
  BY DEF TypeOK, Message
<1>2. queue' \in SUBSET Message /\ nextId' \in Nat
  <2>1. queue' = queue \cup {msg} /\ nextId' = nextId + 1
    BY DEF Report
  <2> HIDE DEF msg
  <2> QED BY <1>1, <2>1 DEF TypeOK
<1> QED BY <1>2 DEF Report, TypeOK, adminVars, timeline

\* The check_results row a message becomes is well typed.
LEMMA InsertResultType ==
    ASSUME TypeOK, NEW r \in Message, insertResult(r) PROVE results' \in SUBSET Message
BY DEF insertResult, TypeOK

MonType == [type : MonitorTypes, enabled : BOOLEAN, deleted : BOOLEAN, state : MonitorStates, cf : Nat,
            threshold : Nat, interval : Nat, quorum : Nat, lastResultAt : Nat, lastStarted : Nat \cup {Never}]

\* The variables that the ingest transactions write keep their types.
PersistType == /\ mon \in MonType
               /\ selected \in SUBSET Locations
               /\ locEnabled \in SUBSET Locations
               /\ locDeleted \in SUBSET Locations
               /\ pending \in [active : BOOLEAN, locs : SUBSET Locations, at : Nat]
               /\ DOMAIN locState \in SUBSET Locations
               /\ locState \in [DOMAIN locState -> LocRow]
               /\ results \in SUBSET Message
               /\ open \in [state : MonitorStates, reason : Reasons, start : Nat]
               /\ closedAt \in Nat
               /\ lastApplied \in [Streams -> Nat \cup {Never}]

\* Writing state and count into the monitors row keeps its type.
LEMMA StateWriteType ==
    ASSUME TypeOK, NEW st \in MonitorStates, NEW cf \in Nat
    PROVE  [mon EXCEPT !.state = st, !.cf = cf] \in MonType
BY DEF TypeOK, MonType

\* Record keeps the types of what it writes, applied or history only.
LEMMA RecordType ==
    ASSUME TypeOK, NEW r \in Message, r.loc = Fleet, NEW t \in Nat, Record(r, t)
    PROVE  PersistType'
<1> DEFINE tr == Apply([state |-> mon.state, cf |-> mon.cf], IsFailureStatus(r.status), mon.threshold)
<1>1. tr.to \in MonitorStates /\ tr.cf \in Nat
  <2>1. mon.state \in MonitorStates /\ mon.cf \in Nat
    BY DEF TypeOK
  <2> QED BY <2>1, IsFailureType, ApplyType DEF StreamStates
<1>2. results' \in SUBSET Message
  BY InsertResultType DEF Record
<1>3. UNCHANGED <<selected, locEnabled, locDeleted, pending, locState>>
  BY DEF Record, adminVars
<1>4. CASE Applies(r)
  <2> HIDE DEF tr
  <2>1. /\ mon' = [mon EXCEPT !.state = tr.to, !.cf = tr.cf, !.lastResultAt = t,
                              !.lastStarted = IF r.synthetic THEN @ ELSE r.started]
        /\ RecordIfChanged(tr.to, "result", t)
        /\ lastApplied' = IF r.synthetic THEN lastApplied
                                  ELSE [lastApplied EXCEPT ![Fleet] = r.started]
    BY <1>4 DEF Record, tr
  <2>2. mon' \in MonType
    BY <1>1, <2>1 DEF TypeOK, MonType, Message
  <2>3. open' \in [state : MonitorStates, reason : Reasons, start : Nat] /\ closedAt' \in Nat
    BY <1>1, <2>1, RecordIfChangedType DEF Reasons
  <2>4. lastApplied' \in [Streams -> Nat \cup {Never}]
    BY <2>1 DEF TypeOK, Message
  <2> QED BY <1>2, <1>3, <2>2, <2>3, <2>4 DEF TypeOK, PersistType
<1>5. CASE ~Applies(r)
  BY <1>2, <1>3, <1>5 DEF Record, TypeOK, PersistType, MonType, timeline
<1> QED BY <1>4, <1>5

\* A location's row is written with a stream state, and the rows stay a
\* function on locations.
LEMMA UpsertType ==
    ASSUME TypeOK, NEW l \in Locations, NEW row \in LocRow
    PROVE  LET rows == UpsertLocState(l, row)
           IN  /\ DOMAIN rows = DOMAIN locState \cup {l}
               /\ DOMAIN rows \in SUBSET Locations
               /\ rows \in [DOMAIN rows -> LocRow]
               /\ rows[l] = row
               /\ \A x \in DOMAIN locState \ {l} : rows[x] = locState[x]
BY DEF TypeOK, UpsertLocState

\* The snapshot read for a location, or the fresh one, is a stream snapshot.
LEMMA LocSnapshotType ==
    ASSUME TypeOK, NEW l \in Locations
    PROVE  LocSnapshot(l).state \in StreamStates /\ LocSnapshot(l).cf \in Nat
<1>1. CASE l \in DOMAIN locState
  <2>1. locState[l] \in LocRow
    BY <1>1 DEF TypeOK
  <2> QED BY <1>1, <2>1 DEF LocSnapshot, LocRow
<1>2. CASE l \notin DOMAIN locState
  BY <1>2 DEF LocSnapshot, StreamStates, MonitorStates
<1> QED BY <1>1, <1>2

\* persistAtLocation keeps the types of what it writes.
LEMMA PersistAtLocationType ==
    ASSUME TypeOK, NEW r \in Message, r.loc \in Locations, NEW t \in Nat,
           persistAtLocation(r, t)
    PROVE  PersistType'
<1> DEFINE snap == LocSnapshot(r.loc)
           tr == Apply([state |-> snap.state, cf |-> snap.cf], IsFailureStatus(r.status), mon.threshold)
           row == [state |-> tr.to, cf |-> tr.cf, checkAt |-> t, started |-> r.started]
           rows == UpsertLocState(r.loc, row)
           st == AggregateLocations(LoadFreshLocationCounts(rows, t), mon.quorum)
<1>1. tr.to \in StreamStates /\ tr.cf \in Nat
  <2>1. snap.state \in MonitorStates /\ snap.cf \in Nat
    BY LocSnapshotType DEF StreamStates
  <2> HIDE DEF snap
  <2> QED BY <2>1, IsFailureType, ApplyType
<1>2. row \in LocRow
  <2> HIDE DEF tr
  <2> QED BY <1>1 DEF LocRow, Message
<1>3. DOMAIN rows \in SUBSET Locations /\ rows \in [DOMAIN rows -> LocRow]
  <2> HIDE DEF row
  <2> QED BY <1>2, UpsertType
<1>4. st \in MonitorStates
  BY AggregateType
<1>5. MaxFailures(rows, t) \in Nat
  <2> HIDE DEF rows
  <2> QED BY <1>3, MaxFailuresIsMax
<1>6. results' \in SUBSET Message
  BY InsertResultType DEF persistAtLocation
<1>7. UNCHANGED <<selected, locEnabled, locDeleted, pending>>
  BY DEF persistAtLocation, adminVars
<1>8. CASE AppliesAtLocation(r)
  <2>1. /\ locState' = rows
        /\ mon' = [mon EXCEPT !.state = st, !.cf = MaxFailures(rows, t), !.lastResultAt = t]
        /\ RecordIfChanged(st, "result", t)
        /\ lastApplied' = [lastApplied EXCEPT ![r.loc] = r.started]
    BY <1>8 DEF persistAtLocation
  <2> HIDE DEF rows, st
  <2>2. mon' \in MonType
    BY <1>4, <1>5, <2>1 DEF TypeOK, MonType
  <2>3. open' \in [state : MonitorStates, reason : Reasons, start : Nat] /\ closedAt' \in Nat
    BY <1>4, <2>1, RecordIfChangedType DEF Reasons
  <2>4. lastApplied' \in [Streams -> Nat \cup {Never}]
    BY <2>1 DEF TypeOK, Message
  <2> QED BY <1>3, <1>6, <1>7, <2>1, <2>2, <2>3, <2>4 DEF TypeOK, PersistType
<1>9. CASE ~AppliesAtLocation(r)
  BY <1>6, <1>7, <1>9 DEF persistAtLocation, TypeOK, PersistType, MonType, timeline
<1> QED BY <1>8, <1>9

\* persist, by whichever path the message takes, keeps every type.
LEMMA PersistKeepsType ==
    ASSUME TypeOK, NEW r \in Message, NEW t \in Nat, persist(r, t)
    PROVE  PersistType'
<1>1. CASE r.source = "platform"
  <2>1. InsertOnly(r)
    BY <1>1 DEF persist
  <2>2. results' \in SUBSET Message
    BY <2>1, InsertResultType DEF InsertOnly
  <2> QED BY <2>1, <2>2 DEF InsertOnly, TypeOK, PersistType, MonType, adminVars, timeline
<1>2. CASE r.source # "platform" /\ r.loc = Fleet
  BY <1>2, RecordType DEF persist
<1>3. CASE r.source # "platform" /\ r.loc # Fleet
  <2>1. r.loc \in Locations
    BY <1>3 DEF Message, Streams
  <2> QED BY <1>3, <2>1, PersistAtLocationType DEF persist
<1> QED BY <1>1, <1>2, <1>3

\* A monitor just created is well typed.
LEMMA TypeInit == Init => TypeOK
BY PipelineAssumption
   DEF Init, TypeOK, MonitorStates, NoTx, Reasons, Never, Streams, LocRow

\* Checks, expired jobs, pushes and agent exports keep every type.
LEMMA ReportsType == ASSUME TypeOK, Reports PROVE TypeOK'
<1>0. nextId \in Nat
  BY DEF TypeOK
<1>1. ASSUME NEW s \in Streams, NEW status \in {"success", "failure"}, RunCheck(s, status)
      PROVE  TypeOK'
  BY <1>0, <1>1, ReportType DEF RunCheck
<1>2. ASSUME NEW s \in Streams, ExpireJob(s) PROVE TypeOK'
  BY <1>0, <1>2, ReportType DEF ExpireJob
<1>3. ASSUME NEW status \in {"success", "failure"}, ReceivePush(status) PROVE TypeOK'
  BY <1>0, <1>3, ReportType DEF ReceivePush, Streams
<1>4. ASSUME NEW id \in 0..nextId, ReceiveExport(id) PROVE TypeOK'
  <2>1. id \in Nat
    BY <1>0
  <2> QED BY <1>4, <2>1, ReportType DEF ReceiveExport, Streams
<1>5. ASSUME NEW r \in queue, RequestFails(r) PROVE TypeOK'
  BY <1>5 DEF RequestFails, TypeOK, adminVars, timeline
<1> QED BY <1>1, <1>2, <1>3, <1>4, <1>5 DEF Reports

\* Every step of the results ingest keeps every type.
LEMMA IngestType == ASSUME TypeOK, Ingest PROVE TypeOK'
<1>1. ASSUME NEW r \in queue, NEW t \in TxStarts, NEW acked \in BOOLEAN,
             HandleFleetResult(r, t, acked)
      PROVE  TypeOK'
  <2>1. r \in Message /\ t \in Nat
    BY TxStartsType DEF TypeOK
  <2>2. PersistType'
    BY <1>1, <2>1, PersistKeepsType DEF HandleFleetResult
  <2>3. queue' \in SUBSET Message
    BY <1>1 DEF HandleFleetResult, Acknowledge, TypeOK
  <2> QED BY <1>1, <2>2, <2>3 DEF HandleFleetResult, PersistType, MonType, TypeOK
<1>2. ASSUME NEW r \in queue, NEW acked \in BOOLEAN, VerifyLocationResult(r, acked)
      PROVE  TypeOK'
  <2>1. queue' \in SUBSET Message /\ verified' \in SUBSET Message
    BY <1>2 DEF VerifyLocationResult, Acknowledge, TypeOK
  <2> QED BY <1>2, <2>1 DEF VerifyLocationResult, TypeOK, adminVars, timeline
<1>3. ASSUME NEW r \in verified, NEW t \in TxStarts, NEW acked \in BOOLEAN,
             HandleLocationResult(r, t, acked)
      PROVE  TypeOK'
  <2>1. r \in Message /\ t \in Nat
    BY TxStartsType DEF TypeOK
  <2>2. PersistType'
    BY <1>3, <2>1, PersistKeepsType DEF HandleLocationResult
  <2>3. queue' \in SUBSET Message /\ verified' \in SUBSET Message
    BY <1>3 DEF HandleLocationResult, Acknowledge, TypeOK
  <2> QED BY <1>3, <2>2, <2>3 DEF HandleLocationResult, PersistType, MonType, TypeOK
<1>4. ASSUME NEW r \in verified, IngestFails(r) PROVE TypeOK'
  BY <1>4 DEF IngestFails, TypeOK, adminVars, timeline
<1> QED BY <1>1, <1>2, <1>3, <1>4 DEF Ingest

\* Every scan and transaction of the watchdog keeps every type.
LEMMA WatchdogType == ASSUME TypeOK, Watchdog PROVE TypeOK'
<1>1. ASSUME NEW pass \in {"active", "quorum", "heartbeat"}, Scan(pass) PROVE TypeOK'
  BY <1>1 DEF Scan, TypeOK, adminVars, timeline
<1>2. CASE ScanActive \/ ScanQuorum \/ ScanHeartbeat
  BY <1>1, <1>2 DEF ScanActive, ScanQuorum, ScanHeartbeat
<1>3. ASSUME NEW t \in TxStarts, markMonitorUnknown(t) PROVE TypeOK'
  <2>1. t \in Nat
    BY TxStartsType
  <2>2. CASE MarksUnknown(t)
    <3>1. mon' \in MonType
      <4>1. mon' = [mon EXCEPT !.state = "unknown", !.cf = 0]
        BY <1>3, <2>2 DEF markMonitorUnknown
      <4> QED BY <4>1, StateWriteType DEF MonitorStates
    <3>2. open' \in [state : MonitorStates, reason : Reasons, start : Nat] /\ closedAt' \in Nat
      <4>1. RecordIntervalTx("unknown", "watchdog_stale", t)
        BY <1>3, <2>2 DEF markMonitorUnknown
      <4> QED BY <2>1, <4>1, RecordIntervalType DEF Reasons, MonitorStates
    <3> QED BY <1>3, <3>1, <3>2 DEF markMonitorUnknown, WatchdogDone, TypeOK, MonType, adminVars
  <2>3. CASE ~MarksUnknown(t)
    BY <1>3, <2>3 DEF markMonitorUnknown, WatchdogDone, TypeOK, adminVars, timeline
  <2> QED BY <2>2, <2>3
<1>4. ASSUME NEW t \in TxStarts, reaggregateMonitor(t) PROVE TypeOK'
  <2> DEFINE st == AggregateLocations(LoadFreshLocationCounts(locState, t), mon.quorum)
  <2>1. t \in Nat /\ st \in MonitorStates /\ MaxFailures(locState, t) \in Nat
    BY TxStartsType, AggregateType, MaxFailuresIsMax DEF TypeOK
  <2>2. CASE mon.enabled /\ ~mon.deleted /\ st # mon.state
    <3>1. /\ mon' = [mon EXCEPT !.state = st, !.cf = MaxFailures(locState, t)]
          /\ RecordIntervalTx(st, "watchdog_stale", t)
      BY <1>4, <2>2 DEF reaggregateMonitor
    <3> HIDE DEF st
    <3>2. mon' \in MonType
      BY <2>1, <3>1 DEF TypeOK, MonType
    <3>3. open' \in [state : MonitorStates, reason : Reasons, start : Nat] /\ closedAt' \in Nat
      BY <2>1, <3>1, RecordIntervalType DEF Reasons
    <3> QED BY <1>4, <3>2, <3>3 DEF reaggregateMonitor, WatchdogDone, TypeOK, MonType, adminVars
  <2>3. CASE ~(mon.enabled /\ ~mon.deleted /\ st # mon.state)
    BY <1>4, <2>3 DEF reaggregateMonitor, WatchdogDone, TypeOK, adminVars, timeline
  <2> QED BY <2>2, <2>3
<1>5. ASSUME NEW t \in TxStarts, recordAbsence(t) PROVE TypeOK'
  <2> DEFINE msg == [id |-> nextId, loc |-> Fleet, status |-> "failure", source |-> "monitor",
                     started |-> now, synthetic |-> TRUE]
  <2>1. msg \in Message /\ msg.loc = Fleet
    BY DEF TypeOK, Message, Streams
  <2>2. Record(msg, t)
    BY <1>5 DEF recordAbsence
  <2>3. PersistType'
    <3> HIDE DEF msg
    <3> QED BY <2>1, <2>2, TxStartsType, RecordType
  <2> QED BY <1>5, <2>3 DEF recordAbsence, PersistType, MonType, TypeOK
<1>6. CASE WatchdogAborts
  BY <1>6 DEF WatchdogAborts, WatchdogDone, TypeOK, adminVars, timeline
<1> QED BY <1>2, <1>3, <1>4, <1>5, <1>6 DEF Watchdog

\* The rows SetLocations keeps are rows of the new set.
LEMMA KeepRowsType ==
    ASSUME TypeOK, NEW S
    PROVE  /\ DOMAIN KeepRows(S) \in SUBSET Locations
           /\ KeepRows(S) \in [DOMAIN KeepRows(S) -> LocRow]
BY DEF TypeOK, KeepRows

\* Pause, deletion and every edit of locations keep every type.
LEMMA AdministrationType == ASSUME TypeOK, Administration PROVE TypeOK'
<1> USE DEF Administers
<1>1. ASSUME NEW b \in BOOLEAN, NEW t \in TxStarts, SetEnabled(b, t) PROVE TypeOK'
  <2>1. t \in Nat /\ edits' \in Nat
    BY <1>1, TxStartsType DEF SetEnabled, TypeOK
  <2>2. mon' \in MonType
    BY <1>1 DEF SetEnabled, TypeOK, MonType, MonitorStates
  <2>3. DOMAIN locState' \in SUBSET Locations /\ locState' \in [DOMAIN locState' -> LocRow]
    BY <1>1 DEF SetEnabled
  <2>4. open' \in [state : MonitorStates, reason : Reasons, start : Nat] /\ closedAt' \in Nat
    <3>1. PICK why \in {"resume", "pause"} : RecordIntervalTx("unknown", why, t)
      BY <1>1 DEF SetEnabled
    <3> QED BY <2>1, <3>1, RecordIntervalType DEF Reasons, MonitorStates
  <2> QED BY <1>1, <2>1, <2>2, <2>3, <2>4 DEF SetEnabled, TypeOK, MonType, adminVars
<1>2. CASE DeleteMonitor
  <2>1. mon' \in MonType /\ edits' \in Nat
    <3>1. mon' = [mon EXCEPT !.deleted = TRUE]
      BY <1>2 DEF DeleteMonitor
    <3>2. mon' \in MonType
      BY <3>1 DEF TypeOK, MonType
    <3> QED BY <1>2, <3>2 DEF DeleteMonitor, TypeOK
  <2> QED BY <1>2, <2>1 DEF DeleteMonitor, TypeOK, MonType, adminVars, timeline
<1>3. ASSUME NEW L \in SUBSET Locations, NEW t \in TxStarts, SetLocationsBegin(L, t)
      PROVE  TypeOK'
  <2>1. pending' \in [active : BOOLEAN, locs : SUBSET Locations, at : Nat] /\ edits' \in Nat
    BY <1>3, TxStartsType DEF SetLocationsBegin, TypeOK
  <2> QED BY <1>3, <2>1 DEF SetLocationsBegin, TypeOK, timeline
<1>4. CASE SetLocationsCommit
  <2>1. pending.locs \in SUBSET Locations /\ pending.at \in Nat
    BY DEF TypeOK
  <2>2. DOMAIN locState' \in SUBSET Locations /\ locState' \in [DOMAIN locState' -> LocRow]
    BY <1>4, KeepRowsType DEF SetLocationsCommit
  <2>3. pending' \in [active : BOOLEAN, locs : SUBSET Locations, at : Nat]
    BY <1>4 DEF SetLocationsCommit, NoTx
  <2>4. CASE pending.locs = {}
    <3>1. RecordIfChanged("unknown", "location_change", pending.at)
      BY <1>4, <2>4 DEF SetLocationsCommit
    <3>2. open' \in [state : MonitorStates, reason : Reasons, start : Nat] /\ closedAt' \in Nat
      BY <2>1, <3>1, RecordIfChangedType DEF Reasons, MonitorStates
    <3>3. mon' \in MonType
      <4>1. mon' = [mon EXCEPT !.state = "unknown", !.cf = 0]
        BY <1>4, <2>4 DEF SetLocationsCommit
      <4> QED BY <4>1, StateWriteType DEF MonitorStates
    <3> QED BY <1>4, <2>1, <2>2, <2>3, <3>2, <3>3 DEF SetLocationsCommit, TypeOK, MonType
  <2>5. CASE pending.locs # {}
    BY <1>4, <2>1, <2>2, <2>3, <2>5 DEF SetLocationsCommit, TypeOK, timeline
  <2> QED BY <2>4, <2>5
<1>5. ASSUME NEW q \in {mon.quorum} \cup 1..Cardinality(Locations),
             NEW th \in Thresholds, NEW iv \in Intervals, UpdateMonitor(q, th, iv)
      PROVE  TypeOK'
  <2>1. Cardinality(Locations) \in Nat /\ th \in Nat /\ iv \in Nat
    BY PipelineAssumption, FS_CardinalityType
  <2>2. q \in Nat
    BY <2>1 DEF TypeOK
  <2>3. mon' \in MonType
    <3>1. mon' = [mon EXCEPT !.quorum = q, !.threshold = th, !.interval = iv]
      BY <1>5 DEF UpdateMonitor
    <3>2. mon \in MonType
      BY DEF TypeOK, MonType
    <3> QED BY <2>1, <2>2, <3>1, <3>2 DEF MonType
  <2>4. edits' \in Nat /\ thresholds' \in SUBSET Nat
    BY <1>5, <2>1 DEF UpdateMonitor, Administers, TypeOK
  <2> QED BY <1>5, <2>3, <2>4 DEF UpdateMonitor, TypeOK, MonType, adminVars, timeline
<1>6. ASSUME NEW l \in Locations, UpdateLocation(l) PROVE TypeOK'
  <2>1. locEnabled' \in SUBSET Locations /\ edits' \in Nat
    BY <1>6 DEF UpdateLocation, TypeOK
  <2> QED BY <1>6, <2>1 DEF UpdateLocation, TypeOK, timeline
<1>7. ASSUME NEW l \in Locations, NEW t \in TxStarts, DeleteLocation(l, t) PROVE TypeOK'
  <2> DEFINE left == selected \ {l}
             resets == l \in selected /\ left = {}
             st == IF resets THEN "unknown" ELSE mon.state
             cf == IF resets THEN 0 ELSE mon.cf
             quorum == IF l \in selected THEN Clamp(mon.quorum, Cardinality(left)) ELSE mon.quorum
  <2>1. t \in Nat
    BY TxStartsType
  <2>2. Cardinality(left) \in Nat
    BY PipelineAssumption, FS_Subset, FS_CardinalityType DEF TypeOK
  <2>3. quorum \in Nat
    <3> HIDE DEF left
    <3> QED BY <2>2 DEF Clamp, ClampLow, TypeOK
  <2>4. st \in MonitorStates /\ cf \in Nat
    BY DEF TypeOK, MonitorStates
  <2>5. mon' = [mon EXCEPT !.quorum = quorum, !.state = st, !.cf = cf]
    BY <1>7 DEF DeleteLocation
  <2>6. mon' \in MonType
    <3> HIDE DEF st, cf, quorum
    <3> QED BY <2>3, <2>4, <2>5 DEF TypeOK, MonType
  <2>7. open' \in [state : MonitorStates, reason : Reasons, start : Nat] /\ closedAt' \in Nat
    <3>1. CASE resets
      <4>1. RecordIfChanged("unknown", "location_change", t)
        BY <1>7, <3>1 DEF DeleteLocation
      <4> QED BY <2>1, <4>1, RecordIfChangedType DEF Reasons, MonitorStates
    <3>2. CASE ~resets
      BY <1>7, <3>2 DEF DeleteLocation, timeline, TypeOK
    <3> QED BY <3>1, <3>2
  <2>8. DOMAIN locState' \in SUBSET Locations /\ locState' \in [DOMAIN locState' -> LocRow]
    BY <1>7, KeepRowsType DEF DeleteLocation
  <2>9. locDeleted' \in SUBSET Locations /\ selected' \in SUBSET Locations /\ edits' \in Nat
    BY <1>7 DEF DeleteLocation, TypeOK
  <2> QED BY <1>7, <2>6, <2>7, <2>8, <2>9 DEF DeleteLocation, TypeOK, MonType
<1> QED BY <1>1, <1>2, <1>3, <1>4, <1>5, <1>6, <1>7 DEF Administration

\* The type invariant is inductive by itself.
LEMMA TypeStep == TypeOK /\ [Next]_vars => TypeOK'
<1> SUFFICES ASSUME TypeOK, [Next]_vars PROVE TypeOK'
  OBVIOUS
<1>1. CASE Tick
  BY <1>1 DEF Tick, TypeOK, adminVars, timeline
<1>2. CASE UNCHANGED vars
  BY <1>2 DEF vars, TypeOK, adminVars, timeline
<1> QED BY <1>1, <1>2, ReportsType, IngestType, WatchdogType, AdministrationType DEF Next

\* Every row of the monitor's tables keeps its type: in particular a location
\* row never becomes "degraded" (the schema refuses it) and no count or
\* timestamp leaves its range.
THEOREM TypeCorrect == Spec => []TypeOK
BY TypeInit, TypeStep, PTL DEF Spec

-----------------------------------------------------------------------------
(* The timeline.  TimelineAgrees is inductive given the types; each way of *)
(* writing an interval establishes it and moves the end forward.           *)

\* What one step may do to the state and the timeline.
TimelineMove == TimelineAgrees' /\ (UNCHANGED timeline \/ closedAt' >= open.start)

\* RecordIntervalTx moves the timeline forward, to the state it is given.
LEMMA IntervalMove ==
    ASSUME TypeOK, NEW st, NEW reason, NEW t \in Nat, RecordIntervalTx(st, reason, t),
           mon'.state = st
    PROVE  TimelineMove
BY DEF RecordIntervalTx, Later, TimelineMove, TimelineAgrees, TypeOK

\* A write of the state with its conditional interval keeps the two together.
LEMMA ChangeMove ==
    ASSUME TypeOK, TimelineAgrees, NEW st, NEW reason, NEW t \in Nat,
           RecordIfChanged(st, reason, t), mon'.state = st
    PROVE  TimelineMove
<1>1. CASE st # mon.state
  BY <1>1, IntervalMove DEF RecordIfChanged
<1>2. CASE st = mon.state
  BY <1>2 DEF RecordIfChanged, TimelineMove, TimelineAgrees, timeline
<1> QED BY <1>1, <1>2

\* A step that writes neither state nor timeline keeps the two together.
LEMMA QuietMove ==
    ASSUME TimelineAgrees, UNCHANGED timeline, mon'.state = mon.state PROVE TimelineMove
BY DEF TimelineMove, TimelineAgrees, timeline

\* The state column holds what was written to it.
LEMMA StateWritten ==
    ASSUME TypeOK, NEW st, NEW cf PROVE [mon EXCEPT !.state = st, !.cf = cf].state = st
BY DEF TypeOK

\* Record moves state and timeline together.
LEMMA RecordMove ==
    ASSUME TypeOK, TimelineAgrees, NEW r, NEW t \in Nat, Record(r, t) PROVE TimelineMove
<1> DEFINE tr == Apply([state |-> mon.state, cf |-> mon.cf], IsFailureStatus(r.status), mon.threshold)
<1>1. CASE Applies(r)
  <2>1. /\ mon' = [mon EXCEPT !.state = tr.to, !.cf = tr.cf, !.lastResultAt = t,
                              !.lastStarted = IF r.synthetic THEN @ ELSE r.started]
        /\ RecordIfChanged(tr.to, "result", t)
    BY <1>1 DEF Record
  <2> HIDE DEF tr
  <2>2. mon'.state = tr.to
    BY <2>1 DEF TypeOK
  <2> QED BY <2>1, <2>2, ChangeMove
<1>2. CASE ~Applies(r)
  BY <1>2, QuietMove DEF Record
<1> QED BY <1>1, <1>2

\* persistAtLocation moves the aggregate and the timeline together.
LEMMA PersistAtLocationMove ==
    ASSUME TypeOK, TimelineAgrees, NEW r, NEW t \in Nat, persistAtLocation(r, t)
    PROVE  TimelineMove
<1>1. CASE AppliesAtLocation(r)
  <2>1. PICK st, n : /\ mon' = [mon EXCEPT !.state = st, !.cf = n, !.lastResultAt = t]
                     /\ RecordIfChanged(st, "result", t)
    BY <1>1 DEF persistAtLocation
  <2>2. mon'.state = st
    BY <2>1 DEF TypeOK
  <2> QED BY <2>1, <2>2, ChangeMove
<1>2. CASE ~AppliesAtLocation(r)
  BY <1>2, QuietMove DEF persistAtLocation
<1> QED BY <1>1, <1>2

\* persist moves state and timeline together on each of its paths.
LEMMA PersistMove ==
    ASSUME TypeOK, TimelineAgrees, NEW r, NEW t \in Nat, persist(r, t) PROVE TimelineMove
BY RecordMove, PersistAtLocationMove, QuietMove DEF persist, InsertOnly

\* Every step keeps the timeline in agreement and moves it only forward.
LEMMA TimelineStep ==
    ASSUME TypeOK, TimelineAgrees, [Next]_vars PROVE TimelineMove
<1> USE TxStartsType
<1>1. CASE Reports
  BY <1>1, QuietMove DEF Reports, RunCheck, ExpireJob, ReceivePush, ReceiveExport, RequestFails, Report
<1>2. CASE Ingest
  <2>1. ASSUME NEW r, NEW t \in TxStarts, persist(r, t) PROVE TimelineMove
    BY <2>1, PersistMove
  <2>2. ASSUME NEW r, NEW acked, VerifyLocationResult(r, acked) \/ IngestFails(r)
        PROVE  TimelineMove
    BY <2>2, QuietMove DEF VerifyLocationResult, IngestFails
  <2> QED BY <1>2, <2>1, <2>2 DEF Ingest, HandleFleetResult, HandleLocationResult
<1>3. CASE Watchdog
  <2>1. CASE ScanActive \/ ScanQuorum \/ ScanHeartbeat \/ WatchdogAborts
    BY <2>1, QuietMove DEF ScanActive, ScanQuorum, ScanHeartbeat, Scan, WatchdogAborts
  <2>2. ASSUME NEW t \in TxStarts, markMonitorUnknown(t) PROVE TimelineMove
    <3>1. CASE MarksUnknown(t)
      <4>1. /\ mon' = [mon EXCEPT !.state = "unknown", !.cf = 0]
            /\ RecordIntervalTx("unknown", "watchdog_stale", t)
        BY <2>2, <3>1 DEF markMonitorUnknown
      <4> QED BY <4>1, StateWritten, IntervalMove
    <3>2. CASE ~MarksUnknown(t)
      BY <2>2, <3>2, QuietMove DEF markMonitorUnknown
    <3> QED BY <3>1, <3>2
  <2>3. ASSUME NEW t \in TxStarts, reaggregateMonitor(t) PROVE TimelineMove
    <3> DEFINE st == AggregateLocations(LoadFreshLocationCounts(locState, t), mon.quorum)
    <3>1. CASE mon.enabled /\ ~mon.deleted /\ st # mon.state
      <4>1. /\ mon' = [mon EXCEPT !.state = st, !.cf = MaxFailures(locState, t)]
            /\ RecordIntervalTx(st, "watchdog_stale", t)
        BY <2>3, <3>1 DEF reaggregateMonitor
      <4> HIDE DEF st
      <4> QED BY <4>1, StateWritten, IntervalMove
    <3>2. CASE ~(mon.enabled /\ ~mon.deleted /\ st # mon.state)
      BY <2>3, <3>2, QuietMove DEF reaggregateMonitor
    <3> QED BY <3>1, <3>2
  <2>4. ASSUME NEW t \in TxStarts, recordAbsence(t) PROVE TimelineMove
    BY <2>4, RecordMove DEF recordAbsence
  <2> QED BY <1>3, <2>1, <2>2, <2>3, <2>4 DEF Watchdog
<1>4. CASE Administration
  <2>1. ASSUME NEW b \in BOOLEAN, NEW t \in TxStarts, SetEnabled(b, t) PROVE TimelineMove
    <3>1. PICK why : RecordIntervalTx("unknown", why, t)
      BY <2>1 DEF SetEnabled
    <3>2. mon'.state = "unknown"
      BY <2>1 DEF SetEnabled, TypeOK
    <3> QED BY <3>1, <3>2, IntervalMove
  <2>2. CASE DeleteMonitor
    <3>1. mon' = [mon EXCEPT !.deleted = TRUE] /\ UNCHANGED timeline
      BY <2>2 DEF DeleteMonitor
    <3>2. mon'.state = mon.state
      BY <3>1 DEF TypeOK
    <3> QED BY <3>1, <3>2, QuietMove
  <2>3. ASSUME NEW L, NEW t, SetLocationsBegin(L, t) PROVE TimelineMove
    BY <2>3, QuietMove DEF SetLocationsBegin
  <2>4. CASE SetLocationsCommit
    <3>1. CASE pending.locs = {}
      <4>1. /\ mon' = [mon EXCEPT !.state = "unknown", !.cf = 0]
            /\ RecordIfChanged("unknown", "location_change", pending.at)
        BY <2>4, <3>1 DEF SetLocationsCommit
      <4>2. pending.at \in Nat
        BY DEF TypeOK
      <4> QED BY <4>1, <4>2, StateWritten, ChangeMove
    <3>2. CASE pending.locs # {}
      BY <2>4, <3>2, QuietMove DEF SetLocationsCommit
    <3> QED BY <3>1, <3>2
  <2>5. ASSUME NEW q, NEW th, NEW iv, UpdateMonitor(q, th, iv) PROVE TimelineMove
    <3>1. mon' = [mon EXCEPT !.quorum = q, !.threshold = th, !.interval = iv] /\ UNCHANGED timeline
      BY <2>5 DEF UpdateMonitor
    <3>2. mon'.state = mon.state
      BY <3>1 DEF TypeOK
    <3> QED BY <3>1, <3>2, QuietMove
  <2>6. ASSUME NEW l, UpdateLocation(l) PROVE TimelineMove
    BY <2>6, QuietMove DEF UpdateLocation
  <2>7. ASSUME NEW l \in Locations, NEW t \in TxStarts, DeleteLocation(l, t) PROVE TimelineMove
    <3> DEFINE resets == l \in selected /\ selected \ {l} = {}
    <3>1. PICK q, cf : mon' = [mon EXCEPT !.quorum = q,
                                          !.state = IF resets THEN "unknown" ELSE mon.state,
                                          !.cf = cf]
      BY <2>7 DEF DeleteLocation
    <3>2. mon'.state = IF resets THEN "unknown" ELSE mon.state
      BY <3>1 DEF TypeOK
    <3>3. CASE resets
      <4>1. RecordIfChanged("unknown", "location_change", t)
        BY <2>7, <3>3 DEF DeleteLocation
      <4> QED BY <3>2, <3>3, <4>1, ChangeMove
    <3>4. CASE ~resets
      BY <2>7, <3>2, <3>4, QuietMove DEF DeleteLocation
    <3> QED BY <3>3, <3>4, SMTT(30)
  <2> QED BY <1>4, <2>1, <2>2, <2>3, <2>4, <2>5, <2>6, <2>7 DEF Administration
<1>5. CASE Tick \/ UNCHANGED vars
  BY <1>5, QuietMove DEF Tick, vars
<1> QED BY <1>1, <1>2, <1>3, <1>4, <1>5 DEF Next

\* Whatever order the ingest, the watchdog and the API take the row lock in,
\* the open interval always shows the monitor's current state and starts where
\* the one before it ended: the timeline has no gap and no overlap.
THEOREM TimelineAlwaysAgrees == Spec => []TimelineAgrees
<1>1. Init => TimelineAgrees
  BY DEF Init, TimelineAgrees
<1>2. TypeOK /\ TimelineAgrees /\ [Next]_vars => TimelineAgrees'
  BY TimelineStep DEF TimelineMove
<1> QED BY <1>1, <1>2, TypeCorrect, PTL DEF Spec

\* No transaction closes an interval before it started, however long it waited
\* for the row lock after its NOW() was fixed.
THEOREM TimelineNeverRunsBackwards == Spec => TimelineMonotonic
<1>1. TypeOK /\ TimelineAgrees /\ [Next]_vars => [closedAt' >= open.start]_timeline
  BY TimelineStep DEF TimelineMove
<1> QED BY <1>1, TypeCorrect, TimelineAlwaysAgrees, PTL DEF Spec, TimelineMonotonic

-----------------------------------------------------------------------------
(* The location rows.                                                      *)

\* What a transaction may do to the rows of monitor_location_state.
LEMMA PersistRows ==
    ASSUME TypeOK, NoResurrectedRow, NEW r, NEW t, persist(r, t) PROVE NoResurrectedRow'
<1>1. CASE r.source # "platform" /\ r.loc # Fleet /\ AppliesAtLocation(r)
  <2>1. persistAtLocation(r, t)
    BY <1>1 DEF persist
  <2>2. UNCHANGED selected /\ r.loc \in selected
    BY <1>1, <2>1 DEF persistAtLocation, adminVars, AppliesAtLocation
  <2>3. PICK row : locState' = UpsertLocState(r.loc, row)
    BY <1>1, <2>1 DEF persistAtLocation
  <2> QED BY <2>2, <2>3 DEF UpsertLocState, NoResurrectedRow
<1>2. CASE ~(r.source # "platform" /\ r.loc # Fleet /\ AppliesAtLocation(r))
  <2>1. UNCHANGED <<locState, selected>>
    BY <1>2 DEF persist, persistAtLocation, Record, InsertOnly, adminVars
  <2> QED BY <2>1 DEF NoResurrectedRow
<1> QED BY <1>1, <1>2

\* No step adds a state row for a location that is not selected.
LEMMA RowsStep ==
    ASSUME TypeOK, NoResurrectedRow, [Next]_vars PROVE NoResurrectedRow'
<1>1. ASSUME NEW r, NEW t, persist(r, t) PROVE NoResurrectedRow'
  BY <1>1, PersistRows
<1>2. ASSUME UNCHANGED <<locState, selected>> PROVE NoResurrectedRow'
  BY <1>2 DEF NoResurrectedRow
<1>3. CASE Reports
  BY <1>2, <1>3 DEF Reports, RunCheck, ExpireJob, ReceivePush, ReceiveExport, RequestFails, Report, adminVars
<1>4. CASE Ingest
  BY <1>1, <1>2, <1>4 DEF Ingest, HandleFleetResult, HandleLocationResult, VerifyLocationResult,
                          IngestFails, adminVars
<1>5. CASE Watchdog
  BY <1>2, <1>5 DEF Watchdog, ScanActive, ScanQuorum, ScanHeartbeat, Scan, WatchdogAborts,
                    WatchdogDone, markMonitorUnknown, reaggregateMonitor, recordAbsence, Record,
                    adminVars
<1>6. CASE Administration
  <2>1. ASSUME NEW b \in BOOLEAN, NEW t, SetEnabled(b, t) PROVE NoResurrectedRow'
    BY <2>1 DEF SetEnabled, NoResurrectedRow
  <2>2. CASE SetLocationsCommit
    BY <2>2 DEF SetLocationsCommit, KeepRows, NoResurrectedRow
  <2>3. ASSUME NEW l \in Locations, NEW t, DeleteLocation(l, t) PROVE NoResurrectedRow'
    BY <2>3 DEF DeleteLocation, KeepRows, NoResurrectedRow
  <2>4. ASSUME NEW L, NEW t, SetLocationsBegin(L, t) PROVE NoResurrectedRow'
    BY <1>2, <2>4 DEF SetLocationsBegin
  <2>5. ASSUME NEW q, NEW th, NEW iv, UpdateMonitor(q, th, iv) PROVE NoResurrectedRow'
    BY <1>2, <2>5 DEF UpdateMonitor, adminVars
  <2>6. ASSUME NEW l, UpdateLocation(l) PROVE NoResurrectedRow'
    BY <1>2, <2>6 DEF UpdateLocation
  <2>7. CASE DeleteMonitor
    BY <1>2, <2>7 DEF DeleteMonitor, adminVars
  <2> QED BY <1>6, <2>1, <2>2, <2>3, <2>4, <2>5, <2>6, <2>7 DEF Administration
<1>7. CASE Tick \/ UNCHANGED vars
  BY <1>2, <1>7 DEF Tick, vars, adminVars
<1> QED BY <1>3, <1>4, <1>5, <1>6, <1>7 DEF Next

\* A location removed from the monitor has no state row, so neither a result in
\* flight nor the watchdog can let it vote again.
THEOREM RemovedLocationsStayRemoved == Spec => []NoResurrectedRow
<1>1. Init => NoResurrectedRow
  BY DEF Init, NoResurrectedRow
<1>2. TypeOK /\ NoResurrectedRow /\ [Next]_vars => NoResurrectedRow'
  BY RowsStep
<1> QED BY <1>1, <1>2, TypeCorrect, PTL DEF Spec

-----------------------------------------------------------------------------
(* States and failure counts.                                              *)

RowsConfirmed(rows) ==
    \A l \in DOMAIN rows : FailureCountMatches(rows[l].state, rows[l].cf, thresholds)

\* The columns after a step, under the thresholds that the monitor had before it.
StillConfirmed == /\ FailureCountMatches(mon'.state, mon'.cf, thresholds)
                  /\ RowsConfirmed(locState')

ConfirmedInv == ConfirmedState /\ mon.threshold \in thresholds

\* A count of voters in a state is positive exactly when one of them is in it.
LEMMA CountPositive ==
    ASSUME TypeOK, NEW rows, NEW t, NEW st
    PROVE  LET V == {l \in FreshVoters(rows, t) : rows[l].state = st}
           IN  /\ Cardinality(V) \in Nat
               /\ Cardinality(V) > 0 <=> \E l \in FreshVoters(rows, t) : rows[l].state = st
<1> DEFINE V == {l \in FreshVoters(rows, t) : rows[l].state = st}
<1>1. V \in SUBSET Locations
  BY DEF FreshVoters, TypeOK
<1>2. IsFiniteSet(V)
  BY <1>1, FS_Subset, PipelineAssumption
<1>3. Cardinality(V) \in Nat /\ (Cardinality(V) = 0 <=> V = {})
  <2> HIDE DEF V
  <2> QED BY <1>2, FS_CardinalityType, FS_EmptySet
<1> QED BY <1>3

\* The aggregate of confirmed rows, with the maximum of their counts, is again
\* confirmed: "down" and "degraded" have a voter that is down, "suspect" has a
\* voter that is confirming and none that is down, "up" has none of either.
LEMMA AggregateConfirms ==
    ASSUME TypeOK, NEW rows, DOMAIN rows \subseteq Locations, rows \in [DOMAIN rows -> LocRow],
           RowsConfirmed(rows), NEW t, NEW q \in Nat
    PROVE  FailureCountMatches(AggregateLocations(LoadFreshLocationCounts(rows, t), q),
                               MaxFailures(rows, t), thresholds)
<1> DEFINE V == FreshVoters(rows, t)
           down == Cardinality({l \in V : rows[l].state = "down"})
           suspect == Cardinality({l \in V : rows[l].state = "suspect"})
           up == Cardinality({l \in V : rows[l].state = "up"})
           all == Cardinality(selected \cap Live)
           quorum == EffectiveQuorum([down |-> down, suspect |-> suspect, up |-> up,
                                      selected |-> all], q)
           st == AggregateLocations(LoadFreshLocationCounts(rows, t), q)
           top == MaxFailures(rows, t)
<1>1. /\ down \in Nat /\ suspect \in Nat /\ up \in Nat
      /\ down > 0 <=> \E l \in V : rows[l].state = "down"
      /\ suspect > 0 <=> \E l \in V : rows[l].state = "suspect"
      /\ up > 0 <=> \E l \in V : rows[l].state = "up"
  <2>1. down \in Nat /\ (down > 0 <=> \E l \in V : rows[l].state = "down")
    BY CountPositive, ZenonT(60)
  <2>2. suspect \in Nat /\ (suspect > 0 <=> \E l \in V : rows[l].state = "suspect")
    BY CountPositive, ZenonT(60)
  <2>3. up \in Nat /\ (up > 0 <=> \E l \in V : rows[l].state = "up")
    BY CountPositive, ZenonT(60)
  <2> QED BY <2>1, <2>2, <2>3
<1>2. all \in Nat
  BY PipelineAssumption, FS_Subset, FS_CardinalityType DEF TypeOK
<1>3. quorum \in Nat \ {0}
  <2> HIDE DEF down, suspect, up, all
  <2> QED BY <1>2 DEF EffectiveQuorum, ClampLow
<1>4. st = IF down >= quorum THEN "down" ELSE IF down > 0 THEN "degraded"
           ELSE IF suspect > 0 THEN "suspect" ELSE IF up > 0 THEN "up" ELSE "unknown"
  BY DEF AggregateLocations, LoadFreshLocationCounts
<1>5. /\ top \in Nat
      /\ \A l \in V : rows[l].cf <= top
      /\ top = 0 \/ \E l \in V : rows[l].cf = top
  BY MaxFailuresIsMax
<1>6. \A l \in V : rows[l] \in LocRow /\ FailureCountMatches(rows[l].state, rows[l].cf, thresholds)
  BY DEF FreshVoters, RowsConfirmed
<1>7. \A l \in V : rows[l].cf \in Nat /\ rows[l].state \in StreamStates
  BY <1>6 DEF LocRow
<1>8. \A th \in thresholds : ClampLow(th) \in Nat \ {0}
  BY DEF ClampLow, TypeOK
<1> SUFFICES FailureCountMatches(st, top, thresholds)
  OBVIOUS
<1> HIDE DEF V, down, suspect, up, all, quorum, st, top
<1>9. CASE st \in {"down", "degraded"}
  <2>1. PICK l \in V : rows[l].state = "down"
    BY <1>1, <1>3, <1>4, <1>9
  <2> QED BY <1>5, <1>6, <1>7, <1>8, <1>9, <2>1 DEF FailureCountMatches
<1>10. CASE st = "suspect"
  <2>1. PICK l \in V : rows[l].state = "suspect"
    BY <1>1, <1>3, <1>4, <1>10
  <2>2. top > 0
    BY <1>5, <1>6, <1>7, <2>1 DEF FailureCountMatches
  <2>3. PICK k \in V : rows[k].cf = top
    BY <1>5, <2>2
  <2>4. rows[k].state # "down"
    BY <1>1, <1>3, <1>4, <1>10
  <2>5. rows[k].state = "suspect"
    BY <1>6, <1>7, <2>2, <2>3, <2>4 DEF FailureCountMatches, StreamStates, MonitorStates
  <2> QED BY <1>6, <1>10, <2>3, <2>5 DEF FailureCountMatches
<1>11. CASE st \in {"up", "unknown"}
  <2>1. \A l \in V : rows[l].state \notin {"down", "suspect"}
    BY <1>1, <1>3, <1>4, <1>11
  <2>2. \A l \in V : rows[l].cf = 0
    BY <1>6, <1>7, <2>1 DEF FailureCountMatches, StreamStates, MonitorStates
  <2>3. top = 0
    BY <1>5, <2>2
  <2> QED BY <1>11, <2>3 DEF FailureCountMatches
<1>12. st \in {"down", "degraded", "suspect", "up", "unknown"}
  BY <1>4
<1> QED BY <1>9, <1>10, <1>11, <1>12

\* A reset to unknown with count 0 is a confirmed state.
LEMMA ResetConfirms ==
    ASSUME TypeOK, mon' = [mon EXCEPT !.state = "unknown", !.cf = 0], RowsConfirmed(locState')
    PROVE  StillConfirmed
<1>1. mon'.state = "unknown" /\ mon'.cf = 0
  BY DEF TypeOK
<1> QED BY <1>1 DEF StillConfirmed, FailureCountMatches

\* A step that leaves the state columns alone keeps them confirmed.
LEMMA UntouchedConfirms ==
    ASSUME ConfirmedState, mon'.state = mon.state, mon'.cf = mon.cf, UNCHANGED locState
    PROVE  StillConfirmed
BY DEF ConfirmedState, StillConfirmed, RowsConfirmed

\* Record keeps the state of a fleet-checked monitor confirmed.
LEMMA RecordConfirms ==
    ASSUME TypeOK, ConfirmedInv, NEW r, NEW t, Record(r, t) PROVE StillConfirmed
<1> DEFINE tr == Apply([state |-> mon.state, cf |-> mon.cf], IsFailureStatus(r.status), mon.threshold)
<1>1. CASE Applies(r)
  <2>1. /\ mon' = [mon EXCEPT !.state = tr.to, !.cf = tr.cf, !.lastResultAt = t,
                              !.lastStarted = IF r.synthetic THEN @ ELSE r.started]
        /\ UNCHANGED locState
    BY <1>1 DEF Record
  <2>2. FailureCountMatches(tr.to, tr.cf, thresholds)
    <3>1. /\ mon.state \in MonitorStates /\ mon.cf \in Nat
          /\ FailureCountMatches(mon.state, mon.cf, thresholds)
          /\ thresholds \in SUBSET Nat /\ mon.threshold \in thresholds
      BY DEF TypeOK, ConfirmedInv, ConfirmedState
    <3> QED BY <3>1, IsFailureType, ApplyConfirms
  <2> HIDE DEF tr
  <2>3. mon'.state = tr.to /\ mon'.cf = tr.cf
    BY <2>1 DEF TypeOK
  <2> QED BY <2>1, <2>2, <2>3 DEF ConfirmedInv, ConfirmedState, StillConfirmed, RowsConfirmed
<1>2. CASE ~Applies(r)
  BY <1>2, UntouchedConfirms DEF Record, ConfirmedInv
<1> QED BY <1>1, <1>2

\* persistAtLocation keeps every location row confirmed.
LEMMA PersistAtLocationConfirms ==
    ASSUME TypeOK, ConfirmedInv, NEW r \in Message, r.loc \in Locations, NEW t \in Nat,
           persistAtLocation(r, t)
    PROVE  StillConfirmed
<1> DEFINE snap == LocSnapshot(r.loc)
           tr == Apply([state |-> snap.state, cf |-> snap.cf], IsFailureStatus(r.status), mon.threshold)
           row == [state |-> tr.to, cf |-> tr.cf, checkAt |-> t, started |-> r.started]
           rows == UpsertLocState(r.loc, row)
           st == AggregateLocations(LoadFreshLocationCounts(rows, t), mon.quorum)
<1>1. tr.to \in StreamStates /\ tr.cf \in Nat /\ FailureCountMatches(tr.to, tr.cf, thresholds)
  <2>1. snap.state \in MonitorStates /\ snap.cf \in Nat
    BY LocSnapshotType DEF StreamStates
  <2>2. FailureCountMatches(snap.state, snap.cf, thresholds)
    BY DEF LocSnapshot, ConfirmedInv, ConfirmedState, FailureCountMatches
  <2>3. thresholds \in SUBSET Nat /\ mon.threshold \in thresholds
    BY DEF TypeOK, ConfirmedInv
  <2> HIDE DEF snap
  <2> QED BY <2>1, <2>2, <2>3, IsFailureType, ApplyConfirms
<1>2. row \in LocRow /\ row.state = tr.to /\ row.cf = tr.cf
  <2> HIDE DEF tr
  <2> QED BY <1>1 DEF LocRow, Message
<1>3. /\ DOMAIN rows = DOMAIN locState \cup {r.loc}
      /\ DOMAIN rows \subseteq Locations
      /\ rows \in [DOMAIN rows -> LocRow]
      /\ rows[r.loc] = row
      /\ \A x \in DOMAIN locState \ {r.loc} : rows[x] = locState[x]
  <2> HIDE DEF row
  <2> QED BY <1>2, UpsertType
<1>4. RowsConfirmed(rows)
  <2> SUFFICES ASSUME NEW l \in DOMAIN rows
               PROVE  FailureCountMatches(rows[l].state, rows[l].cf, thresholds)
    BY DEF RowsConfirmed
  <2> HIDE DEF rows, row, tr
  <2>1. CASE l = r.loc
    BY <1>1, <1>2, <1>3, <2>1
  <2>2. CASE l # r.loc
    BY <1>3, <2>2 DEF ConfirmedInv, ConfirmedState
  <2> QED BY <2>1, <2>2
<1>5. FailureCountMatches(st, MaxFailures(rows, t), thresholds)
  <2> HIDE DEF rows
  <2>1. mon.quorum \in Nat
    BY DEF TypeOK
  <2> QED BY <1>3, <1>4, <2>1, AggregateConfirms
<1>6. CASE AppliesAtLocation(r)
  <2>1. /\ locState' = rows
        /\ mon' = [mon EXCEPT !.state = st, !.cf = MaxFailures(rows, t), !.lastResultAt = t]
    BY <1>6 DEF persistAtLocation
  <2> HIDE DEF rows, st
  <2>2. mon'.state = st /\ mon'.cf = MaxFailures(rows, t)
    BY <2>1 DEF TypeOK
  <2> QED BY <1>4, <1>5, <2>1, <2>2 DEF StillConfirmed
<1>7. CASE ~AppliesAtLocation(r)
  BY <1>7, UntouchedConfirms DEF persistAtLocation, ConfirmedInv
<1> QED BY <1>6, <1>7

\* persist keeps all state columns confirmed on each of its paths.
LEMMA PersistConfirms ==
    ASSUME TypeOK, ConfirmedInv, NEW r \in Message, NEW t \in Nat, persist(r, t)
    PROVE  StillConfirmed
<1>1. CASE r.source = "platform"
  BY <1>1, UntouchedConfirms DEF persist, InsertOnly, ConfirmedInv
<1>2. CASE r.source # "platform" /\ r.loc = Fleet
  BY <1>2, RecordConfirms DEF persist
<1>3. CASE r.source # "platform" /\ r.loc # Fleet
  <2>1. r.loc \in Locations
    BY <1>3 DEF Message, Streams
  <2> QED BY <1>3, <2>1, PersistAtLocationConfirms DEF persist
<1> QED BY <1>1, <1>2, <1>3

\* The rows SetLocations keeps stay confirmed.
LEMMA KeepRowsConfirms ==
    ASSUME ConfirmedState, NEW S PROVE RowsConfirmed(KeepRows(S))
BY DEF ConfirmedState, RowsConfirmed, KeepRows

\* The strengthened invariant is inductive, given the types.
LEMMA ConfirmedStep ==
    ASSUME TypeOK, ConfirmedInv, [Next]_vars PROVE StillConfirmed
<1>0. ConfirmedState
  BY DEF ConfirmedInv
<1> USE <1>0, UntouchedConfirms
<1>1. CASE Reports
  BY <1>1 DEF Reports, RunCheck, ExpireJob, ReceivePush, ReceiveExport, RequestFails, Report
<1>2. CASE Ingest
  <2>1. ASSUME NEW r \in queue \cup verified, NEW t \in TxStarts, persist(r, t)
        PROVE  StillConfirmed
    <3>1. r \in Message /\ t \in Nat
      BY TxStartsType DEF TypeOK
    <3> QED BY <2>1, <3>1, PersistConfirms
  <2>2. ASSUME NEW r, NEW acked, VerifyLocationResult(r, acked) \/ IngestFails(r)
        PROVE  StillConfirmed
    BY <2>2 DEF VerifyLocationResult, IngestFails
  <2> QED BY <1>2, <2>1, <2>2 DEF Ingest, HandleFleetResult, HandleLocationResult
<1>3. CASE Watchdog
  <2>1. CASE ScanActive \/ ScanQuorum \/ ScanHeartbeat \/ WatchdogAborts
    BY <2>1 DEF ScanActive, ScanQuorum, ScanHeartbeat, Scan, WatchdogAborts
  <2>2. ASSUME NEW t \in TxStarts, markMonitorUnknown(t) PROVE StillConfirmed
    <3>1. CASE MarksUnknown(t)
      <4>1. mon' = [mon EXCEPT !.state = "unknown", !.cf = 0] /\ UNCHANGED locState
        BY <2>2, <3>1 DEF markMonitorUnknown
      <4> QED BY <4>1, ResetConfirms DEF ConfirmedState, RowsConfirmed
    <3>2. CASE ~MarksUnknown(t)
      BY <2>2, <3>2 DEF markMonitorUnknown
    <3> QED BY <3>1, <3>2
  <2>3. ASSUME NEW t \in TxStarts, reaggregateMonitor(t) PROVE StillConfirmed
    <3> DEFINE st == AggregateLocations(LoadFreshLocationCounts(locState, t), mon.quorum)
    <3>1. CASE mon.enabled /\ ~mon.deleted /\ st # mon.state
      <4>1. /\ mon' = [mon EXCEPT !.state = st, !.cf = MaxFailures(locState, t)]
            /\ UNCHANGED locState
        BY <2>3, <3>1 DEF reaggregateMonitor
      <4>2. FailureCountMatches(st, MaxFailures(locState, t), thresholds)
        BY AggregateConfirms DEF TypeOK, ConfirmedState, RowsConfirmed
      <4> HIDE DEF st
      <4>3. mon'.state = st /\ mon'.cf = MaxFailures(locState, t)
        BY <4>1 DEF TypeOK
      <4> QED BY <4>1, <4>2, <4>3 DEF ConfirmedState, StillConfirmed, RowsConfirmed
    <3>2. CASE ~(mon.enabled /\ ~mon.deleted /\ st # mon.state)
      BY <2>3, <3>2 DEF reaggregateMonitor
    <3> QED BY <3>1, <3>2
  <2>4. ASSUME NEW t \in TxStarts, recordAbsence(t) PROVE StillConfirmed
    BY <2>4, RecordConfirms DEF recordAbsence
  <2> QED BY <1>3, <2>1, <2>2, <2>3, <2>4 DEF Watchdog
<1>4. CASE Administration
  <2>1. ASSUME NEW b \in BOOLEAN, NEW t \in TxStarts, SetEnabled(b, t) PROVE StillConfirmed
    <3>1. mon' = [mon EXCEPT !.enabled = b, !.state = "unknown", !.cf = 0] /\ DOMAIN locState' = {}
      BY <2>1 DEF SetEnabled
    <3>2. mon'.state = "unknown" /\ mon'.cf = 0
      BY <3>1 DEF TypeOK
    <3> QED BY <3>1, <3>2 DEF StillConfirmed, RowsConfirmed, FailureCountMatches
  <2>2. CASE DeleteMonitor
    <3>1. mon' = [mon EXCEPT !.deleted = TRUE] /\ UNCHANGED locState
      BY <2>2 DEF DeleteMonitor
    <3>2. mon'.state = mon.state /\ mon'.cf = mon.cf
      BY <3>1 DEF TypeOK
    <3> QED BY <3>1, <3>2
  <2>3. ASSUME NEW L, NEW t, SetLocationsBegin(L, t) PROVE StillConfirmed
    BY <2>3 DEF SetLocationsBegin
  <2>4. CASE SetLocationsCommit
    <3>1. RowsConfirmed(locState')
      BY <2>4, KeepRowsConfirms DEF SetLocationsCommit
    <3>2. CASE pending.locs = {}
      BY <2>4, <3>1, <3>2, ResetConfirms DEF SetLocationsCommit
    <3>3. CASE pending.locs # {}
      BY <2>4, <3>1, <3>3 DEF SetLocationsCommit, ConfirmedState, StillConfirmed
    <3> QED BY <3>2, <3>3
  <2>5. ASSUME NEW q, NEW th, NEW iv, UpdateMonitor(q, th, iv) PROVE StillConfirmed
    <3>1. mon' = [mon EXCEPT !.quorum = q, !.threshold = th, !.interval = iv] /\ UNCHANGED locState
      BY <2>5 DEF UpdateMonitor
    <3>2. mon'.state = mon.state /\ mon'.cf = mon.cf
      BY <3>1 DEF TypeOK
    <3> QED BY <3>1, <3>2
  <2>6. ASSUME NEW l, UpdateLocation(l) PROVE StillConfirmed
    BY <2>6 DEF UpdateLocation
  <2>7. ASSUME NEW l \in Locations, NEW t \in TxStarts, DeleteLocation(l, t) PROVE StillConfirmed
    <3> DEFINE resets == l \in selected /\ selected \ {l} = {}
    <3>1. PICK q : mon' = [mon EXCEPT !.quorum = q,
                                      !.state = IF resets THEN "unknown" ELSE mon.state,
                                      !.cf = IF resets THEN 0 ELSE mon.cf]
      BY <2>7 DEF DeleteLocation
    <3>2. /\ mon'.state = IF resets THEN "unknown" ELSE mon.state
          /\ mon'.cf = IF resets THEN 0 ELSE mon.cf
      BY <3>1 DEF TypeOK
    <3>3. RowsConfirmed(locState')
      BY <2>7, KeepRowsConfirms DEF DeleteLocation
    <3> QED BY <3>2, <3>3, SMTT(30) DEF ConfirmedState, StillConfirmed, FailureCountMatches
  <2> QED BY <1>4, <2>1, <2>2, <2>3, <2>4, <2>5, <2>6, <2>7 DEF Administration
<1>5. CASE Tick \/ UNCHANGED vars
  BY <1>5 DEF Tick, vars
<1> QED BY <1>1, <1>2, <1>3, <1>4, <1>5 DEF Next

\* A threshold in force is one that the monitor has had, and none is forgotten.
LEMMA ThresholdStep ==
    ASSUME TypeOK, mon.threshold \in thresholds, [Next]_vars
    PROVE  mon'.threshold \in thresholds' /\ thresholds \subseteq thresholds'
<1> DEFINE Kept == mon'.threshold = mon.threshold /\ thresholds' = thresholds
<1>1. CASE Reports
  BY <1>1 DEF Reports, RunCheck, ExpireJob, ReceivePush, ReceiveExport, RequestFails, Report
<1>2. ASSUME NEW r, NEW t, persist(r, t) PROVE mon'.threshold = mon.threshold
  <2>1. CASE r.source = "platform"
    BY <1>2, <2>1 DEF persist, InsertOnly
  <2>2. CASE r.source # "platform" /\ r.loc = Fleet
    <3>1. Record(r, t)
      BY <1>2, <2>2 DEF persist
    <3> DEFINE tr == Apply([state |-> mon.state, cf |-> mon.cf], IsFailureStatus(r.status),
                           mon.threshold)
               from == IF r.synthetic THEN mon.lastStarted ELSE r.started
    <3>2. \/ mon' = mon
          \/ mon' = [mon EXCEPT !.state = tr.to, !.cf = tr.cf, !.lastResultAt = t, !.lastStarted = from]
      BY <3>1 DEF Record
    <3> HIDE DEF tr, from
    <3> QED BY <3>2 DEF TypeOK
  <2>3. CASE r.source # "platform" /\ r.loc # Fleet
    <3>1. persistAtLocation(r, t)
      BY <1>2, <2>3 DEF persist
    <3>2. \/ mon' = mon
          \/ \E st, cf : mon' = [mon EXCEPT !.state = st, !.cf = cf, !.lastResultAt = t]
      BY <3>1 DEF persistAtLocation
    <3> QED BY <3>2 DEF TypeOK
  <2> QED BY <2>1, <2>2, <2>3
<1>3. CASE Ingest
  BY <1>2, <1>3 DEF Ingest, HandleFleetResult, HandleLocationResult, VerifyLocationResult, IngestFails
<1>4. CASE Watchdog
  <2>1. CASE ScanActive \/ ScanQuorum \/ ScanHeartbeat \/ WatchdogAborts
    BY <2>1 DEF ScanActive, ScanQuorum, ScanHeartbeat, Scan, WatchdogAborts, WatchdogDone
  <2>2. ASSUME NEW t, markMonitorUnknown(t) \/ reaggregateMonitor(t) PROVE Kept
    <3>1. PICK st, cf : mon' = mon \/ mon' = [mon EXCEPT !.state = st, !.cf = cf]
      BY <2>2 DEF markMonitorUnknown, reaggregateMonitor
    <3>2. mon'.threshold = mon.threshold
      BY <3>1 DEF TypeOK
    <3> QED BY <2>2, <3>2 DEF markMonitorUnknown, reaggregateMonitor, WatchdogDone
  <2>3. ASSUME NEW t, recordAbsence(t) PROVE Kept
    <3> DEFINE msg == [id |-> nextId, loc |-> Fleet, status |-> "failure", source |-> "monitor",
                       started |-> now, synthetic |-> TRUE]
    <3>1. persist(msg, t)
      BY <2>3 DEF recordAbsence, persist
    <3> QED BY <1>2, <2>3, <3>1 DEF recordAbsence
  <2> QED BY <1>4, <2>1, <2>2, <2>3 DEF Watchdog
<1>5. CASE Administration
  <2>1. ASSUME NEW L, NEW t, NEW b, NEW l,
               \/ SetEnabled(b, t) \/ DeleteMonitor \/ SetLocationsBegin(L, t)
               \/ SetLocationsCommit \/ UpdateLocation(l) \/ DeleteLocation(l, t)
        PROVE  Kept
    <3>1. PICK st, cf, q, d, e :
             mon' = mon \/ mon' = [mon EXCEPT !.state = st, !.cf = cf]
             \/ mon' = [mon EXCEPT !.enabled = e, !.state = st, !.cf = cf]
             \/ mon' = [mon EXCEPT !.deleted = d]
             \/ mon' = [mon EXCEPT !.quorum = q, !.state = st, !.cf = cf]
      BY <2>1 DEF SetEnabled, DeleteMonitor, SetLocationsBegin, SetLocationsCommit, UpdateLocation,
                  DeleteLocation
    <3>2. mon'.threshold = mon.threshold
      BY <3>1 DEF TypeOK
    <3> QED BY <2>1, <3>2 DEF SetEnabled, DeleteMonitor, SetLocationsBegin, SetLocationsCommit,
                              UpdateLocation, DeleteLocation
  <2>2. ASSUME NEW q, NEW th, NEW iv, UpdateMonitor(q, th, iv)
        PROVE  mon'.threshold \in thresholds' /\ thresholds \subseteq thresholds'
    <3>1. /\ mon' = [mon EXCEPT !.quorum = q, !.threshold = th, !.interval = iv]
          /\ thresholds' = thresholds \cup {th}
      BY <2>2 DEF UpdateMonitor
    <3>2. mon'.threshold = th
      BY <3>1 DEF TypeOK
    <3> QED BY <3>1, <3>2
  <2> QED BY <1>5, <2>1, <2>2 DEF Administration
<1>6. CASE Tick \/ UNCHANGED vars
  BY <1>6 DEF Tick, vars
<1> QED BY <1>1, <1>3, <1>4, <1>5, <1>6 DEF Next

\* What an earlier threshold confirmed stays confirmed when another is added.
LEMMA ConfirmedInvStep ==
    ASSUME TypeOK, ConfirmedInv, [Next]_vars PROVE ConfirmedInv'
<1>1. StillConfirmed
  BY ConfirmedStep
<1>2. mon'.threshold \in thresholds' /\ thresholds \subseteq thresholds'
  BY ThresholdStep DEF ConfirmedInv
<1>3. \A st, cf : FailureCountMatches(st, cf, thresholds) => FailureCountMatches(st, cf, thresholds')
  BY <1>2 DEF FailureCountMatches
<1> QED BY <1>1, <1>2, <1>3 DEF StillConfirmed, RowsConfirmed, ConfirmedInv, ConfirmedState

\* The strengthened invariant always holds.
LEMMA ConfirmedAlways == Spec => []ConfirmedInv
<1>1. Init => ConfirmedInv
  BY DEF Init, ConfirmedInv, ConfirmedState, FailureCountMatches
<1>2. TypeOK /\ ConfirmedInv /\ [Next]_vars => ConfirmedInv'
  BY ConfirmedInvStep
<1> QED BY <1>1, <1>2, TypeCorrect, PTL DEF Spec

\* Under every quorum, every interleaving and every edit of the threshold, a monitor
\* is "down" or "degraded" only with a failure count that some threshold it has had
\* confirmed, "suspect" only with one that some threshold left open, and "up" or
\* "unknown" only with no failure: the two columns never contradict each other.
THEOREM StatesAreConfirmed == Spec => []ConfirmedState
<1>1. ConfirmedInv => ConfirmedState
  BY DEF ConfirmedInv
<1> QED BY <1>1, ConfirmedAlways, PTL

-----------------------------------------------------------------------------
(* What a result that is applied does, seen from the columns that the rest *)
(* of the proofs is about.                                                 *)

\* Record applied r: the fleet's machine made one step.
FleetApplied(r) ==
    /\ r.loc = Fleet /\ r.source = "monitor"
    /\ Applies(r)
    /\ mon'.cf = (IF IsFailureStatus(r.status) THEN mon.cf + 1 ELSE 0)
    /\ mon'.state \in {"up", "suspect", "down"}
    /\ mon'.lastStarted = (IF r.synthetic THEN mon.lastStarted ELSE r.started)
    /\ lastApplied' = (IF r.synthetic THEN lastApplied ELSE [lastApplied EXCEPT ![Fleet] = r.started])
    /\ UNCHANGED locState

\* persistAtLocation applied r: the location's machine made one step and the
\* monitor shows the aggregate of the rows that leaves.
LocationApplied(r, t) ==
    /\ r.loc \in Locations /\ r.source = "monitor"
    /\ AppliesAtLocation(r)
    /\ DOMAIN locState' = DOMAIN locState \cup {r.loc}
    /\ \A x \in DOMAIN locState \ {r.loc} : locState'[x] = locState[x]
    /\ locState'[r.loc].cf = (IF IsFailureStatus(r.status) THEN LocSnapshot(r.loc).cf + 1 ELSE 0)
    /\ locState'[r.loc].state # "unknown"
    /\ locState'[r.loc].started = r.started
    /\ mon'.state = AggregateLocations(LoadFreshLocationCounts(locState', t), mon.quorum)
    /\ mon'.cf = MaxFailures(locState', t)
    /\ mon'.lastStarted = mon.lastStarted
    /\ lastApplied' = [lastApplied EXCEPT ![r.loc] = r.started]

\* One step of the machine in its columns.
LEMMA ApplyColumns ==
    ASSUME NEW current, NEW fails \in BOOLEAN
    PROVE  /\ Apply(current, fails, mon.threshold).cf = (IF fails THEN current.cf + 1 ELSE 0)
           /\ Apply(current, fails, mon.threshold).to \in {"up", "suspect", "down"}
BY DEF Apply, ConsecutiveFailures

\* Record inserts r and applies it, or leaves the state alone.
LEMMA RecordCases ==
    ASSUME TypeOK, NEW r \in Message, r.loc = Fleet, r.source = "monitor", NEW t \in Nat,
           Record(r, t)
    PROVE  FleetApplied(r) \/ UNCHANGED <<mon, locState, lastApplied>>
<1> DEFINE fails == IsFailureStatus(r.status)
           tr == Apply([state |-> mon.state, cf |-> mon.cf], fails, mon.threshold)
<1>1. CASE Applies(r)
  <2>1. /\ mon' = [mon EXCEPT !.state = tr.to, !.cf = tr.cf, !.lastResultAt = t,
                              !.lastStarted = IF r.synthetic THEN mon.lastStarted ELSE r.started]
        /\ lastApplied' = IF r.synthetic THEN lastApplied
                          ELSE [lastApplied EXCEPT ![Fleet] = r.started]
        /\ UNCHANGED locState
    BY <1>1 DEF Record
  <2>2. tr.cf = (IF fails THEN mon.cf + 1 ELSE 0) /\ tr.to \in {"up", "suspect", "down"}
    <3> HIDE DEF fails
    <3>1. fails \in BOOLEAN
      BY IsFailureType DEF fails
    <3> QED BY <3>1, ApplyColumns
  <2> HIDE DEF tr
  <2>3. /\ mon'.state = tr.to /\ mon'.cf = tr.cf
        /\ mon'.lastStarted = (IF r.synthetic THEN mon.lastStarted ELSE r.started)
    BY <2>1 DEF TypeOK
  <2> QED BY <1>1, <2>1, <2>2, <2>3 DEF FleetApplied
<1>2. CASE ~Applies(r)
  BY <1>2 DEF Record
<1> QED BY <1>1, <1>2

\* persistAtLocation inserts r and applies it, or leaves the state alone.
LEMMA PersistAtLocationCases ==
    ASSUME TypeOK, NEW r \in Message, r.loc \in Locations, r.source = "monitor", NEW t \in Nat,
           persistAtLocation(r, t)
    PROVE  LocationApplied(r, t) \/ UNCHANGED <<mon, locState, lastApplied>>
<1> DEFINE snap == LocSnapshot(r.loc)
           fails == IsFailureStatus(r.status)
           tr == Apply([state |-> snap.state, cf |-> snap.cf], fails, mon.threshold)
           row == [state |-> tr.to, cf |-> tr.cf, checkAt |-> t, started |-> r.started]
           rows == UpsertLocState(r.loc, row)
           st == AggregateLocations(LoadFreshLocationCounts(rows, t), mon.quorum)
<1>1. CASE AppliesAtLocation(r)
  <2>1. /\ locState' = rows
        /\ mon' = [mon EXCEPT !.state = st, !.cf = MaxFailures(rows, t), !.lastResultAt = t]
        /\ lastApplied' = [lastApplied EXCEPT ![r.loc] = r.started]
    BY <1>1 DEF persistAtLocation
  <2>2. tr.cf = (IF fails THEN snap.cf + 1 ELSE 0) /\ tr.to \in {"up", "suspect", "down"}
    <3> HIDE DEF fails
    <3>1. fails \in BOOLEAN
      BY IsFailureType DEF fails
    <3> QED BY <3>1, ApplyColumns
  <2>3. row.cf = tr.cf /\ row.state = tr.to /\ row.started = r.started
    OBVIOUS
  <2>4. /\ DOMAIN rows = DOMAIN locState \cup {r.loc}
        /\ rows[r.loc] = row
        /\ \A x \in DOMAIN locState \ {r.loc} : rows[x] = locState[x]
    <3> HIDE DEF row
    <3> QED BY DEF UpsertLocState
  <2> HIDE DEF rows
  <2>5. mon'.state = st /\ mon'.cf = MaxFailures(rows, t) /\ mon'.lastStarted = mon.lastStarted
    BY <2>1 DEF TypeOK
  <2> HIDE DEF row
  <2>6. /\ locState'[r.loc].cf = (IF fails THEN snap.cf + 1 ELSE 0)
        /\ locState'[r.loc].state # "unknown"
        /\ locState'[r.loc].started = r.started
    <3> HIDE DEF tr
    <3> QED BY <2>1, <2>2, <2>3, <2>4
  <2> QED BY <1>1, <2>1, <2>4, <2>5, <2>6 DEF LocationApplied
<1>2. CASE ~AppliesAtLocation(r)
  BY <1>2 DEF persistAtLocation
<1> QED BY <1>1, <1>2

\* Whatever path a message takes, it is inserted and applied, or only inserted.
LEMMA PersistCases ==
    ASSUME TypeOK, NEW r \in Message, NEW t \in Nat, persist(r, t)
    PROVE  /\ insertResult(r) /\ UNCHANGED adminVars
           /\ \/ FleetApplied(r)
              \/ LocationApplied(r, t)
              \/ UNCHANGED <<mon, locState, lastApplied>>
<1>1. CASE r.source = "platform"
  BY <1>1 DEF persist, InsertOnly
<1>2. CASE r.source # "platform" /\ r.loc = Fleet
  <2>1. Record(r, t) /\ r.source = "monitor"
    BY <1>2 DEF persist, Message
  <2> QED BY <1>2, <2>1, RecordCases DEF Record
<1>3. CASE r.source # "platform" /\ r.loc # Fleet
  <2>1. persistAtLocation(r, t) /\ r.source = "monitor" /\ r.loc \in Locations
    BY <1>3 DEF persist, Message, Streams
  <2> QED BY <1>3, <2>1, PersistAtLocationCases DEF persistAtLocation
<1> QED BY <1>1, <1>2, <1>3

\* The failure the heartbeat pass records is a message like the others.
LEMMA AbsencePersists ==
    ASSUME TypeOK, NEW t, recordAbsence(t)
    PROVE  \E r \in Message : persist(r, t)
<1> DEFINE msg == [id |-> nextId, loc |-> Fleet, status |-> "failure", source |-> "monitor",
                   started |-> now, synthetic |-> TRUE]
<1>1. msg \in Message
  BY DEF TypeOK, Message, Streams
<1>2. persist(msg, t)
  BY DEF recordAbsence, persist
<1> QED BY <1>1, <1>2

-----------------------------------------------------------------------------
(* Failures are backed by rows of check_results.                           *)

\* EvidenceBacked, with what makes it inductive: check_results is finite, and
\* while the monitor is unbound it is the fleet whose failures it counts.
EvidenceInv ==
    /\ IsFiniteSet(results)
    /\ ~Bound => mon.cf <= Cardinality(FailingRows(Fleet))
    /\ EvidenceBacked

\* More rows of check_results never make fewer failures of a stream.
LEMMA FailingRowsGrow ==
    ASSUME IsFiniteSet(results'), results \subseteq results', NEW s
    PROVE  /\ Cardinality(FailingRows(s)) \in Nat
           /\ Cardinality(FailingRows(s)') \in Nat
           /\ Cardinality(FailingRows(s)) <= Cardinality(FailingRows(s)')
<1>1. FailingRows(s) \subseteq FailingRows(s)' /\ FailingRows(s)' \subseteq results'
  BY DEF FailingRows
<1> HIDE DEF FailingRows
<1>2. IsFiniteSet(FailingRows(s)') /\ IsFiniteSet(FailingRows(s))
  BY <1>1, FS_Subset
<1> QED BY <1>1, <1>2, FS_Subset, FS_CardinalityType

\* An insert adds at most r; a new failing observation is one more failure of
\* its stream.
LEMMA InsertResultGrows ==
    ASSUME IsFiniteSet(results), NEW r, insertResult(r)
    PROVE  /\ IsFiniteSet(results') /\ results \subseteq results'
           /\ ~Duplicate(r) /\ r.source = "monitor" /\ IsFailureStatus(r.status)
                => Cardinality(FailingRows(r.loc)') = Cardinality(FailingRows(r.loc)) + 1
<1>1. CASE Duplicate(r)
  BY <1>1 DEF insertResult
<1>2. CASE ~Duplicate(r)
  <2>1. results' = results \cup {r} /\ r \notin results
    BY <1>2 DEF insertResult, Duplicate
  <2>2. IsFiniteSet(results') /\ results \subseteq results'
    BY <2>1, FS_AddElement
  <2>3. ASSUME r.source = "monitor", IsFailureStatus(r.status)
        PROVE  Cardinality(FailingRows(r.loc)') = Cardinality(FailingRows(r.loc)) + 1
    <3>1. FailingRows(r.loc)' = FailingRows(r.loc) \cup {r} /\ r \notin FailingRows(r.loc)
      BY <2>1, <2>3 DEF FailingRows
    <3>2. IsFiniteSet(FailingRows(r.loc))
      BY FS_Subset DEF FailingRows
    <3> QED BY <3>1, <3>2, FS_AddElement
  <2> QED BY <2>2, <2>3
<1> QED BY <1>1, <1>2

\* A step that raises no count, and leaves none behind when the last location
\* goes, keeps every failure backed.
LEMMA NoNewFailure ==
    ASSUME TypeOK, TypeOK', EvidenceInv, IsFiniteSet(results'), results \subseteq results',
           mon'.cf = mon.cf \/ mon'.cf = 0,
           ~Bound' => ~Bound \/ mon'.cf = 0,
           \A l \in DOMAIN locState' : l \in DOMAIN locState /\ locState'[l].cf = locState[l].cf
    PROVE  EvidenceInv'
<1> USE FailingRowsGrow
<1>1. mon.cf \in Nat /\ mon'.cf \in Nat
  BY DEF TypeOK
<1>2. ~Bound' => mon'.cf <= Cardinality(FailingRows(Fleet)')
  <2>1. ~Bound => mon.cf <= Cardinality(FailingRows(Fleet))
    BY DEF EvidenceInv
  <2> QED BY <1>1, <2>1
<1>3. \E s \in Streams : mon'.cf <= Cardinality(FailingRows(s)')
  <2>1. PICK s \in Streams : mon.cf <= Cardinality(FailingRows(s))
    BY DEF EvidenceInv, EvidenceBacked
  <2> QED BY <1>1, <2>1
<1>4. ASSUME NEW l \in DOMAIN locState' PROVE locState'[l].cf <= Cardinality(FailingRows(l)')
  <2>1. l \in DOMAIN locState /\ locState'[l].cf = locState[l].cf
    BY <1>4
  <2>2. locState[l].cf \in Nat /\ locState[l].cf <= Cardinality(FailingRows(l))
    BY <2>1 DEF TypeOK, LocRow, EvidenceInv, EvidenceBacked
  <2> QED BY <2>1, <2>2
<1> QED BY <1>2, <1>3, <1>4 DEF EvidenceInv, EvidenceBacked

\* A step that writes the aggregate of backed rows keeps every failure backed:
\* the aggregate's count is one of theirs, or 0.
LEMMA AggregateBacked ==
    ASSUME TypeOK', IsFiniteSet(results'), NEW t, selected' = selected,
           mon'.cf = MaxFailures(locState', t),
           \A l \in DOMAIN locState' : locState'[l].cf <= Cardinality(FailingRows(l)')
    PROVE  EvidenceInv'
<1>1. DOMAIN locState' \subseteq Locations /\ locState' \in [DOMAIN locState' -> LocRow]
  BY DEF TypeOK
<1>2. \/ mon'.cf = 0
      \/ \E l \in FreshVoters(locState', t) : locState'[l].cf = mon'.cf
  BY <1>1, MaxFailuresIsMax
<1>3. FreshVoters(locState', t) \subseteq selected /\ FreshVoters(locState', t) \subseteq DOMAIN locState'
  BY DEF FreshVoters
<1>4. Fleet \in Streams /\ Locations \subseteq Streams
  BY DEF Streams
<1>5. Cardinality(FailingRows(Fleet)') \in Nat
  BY FS_Subset, FS_CardinalityType DEF FailingRows
<1>6. \E s \in Streams : mon'.cf <= Cardinality(FailingRows(s)')
  <2>1. CASE mon'.cf = 0
    BY <1>4, <1>5, <2>1
  <2>2. CASE \E l \in FreshVoters(locState', t) : locState'[l].cf = mon'.cf
    BY <1>1, <1>3, <1>4, <2>2
  <2> QED BY <1>2, <2>1, <2>2
<1>7. ~Bound' => mon'.cf <= Cardinality(FailingRows(Fleet)')
  BY <1>2, <1>3, <1>5 DEF Bound
<1> QED BY <1>6, <1>7 DEF EvidenceInv, EvidenceBacked

\* The count that a location's machine starts from is backed.
LEMMA SnapshotBacked ==
    ASSUME TypeOK, EvidenceInv, NEW l \in Locations
    PROVE  LocSnapshot(l).cf \in Nat /\ LocSnapshot(l).cf <= Cardinality(FailingRows(l))
<1>1. CASE l \in DOMAIN locState
  <2>1. locState[l] \in LocRow /\ locState[l].cf <= Cardinality(FailingRows(l))
    BY <1>1 DEF TypeOK, EvidenceInv, EvidenceBacked
  <2> QED BY <1>1, <2>1 DEF LocSnapshot, LocRow
<1>2. CASE l \notin DOMAIN locState
  <2>1. Cardinality(FailingRows(l)) \in Nat
    BY FS_Subset, FS_CardinalityType DEF FailingRows, EvidenceInv
  <2> QED BY <1>2, <2>1 DEF LocSnapshot
<1> QED BY <1>1, <1>2

\* persist counts a failure only together with the row it inserts.
LEMMA PersistBacked ==
    ASSUME TypeOK, TypeOK', EvidenceInv, NEW r \in Message, NEW t \in Nat, persist(r, t)
    PROVE  EvidenceInv'
<1>1. insertResult(r) /\ selected' = selected
  BY PersistCases DEF adminVars
<1>2. /\ IsFiniteSet(results') /\ results \subseteq results'
      /\ ~Duplicate(r) /\ r.source = "monitor" /\ IsFailureStatus(r.status)
           => Cardinality(FailingRows(r.loc)') = Cardinality(FailingRows(r.loc)) + 1
  BY <1>1, InsertResultGrows DEF EvidenceInv
<1>3. \A s : /\ Cardinality(FailingRows(s)) \in Nat /\ Cardinality(FailingRows(s)') \in Nat
             /\ Cardinality(FailingRows(s)) <= Cardinality(FailingRows(s)')
  BY <1>2, FailingRowsGrow
<1>4. CASE FleetApplied(r)
  <2>1. ~Bound /\ ~Duplicate(r) /\ r.loc = Fleet /\ r.source = "monitor" /\ UNCHANGED locState
    BY <1>4 DEF FleetApplied, Applies
  <2>2. mon.cf \in Nat /\ mon.cf <= Cardinality(FailingRows(Fleet))
    BY <2>1 DEF TypeOK, EvidenceInv
  <2>3. mon'.cf <= Cardinality(FailingRows(Fleet)')
    <3>1. CASE IsFailureStatus(r.status)
      <4>1. mon'.cf = mon.cf + 1
        BY <1>4, <3>1 DEF FleetApplied
      <4>2. Cardinality(FailingRows(Fleet)') = Cardinality(FailingRows(Fleet)) + 1
        BY <1>2, <2>1, <3>1
      <4> QED BY <1>3, <2>2, <4>1, <4>2
    <3>2. CASE ~IsFailureStatus(r.status)
      <4>1. mon'.cf = 0
        BY <1>4, <3>2 DEF FleetApplied
      <4> QED BY <1>3, <4>1
    <3> QED BY <3>1, <3>2
  <2>4. ASSUME NEW l \in DOMAIN locState' PROVE locState'[l].cf <= Cardinality(FailingRows(l)')
    <3>1. locState'[l].cf \in Nat /\ locState'[l].cf <= Cardinality(FailingRows(l))
      BY <2>1, <2>4 DEF TypeOK, LocRow, EvidenceInv, EvidenceBacked
    <3> QED BY <1>3, <3>1
  <2>5. Fleet \in Streams
    BY DEF Streams
  <2> QED BY <1>2, <2>3, <2>4, <2>5 DEF EvidenceInv, EvidenceBacked
<1>5. CASE LocationApplied(r, t)
  <2>1. ASSUME NEW l \in DOMAIN locState' PROVE locState'[l].cf <= Cardinality(FailingRows(l)')
    <3>1. CASE l = r.loc /\ IsFailureStatus(r.status)
      <4>1. locState'[l].cf = LocSnapshot(l).cf + 1
        BY <1>5, <3>1 DEF LocationApplied
      <4>2. LocSnapshot(l).cf \in Nat /\ LocSnapshot(l).cf <= Cardinality(FailingRows(l))
        BY <1>5, <3>1, SnapshotBacked DEF LocationApplied
      <4>3. ~Duplicate(r) /\ r.source = "monitor"
        BY <1>5 DEF LocationApplied, AppliesAtLocation
      <4>4. Cardinality(FailingRows(l)') = Cardinality(FailingRows(l)) + 1
        BY <1>2, <3>1, <4>3
      <4> QED BY <1>3, <4>1, <4>2, <4>4
    <3>2. CASE l = r.loc /\ ~IsFailureStatus(r.status)
      <4>1. locState'[l].cf = 0
        BY <1>5, <3>2 DEF LocationApplied
      <4> QED BY <1>3, <4>1
    <3>3. CASE l # r.loc
      <4>1. l \in DOMAIN locState /\ locState'[l] = locState[l]
        BY <1>5, <2>1, <3>3 DEF LocationApplied
      <4>2. locState[l].cf \in Nat /\ locState[l].cf <= Cardinality(FailingRows(l))
        BY <4>1 DEF TypeOK, LocRow, EvidenceInv, EvidenceBacked
      <4> QED BY <1>3, <4>1, <4>2
    <3> QED BY <3>1, <3>2, <3>3
  <2>2. mon'.cf = MaxFailures(locState', t)
    BY <1>5 DEF LocationApplied
  <2> QED BY <1>1, <1>2, <2>1, <2>2, AggregateBacked
<1>6. CASE UNCHANGED <<mon, locState, lastApplied>>
  BY <1>1, <1>2, <1>6, NoNewFailure DEF Bound
<1> QED BY <1>4, <1>5, <1>6, PersistCases


\* A step that leaves check_results, the rows and the set of locations alone
\* keeps every failure backed if it keeps the monitor's count or clears it.
LEMMA UntouchedBacked ==
    ASSUME TypeOK, TypeOK', EvidenceInv, UNCHANGED <<results, selected, locState>>,
           mon'.cf = mon.cf \/ mon'.cf = 0
    PROVE  EvidenceInv'
<1>1. Bound' = Bound /\ IsFiniteSet(results') /\ results \subseteq results'
  BY DEF Bound, EvidenceInv
<1> QED BY <1>1, NoNewFailure

\* The rows that are kept are rows there were.
LEMMA KeepRowsKeeps ==
    ASSUME NEW S, NEW l \in DOMAIN KeepRows(S)
    PROVE  l \in DOMAIN locState /\ l \in S /\ KeepRows(S)[l] = locState[l]
BY DEF KeepRows

\* EvidenceInv is inductive, given the types.
LEMMA EvidenceStep ==
    ASSUME TypeOK, TypeOK', EvidenceInv, [Next]_vars PROVE EvidenceInv'
<1> USE UntouchedBacked
<1>0. IsFiniteSet(results)
  BY DEF EvidenceInv
<1>1. CASE Reports
  BY <1>1 DEF Reports, RunCheck, ExpireJob, ReceivePush, ReceiveExport, RequestFails, Report,
             adminVars
<1>2. CASE Ingest
  <2>1. ASSUME NEW r \in queue \cup verified, NEW t \in TxStarts, persist(r, t)
        PROVE  EvidenceInv'
    <3>1. r \in Message /\ t \in Nat
      BY TxStartsType DEF TypeOK
    <3> QED BY <2>1, <3>1, PersistBacked
  <2>2. ASSUME NEW r, NEW acked, VerifyLocationResult(r, acked) \/ IngestFails(r)
        PROVE  EvidenceInv'
    BY <2>2 DEF VerifyLocationResult, IngestFails, adminVars
  <2> QED BY <1>2, <2>1, <2>2 DEF Ingest, HandleFleetResult, HandleLocationResult
<1>3. CASE Watchdog
  <2>1. CASE ScanActive \/ ScanQuorum \/ ScanHeartbeat \/ WatchdogAborts
    BY <2>1 DEF ScanActive, ScanQuorum, ScanHeartbeat, Scan, WatchdogAborts, WatchdogDone, adminVars
  <2>2. ASSUME NEW t \in TxStarts, markMonitorUnknown(t) PROVE EvidenceInv'
    <3>1. mon' = mon \/ mon' = [mon EXCEPT !.state = "unknown", !.cf = 0]
      BY <2>2 DEF markMonitorUnknown
    <3>2. mon'.cf = mon.cf \/ mon'.cf = 0
      BY <3>1 DEF TypeOK
    <3> QED BY <2>2, <3>2 DEF markMonitorUnknown, WatchdogDone, adminVars
  <2>3. ASSUME NEW t \in TxStarts, reaggregateMonitor(t) PROVE EvidenceInv'
    <3>1. UNCHANGED <<results, selected, locState>>
      BY <2>3 DEF reaggregateMonitor, WatchdogDone, adminVars
    <3>2. CASE mon' = mon
      BY <3>1, <3>2
    <3>3. CASE mon' # mon
      <4>1. PICK st : mon' = [mon EXCEPT !.state = st, !.cf = MaxFailures(locState, t)]
        BY <2>3, <3>3 DEF reaggregateMonitor
      <4>2. mon'.cf = MaxFailures(locState', t)
        BY <3>1, <4>1 DEF TypeOK
      <4>3. \A l \in DOMAIN locState' : locState'[l].cf <= Cardinality(FailingRows(l)')
        BY <3>1 DEF EvidenceInv, EvidenceBacked, FailingRows
      <4> QED BY <1>0, <3>1, <4>2, <4>3, AggregateBacked
    <3> QED BY <3>2, <3>3
  <2>4. ASSUME NEW t \in TxStarts, recordAbsence(t) PROVE EvidenceInv'
    BY <2>4, TxStartsType, AbsencePersists, PersistBacked
  <2> QED BY <1>3, <2>1, <2>2, <2>3, <2>4 DEF Watchdog
<1>4. CASE Administration
  <2>1. ASSUME NEW b \in BOOLEAN, NEW t \in TxStarts, SetEnabled(b, t) PROVE EvidenceInv'
    <3>1. mon'.cf = 0 /\ DOMAIN locState' = {} /\ UNCHANGED results
      BY <2>1 DEF SetEnabled, TypeOK
    <3> QED BY <1>0, <3>1, NoNewFailure
  <2>2. ASSUME NEW L, NEW t, NEW q, NEW th, NEW iv, NEW l,
               \/ DeleteMonitor \/ SetLocationsBegin(L, t) \/ UpdateMonitor(q, th, iv) \/ UpdateLocation(l)
        PROVE  EvidenceInv'
    <3>1. \/ mon' = mon \/ mon' = [mon EXCEPT !.deleted = TRUE]
          \/ mon' = [mon EXCEPT !.quorum = q, !.threshold = th, !.interval = iv]
      BY <2>2 DEF DeleteMonitor, SetLocationsBegin, UpdateMonitor, UpdateLocation
    <3>2. mon'.cf = mon.cf
      BY <3>1 DEF TypeOK
    <3> QED BY <2>2, <3>2 DEF DeleteMonitor, SetLocationsBegin, UpdateMonitor, UpdateLocation, adminVars
  <2>3. CASE SetLocationsCommit
    <3>1. /\ locState' = KeepRows(pending.locs) /\ selected' = pending.locs /\ UNCHANGED results
          /\ IF pending.locs = {} THEN mon' = [mon EXCEPT !.state = "unknown", !.cf = 0]
             ELSE mon' = mon
      BY <2>3 DEF SetLocationsCommit
    <3>2. (mon'.cf = mon.cf \/ mon'.cf = 0) /\ (~Bound' => mon'.cf = 0)
      BY <3>1 DEF TypeOK, Bound
    <3> QED BY <1>0, <3>1, <3>2, KeepRowsKeeps, NoNewFailure
  <2>4. ASSUME NEW l \in Locations, NEW t \in TxStarts, DeleteLocation(l, t) PROVE EvidenceInv'
    <3> DEFINE resets == l \in selected /\ selected \ {l} = {}
    <3>1. PICK q : mon' = [mon EXCEPT !.quorum = q,
                                      !.state = IF resets THEN "unknown" ELSE mon.state,
                                      !.cf = IF resets THEN 0 ELSE mon.cf]
      BY <2>4 DEF DeleteLocation
    <3>2. mon'.cf = IF resets THEN 0 ELSE mon.cf
      BY <3>1 DEF TypeOK
    <3>3. /\ locState' = KeepRows(Locations \ {l}) /\ selected' = selected \ {l}
          /\ UNCHANGED results
      BY <2>4 DEF DeleteLocation
    <3>4. ~Bound' => ~Bound \/ mon'.cf = 0
      BY <3>2, <3>3 DEF Bound
    <3> QED BY <1>0, <3>2, <3>3, <3>4, KeepRowsKeeps, NoNewFailure
  <2> QED BY <1>4, <2>1, <2>2, <2>3, <2>4 DEF Administration
<1>5. CASE Tick \/ UNCHANGED vars
  BY <1>5 DEF Tick, vars, adminVars
<1> QED BY <1>1, <1>2, <1>3, <1>4, <1>5 DEF Next

\* A created monitor has counted nothing.
LEMMA EvidenceInit == ASSUME Init PROVE EvidenceInv
<1>1. results = {} /\ mon.cf = 0 /\ DOMAIN locState = {}
  BY DEF Init
<1>2. \A s : FailingRows(s) = {}
  BY <1>1 DEF FailingRows
<1>3. IsFiniteSet(results) /\ \A s : Cardinality(FailingRows(s)) = 0
  BY <1>1, <1>2, FS_EmptySet
<1>4. Fleet \in Streams
  BY DEF Streams
<1> QED BY <1>1, <1>3, <1>4 DEF EvidenceInv, EvidenceBacked

\* No redelivery, expired job or race makes the monitor or a location count a
\* failure that check_results does not hold as a distinct observed row of the
\* stream, for any number of locations and any threshold.
THEOREM FailuresAreBacked == Spec => []EvidenceBacked
<1>1. Init => EvidenceInv
  BY EvidenceInit
<1>2. TypeOK /\ TypeOK' /\ EvidenceInv /\ [Next]_vars => EvidenceInv'
  BY EvidenceStep
<1>3. EvidenceInv => EvidenceBacked
  BY DEF EvidenceInv
<1> QED BY <1>1, <1>2, <1>3, TypeCorrect, PTL DEF Spec


-----------------------------------------------------------------------------
(* Who may write the state, and on what grounds.                           *)

\* The steps that change monitors.current_state: a result, the two passes of
\* the watchdog that re-derive it, and the resets of the API.
LEMMA StateWriters ==
    ASSUME TypeOK, [Next]_vars
    PROVE  \/ mon'.state = mon.state
           \/ \E r \in Message, t \in TxStarts : persist(r, t) /\ (wd' = wd \/ r.loc = Fleet)
           \/ \E t \in TxStarts : reaggregateMonitor(t) \/ markMonitorUnknown(t)
           \/ mon'.state = "unknown" /\ wd' = wd
<1>1. CASE Reports
  BY <1>1 DEF Reports, RunCheck, ExpireJob, ReceivePush, ReceiveExport, RequestFails, Report
<1>2. CASE Ingest
  <2>1. queue \subseteq Message /\ verified \subseteq Message
    BY DEF TypeOK
  <2> QED BY <1>2, <2>1 DEF Ingest, HandleFleetResult, HandleLocationResult, VerifyLocationResult,
                            IngestFails
<1>3. CASE Watchdog
  <2>1. CASE ScanActive \/ ScanQuorum \/ ScanHeartbeat \/ WatchdogAborts
    BY <2>1 DEF ScanActive, ScanQuorum, ScanHeartbeat, Scan, WatchdogAborts
  <2>2. ASSUME NEW t \in TxStarts, recordAbsence(t)
        PROVE  \E r \in Message : persist(r, t) /\ r.loc = Fleet
    <3> DEFINE msg == [id |-> nextId, loc |-> Fleet, status |-> "failure", source |-> "monitor",
                       started |-> now, synthetic |-> TRUE]
    <3>1. msg \in Message /\ msg.loc = Fleet
      BY DEF TypeOK, Message, Streams
    <3>2. persist(msg, t)
      BY <2>2 DEF recordAbsence, persist
    <3> QED BY <3>1, <3>2
  <2> QED BY <1>3, <2>1, <2>2 DEF Watchdog
<1>4. CASE Administration
  <2>1. ASSUME NEW b, NEW t, SetEnabled(b, t) PROVE mon'.state = "unknown" /\ wd' = wd
    BY <2>1 DEF SetEnabled, TypeOK
  <2>2. ASSUME NEW L, NEW t, NEW q, NEW th, NEW iv, NEW l,
               \/ DeleteMonitor \/ SetLocationsBegin(L, t) \/ UpdateMonitor(q, th, iv) \/ UpdateLocation(l)
        PROVE  mon'.state = mon.state
    <3>1. \/ mon' = mon \/ mon' = [mon EXCEPT !.deleted = TRUE]
          \/ mon' = [mon EXCEPT !.quorum = q, !.threshold = th, !.interval = iv]
      BY <2>2 DEF DeleteMonitor, SetLocationsBegin, UpdateMonitor, UpdateLocation
    <3> QED BY <3>1 DEF TypeOK
  <2>3. CASE SetLocationsCommit
    <3>1. mon' = mon \/ mon' = [mon EXCEPT !.state = "unknown", !.cf = 0]
      BY <2>3 DEF SetLocationsCommit
    <3>2. mon'.state = mon.state \/ mon'.state = "unknown"
      BY <3>1 DEF TypeOK
    <3> QED BY <2>3, <3>2 DEF SetLocationsCommit
  <2>4. ASSUME NEW l, NEW t, DeleteLocation(l, t)
        PROVE  mon'.state = mon.state \/ (mon'.state = "unknown" /\ wd' = wd)
    <3>1. PICK q, st, cf : /\ mon' = [mon EXCEPT !.quorum = q, !.state = st, !.cf = cf]
                           /\ st \in {mon.state, "unknown"}
      BY <2>4 DEF DeleteLocation
    <3>2. mon'.state = st
      BY <3>1 DEF TypeOK
    <3> QED BY <2>4, <3>1, <3>2 DEF DeleteLocation
  <2> QED BY <1>4, <2>1, <2>2, <2>3, <2>4 DEF Administration
<1>5. CASE Tick \/ UNCHANGED vars
  BY <1>5 DEF Tick, vars
<1> QED BY <1>1, <1>2, <1>3, <1>4, <1>5 DEF Next

\* An aggregate that is "down" counts an effective quorum of live selected
\* locations, each with as many failing rows as the threshold asks for.
LEMMA DownHasQuorum ==
    ASSUME TypeOK, TypeOK', StillConfirmed, EvidenceInv', NEW t \in TxStarts,
           AggregateLocations(LoadFreshLocationCounts(locState', t), mon.quorum) = "down"
    PROVE  Cardinality({l \in selected \cap Live : ConfirmedDown(l) /\ StillFresh(l)})
             >= EffectiveQuorum([selected |-> Cardinality(selected \cap Live)], mon.quorum)
<1> DEFINE Confirmed == {l \in selected \cap Live : ConfirmedDown(l) /\ StillFresh(l)}
           Down == {l \in FreshVoters(locState', t) : locState'[l].state = "down"}
           counts == LoadFreshLocationCounts(locState', t)
           all == Cardinality(selected \cap Live)
           quorum == EffectiveQuorum([selected |-> all], mon.quorum)
<1>1. counts.down = Cardinality(Down) /\ counts.selected = all
  BY DEF LoadFreshLocationCounts
<1>2. EffectiveQuorum(counts, mon.quorum) = quorum
  BY <1>1 DEF EffectiveQuorum
<1>3. Cardinality(Down) >= quorum
  <2>1. AggregateLocations(counts, mon.quorum) = "down"
    OBVIOUS
  <2> HIDE DEF Down, counts, quorum
  <2> QED BY <1>1, <1>2, <2>1 DEF AggregateLocations
<1>4. Down \subseteq Confirmed
  <2>1. SUFFICES ASSUME NEW l \in Down PROVE l \in Confirmed
    OBVIOUS
  <2>2. l \in selected \cap Live /\ l \in DOMAIN locState' /\ locState'[l].state = "down"
    BY DEF FreshVoters
  <2>3. PICK th \in thresholds : locState'[l].cf >= ClampLow(th)
    BY <2>2 DEF StillConfirmed, RowsConfirmed, FailureCountMatches
  <2>10. locState'[l].cf \in Nat /\ locState'[l].checkAt \in Nat
    BY <2>2 DEF TypeOK, LocRow
  <2>4. locState'[l].cf <= Cardinality(FailingRows(l)')
    BY <2>2 DEF EvidenceInv, EvidenceBacked
  <2>5. Cardinality(FailingRows(l)') \in Nat
    BY FS_Subset, FS_CardinalityType DEF FailingRows, EvidenceInv
  <2>6. ClampLow(th) \in Nat
    BY DEF ClampLow, TypeOK
  <2>7. Cardinality(FailingRows(l)') >= ClampLow(th)
    BY <2>3, <2>4, <2>5, <2>6, <2>10
  <2>8. ConfirmedDown(l)
    BY <2>7 DEF ConfirmedDown, FailingRows
  <2>9. StillFresh(l)
    <3>1. locState'[l].checkAt >= t - Horizon
      BY DEF FreshVoters
    <3>2. t \in Nat /\ now \in Nat /\ LockWait \in Nat /\ now - t <= LockWait /\ Horizon \in Int
      BY PipelineAssumption, TxStartsType, HorizonType DEF TxStarts, TypeOK
    <3>3. \A c, b, n, w, h \in Int : c >= b - h /\ n - b <= w => c >= n - w - h
      OBVIOUS
    <3>4. locState'[l].checkAt >= now - LockWait - Horizon
      BY <2>10, <3>1, <3>2, <3>3
    <3> QED BY <2>2, <3>4 DEF StillFresh
  <2> QED BY <2>2, <2>8, <2>9
<1>5. IsFiniteSet(Confirmed) /\ all \in Nat
  <2>1. IsFiniteSet(selected \cap Live)
    BY PipelineAssumption, FS_Subset DEF TypeOK
  <2> QED BY <2>1, FS_Subset, FS_CardinalityType
<1>6. /\ Cardinality(Down) \in Nat /\ Cardinality(Confirmed) \in Nat
      /\ Cardinality(Down) <= Cardinality(Confirmed)
  <2> HIDE DEF Down, Confirmed
  <2> QED BY <1>4, <1>5, FS_Subset, FS_CardinalityType
<1>7. quorum \in Nat
  <2> HIDE DEF all
  <2>1. mon.quorum \in Nat
    BY DEF TypeOK
  <2> QED BY <1>5, <2>1 DEF EffectiveQuorum, ClampLow
<1> HIDE DEF Confirmed, Down, quorum
<1>8. Cardinality(Confirmed) >= quorum
  BY <1>3, <1>6, <1>7
<1> QED BY <1>8 DEF Confirmed, quorum

\* The step behind QuorumRespected.
LEMMA QuorumStep ==
    ASSUME TypeOK, TypeOK', ConfirmedInv, EvidenceInv', [Next]_vars,
           Bound, mon'.state = "down", mon.state # "down"
    PROVE  Cardinality({l \in selected \cap Live : ConfirmedDown(l) /\ StillFresh(l)})
             >= EffectiveQuorum([selected |-> Cardinality(selected \cap Live)], mon.quorum)
<1>1. ASSUME NEW r \in Message, NEW t \in TxStarts, persist(r, t)
      PROVE  AggregateLocations(LoadFreshLocationCounts(locState', t), mon.quorum) = "down"
  <2>1. FleetApplied(r) \/ LocationApplied(r, t) \/ UNCHANGED <<mon, locState, lastApplied>>
    BY <1>1, TxStartsType, PersistCases
  <2> QED BY <2>1 DEF FleetApplied, Applies, LocationApplied
<1>2. ASSUME NEW t \in TxStarts, reaggregateMonitor(t)
      PROVE  AggregateLocations(LoadFreshLocationCounts(locState', t), mon.quorum) = "down"
  <2> DEFINE st == AggregateLocations(LoadFreshLocationCounts(locState, t), mon.quorum)
  <2>1. locState' = locState /\ mon' = [mon EXCEPT !.state = st, !.cf = MaxFailures(locState, t)]
    BY <1>2 DEF reaggregateMonitor
  <2> HIDE DEF st
  <2>2. st = "down"
    BY <2>1 DEF TypeOK
  <2> QED BY <2>1, <2>2 DEF st
<1>3. ASSUME NEW t \in TxStarts, markMonitorUnknown(t) PROVE FALSE
  <2>1. mon' = mon \/ mon' = [mon EXCEPT !.state = "unknown", !.cf = 0]
    BY <1>3 DEF markMonitorUnknown
  <2> QED BY <2>1 DEF TypeOK
<1>4. \E t \in TxStarts : AggregateLocations(LoadFreshLocationCounts(locState', t), mon.quorum) = "down"
  BY <1>1, <1>2, <1>3, StateWriters
<1>5. StillConfirmed
  BY ConfirmedStep
<1> QED BY <1>4, <1>5, DownHasQuorum

\* Under every quorum, threshold and set of locations, a monitor bound to
\* locations goes "down" only when an effective quorum of the live selected ones
\* has each reported a threshold of distinct failures, whatever edit of the set,
\* the quorum or the locations raced the results.
THEOREM DownTakesAQuorum == Spec => QuorumRespected
<1> DEFINE Q == Bound /\ mon'.state = "down" /\ mon.state # "down"
                => Cardinality({l \in selected \cap Live : ConfirmedDown(l) /\ StillFresh(l)})
                     >= EffectiveQuorum([selected |-> Cardinality(selected \cap Live)], mon.quorum)
<1>1. TypeOK /\ TypeOK' /\ ConfirmedInv /\ EvidenceInv' /\ [Next]_vars => [Q]_mon
  BY QuorumStep
<1>2. Init => EvidenceInv
  BY EvidenceInit
<1>3. TypeOK /\ TypeOK' /\ EvidenceInv /\ [Next]_vars => EvidenceInv'
  BY EvidenceStep
<1>4. QuorumRespected <=> [][Q]_mon
  BY DEF QuorumRespected
<1> HIDE DEF Q
<1> QED BY <1>1, <1>2, <1>3, <1>4, TypeCorrect, ConfirmedAlways, PTL DEF Spec


-----------------------------------------------------------------------------
(* Evidence in order, and absence only when there is none.                 *)

\* Only a result moves a watermark or changes a row; the other steps keep rows
\* or drop them.
LEMMA OnlyResultsWriteRows ==
    ASSUME TypeOK, [Next]_vars
    PROVE  \/ \E r \in Message, t \in TxStarts : persist(r, t)
           \/ /\ mon'.lastStarted = mon.lastStarted /\ UNCHANGED lastApplied
              /\ \A l \in DOMAIN locState' : l \in DOMAIN locState /\ locState'[l] = locState[l]
<1>1. CASE Reports
  BY <1>1 DEF Reports, RunCheck, ExpireJob, ReceivePush, ReceiveExport, RequestFails, Report
<1>2. CASE Ingest
  <2>1. queue \subseteq Message /\ verified \subseteq Message
    BY DEF TypeOK
  <2> QED BY <1>2, <2>1 DEF Ingest, HandleFleetResult, HandleLocationResult, VerifyLocationResult,
                            IngestFails
<1>3. CASE Watchdog
  <2>1. CASE ScanActive \/ ScanQuorum \/ ScanHeartbeat \/ WatchdogAborts
    BY <2>1 DEF ScanActive, ScanQuorum, ScanHeartbeat, Scan, WatchdogAborts
  <2>2. ASSUME NEW t, markMonitorUnknown(t) \/ reaggregateMonitor(t)
        PROVE  mon'.lastStarted = mon.lastStarted /\ UNCHANGED <<lastApplied, locState>>
    <3>1. PICK st, cf : mon' = mon \/ mon' = [mon EXCEPT !.state = st, !.cf = cf]
      BY <2>2 DEF markMonitorUnknown, reaggregateMonitor
    <3>2. mon'.lastStarted = mon.lastStarted
      BY <3>1 DEF TypeOK
    <3> QED BY <2>2, <3>2 DEF markMonitorUnknown, reaggregateMonitor
  <2> QED BY <1>3, <2>1, <2>2, AbsencePersists DEF Watchdog
<1>4. CASE Administration
  <2>1. ASSUME NEW b, NEW t, SetEnabled(b, t)
        PROVE  mon'.lastStarted = mon.lastStarted /\ UNCHANGED lastApplied /\ DOMAIN locState' = {}
    BY <2>1 DEF SetEnabled, TypeOK
  <2>2. ASSUME NEW L, NEW t, NEW q, NEW th, NEW iv, NEW l,
               \/ DeleteMonitor \/ SetLocationsBegin(L, t) \/ UpdateMonitor(q, th, iv) \/ UpdateLocation(l)
        PROVE  mon'.lastStarted = mon.lastStarted /\ UNCHANGED <<lastApplied, locState>>
    <3>1. \/ mon' = mon \/ mon' = [mon EXCEPT !.deleted = TRUE]
          \/ mon' = [mon EXCEPT !.quorum = q, !.threshold = th, !.interval = iv]
      BY <2>2 DEF DeleteMonitor, SetLocationsBegin, UpdateMonitor, UpdateLocation
    <3>2. mon'.lastStarted = mon.lastStarted
      BY <3>1 DEF TypeOK
    <3> QED BY <2>2, <3>2 DEF DeleteMonitor, SetLocationsBegin, UpdateMonitor, UpdateLocation
  <2>3. ASSUME NEW t, NEW l, SetLocationsCommit \/ DeleteLocation(l, t)
        PROVE  /\ mon'.lastStarted = mon.lastStarted /\ UNCHANGED lastApplied
               /\ \E S : locState' = KeepRows(S)
    <3>1. PICK q, st, cf : \/ mon' = mon \/ mon' = [mon EXCEPT !.state = st, !.cf = cf]
                           \/ mon' = [mon EXCEPT !.quorum = q, !.state = st, !.cf = cf]
      BY <2>3 DEF SetLocationsCommit, DeleteLocation
    <3>2. mon'.lastStarted = mon.lastStarted
      BY <3>1 DEF TypeOK
    <3> QED BY <2>3, <3>2 DEF SetLocationsCommit, DeleteLocation
  <2> QED BY <1>4, <2>1, <2>2, <2>3, KeepRowsKeeps DEF Administration
<1>5. CASE Tick \/ UNCHANGED vars
  BY <1>5 DEF Tick, vars
<1> QED BY <1>1, <1>2, <1>3, <1>4, <1>5 DEF Next

\* The watermarks show the evidence applied last, and a row is written by a
\* result only: it never holds "unknown".
WatermarkInv ==
    /\ lastApplied[Fleet] = mon.lastStarted
    /\ \A l \in DOMAIN locState : lastApplied[l] = locState[l].started /\ locState[l].state # "unknown"

\* A location whose row exists moves forward, as the fleet always does.
EvidenceMove ==
    /\ WatermarkInv'
    /\ \A s \in {Fleet} \cup DOMAIN locState : lastApplied'[s] >= lastApplied[s]

\* Each step keeps the watermarks true and moves no stream back.
LEMMA WatermarkStep ==
    ASSUME TypeOK, TypeOK', WatermarkInv, [Next]_vars PROVE EvidenceMove
<1>1. \A s \in Streams : lastApplied[s] \in Int
  BY DEF TypeOK, Never
<1>2. DOMAIN locState \subseteq Locations /\ Fleet \in Streams /\ Locations \subseteq Streams
      /\ Fleet \notin Locations
  BY PipelineAssumption DEF TypeOK, Streams
<1>3. ASSUME mon'.lastStarted = mon.lastStarted, UNCHANGED lastApplied,
             \A l \in DOMAIN locState' : l \in DOMAIN locState /\ locState'[l] = locState[l]
      PROVE  EvidenceMove
  BY <1>1, <1>2, <1>3 DEF EvidenceMove, WatermarkInv
<1>4. ASSUME NEW r \in Message, NEW t \in TxStarts, persist(r, t) PROVE EvidenceMove
  <2>1. r.started \in Nat /\ lastApplied \in [Streams -> Nat \cup {Never}]
    BY DEF Message, TypeOK
  <2>2. CASE FleetApplied(r)
    <3>1. CASE r.synthetic
      BY <1>1, <1>2, <2>2, <3>1 DEF FleetApplied, EvidenceMove, WatermarkInv
    <3>2. CASE ~r.synthetic
      <4>1. /\ lastApplied'[Fleet] = r.started /\ mon'.lastStarted = r.started
            /\ \A l \in Locations : lastApplied'[l] = lastApplied[l]
            /\ UNCHANGED locState /\ ~(r.started < mon.lastStarted)
        BY <1>2, <2>1, <2>2, <3>2 DEF FleetApplied, Applies
      <4>2. mon.lastStarted \in Int
        BY <1>1, <1>2 DEF WatermarkInv
      <4>3. lastApplied'[Fleet] >= lastApplied[Fleet]
        BY <2>1, <4>1, <4>2 DEF WatermarkInv
      <4> QED BY <1>1, <1>2, <4>1, <4>3 DEF EvidenceMove, WatermarkInv
    <3> QED BY <3>1, <3>2
  <2>3. CASE LocationApplied(r, t)
    <3>1. /\ r.loc \in Locations
          /\ lastApplied'[r.loc] = r.started
          /\ \A s \in Streams \ {r.loc} : lastApplied'[s] = lastApplied[s]
      BY <1>2, <2>1, <2>3 DEF LocationApplied
    <3>2. /\ DOMAIN locState' = DOMAIN locState \cup {r.loc}
          /\ \A l \in DOMAIN locState \ {r.loc} : locState'[l] = locState[l]
          /\ locState'[r.loc].state # "unknown" /\ locState'[r.loc].started = r.started
          /\ mon'.lastStarted = mon.lastStarted
      BY <2>3 DEF LocationApplied
    <3>3. r.loc \in DOMAIN locState => lastApplied'[r.loc] >= lastApplied[r.loc]
      <4>1. SUFFICES ASSUME r.loc \in DOMAIN locState PROVE lastApplied'[r.loc] >= lastApplied[r.loc]
        OBVIOUS
      <4>2. ~(r.started < locState[r.loc].started) /\ lastApplied[r.loc] = locState[r.loc].started
        BY <2>3, <4>1 DEF LocationApplied, AppliesAtLocation, LocSnapshot, WatermarkInv
      <4> QED BY <1>1, <1>2, <2>1, <3>1, <4>2
    <3>4. WatermarkInv'
      BY <1>2, <3>1, <3>2 DEF WatermarkInv
    <3>5. \A s \in {Fleet} \cup DOMAIN locState : lastApplied'[s] >= lastApplied[s]
      BY <1>1, <1>2, <3>1, <3>3
    <3> QED BY <3>4, <3>5 DEF EvidenceMove
  <2>4. CASE UNCHANGED <<mon, locState, lastApplied>>
    BY <1>3, <2>4
  <2> QED BY <1>4, <2>2, <2>3, <2>4, TxStartsType, PersistCases
<1> QED BY <1>3, <1>4, OnlyResultsWriteRows

\* A created monitor has no watermark and no row.
LEMMA WatermarkInit == ASSUME Init PROVE WatermarkInv
BY DEF Init, WatermarkInv, Streams

\* The evidence of each stream is applied in the order in which the checks
\* started, however late and however often results arrive: for the fleet over the
\* whole life of the monitor, for a location as long as its row exists.
THEOREM EvidenceInOrder == Spec => LateResultNeverApplied
<1>1. Init => WatermarkInv
  BY WatermarkInit
<1>2. TypeOK /\ TypeOK' /\ WatermarkInv /\ [Next]_vars
        => /\ WatermarkInv'
           /\ [\A s \in {Fleet} \cup DOMAIN locState : lastApplied'[s] >= lastApplied[s]]_lastApplied
  BY WatermarkStep DEF EvidenceMove
<1> QED BY <1>1, <1>2, TypeCorrect, PTL DEF Spec, LateResultNeverApplied


\* An aggregate that is "unknown" has no voter at all, since no row is "unknown":
\* none at the transaction's NOW(), so none now.
LEMMA UnknownHasNoVoter ==
    ASSUME TypeOK, WatermarkInv, NEW t \in TxStarts,
           AggregateLocations(LoadFreshLocationCounts(locState, t), mon.quorum) = "unknown"
    PROVE  FreshVoters(locState, now) = {}
<1> DEFINE In(st) == Cardinality({l \in FreshVoters(locState, t) : locState[l].state = st})
           counts == LoadFreshLocationCounts(locState, t)
<1>1. t \in Nat /\ now \in Nat /\ t <= now /\ Horizon \in Int
  BY HorizonType, TxStartsType DEF TxStarts, TypeOK
<1>2. counts.down = In("down") /\ counts.suspect = In("suspect") /\ counts.up = In("up")
  BY DEF LoadFreshLocationCounts
<1>3. \A st : /\ In(st) \in Nat
              /\ In(st) > 0 <=> \E l \in FreshVoters(locState, t) : locState[l].state = st
  <2>1. ASSUME NEW st
        PROVE  /\ In(st) \in Nat
               /\ In(st) > 0 <=> \E l \in FreshVoters(locState, t) : locState[l].state = st
    BY CountPositive, ZenonT(60)
  <2> QED BY <2>1
<1>4. ~(counts.down > 0) /\ ~(counts.suspect > 0) /\ ~(counts.up > 0)
  <2>1. AggregateLocations(counts, mon.quorum) = "unknown"
    OBVIOUS
  <2> HIDE DEF counts
  <2> QED BY <2>1 DEF AggregateLocations
<1>5. \A l \in FreshVoters(locState, t) : locState[l].state \notin {"down", "suspect", "up"}
  <2> HIDE DEF In, counts
  <2> QED BY <1>2, <1>3, <1>4
<1>6. \A l \in DOMAIN locState : locState[l].state \in {"down", "suspect", "up"} /\ locState[l].checkAt \in Nat
  BY DEF TypeOK, LocRow, StreamStates, MonitorStates, WatermarkInv
<1>7. FreshVoters(locState, t) = {}
  BY <1>5, <1>6 DEF FreshVoters
<1>8. ASSUME NEW l \in FreshVoters(locState, now) PROVE FALSE
  <2>1. l \in selected \cap Live /\ l \in DOMAIN locState /\ locState[l].checkAt >= now - Horizon
    BY <1>8 DEF FreshVoters
  <2>2. locState[l].checkAt >= t - Horizon
    BY <1>1, <1>6, <2>1
  <2>3. l \in FreshVoters(locState, t)
    BY <2>1, <2>2 DEF FreshVoters
  <2> QED BY <1>7, <2>3
<1> QED BY <1>8

\* The step behind AbsenceOnlyWhenStale.
LEMMA AbsenceStep ==
    ASSUME TypeOK, WatermarkInv, [Next]_vars, TurnsUnknown, wd = "active" <=> ~Bound
    PROVE  ~HasFreshEvidence
<1>1. ASSUME NEW r \in Message, NEW t \in TxStarts, persist(r, t), wd' = wd \/ r.loc = Fleet
      PROVE  FALSE
  <2>1. FleetApplied(r) \/ LocationApplied(r, t) \/ UNCHANGED <<mon, locState, lastApplied>>
    BY <1>1, TxStartsType, PersistCases
  <2>2. r.loc = Fleet
    BY <1>1 DEF TurnsUnknown
  <2>3. ~LocationApplied(r, t)
    BY <2>2, PipelineAssumption DEF LocationApplied
  <2> QED BY <2>1, <2>3 DEF FleetApplied, TurnsUnknown
<1>2. ASSUME NEW t \in TxStarts, reaggregateMonitor(t) PROVE ~HasFreshEvidence
  <2> DEFINE st == AggregateLocations(LoadFreshLocationCounts(locState, t), mon.quorum)
  <2>1. wd = "quorum" /\ mon' = [mon EXCEPT !.state = st, !.cf = MaxFailures(locState, t)]
    BY <1>2 DEF reaggregateMonitor, TurnsUnknown
  <2>2. st = "unknown"
    <3> HIDE DEF st
    <3> QED BY <2>1 DEF TypeOK, TurnsUnknown
  <2>3. Bound
    BY <2>1
  <2> QED BY <2>2, <2>3, UnknownHasNoVoter DEF HasFreshEvidence
<1>3. ASSUME NEW t \in TxStarts, markMonitorUnknown(t) PROVE ~HasFreshEvidence
  <2>1. wd = "active" /\ Stale(t)
    BY <1>3 DEF markMonitorUnknown, TurnsUnknown, MarksUnknown
  <2>2. ~Bound
    BY <2>1
  <2>3. t \in Nat /\ now \in Nat /\ t <= now /\ Horizon \in Int /\ mon.lastResultAt \in Nat
    BY HorizonType, TxStartsType DEF TxStarts, TypeOK
  <2>4. ~(mon.lastResultAt >= now - Horizon)
    BY <2>1, <2>3 DEF Stale
  <2> QED BY <2>2, <2>4 DEF HasFreshEvidence
<1> QED BY <1>1, <1>2, <1>3, StateWriters DEF TurnsUnknown

\* A result that lands between the scan of the watchdog and its transaction is
\* never discarded: a monitor that is still checked as the scan found it, by the
\* fleet or by locations, turns unknown only when all its evidence is stale.
THEOREM AbsenceIsReal == Spec => AbsenceOnlyWhenStale
<1>1. Init => WatermarkInv
  BY WatermarkInit
<1>2. TypeOK /\ TypeOK' /\ WatermarkInv /\ [Next]_vars => WatermarkInv'
  BY WatermarkStep DEF EvidenceMove
<1>3. TypeOK /\ WatermarkInv /\ [Next]_vars
        => [TurnsUnknown /\ (wd = "active" <=> ~Bound) => ~HasFreshEvidence]_vars
  BY AbsenceStep
<1> QED BY <1>1, <1>2, <1>3, TypeCorrect, PTL DEF Spec, AbsenceOnlyWhenStale

=============================================================================
