------------------------ MODULE AlertLifecycleProofs ------------------------
(***************************************************************************)
(* Theorems about AlertLifecycle for every set of replicas, channels and   *)
(* alert ids and every bound.                                              *)
(***************************************************************************)
EXTENDS AlertLifecycle, SequenceTheorems, FiniteSetTheorems, TLAPS

-----------------------------------------------------------------------------
(* Types.                                                                  *)

\* What the dispatchers put on a replica's list.
LEMMA TodoType ==
    ASSUME TypeOK
    PROVE  /\ \A a \in Alerts : Recoveries(a) \in SUBSET Delivery
           /\ DueNow \in SUBSET Delivery
BY DEF TypeOK, Recoveries, Fired, DueNow, OpenAlerts, Delivery, Events

\* The record of a tick that has moved on.
LEMMA TickType ==
    ASSUME NEW t \in LifecycleTick
    PROVE  /\ \A p \in Phases : [t EXCEPT !.pc = p] \in LifecycleTick
           /\ \A p \in Phases, a \in Alerts \cup {0} :
                 [t EXCEPT !.pc = p, !.target = a] \in LifecycleTick
           /\ \A p \in Phases, T \in SUBSET Delivery :
                 [t EXCEPT !.pc = p, !.todo = T] \in LifecycleTick
           /\ \A p \in Phases, a \in Alerts \cup {0}, T \in SUBSET Delivery :
                 [t EXCEPT !.pc = p, !.target = a, !.todo = T] \in LifecycleTick
           /\ \A p \in Phases, B \in SUBSET Alerts, b \in BOOLEAN :
                 [t EXCEPT !.pc = p, !.batch = B, !.short = b] \in LifecycleTick
           /\ \A a \in Alerts, T \in SUBSET Delivery, B \in SUBSET Alerts :
                 [t EXCEPT !.batch = B, !.todo = T, !.cursor = a] \in LifecycleTick
           /\ \A T \in SUBSET Delivery, d \in Delivery \cup {Nothing} :
                 [t EXCEPT !.todo = T, !.hold = d] \in LifecycleTick
           /\ \A d \in Delivery \cup {Nothing} : [t EXCEPT !.hold = d] \in LifecycleTick
BY DEF LifecycleTick

\* The tick of one replica moves on; the others keep theirs.
LEMMA ProcType ==
    ASSUME TypeOK, NEW r \in Alerters, NEW t \in LifecycleTick, proc' = [proc EXCEPT ![r] = t],
           t.pc \in {"resolve", "notify"} => t.target \in Alerts
    PROVE  /\ proc' \in [Alerters -> LifecycleTick]
           /\ \A q \in Alerters : proc'[q].pc \in {"resolve", "notify"} => proc'[q].target \in Alerts
BY DEF TypeOK

\* What a delivery writes, and what it appends to an inbox.
LEMMA WrittenType ==
    ASSUME TypeOK, NEW d \in Delivery
    PROVE  Written(d) \in [Alerts -> [Channels -> Row]]
<1>1. /\ d.alert \in Alerts /\ d.channel \in Channels /\ d.event \in Events /\ d.at \in Nat
  BY DEF Delivery
<1>2. row[d.alert] \in [Channels -> Row] /\ row[d.alert][d.channel] \in Row
  BY <1>1 DEF TypeOK
<1>3. CASE d.event = "acknowledged"
  <2>1. [row[d.alert][d.channel] EXCEPT !.acked = TRUE] \in Row
    BY <1>2 DEF Row
  <2> QED BY <1>1, <1>2, <1>3, <2>1 DEF Written, TypeOK
<1>4. CASE d.event # "acknowledged"
  <2>1. [row[d.alert][d.channel] EXCEPT !.last = d.event, !.at = d.at] \in Row
    BY <1>1, <1>2, <1>4 DEF Row, Events
  <2> QED BY <1>1, <1>2, <1>4, <2>1 DEF Written, TypeOK
<1> QED BY <1>3, <1>4

LEMMA AcceptedType ==
    ASSUME TypeOK, NEW d \in Delivery
    PROVE  Accepted(d) \in [Alerts -> [Channels -> Seq(Events)]]
BY DEF TypeOK, Accepted, Delivery

\* An alert is resolved, or acknowledged.
LEMMA ClosedType ==
    ASSUME TypeOK, NEW a \in Alerts, NEW x \in {"acknowledged", "resolved"}
    PROVE  [alerts EXCEPT ![a].status = x] \in [Alerts -> [status : Open \cup {"none", "resolved"}, at : Nat]]
BY DEF TypeOK, Open

\* Every step of a replica's tick.
LEMMA LifecycleType ==
    ASSUME TypeOK, NEW r \in Alerters, runLifecycle(r)
    PROVE  TypeOK'
<1> DEFINE Moves(t) == proc' = [proc EXCEPT ![r] = t]
<1>0. proc[r] \in LifecycleTick
  BY DEF TypeOK
<1>1. ASSUME NEW p \in Phases \ {"resolve", "notify"}, Moves([proc[r] EXCEPT !.pc = p])
      PROVE  /\ proc' \in [Alerters -> LifecycleTick]
             /\ \A q \in Alerters : proc'[q].pc \in {"resolve", "notify"} => proc'[q].target \in Alerts
  <2>1. [proc[r] EXCEPT !.pc = p].pc = p
    BY <1>0 DEF LifecycleTick
  <2> QED BY <1>0, <1>1, <2>1, TickType, ProcType
<1>2. CASE openAlertsForDownMonitors(r)
  <2>1. PICK p \in {"insert", "scan"} : Moves([proc[r] EXCEPT !.pc = p])
    BY <1>2 DEF openAlertsForDownMonitors
  <2> QED BY <1>1, <1>2, <2>1 DEF openAlertsForDownMonitors, TypeOK, Phases
<1>3. CASE openOutageAlert(r)
  <2>1. PICK p \in {"scan"} : Moves([proc[r] EXCEPT !.pc = p])
    BY <1>3 DEF openOutageAlert
  <2>2. alerts' \in [Alerts -> [status : Open \cup {"none", "resolved"}, at : Nat]]
    <3>1. CASE UNCHANGED alerts
      BY <3>1 DEF TypeOK
    <3>2. ASSUME NEW a \in Alerts, alerts' = [alerts EXCEPT ![a] = [status |-> "active", at |-> now]]
          PROVE  alerts' \in [Alerts -> [status : Open \cup {"none", "resolved"}, at : Nat]]
      BY <3>2 DEF TypeOK, Open
    <3> QED BY <1>3, <3>1, <3>2 DEF openOutageAlert
  <2> QED BY <1>1, <1>3, <2>1, <2>2 DEF openOutageAlert, TypeOK, Phases
<1>4. CASE resolveAlertsForRecoveredMonitors(r)
  <2>1. CASE Moves([proc[r] EXCEPT !.pc = "dispatch"])
    BY <1>1, <1>4, <2>1 DEF resolveAlertsForRecoveredMonitors, TypeOK, Phases
  <2>2. ASSUME NEW a \in Alerts, Moves([proc[r] EXCEPT !.pc = "resolve", !.target = a]) PROVE TypeOK'
    <3>1. [proc[r] EXCEPT !.pc = "resolve", !.target = a] \in LifecycleTick
      BY <1>0, TickType DEF Phases
    <3>2. [proc[r] EXCEPT !.pc = "resolve", !.target = a].target \in Alerts
      BY <1>0 DEF LifecycleTick
    <3> QED BY <1>4, <2>2, <3>1, <3>2, ProcType, ZenonT(60) DEF resolveAlertsForRecoveredMonitors, TypeOK
  <2> QED BY <1>4, <2>1, <2>2 DEF resolveAlertsForRecoveredMonitors, OpenAlerts
<1>5. CASE resolveAlert(r)
  <2>1. proc[r].target \in Alerts
    BY <1>5 DEF resolveAlert, At, TypeOK
  <2>2. alerts' \in [Alerts -> [status : Open \cup {"none", "resolved"}, at : Nat]]
    <3>1. CASE alerts' = [alerts EXCEPT ![proc[r].target].status = "resolved"]
      BY <2>1, <3>1, ClosedType
    <3>2. CASE UNCHANGED alerts
      BY <3>2 DEF TypeOK
    <3> QED BY <1>5, <3>1, <3>2 DEF resolveAlert
  <2>3. CASE Moves([proc[r] EXCEPT !.pc = "notify"])
    <3>1. [proc[r] EXCEPT !.pc = "notify"].target \in Alerts
      BY <1>0, <2>1 DEF LifecycleTick
    <3>2. [proc[r] EXCEPT !.pc = "notify"] \in LifecycleTick
      BY <1>0, TickType DEF Phases
    <3> QED BY <1>5, <2>2, <2>3, <3>1, <3>2, ProcType, SMTT(30) DEF resolveAlert, TypeOK
  <2>4. CASE Moves([proc[r] EXCEPT !.pc = "dispatch", !.target = 0])
    <3>1. [proc[r] EXCEPT !.pc = "dispatch", !.target = 0].pc = "dispatch"
      BY <1>0 DEF LifecycleTick
    <3>2. [proc[r] EXCEPT !.pc = "dispatch", !.target = 0] \in LifecycleTick
      BY <1>0, TickType DEF Phases
    <3> QED BY <1>5, <2>2, <2>4, <3>1, <3>2, ProcType, SMTT(30) DEF resolveAlert, TypeOK
  <2> QED BY <1>5, <2>3, <2>4 DEF resolveAlert
<1>6. CASE notifyFiredChannels(r)
  <2> DEFINE t == [proc[r] EXCEPT !.pc = "dispatch", !.target = 0, !.todo = Recoveries(proc[r].target)]
  <2>1. Recoveries(proc[r].target) \in SUBSET Delivery
    BY <1>6, TodoType, SMTT(30) DEF notifyFiredChannels, At, TypeOK
  <2>2. t \in LifecycleTick
    BY <1>0, <2>1, TickType DEF Phases
  <2>3. t.pc = "dispatch"
    BY <1>0 DEF LifecycleTick
  <2> QED BY <1>6, <2>2, <2>3, ProcType DEF notifyFiredChannels, TypeOK
<1>7. ASSUME NEW p \in Phases \ {"resolve", "notify"}, NEW T \in SUBSET Delivery,
             Moves([proc[r] EXCEPT !.pc = p, !.todo = T])
      PROVE  /\ proc' \in [Alerters -> LifecycleTick]
             /\ \A q \in Alerters : proc'[q].pc \in {"resolve", "notify"} => proc'[q].target \in Alerts
  <2>1. [proc[r] EXCEPT !.pc = p, !.todo = T].pc = p
    BY <1>0 DEF LifecycleTick
  <2>2. [proc[r] EXCEPT !.pc = p, !.todo = T] \in LifecycleTick
    BY <1>0, TickType
  <2> QED BY <1>7, <2>1, <2>2, ProcType
<1>8. CASE dispatchOpenAlerts(r)
  <2>1. PICK T \in SUBSET Delivery : Moves([proc[r] EXCEPT !.pc = "ack", !.todo = T])
    BY <1>8, TodoType DEF dispatchOpenAlerts
  <2> QED BY <1>7, <1>8, <2>1 DEF dispatchOpenAlerts, TypeOK, Phases
<1>9. CASE dispatchAcknowledgements(r)
  <2>1. PICK T \in SUBSET Delivery : Moves([proc[r] EXCEPT !.pc = "recover", !.todo = T])
    <3> DEFINE T == {d \in [alert : Alerts, channel : active \cap Paging,
                            event : {"acknowledged"}, at : {now}] :
                        alerts[d.alert].status = "acknowledged" /\ AckDue(d.alert, d.channel)}
    <3>1. T \in SUBSET Delivery
      BY DEF Delivery, Events, TypeOK
    <3> QED BY <1>9, <3>1 DEF dispatchAcknowledgements
  <2> QED BY <1>7, <1>9, <2>1 DEF dispatchAcknowledgements, TypeOK, Phases
<1>10. CASE dispatchPendingRecoveries(r)
  <2>1. PICK B \in SUBSET Alerts, b \in BOOLEAN :
           Moves([proc[r] EXCEPT !.pc = "sweep", !.batch = B, !.short = b])
    <3> DEFINE B == {a \in PendingRecoveries(proc[r].cursor) :
                        Cardinality({b \in PendingRecoveries(proc[r].cursor) : b < a}) < RecoveryBatch}
    <3>1. B \in SUBSET Alerts
      BY DEF PendingRecoveries
    <3>2. (Cardinality(B) < RecoveryBatch) \in BOOLEAN
      OBVIOUS
    <3>3. Moves([proc[r] EXCEPT !.pc = "sweep", !.batch = B, !.short = Cardinality(B) < RecoveryBatch])
      BY <1>10, SMTT(30) DEF dispatchPendingRecoveries
    <3> QED BY <3>1, <3>2, <3>3
  <2>2. [proc[r] EXCEPT !.pc = "sweep", !.batch = B, !.short = b] \in LifecycleTick
    BY <1>0, TickType DEF Phases
  <2>3. [proc[r] EXCEPT !.pc = "sweep", !.batch = B, !.short = b].pc = "sweep"
    BY <1>0 DEF LifecycleTick
  <2> QED BY <1>10, <2>1, <2>2, <2>3, ProcType DEF dispatchPendingRecoveries, TypeOK
<1>11. CASE SweepNext(r)
  <2>1. PICK a \in proc[r].batch :
           Moves([proc[r] EXCEPT !.batch = proc[r].batch \ {a}, !.todo = Recoveries(a), !.cursor = a])
    BY <1>11 DEF SweepNext
  <2> DEFINE t == [proc[r] EXCEPT !.batch = proc[r].batch \ {a}, !.todo = Recoveries(a), !.cursor = a]
  <2>2. proc[r].batch \in SUBSET Alerts /\ a \in Alerts
    BY <1>0 DEF LifecycleTick
  <2>3. t \in LifecycleTick
    BY <1>0, <2>2, TodoType, TickType
  <2>4. t.pc = "sweep"
    BY <1>0, <1>11 DEF SweepNext, At, LifecycleTick
  <2> QED BY <1>11, <2>1, <2>3, <2>4, ProcType DEF SweepNext, TypeOK
<1>12. CASE SweepEnds(r)
  <2>1. [Idle EXCEPT !.cursor = NextCursor(r)] \in LifecycleTick
    BY <1>0 DEF NextCursor, LifecycleTick, Phases, Idle
  <2>2. [Idle EXCEPT !.cursor = NextCursor(r)].pc = "idle"
    BY DEF Idle
  <2> QED BY <1>12, <2>1, <2>2, ProcType DEF SweepEnds, TypeOK
<1>13. CASE Claim(r)
  <2>1. PICK d \in proc[r].todo : claimNotificationTx(r, d)
    BY <1>13 DEF Claim
  <2>2. PICK h \in {d, Nothing} : Moves([proc[r] EXCEPT !.todo = proc[r].todo \ {d}, !.hold = h])
    BY <2>1 DEF claimNotificationTx
  <2> DEFINE t == [proc[r] EXCEPT !.todo = proc[r].todo \ {d}, !.hold = h]
  <2>3. proc[r].todo \in SUBSET Delivery /\ h \in Delivery \cup {Nothing}
    BY <1>0 DEF LifecycleTick
  <2>4. t \in LifecycleTick
    BY <1>0, <2>3, TickType
  <2>5. t.pc = proc[r].pc /\ t.target = proc[r].target
    BY <1>0 DEF LifecycleTick
  <2>6. t.pc \in {"resolve", "notify"} => t.target \in Alerts
    BY <2>5 DEF TypeOK
  <2> QED BY <2>1, <2>2, <2>4, <2>6, ProcType DEF claimNotificationTx, TypeOK
<1>14. CASE Deliver(r)
  <2> DEFINE d == proc[r].hold
  <2>1. d \in Delivery
    BY <1>0, <1>14 DEF Deliver, deliverNotification, LifecycleTick
  <2>2. [proc[r] EXCEPT !.hold = Nothing] \in LifecycleTick
    BY <1>0, TickType
  <2>3. /\ [proc[r] EXCEPT !.hold = Nothing].pc = proc[r].pc
        /\ [proc[r] EXCEPT !.hold = Nothing].target = proc[r].target
    BY <1>0 DEF LifecycleTick
  <2>4. [proc[r] EXCEPT !.hold = Nothing].pc \in {"resolve", "notify"}
           => [proc[r] EXCEPT !.hold = Nothing].target \in Alerts
    BY <2>3 DEF TypeOK
  <2>5. Moves([proc[r] EXCEPT !.hold = Nothing])
    BY <1>14 DEF Deliver, deliverNotification
  <2>6. /\ row' = Written(d) /\ inbox' \in {inbox, Accepted(d)}
        /\ UNCHANGED <<now, mon, alerts, active, faults, changes>>
    BY <1>14 DEF Deliver, deliverNotification
  <2> QED BY <2>1, <2>2, <2>4, <2>5, <2>6, ProcType, WrittenType, AcceptedType DEF TypeOK
<1> QED BY <1>2, <1>3, <1>4, <1>5, <1>6, <1>8, <1>9, <1>10, <1>11, <1>12, <1>13, <1>14 DEF runLifecycle

\* Failures lose the tick, or the claim, of one replica.
LEMMA FailuresType ==
    ASSUME TypeOK, NEW r \in Alerters, Failures(r)
    PROVE  TypeOK'
<1> DEFINE Moves(t) == proc' = [proc EXCEPT ![r] = t]
<1>0. proc[r] \in LifecycleTick
  BY DEF TypeOK
<1>1. ASSUME Faulty PROVE faults' \in Nat
  BY <1>1 DEF Faulty, TypeOK
<1>2. ASSUME NEW accepted \in BOOLEAN, DeliveryFails(r, accepted) PROVE TypeOK'
  <2> DEFINE t == [proc[r] EXCEPT !.hold = Nothing]
  <2>1. proc[r].hold \in Delivery
    BY <1>0, <1>2 DEF DeliveryFails, LifecycleTick
  <2>2. t \in LifecycleTick
    BY <1>0, TickType
  <2>3. t.pc = proc[r].pc /\ t.target = proc[r].target
    BY <1>0 DEF LifecycleTick
  <2>4. t.pc \in {"resolve", "notify"} => t.target \in Alerts
    BY <2>3 DEF TypeOK
  <2>5. /\ Moves(t) /\ Faulty /\ inbox' \in {inbox, Accepted(proc[r].hold)}
        /\ UNCHANGED <<now, mon, alerts, row, active, changes>>
    BY <1>2 DEF DeliveryFails
  <2> QED BY <1>1, <2>1, <2>2, <2>4, <2>5, ProcType, AcceptedType DEF TypeOK
<1>3. CASE PhaseFails(r)
  <2>1. \/ \E p \in {"recover", "scan", "ack"} : Moves([proc[r] EXCEPT !.pc = p])
        \/ Moves([proc[r] EXCEPT !.pc = "dispatch", !.target = 0])
    BY <1>3 DEF PhaseFails
  <2>2. PICK t \in LifecycleTick : t.pc \notin {"resolve", "notify"} /\ Moves(t)
    <3>1. ASSUME NEW p \in {"recover", "scan", "ack"}
          PROVE  [proc[r] EXCEPT !.pc = p] \in LifecycleTick /\ [proc[r] EXCEPT !.pc = p].pc = p
      BY <1>0 DEF LifecycleTick, Phases
    <3>2. /\ [proc[r] EXCEPT !.pc = "dispatch", !.target = 0] \in LifecycleTick
          /\ [proc[r] EXCEPT !.pc = "dispatch", !.target = 0].pc = "dispatch"
      BY <1>0 DEF LifecycleTick, Phases
    <3> QED BY <2>1, <3>1, <3>2
  <2> QED BY <1>1, <1>3, <2>2, ProcType DEF PhaseFails, TypeOK
<1>4. CASE SweepAborted(r)
  <2>1. [Idle EXCEPT !.cursor = proc[r].cursor] \in LifecycleTick
    BY <1>0 DEF LifecycleTick, Phases, Idle
  <2>2. [Idle EXCEPT !.cursor = proc[r].cursor].pc = "idle"
    BY DEF Idle
  <2> QED BY <1>1, <1>4, <2>1, <2>2, ProcType DEF SweepAborted, TypeOK
<1>5. CASE Crash(r)
  <2>1. Idle \in LifecycleTick /\ Idle.pc = "idle"
    BY DEF LifecycleTick, Phases, Idle
  <2>2. inbox' \in [Alerts -> [Channels -> Seq(Events)]]
    <3>1. proc[r].hold \in Delivery \cup {Nothing}
      BY <1>0 DEF LifecycleTick
    <3> QED BY <1>5, <3>1, AcceptedType DEF Crash, TypeOK
  <2> QED BY <1>1, <1>5, <2>1, <2>2, ProcType DEF Crash, TypeOK
<1> QED BY <1>2, <1>3, <1>4, <1>5 DEF Failures

\* The monitor, its operators and the clock.
LEMMA EnvironmentType ==
    ASSUME TypeOK, Environment
    PROVE  TypeOK'
<1> USE DEF TypeOK
<1>1. CASE MonitorChanges
  <2>1. mon' \in Monitor
    BY <1>1 DEF MonitorChanges, Monitor
  <2> QED BY <1>1, <2>1 DEF MonitorChanges, Changes
<1>2. ASSUME NEW a \in Alerts, AcknowledgeAlert(a) \/ ResolveAlert(a) PROVE TypeOK'
  <2>1. PICK x \in {"acknowledged", "resolved"} : alerts' = [alerts EXCEPT ![a].status = x]
    BY <1>2 DEF AcknowledgeAlert, ResolveAlert
  <2>2. alerts' \in [Alerts -> [status : Open \cup {"none", "resolved"}, at : Nat]]
    BY <2>1, ClosedType
  <2> QED BY <1>2, <2>2 DEF AcknowledgeAlert, ResolveAlert, Changes
<1>3. ASSUME NEW c \in Channels, ToggleChannel(c) PROVE TypeOK'
  BY <1>3 DEF ToggleChannel, Changes
<1>4. CASE Tick
  BY <1>4 DEF Tick
<1> QED BY <1>1, <1>2, <1>3, <1>4 DEF Environment

\* Every table, list and claim keeps its type, whatever fails.
THEOREM AlertsTypeCorrect == Spec => []TypeOK
<1>1. Init => TypeOK
  <2> SUFFICES ASSUME Init PROVE TypeOK
    OBVIOUS
  <2>1. Idle \in LifecycleTick /\ Idle.pc = "idle"
    BY DEF LifecycleTick, Phases, Idle
  <2>2. mon \in Monitor
    BY DEF Init, Monitor
  <2>3. row \in [Alerts -> [Channels -> Row]]
    BY DEF Init, Row
  <2>4. alerts \in [Alerts -> [status : Open \cup {"none", "resolved"}, at : Nat]]
    BY DEF Init, Open
  <2>5. inbox \in [Alerts -> [Channels -> Seq(Events)]]
    BY DEF Init
  <2>6. proc \in [Alerters -> LifecycleTick] /\ \A r \in Alerters : proc[r].pc = "idle"
    BY <2>1 DEF Init
  <2> QED BY <2>2, <2>3, <2>4, <2>5, <2>6 DEF Init, TypeOK
<1>2. TypeOK /\ [Next]_vars => TypeOK'
  <2> SUFFICES ASSUME TypeOK, [Next]_vars PROVE TypeOK'
    OBVIOUS
  <2>1. CASE UNCHANGED vars
    BY <2>1 DEF vars, TypeOK
  <2> QED BY <2>1, LifecycleType, FailuresType, EnvironmentType DEF Next
<1> QED BY <1>1, <1>2, PTL DEF Spec

-----------------------------------------------------------------------------
(* One open alert.                                                         *)

\* An open alert appears only where there was none; nothing reopens one.
LEMMA OneOpenAlertStep ==
    ASSUME TypeOK, OneOpenAlert, [Next]_vars
    PROVE  OneOpenAlert'
<1> DEFINE Closes == \A a \in Alerts : alerts'[a].status \in Open => alerts[a].status \in Open
<1>1. CASE Closes
  BY <1>1 DEF OneOpenAlert, OpenAlerts
<1>2. ASSUME NEW r \in Alerters, openOutageAlert(r) PROVE OneOpenAlert'
  <2>1. CASE UNCHANGED alerts
    BY <1>1, <2>1
  <2>2. ASSUME NEW a \in Alerts, OpenAlerts = {},
               alerts' = [alerts EXCEPT ![a] = [status |-> "active", at |-> now]]
        PROVE  OneOpenAlert'
    BY <2>2 DEF OneOpenAlert, OpenAlerts, TypeOK
  <2> QED BY <1>2, <2>1, <2>2 DEF openOutageAlert, NoConflict
<1>3. ASSUME NEW r \in Alerters, resolveAlert(r) PROVE Closes
  <2>1. proc[r].target \in Alerts
    BY <1>3 DEF resolveAlert, At, TypeOK
  <2> QED BY <1>3, <2>1 DEF resolveAlert, TypeOK, Open
<1>4. ASSUME NEW a \in Alerts, AcknowledgeAlert(a) \/ ResolveAlert(a) PROVE Closes
  BY <1>4 DEF AcknowledgeAlert, ResolveAlert, TypeOK, Open
<1>5. CASE UNCHANGED alerts
  BY <1>1, <1>5
<1>6. ASSUME NEW r \in Alerters, runLifecycle(r), ~openOutageAlert(r), ~resolveAlert(r) PROVE UNCHANGED alerts
  BY <1>6 DEF runLifecycle, openAlertsForDownMonitors, resolveAlertsForRecoveredMonitors,
              notifyFiredChannels, dispatchOpenAlerts, dispatchAcknowledgements,
              dispatchPendingRecoveries, SweepNext, SweepEnds, Claim, claimNotificationTx,
              Deliver, deliverNotification
<1>7. ASSUME NEW r \in Alerters, Failures(r) PROVE UNCHANGED alerts
  BY <1>7 DEF Failures, DeliveryFails, PhaseFails, SweepAborted, Crash
<1>8. CASE MonitorChanges \/ (\E c \in Channels : ToggleChannel(c)) \/ Tick \/ UNCHANGED vars
  BY <1>5, <1>8 DEF MonitorChanges, ToggleChannel, Tick, vars
<1> QED BY <1>1, <1>2, <1>3, <1>4, <1>5, <1>6, <1>7, <1>8 DEF Next, Environment

\* However many replicas insert from old candidate lists, the monitor has at
\* most one open alert.
THEOREM AtMostOneOpenAlert == Spec => []OneOpenAlert
<1>1. Init => OneOpenAlert
  BY DEF Init, OneOpenAlert, OpenAlerts, Open
<1>2. TypeOK /\ OneOpenAlert /\ [Next]_vars => OneOpenAlert'
  BY OneOpenAlertStep
<1> QED BY <1>1, <1>2, AlertsTypeCorrect, PTL DEF Spec

-----------------------------------------------------------------------------
(* Claims and what they let through.                                       *)

\* Every step does one of three things to the claims: none is made, one is
\* made, or one ends, with its row written or at the price of a fault.
NoClaimMade ==
    /\ UNCHANGED <<row, inbox>> /\ faults' >= faults
    /\ \A r \in Alerters : proc'[r].hold \in {proc[r].hold, Nothing}
    /\ \A a \in Alerts : (alerts'[a].status = "resolved") # (alerts[a].status = "resolved")
                            => Unlocked(a)

ClaimMade(r, d) ==
    /\ StatusAllows(d) /\ Claims(d) /\ ~Contended(r, d)
    /\ proc[r].hold = Nothing /\ proc'[r].hold = d
    /\ \A q \in Alerters \ {r} : proc'[q].hold = proc[q].hold
    /\ UNCHANGED <<alerts, row, inbox, faults>>

ClaimEnds(r, d) ==
    /\ proc[r].hold = d /\ proc'[r].hold = Nothing
    /\ \A q \in Alerters \ {r} : proc'[q].hold = proc[q].hold
    /\ inbox' \in {inbox, Accepted(d)}
    /\ \/ row' = Written(d) /\ faults' = faults
       \/ row' = row /\ faults' = faults + 1
    /\ UNCHANGED alerts

ClaimMove ==
    \/ NoClaimMade
    \/ \E r \in Alerters, d \in Delivery : ClaimMade(r, d) \/ ClaimEnds(r, d)

\* A delivery is a claim.
LEMMA DeliveryIsSomething == \A d \in Delivery : d # Nothing
BY AlertAssumption DEF Delivery, Nothing

\* A tick that only moves on keeps its claim.
LEMMA HoldKept ==
    ASSUME TypeOK, NEW r \in Alerters, NEW p, NEW a,
           \/ proc' = [proc EXCEPT ![r].pc = p]
           \/ proc' = [proc EXCEPT ![r] = [@ EXCEPT !.pc = p, !.target = a]]
    PROVE  \A q \in Alerters : proc'[q].hold = proc[q].hold
<1>0. proc \in [Alerters -> LifecycleTick]
  BY DEF TypeOK
<1>1. CASE proc' = [proc EXCEPT ![r].pc = p]
  BY <1>0, <1>1 DEF LifecycleTick
<1>2. CASE proc' = [proc EXCEPT ![r] = [@ EXCEPT !.pc = p, !.target = a]]
  BY <1>0, <1>2 DEF LifecycleTick
<1> QED BY <1>1, <1>2

LEMMA LifecycleClaims ==
    ASSUME TypeOK, NEW r \in Alerters, runLifecycle(r)
    PROVE  ClaimMove
<1>0. proc \in [Alerters -> LifecycleTick] /\ proc[r] \in LifecycleTick /\ faults \in Nat
  BY DEF TypeOK
<1>1. CASE openAlertsForDownMonitors(r)
  BY <1>0, <1>1 DEF openAlertsForDownMonitors, ClaimMove, NoClaimMade, LifecycleTick
<1>2. CASE openOutageAlert(r)
  <2>1. \A a \in Alerts : (alerts'[a].status = "resolved") = (alerts[a].status = "resolved")
    <3>1. CASE UNCHANGED alerts
      BY <3>1
    <3>2. ASSUME NEW a \in Alerts, alerts[a].status = "none",
                 alerts' = [alerts EXCEPT ![a] = [status |-> "active", at |-> now]]
          PROVE  \A b \in Alerts : (alerts'[b].status = "resolved") = (alerts[b].status = "resolved")
      BY <3>2 DEF TypeOK
    <3> QED BY <1>2, <3>1, <3>2 DEF openOutageAlert
  <2> QED BY <1>0, <1>2, <2>1 DEF openOutageAlert, ClaimMove, NoClaimMade, LifecycleTick
<1>3. CASE resolveAlertsForRecoveredMonitors(r)
  <2>1. \A q \in Alerters : proc'[q].hold = proc[q].hold
    BY <1>3, HoldKept DEF resolveAlertsForRecoveredMonitors
  <2>2. UNCHANGED <<alerts, row, inbox, faults>>
    BY <1>3 DEF resolveAlertsForRecoveredMonitors
  <2> QED BY <1>0, <2>1, <2>2 DEF ClaimMove, NoClaimMade
<1>4. CASE resolveAlert(r)
  <2>1. proc[r].target \in Alerts
    BY <1>4 DEF resolveAlert, At, TypeOK
  <2>2. \A a \in Alerts : (alerts'[a].status = "resolved") # (alerts[a].status = "resolved") => Unlocked(a)
    BY <1>4, <2>1 DEF resolveAlert, TypeOK
  <2>3. \A q \in Alerters : proc'[q].hold = proc[q].hold
    <3>1. \/ proc' = [proc EXCEPT ![r].pc = "notify"]
          \/ proc' = [proc EXCEPT ![r] = [@ EXCEPT !.pc = "dispatch", !.target = 0]]
      BY <1>4 DEF resolveAlert
    <3> QED BY <3>1, HoldKept
  <2> QED BY <1>0, <1>4, <2>2, <2>3 DEF resolveAlert, ClaimMove, NoClaimMade
<1>5. CASE notifyFiredChannels(r)
  BY <1>0, <1>5 DEF notifyFiredChannels, ClaimMove, NoClaimMade, LifecycleTick
<1>6. CASE dispatchOpenAlerts(r)
  BY <1>0, <1>6 DEF dispatchOpenAlerts, ClaimMove, NoClaimMade, LifecycleTick
<1>7. CASE dispatchAcknowledgements(r)
  BY <1>0, <1>7 DEF dispatchAcknowledgements, ClaimMove, NoClaimMade, LifecycleTick
<1>8. CASE dispatchPendingRecoveries(r)
  BY <1>0, <1>8 DEF dispatchPendingRecoveries, ClaimMove, NoClaimMade, LifecycleTick
<1>9. CASE SweepNext(r)
  BY <1>0, <1>9 DEF SweepNext, ClaimMove, NoClaimMade, LifecycleTick
<1>10. CASE SweepEnds(r)
  BY <1>0, <1>10 DEF SweepEnds, ClaimMove, NoClaimMade, LifecycleTick, Idle
<1>11. ASSUME NEW d \in proc[r].todo, claimNotificationTx(r, d) PROVE ClaimMove
  <2>1. d \in Delivery
    BY <1>0 DEF LifecycleTick
  <2>2. CASE StatusAllows(d) /\ Claims(d)
    <3>1. proc' = [proc EXCEPT ![r] = [@ EXCEPT !.todo = proc[r].todo \ {d}, !.hold = d]]
      BY <1>11, <2>2 DEF claimNotificationTx
    <3>2. proc'[r].hold = d /\ \A q \in Alerters \ {r} : proc'[q].hold = proc[q].hold
      BY <1>0, <3>1 DEF LifecycleTick
    <3>3. ClaimMade(r, d)
      BY <1>11, <2>2, <3>2 DEF claimNotificationTx, ClaimMade
    <3> QED BY <2>1, <3>3 DEF ClaimMove
  <2>3. CASE ~(StatusAllows(d) /\ Claims(d))
    <3>1. proc' = [proc EXCEPT ![r] = [@ EXCEPT !.todo = proc[r].todo \ {d}, !.hold = Nothing]]
      BY <1>11, <2>3 DEF claimNotificationTx
    <3>2. \A q \in Alerters : proc'[q].hold \in {proc[q].hold, Nothing}
      BY <1>0, <3>1 DEF LifecycleTick
    <3> QED BY <1>0, <1>11, <3>2 DEF claimNotificationTx, ClaimMove, NoClaimMade
  <2> QED BY <2>2, <2>3
<1>12. CASE Deliver(r)
  <2>1. proc[r].hold \in Delivery
    BY <1>0, <1>12 DEF Deliver, deliverNotification, LifecycleTick
  <2>2. proc'[r].hold = Nothing /\ \A q \in Alerters \ {r} : proc'[q].hold = proc[q].hold
    BY <1>0, <1>12 DEF Deliver, deliverNotification, LifecycleTick
  <2>3. ClaimEnds(r, proc[r].hold)
    BY <1>12, <2>2 DEF Deliver, deliverNotification, ClaimEnds
  <2> QED BY <2>1, <2>3 DEF ClaimMove
<1> QED BY <1>1, <1>2, <1>3, <1>4, <1>5, <1>6, <1>7, <1>8, <1>9, <1>10, <1>11, <1>12 DEF runLifecycle, Claim

LEMMA FailuresClaims ==
    ASSUME TypeOK, NEW r \in Alerters, Failures(r)
    PROVE  ClaimMove
<1>0. proc \in [Alerters -> LifecycleTick] /\ proc[r] \in LifecycleTick /\ faults \in Nat
  BY DEF TypeOK
<1>1. ASSUME NEW accepted \in BOOLEAN, DeliveryFails(r, accepted) PROVE ClaimMove
  <2>1. proc[r].hold \in Delivery
    BY <1>0, <1>1 DEF DeliveryFails, LifecycleTick
  <2>2. proc'[r].hold = Nothing /\ \A q \in Alerters \ {r} : proc'[q].hold = proc[q].hold
    BY <1>0, <1>1 DEF DeliveryFails, LifecycleTick
  <2>3. ClaimEnds(r, proc[r].hold)
    BY <1>1, <2>2 DEF DeliveryFails, Faulty, ClaimEnds
  <2> QED BY <2>1, <2>3 DEF ClaimMove
<1>2. CASE PhaseFails(r)
  <2>1. \A q \in Alerters : proc'[q].hold = proc[q].hold
    <3>1. \/ \E p \in {"recover", "scan", "ack"} : proc' = [proc EXCEPT ![r].pc = p]
          \/ proc' = [proc EXCEPT ![r] = [@ EXCEPT !.pc = "dispatch", !.target = 0]]
      BY <1>2 DEF PhaseFails
    <3> QED BY <3>1, HoldKept
  <2> QED BY <1>0, <1>2, <2>1 DEF PhaseFails, Faulty, ClaimMove, NoClaimMade
<1>3. CASE SweepAborted(r)
  <2>1. \A q \in Alerters : proc'[q].hold \in {proc[q].hold, Nothing}
    BY <1>0, <1>3 DEF SweepAborted, LifecycleTick, Idle
  <2> QED BY <1>0, <1>3, <2>1 DEF SweepAborted, Faulty, ClaimMove, NoClaimMade
<1>4. CASE Crash(r)
  <2>1. proc'[r].hold = Nothing /\ \A q \in Alerters \ {r} : proc'[q].hold = proc[q].hold
    BY <1>0, <1>4 DEF Crash, LifecycleTick, Idle
  <2>2. CASE proc[r].hold = Nothing
    BY <1>0, <1>4, <2>1, <2>2 DEF Crash, Faulty, ClaimMove, NoClaimMade
  <2>3. CASE proc[r].hold # Nothing
    <3>1. proc[r].hold \in Delivery
      BY <1>0, <2>3 DEF LifecycleTick
    <3>2. ClaimEnds(r, proc[r].hold)
      BY <1>4, <2>1, <2>3 DEF Crash, Faulty, ClaimEnds
    <3> QED BY <3>1, <3>2 DEF ClaimMove
  <2> QED BY <2>2, <2>3
<1> QED BY <1>1, <1>2, <1>3, <1>4 DEF Failures

LEMMA EveryStepClaims ==
    ASSUME TypeOK, [Next]_vars
    PROVE  ClaimMove
<1>0. faults \in Nat
  BY DEF TypeOK
<1>1. ASSUME NEW a \in Alerts, AcknowledgeAlert(a) \/ ResolveAlert(a) PROVE ClaimMove
  <2>1. \A b \in Alerts : (alerts'[b].status = "resolved") # (alerts[b].status = "resolved") => Unlocked(b)
    BY <1>1 DEF AcknowledgeAlert, ResolveAlert, TypeOK
  <2> QED BY <1>0, <1>1, <2>1 DEF AcknowledgeAlert, ResolveAlert, ClaimMove, NoClaimMade
<1>2. CASE MonitorChanges \/ (\E c \in Channels : ToggleChannel(c)) \/ Tick \/ UNCHANGED vars
  BY <1>0, <1>2 DEF MonitorChanges, ToggleChannel, Tick, vars, ClaimMove, NoClaimMade
<1> QED BY <1>1, <1>2, LifecycleClaims, FailuresClaims DEF Next, Environment

-----------------------------------------------------------------------------
(* No stale page.                                                          *)

\* What a replica is sending fits the alert: the row is locked FOR SHARE.
HoldsFit ==
    \A r \in Alerters : proc[r].hold # Nothing =>
        (proc[r].hold.event = "resolved") = (alerts[proc[r].hold.alert].status = "resolved")

LEMMA HoldsFitStep ==
    ASSUME TypeOK, HoldsFit, ClaimMove
    PROVE  HoldsFit'
<1>0. \A r \in Alerters : proc[r].hold \in Delivery \cup {Nothing}
  BY DEF TypeOK, LifecycleTick
<1>1. CASE NoClaimMade
  <2> SUFFICES ASSUME NEW r \in Alerters, proc'[r].hold # Nothing
               PROVE  (proc'[r].hold.event = "resolved") = (alerts'[proc'[r].hold.alert].status = "resolved")
    BY DEF HoldsFit
  <2>1. proc'[r].hold = proc[r].hold /\ proc[r].hold # Nothing
    BY <1>1 DEF NoClaimMade
  <2>2. proc[r].hold.alert \in Alerts /\ ~Unlocked(proc[r].hold.alert)
    BY <1>0, <2>1 DEF Delivery, Unlocked
  <2>3. (alerts'[proc[r].hold.alert].status = "resolved") = (alerts[proc[r].hold.alert].status = "resolved")
    BY <1>1, <2>2 DEF NoClaimMade
  <2> QED BY <2>1, <2>3 DEF HoldsFit
<1>2. ASSUME NEW r \in Alerters, NEW d \in Delivery, ClaimMade(r, d) PROVE HoldsFit'
  BY <1>2 DEF ClaimMade, HoldsFit, StatusAllows
<1>3. ASSUME NEW r \in Alerters, NEW d \in Delivery, ClaimEnds(r, d) PROVE HoldsFit'
  BY <1>3 DEF ClaimEnds, HoldsFit
<1> QED BY <1>1, <1>2, <1>3 DEF ClaimMove

\* What an accepted message does to the inboxes.
LEMMA AcceptedLast ==
    ASSUME TypeOK, NEW d \in Delivery, NEW a \in Alerts, NEW c \in Channels,
           Accepted(d)[a][c] # inbox[a][c]
    PROVE  a = d.alert /\ c = d.channel /\ Last(Accepted(d)[a][c]) = d.event
<1>1. d.alert \in Alerts /\ d.channel \in Channels /\ d.event \in Events
  BY DEF Delivery
<1>2. inbox[a] \in [Channels -> Seq(Events)] /\ inbox[a][c] \in Seq(Events)
  BY DEF TypeOK
<1>3. a = d.alert /\ c = d.channel /\ Accepted(d)[a][c] = Append(inbox[a][c], d.event)
  BY <1>1, <1>2 DEF Accepted, TypeOK
<1> QED BY <1>1, <1>2, <1>3 DEF Last

\* However old the list a dispatcher works from, a provider takes a page only
\* while the alert is open and a recovery only after the resolution.
THEOREM NoPageIsStale == Spec => NoStalePage
<1> DEFINE Fits == \A a \in Alerts, c \in Channels : inbox'[a][c] # inbox[a][c] =>
                       (Last(inbox'[a][c]) = "resolved") = (alerts[a].status = "resolved")
<1>1. Init => HoldsFit
  BY DEF Init, HoldsFit, Idle
<1>2. TypeOK /\ HoldsFit /\ [Next]_vars => HoldsFit'
  BY HoldsFitStep, EveryStepClaims
<1>3. TypeOK /\ HoldsFit /\ [Next]_vars => [Fits]_inbox
  <2> SUFFICES ASSUME TypeOK, HoldsFit, ClaimMove, NEW a \in Alerts, NEW c \in Channels,
                      inbox'[a][c] # inbox[a][c]
               PROVE  (Last(inbox'[a][c]) = "resolved") = (alerts[a].status = "resolved")
    BY EveryStepClaims
  <2>1. PICK r \in Alerters, d \in Delivery : ClaimEnds(r, d)
    BY DEF ClaimMove, NoClaimMade, ClaimMade
  <2>2. inbox' = Accepted(d)
    BY <2>1 DEF ClaimEnds
  <2>3. a = d.alert /\ Last(inbox'[a][c]) = d.event
    BY <2>2, AcceptedLast
  <2>4. (d.event = "resolved") = (alerts[d.alert].status = "resolved")
    BY <2>1, DeliveryIsSomething DEF HoldsFit, ClaimEnds
  <2> QED BY <2>3, <2>4
<1> QED BY <1>1, <1>2, <1>3, AlertsTypeCorrect, PTL DEF Spec, NoStalePage

-----------------------------------------------------------------------------
(* Once per event.                                                         *)

\* The row of the channel remembers the event.
Remembered(a, c, e) ==
    \/ e = "created" /\ row[a][c].last # "none"
    \/ e = "acknowledged" /\ row[a][c].acked
    \/ e = "resolved" /\ row[a][c].last = "resolved"

\* What is being sent is not remembered yet; a reminder follows a page.
IsNews(d) ==
    /\ d.event # "reminder" => ~Remembered(d.alert, d.channel, d.event)
    /\ d.event = "reminder" => row[d.alert][d.channel].last \notin {"none", "resolved"}

HoldsAreNews == \A r \in Alerters : proc[r].hold # Nothing => IsNews(proc[r].hold)

\* Two replicas never send for the same alert and channel.
HoldsApart ==
    \A r, q \in Alerters : r # q /\ proc[r].hold # Nothing /\ proc[q].hold # Nothing =>
        proc[r].hold.alert # proc[q].hold.alert \/ proc[r].hold.channel # proc[q].hold.channel

\* Every acceptance is remembered, or was paid for with a fault.
Accounted ==
    \A a \in Alerts, c \in Channels, e \in Events \ {"reminder"} :
        Times(e, inbox[a][c]) <= faults + (IF Remembered(a, c, e) THEN 1 ELSE 0)

OnceInv == HoldsAreNews /\ HoldsApart /\ Accounted

\* Times counts: an appended event adds one to its own count.
LEMMA TimesAppend ==
    ASSUME NEW s \in Seq(Events), NEW e \in Events, NEW x \in Events
    PROVE  /\ Times(e, s) \in Nat
           /\ Times(e, Append(s, x)) = Times(e, s) + (IF x = e THEN 1 ELSE 0)
<1> DEFINE S == {i \in DOMAIN s : s[i] = e}
           U == {i \in DOMAIN Append(s, x) : Append(s, x)[i] = e}
           n == Len(s) + 1
<1>1. Len(s) \in Nat /\ DOMAIN s = 1..Len(s)
  OBVIOUS
<1>2. IsFiniteSet(S)
  <2>1. IsFiniteSet(1..Len(s))
    BY <1>1, FS_Interval
  <2>2. S \subseteq 1..Len(s)
    BY <1>1
  <2> QED BY <2>1, <2>2, FS_Subset
<1>3. Cardinality(S) \in Nat
  BY <1>2, FS_CardinalityType
<1>4. /\ DOMAIN Append(s, x) = 1..n
      /\ \A i \in 1..Len(s) : Append(s, x)[i] = s[i]
      /\ Append(s, x)[n] = x
  BY <1>1
<1>5. U = IF x = e THEN S \cup {n} ELSE S
  BY <1>1, <1>4
<1>6. n \notin S
  BY <1>1
<1>7. CASE x = e
  <2>1. Cardinality(S \cup {n}) = Cardinality(S) + 1
    <3> HIDE DEF S, n
    <3> QED BY <1>2, <1>6, FS_AddElement
  <2> QED BY <1>3, <1>5, <1>7, <2>1 DEF Times
<1>8. CASE x # e
  <2>1. U = S
    BY <1>5, <1>8
  <2>2. Times(e, Append(s, x)) = Cardinality(U) /\ Times(e, s) = Cardinality(S)
    BY DEF Times
  <2> HIDE DEF U, S
  <2> QED BY <1>3, <1>8, <2>1, <2>2
<1> QED BY <1>7, <1>8

\* What the end of a claim writes, row by row.
LEMMA WrittenRows ==
    ASSUME TypeOK, NEW d \in Delivery, NEW a \in Alerts, NEW c \in Channels
    PROVE  IF a = d.alert /\ c = d.channel
           THEN IF d.event = "acknowledged"
                THEN /\ Written(d)[a][c].acked = TRUE
                     /\ Written(d)[a][c].last = row[a][c].last
                ELSE /\ Written(d)[a][c].last = d.event
                     /\ Written(d)[a][c].acked = row[a][c].acked
           ELSE Written(d)[a][c] = row[a][c]
<1>1. d.alert \in Alerts /\ d.channel \in Channels
  BY DEF Delivery
<1>2. row[d.alert] \in [Channels -> Row] /\ row[d.alert][d.channel] \in Row
  BY <1>1 DEF TypeOK
<1>3. CASE d.event = "acknowledged"
  BY <1>1, <1>2, <1>3 DEF Written, TypeOK, Row
<1>4. CASE d.event # "acknowledged"
  BY <1>1, <1>2, <1>4 DEF Written, TypeOK, Row
<1> QED BY <1>3, <1>4

LEMMA OnceInvStep ==
    ASSUME TypeOK, TypeOK', OnceInv, ClaimMove
    PROVE  OnceInv'
<1>0. /\ \A r \in Alerters : proc[r].hold \in Delivery \cup {Nothing}
      /\ faults \in Nat /\ faults' \in Nat
      /\ \A a \in Alerts, c \in Channels : inbox[a][c] \in Seq(Events) /\ row[a][c] \in Row
      /\ \A a \in Alerts, c \in Channels, e \in Events : Times(e, inbox[a][c]) \in Nat
  <2>1. \A a \in Alerts, c \in Channels : inbox[a][c] \in Seq(Events) /\ row[a][c] \in Row
    BY DEF TypeOK
  <2> QED BY <2>1, TimesAppend DEF TypeOK, LifecycleTick
<1>1. CASE NoClaimMade
  <2>1. \A r \in Alerters : proc'[r].hold # Nothing => proc'[r].hold = proc[r].hold
    BY <1>1, SMTT(30) DEF NoClaimMade
  <2>2. HoldsAreNews'
    BY <1>1, <2>1 DEF NoClaimMade, OnceInv, HoldsAreNews, IsNews, Remembered
  <2>3. HoldsApart'
    BY <2>1 DEF OnceInv, HoldsApart
  <2>4. Accounted'
    <3> SUFFICES ASSUME NEW a \in Alerts, NEW c \in Channels, NEW e \in Events \ {"reminder"}
                 PROVE  Times(e, inbox'[a][c]) <= faults' + (IF Remembered(a, c, e)' THEN 1 ELSE 0)
      BY DEF Accounted
    <3>1. Remembered(a, c, e)' = Remembered(a, c, e) /\ inbox' = inbox
      BY <1>1 DEF NoClaimMade, Remembered
    <3>2. Times(e, inbox[a][c]) <= faults + (IF Remembered(a, c, e) THEN 1 ELSE 0)
      BY DEF OnceInv, Accounted
    <3> HIDE DEF Times
    <3> QED BY <1>0, <1>1, <3>1, <3>2 DEF NoClaimMade
  <2> QED BY <2>2, <2>3, <2>4 DEF OnceInv
<1>2. ASSUME NEW r \in Alerters, NEW d \in Delivery, ClaimMade(r, d) PROVE OnceInv'
  <2>1. d.event # "reminder" => ~Remembered(d.alert, d.channel, d.event)
    BY <1>2 DEF ClaimMade, Claims, AckDue, Remembered
  <2>2. d.event = "reminder" => row[d.alert][d.channel].last \notin {"none", "resolved"}
    BY <1>2 DEF ClaimMade, Claims, ReminderDue
  <2>3. UNCHANGED <<row, inbox, faults>> /\ proc'[r].hold = d
        /\ \A q \in Alerters \ {r} : proc'[q].hold = proc[q].hold
    BY <1>2, SMTT(30) DEF ClaimMade
  <2>4. HoldsAreNews'
    BY <2>1, <2>2, <2>3 DEF OnceInv, HoldsAreNews, IsNews, Remembered
  <2>5. HoldsApart'
    BY <1>2, <2>3 DEF ClaimMade, OnceInv, HoldsApart, Contended
  <2>6. Accounted'
    BY <2>3 DEF OnceInv, Accounted, Remembered
  <2> QED BY <2>4, <2>5, <2>6 DEF OnceInv
<1>3. ASSUME NEW r \in Alerters, NEW d \in Delivery, ClaimEnds(r, d) PROVE OnceInv'
  <2>1. /\ proc[r].hold = d /\ proc'[r].hold = Nothing /\ d # Nothing
        /\ \A q \in Alerters \ {r} : proc'[q].hold = proc[q].hold
    BY <1>3, DeliveryIsSomething DEF ClaimEnds
  <2>2. HoldsApart'
    BY <2>1 DEF OnceInv, HoldsApart
  <2>3. \A a \in Alerts, c \in Channels : a # d.alert \/ c # d.channel => row'[a][c] = row[a][c]
    <3>1. row' = row \/ row' = Written(d)
      BY <1>3 DEF ClaimEnds
    <3>2. \A a \in Alerts, c \in Channels : a # d.alert \/ c # d.channel => Written(d)[a][c] = row[a][c]
      BY WrittenRows, ZenonT(60)
    <3> QED BY <3>1, <3>2
  <2>4. HoldsAreNews'
    <3> SUFFICES ASSUME NEW q \in Alerters, proc'[q].hold # Nothing
                 PROVE  IsNews(proc[q].hold)'
      BY DEF HoldsAreNews
    <3>1. q # r /\ proc'[q].hold = proc[q].hold
      BY <2>1
    <3>2. proc[q].hold \in Delivery /\ IsNews(proc[q].hold)
      BY <1>0, <3>1 DEF OnceInv, HoldsAreNews
    <3>3. row'[proc[q].hold.alert][proc[q].hold.channel] = row[proc[q].hold.alert][proc[q].hold.channel]
      BY <2>1, <2>3, <3>1, <3>2 DEF OnceInv, HoldsApart, Delivery
    <3> QED BY <3>1, <3>2, <3>3 DEF IsNews, Remembered
  <2>5. Accounted'
    <3> SUFFICES ASSUME NEW a \in Alerts, NEW c \in Channels, NEW e \in Events \ {"reminder"}
                 PROVE  Times(e, inbox'[a][c]) <= faults' + (IF Remembered(a, c, e)' THEN 1 ELSE 0)
      BY DEF Accounted
    <3>1. Times(e, inbox[a][c]) <= faults + (IF Remembered(a, c, e) THEN 1 ELSE 0)
      BY DEF OnceInv, Accounted
    <3> HIDE DEF Times
    <3>2. CASE a # d.alert \/ c # d.channel
      <4>1. inbox'[a][c] = inbox[a][c]
        BY <1>3, <3>2, AcceptedLast DEF ClaimEnds
      <4>2. Remembered(a, c, e)' = Remembered(a, c, e)
        BY <2>3, <3>2 DEF Remembered
      <4> QED BY <1>0, <1>3, <3>1, <4>1, <4>2 DEF ClaimEnds
    <3>3. CASE a = d.alert /\ c = d.channel
      <4>0. Times(e, inbox[a][c]) \in Nat /\ Times(e, inbox'[a][c]) \in Nat
        <5>1. inbox'[a][c] \in Seq(Events)
          BY DEF TypeOK
        <5> QED BY <1>0, <5>1, TimesAppend
      <4>1. \/ inbox'[a][c] = inbox[a][c]
            \/ inbox'[a][c] = Append(inbox[a][c], d.event)
        <5>1. inbox' = inbox \/ inbox' = Accepted(d)
          BY <1>3 DEF ClaimEnds
        <5>2. Accepted(d)[a][c] = Append(inbox[a][c], d.event)
          BY <3>3 DEF Accepted, TypeOK
        <5> QED BY <5>1, <5>2
      <4>2. d.event \in Events
        BY DEF Delivery
      <4>3. Times(e, inbox'[a][c]) <= Times(e, inbox[a][c]) + (IF d.event = e THEN 1 ELSE 0)
        <5>1. Times(e, Append(inbox[a][c], d.event)) = Times(e, inbox[a][c]) + (IF d.event = e THEN 1 ELSE 0)
          BY <1>0, <4>2, TimesAppend
        <5>2. Times(e, inbox[a][c]) \in Nat
          BY <1>0
        <5>3. CASE inbox'[a][c] = inbox[a][c]
          BY <5>2, <5>3
        <5>4. CASE inbox'[a][c] = Append(inbox[a][c], d.event)
          BY <5>1, <5>2, <5>4
        <5> QED BY <4>1, <5>3, <5>4
      <4>4. CASE row' = row /\ faults' = faults + 1
        <5>1. Remembered(a, c, e)' = Remembered(a, c, e)
          BY <4>4 DEF Remembered
        <5> QED BY <1>0, <3>1, <4>0, <4>3, <4>4, <5>1
      <4>5. CASE row' = Written(d) /\ faults' = faults
        <5>0. IsNews(d) /\ IF d.event = "acknowledged"
                           THEN row'[a][c].acked = TRUE /\ row'[a][c].last = row[a][c].last
                           ELSE row'[a][c].last = d.event /\ row'[a][c].acked = row[a][c].acked
          BY <2>1, <3>3, <4>5, WrittenRows DEF OnceInv, HoldsAreNews
        <5>1. d.event = e => ~Remembered(a, c, e) /\ Remembered(a, c, e)'
          BY <3>3, <5>0 DEF IsNews, Remembered, Events
        <5>2. Remembered(a, c, e) => Remembered(a, c, e)'
          BY <3>3, <4>2, <5>0 DEF IsNews, Remembered, Events
        <5>3. CASE d.event = e
          BY <1>0, <3>1, <4>0, <4>3, <4>5, <5>1, <5>3
        <5>4. CASE d.event # e
          BY <1>0, <3>1, <4>0, <4>3, <4>5, <5>2, <5>4
        <5> QED BY <5>3, <5>4
      <4> QED BY <1>3, <4>4, <4>5 DEF ClaimEnds
    <3> QED BY <3>2, <3>3
  <2> QED BY <2>2, <2>4, <2>5 DEF OnceInv
<1> QED BY <1>1, <1>2, <1>3 DEF ClaimMove

\* A provider takes each event of an alert once, plus once for every claim that
\* was released by a failure or a crash.
THEOREM EventsAreSentOnce == Spec => []OncePerEvent
<1>1. Init => OnceInv
  <2> SUFFICES ASSUME Init PROVE OnceInv
    OBVIOUS
  <2>1. \A e \in Events : Times(e, <<>>) = 0
    BY FS_EmptySet DEF Times
  <2> QED BY <2>1 DEF Init, OnceInv, HoldsAreNews, HoldsApart, Accounted, Idle
<1>2. TypeOK /\ TypeOK' /\ OnceInv /\ [Next]_vars => OnceInv'
  BY OnceInvStep, EveryStepClaims
<1>3. TypeOK /\ OnceInv => OncePerEvent
  <2> SUFFICES ASSUME TypeOK, OnceInv, NEW a \in Alerts, NEW c \in Channels,
                      NEW e \in Events \ {"reminder"}
               PROVE  Times(e, inbox[a][c]) <= 1 + faults
    BY DEF OncePerEvent
  <2>1. inbox[a][c] \in Seq(Events) /\ faults \in Nat
    BY DEF TypeOK
  <2>2. Times(e, inbox[a][c]) \in Nat
    BY <2>1, TimesAppend
  <2>3. Times(e, inbox[a][c]) <= faults + (IF Remembered(a, c, e) THEN 1 ELSE 0)
    BY DEF OnceInv, Accounted
  <2> QED BY <2>1, <2>2, <2>3
<1> QED BY <1>1, <1>2, <1>3, AlertsTypeCorrect, PTL DEF Spec
=============================================================================
