---------------------------- MODULE AlertLifecycle ----------------------------
(***************************************************************************)
(* The availability alert of one monitor, evaluated by several alerter     *)
(* replicas without a leader.  Every replica repeats one tick: open,       *)
(* resolve, dispatch, acknowledge, retry recoveries.  Each of these reads  *)
(* candidates first and acts on them later, in transactions of their own,  *)
(* so a replica works on what it saw and not on what is there.             *)
(*                                                                         *)
(* A notification is sent inside the transaction that claims it: the alert *)
(* row is locked FOR SHARE, the (alert, channel) row is claimed, and both  *)
(* are held until the provider answered.                                   *)
(***************************************************************************)
EXTENDS Integers, FiniteSets, Sequences

CONSTANTS
    Alerters,       \* alerter replicas
    Channels,       \* channels the monitor is routed to
    Paging,         \* channels whose plugin takes acknowledgements
    Delay,          \* Delay[c]: escalation delay of a channel
    Reminder,       \* alert_reminder_seconds
    Alerts,         \* ids, in the order of the recovery cursor
    RecoveryBatch,  \* batchSize of one recovery sweep
    MaxFaults,      \* bound: failed sends and statements, crashes
    MaxChanges,     \* bound: changes of the monitor and operator actions
    MaxNow          \* bound: the clock stops here

ASSUME AlertAssumption ==
    /\ Alerts \subseteq Nat \ {0} /\ IsFiniteSet(Alerts)
    /\ Paging \subseteq Channels /\ Delay \in [Channels -> Nat]
    /\ Reminder \in Nat /\ RecoveryBatch \in Nat \ {0}
    /\ MaxFaults \in Nat /\ MaxChanges \in Nat /\ MaxNow \in Nat

VARIABLES
    now,      \* the clock
    mon,      \* the monitor: current_state, enabled/deleted, what mutes it
    alerts,   \* alerts: status and triggered_at
    row,      \* alert_notification_states of every (alert, channel)
    active,   \* channels with is_active = TRUE
    proc,     \* the tick each replica is in
    inbox,    \* messages the provider of each (alert, channel) accepted, in order
    faults, changes

vars == <<now, mon, alerts, row, active, proc, inbox, faults, changes>>

Open == {"active", "acknowledged"}
Events == {"created", "reminder", "acknowledged", "resolved"}

Monitor == [state : {"up", "down", "degraded", "unknown"},
            live  : {"enabled", "paused", "deleted"},
            muted : {"no", "maintenance", "suppressed"}]

Row == [last : {"none", "created", "reminder", "resolved"}, at : Nat, acked : BOOLEAN]

Delivery == [alert : Alerts, channel : Channels, event : Events, at : Nat]

Nothing == [alert |-> 0]     \* no delivery in progress

Phases == {"idle", "insert", "scan", "resolve", "notify", "dispatch", "ack", "recover", "sweep"}

LifecycleTick == [pc : Phases, target : Alerts \cup {0}, todo : SUBSET Delivery,
                  hold : Delivery \cup {Nothing}, batch : SUBSET Alerts, short : BOOLEAN,
                  cursor : Alerts \cup {0}]

Idle == [pc |-> "idle", target |-> 0, todo |-> {}, hold |-> Nothing,
         batch |-> {}, short |-> TRUE, cursor |-> 0]

TypeOK ==
    /\ now \in Nat /\ faults \in Nat /\ changes \in Nat
    /\ mon \in Monitor
    /\ alerts \in [Alerts -> [status : Open \cup {"none", "resolved"}, at : Nat]]
    /\ row \in [Alerts -> [Channels -> Row]]
    /\ active \subseteq Channels
    /\ proc \in [Alerters -> LifecycleTick]
    /\ \A r \in Alerters : proc[r].pc \in {"resolve", "notify"} => proc[r].target \in Alerts
    /\ inbox \in [Alerts -> [Channels -> Seq(Events)]]

\* The state machine has just confirmed the outage, or the monitor is paused.
Init ==
    /\ now = 0 /\ faults = 0 /\ changes = 0
    /\ mon \in {[state |-> "down", live |-> "enabled", muted |-> "no"],
               [state |-> "unknown", live |-> "paused", muted |-> "no"]}
    /\ alerts = [a \in Alerts |-> [status |-> "none", at |-> 0]]
    /\ row = [a \in Alerts |-> [c \in Channels |-> [last |-> "none", at |-> 0, acked |-> FALSE]]]
    /\ active = Channels
    /\ proc = [r \in Alerters |-> Idle]
    /\ inbox = [a \in Alerts |-> [c \in Channels |-> <<>>]]

Faulty == faults < MaxFaults /\ faults' = faults + 1

OpenAlerts == {a \in Alerts : alerts[a].status \in Open}

\* The replica has sent, or dropped, everything it had to send.
Free(r) == proc[r].todo = {} /\ proc[r].hold = Nothing

At(r, pc) == proc[r].pc = pc /\ Free(r)

-----------------------------------------------------------------------------
(* Opening and resolving.                                                  *)

\* Resolved alerts count as well.
NeverAlerted == \A a \in Alerts : alerts[a].status = "none"

\* NOT EXISTS an open alert of this monitor and kind.
NotAlerted == OpenAlerts = {}

openAlertsForDownMonitors(r) ==
    /\ At(r, "idle")
    /\ proc' = [proc EXCEPT ![r].pc =
           IF /\ mon.state = "down" /\ mon.live = "enabled" /\ mon.muted # "maintenance"
              /\ NotAlerted
           THEN "insert" ELSE "scan"]
    /\ UNCHANGED <<now, mon, alerts, row, active, inbox, faults, changes>>

\* The insert looks at nothing but its own key.
NoConflictEver == TRUE

\* The partial unique index: one open alert per monitor and kind.
NoConflict == OpenAlerts = {}

\* What the candidate query saw is not looked at again.
openOutageAlert(r) ==
    /\ At(r, "insert")
    /\ proc' = [proc EXCEPT ![r].pc = "scan"]
    /\ IF NoConflict
       THEN \E a \in Alerts :
                /\ alerts[a].status = "none"
                /\ alerts' = [alerts EXCEPT ![a] = [status |-> "active", at |-> now]]
       ELSE UNCHANGED alerts
    /\ UNCHANGED <<now, mon, row, active, inbox, faults, changes>>

Recovered == mon.state = "up" \/ mon.live # "enabled"

resolveAlertsForRecoveredMonitors(r) ==
    /\ At(r, "scan")
    /\ \/ /\ ~Recovered \/ OpenAlerts = {}
          /\ proc' = [proc EXCEPT ![r].pc = "dispatch"]
       \/ /\ Recovered
          /\ \E a \in OpenAlerts : proc' = [proc EXCEPT ![r] = [@ EXCEPT !.pc = "resolve", !.target = a]]
    /\ UNCHANGED <<now, mon, alerts, row, active, inbox, faults, changes>>

\* A plain read of the alert does not hold back its resolution.
UnlockedAlways(a) == TRUE

\* No send holds the alert row FOR SHARE.
Unlocked(a) == \A r \in Alerters : proc[r].hold # Nothing => proc[r].hold.alert # a

\* The loser of two replicas neither resolves nor notifies.
resolveAlert(r) ==
    LET a == proc[r].target
    IN  /\ At(r, "resolve")
        /\ \/ /\ alerts[a].status \in Open /\ Unlocked(a)
              /\ alerts' = [alerts EXCEPT ![a].status = "resolved"]
              /\ proc' = [proc EXCEPT ![r].pc = "notify"]
           \/ /\ alerts[a].status = "resolved"
              /\ proc' = [proc EXCEPT ![r] = [@ EXCEPT !.pc = "dispatch", !.target = 0]]
              /\ UNCHANGED alerts
        /\ UNCHANGED <<now, mon, row, active, inbox, faults, changes>>

\* Channels that fired for the alert and were not told of its recovery.
Fired(a) == {c \in active : row[a][c].last \notin {"none", "resolved"}}

Recoveries(a) == [alert : {a}, channel : Fired(a), event : {"resolved"}, at : {now}]

notifyFiredChannels(r) ==
    /\ At(r, "notify")
    /\ proc' = [proc EXCEPT ![r] = [@ EXCEPT !.pc = "dispatch", !.target = 0,
                                              !.todo = Recoveries(proc[r].target)]]
    /\ UNCHANGED <<now, mon, alerts, row, active, inbox, faults, changes>>

-----------------------------------------------------------------------------
(* Dispatch.                                                               *)

\* openAlertDispatchablePredicate
Dispatchable == mon.state \in {"down", "degraded"} /\ mon.live # "deleted" /\ mon.muted = "no"

ReminderDue(a, c, at) ==
    /\ Reminder > 0
    /\ row[a][c].last \notin {"none", "resolved"}
    /\ at - row[a][c].at >= Reminder

DueNow ==
    {d \in [alert : OpenAlerts, channel : active, event : {"created", "reminder"}, at : {now}] :
        IF d.event = "created"
        THEN row[d.alert][d.channel].last = "none" /\ now - alerts[d.alert].at >= Delay[d.channel]
        ELSE ReminderDue(d.alert, d.channel, now)}

dispatchOpenAlerts(r) ==
    /\ At(r, "dispatch")
    /\ proc' = [proc EXCEPT ![r] = [@ EXCEPT !.pc = "ack",
                                              !.todo = IF Dispatchable THEN DueNow ELSE {}]]
    /\ UNCHANGED <<now, mon, alerts, row, active, inbox, faults, changes>>

\* The one-shot event may be claimed: the channel was paged and not told yet.
AckDue(a, c) == row[a][c].last \notin {"none", "resolved"} /\ ~row[a][c].acked

dispatchAcknowledgements(r) ==
    /\ At(r, "ack")
    /\ proc' = [proc EXCEPT ![r] = [@ EXCEPT !.pc = "recover",
           !.todo = {d \in [alert : Alerts, channel : active \cap Paging,
                             event : {"acknowledged"}, at : {now}] :
                         alerts[d.alert].status = "acknowledged" /\ AckDue(d.alert, d.channel)}]]
    /\ UNCHANGED <<now, mon, alerts, row, active, inbox, faults, changes>>

-----------------------------------------------------------------------------
(* Recoveries that were not delivered when their alert was resolved.       *)

PendingRecoveries(cursor) ==
    {a \in Alerts : a > cursor /\ alerts[a].status = "resolved" /\ Fired(a) # {}}

dispatchPendingRecoveries(r) ==
    LET pending == PendingRecoveries(proc[r].cursor)
        batch   == {a \in pending : Cardinality({b \in pending : b < a}) < RecoveryBatch}
    IN  /\ At(r, "recover")
        /\ proc' = [proc EXCEPT ![r] = [@ EXCEPT !.pc = "sweep", !.batch = batch,
                                                  !.short = Cardinality(batch) < RecoveryBatch]]
        /\ UNCHANGED <<now, mon, alerts, row, active, inbox, faults, changes>>

SweepNext(r) ==
    /\ At(r, "sweep")
    /\ \E a \in proc[r].batch :
           /\ \A b \in proc[r].batch : a <= b
           /\ proc' = [proc EXCEPT ![r] = [@ EXCEPT !.batch = proc[r].batch \ {a},
                                                    !.todo = Recoveries(a), !.cursor = a]]
    /\ UNCHANGED <<now, mon, alerts, row, active, inbox, faults, changes>>

\* The cursor stays where the last batch ended.
CursorKept(r) == proc[r].cursor

\* After a short batch the next sweep starts over.
NextCursor(r) == IF proc[r].short THEN 0 ELSE proc[r].cursor

SweepEnds(r) ==
    /\ At(r, "sweep") /\ proc[r].batch = {}
    /\ proc' = [proc EXCEPT ![r] = [Idle EXCEPT !.cursor = NextCursor(r)]]
    /\ UNCHANGED <<now, mon, alerts, row, active, inbox, faults, changes>>

-----------------------------------------------------------------------------
(* deliverNotification.                                                    *)

\* The event fits the alert as locked.
StatusAllows(d) ==
    /\ (d.event = "resolved") = (alerts[d.alert].status = "resolved")
    /\ d.event = "acknowledged" => alerts[d.alert].status = "acknowledged"

\* The state the dispatcher read is taken as the claim.
ClaimsAnyway(d) == TRUE

\* claimNotificationTx: the due rules once more, on the committed row.
Claims(d) ==
    \/ d.event = "created" /\ row[d.alert][d.channel].last = "none"
    \/ d.event = "reminder" /\ ReminderDue(d.alert, d.channel, d.at)
    \/ d.event = "acknowledged" /\ AckDue(d.alert, d.channel)
    \/ d.event = "resolved" /\ row[d.alert][d.channel].last # "resolved"

\* Another replica has claimed the row and its provider has not answered.
Contended(r, d) ==
    \E q \in Alerters \ {r} : /\ proc[q].hold # Nothing
                              /\ proc[q].hold.alert = d.alert /\ proc[q].hold.channel = d.channel

\* Claim the slot, or find that there is nothing to send.
claimNotificationTx(r, d) ==
    /\ d \in proc[r].todo /\ proc[r].hold = Nothing
    /\ ~Contended(r, d)
    /\ proc' = [proc EXCEPT ![r] = [@ EXCEPT !.todo = proc[r].todo \ {d},
                                 !.hold = IF StatusAllows(d) /\ Claims(d) THEN d ELSE Nothing]]
    /\ UNCHANGED <<now, mon, alerts, row, active, inbox, faults, changes>>

\* A one-shot event leaves last_event_type and last_sent_at alone.
Written(d) ==
    IF d.event = "acknowledged"
    THEN [row EXCEPT ![d.alert][d.channel].acked = TRUE]
    ELSE [row EXCEPT ![d.alert][d.channel] = [@ EXCEPT !.last = d.event, !.at = d.at]]

Accepted(d) == [inbox EXCEPT ![d.alert][d.channel] = Append(@, d.event)]

\* The provider answered: it took the message, or refused the channel for
\* good.  Either way the claim is committed.
deliverNotification(r, accepted) ==
    LET d == proc[r].hold
    IN  /\ d # Nothing
        /\ row' = Written(d)
        /\ inbox' = IF accepted THEN Accepted(d) ELSE inbox
        /\ proc' = [proc EXCEPT ![r].hold = Nothing]
        /\ UNCHANGED <<now, mon, alerts, active, faults, changes>>

\* A transient error or a failed commit releases the claim; the provider may
\* have taken the message all the same.
DeliveryFails(r, accepted) ==
    LET d == proc[r].hold
    IN  /\ d # Nothing
        /\ Faulty
        /\ inbox' = IF accepted THEN Accepted(d) ELSE inbox
        /\ proc' = [proc EXCEPT ![r].hold = Nothing]
        /\ UNCHANGED <<now, mon, alerts, row, active, changes>>

-----------------------------------------------------------------------------
(* Failures of a replica.                                                  *)

\* A failed statement ends a phase.  A failed candidate query of opening or
\* resolving, or an evaluation before the dispatch, ends the tick but for its
\* recovery sweep; a failed dispatch query is followed by the acknowledgements.
PhaseFails(r) ==
    /\ Free(r) /\ Faulty
    /\ \/ /\ proc[r].pc \in {"idle", "scan", "dispatch"} /\ proc' = [proc EXCEPT ![r].pc = "recover"]
       \/ /\ proc[r].pc = "insert" /\ proc' = [proc EXCEPT ![r].pc = "scan"]
       \/ /\ proc[r].pc \in {"resolve", "notify"}
          /\ proc' = [proc EXCEPT ![r] = [@ EXCEPT !.pc = "dispatch", !.target = 0]]
       \/ /\ proc[r].pc = "dispatch" /\ proc' = [proc EXCEPT ![r].pc = "ack"]
       \/ /\ proc[r].pc = "ack" /\ proc' = [proc EXCEPT ![r].pc = "recover"]
    /\ UNCHANGED <<now, mon, alerts, row, active, inbox, changes>>

\* The sweep fails or has used its budget: its cursor stays.
SweepAborted(r) ==
    /\ At(r, "recover") \/ At(r, "sweep")
    /\ Faulty
    /\ proc' = [proc EXCEPT ![r] = [Idle EXCEPT !.cursor = proc[r].cursor]]
    /\ UNCHANGED <<now, mon, alerts, row, active, inbox, changes>>

\* The process stops anywhere; what it held is rolled back.
Crash(r) ==
    /\ proc[r] # Idle
    /\ Faulty
    /\ proc' = [proc EXCEPT ![r] = Idle]
    /\ inbox' \in IF proc[r].hold = Nothing THEN {inbox} ELSE {inbox, Accepted(proc[r].hold)}
    /\ UNCHANGED <<now, mon, alerts, row, active, changes>>

-----------------------------------------------------------------------------
(* What the rest of the system does to the rows the alerter reads.         *)

Changes == changes < MaxChanges /\ changes' = changes + 1

\* Results, the watchdog, pause, deletion, maintenance windows, suppression.
MonitorChanges ==
    /\ Changes
    /\ mon.live # "deleted"
    /\ \/ \E s \in {"up", "down", "degraded", "unknown"} \ {mon.state} : mon' = [mon EXCEPT !.state = s]
       \/ /\ mon.live = "enabled"
          /\ mon' = [mon EXCEPT !.live = "paused", !.state = "unknown"]
       \/ /\ mon.live = "paused"
          /\ mon' = [mon EXCEPT !.live = "enabled", !.state = "unknown"]
       \/ mon' = [mon EXCEPT !.live = "deleted"]
       \/ \E x \in {"no", "maintenance", "suppressed"} \ {mon.muted} : mon' = [mon EXCEPT !.muted = x]
    /\ UNCHANGED <<now, alerts, row, active, proc, inbox, faults>>

AcknowledgeAlert(a) ==
    /\ Changes
    /\ alerts[a].status = "active" /\ Unlocked(a)
    /\ alerts' = [alerts EXCEPT ![a].status = "acknowledged"]
    /\ UNCHANGED <<now, mon, row, active, proc, inbox, faults>>

ResolveAlert(a) ==
    /\ Changes
    /\ alerts[a].status \in Open /\ Unlocked(a)
    /\ alerts' = [alerts EXCEPT ![a].status = "resolved"]
    /\ UNCHANGED <<now, mon, row, active, proc, inbox, faults>>

ToggleChannel(c) ==
    /\ Changes
    /\ active' = (active \ {c}) \cup ({c} \ active)
    /\ UNCHANGED <<now, mon, alerts, row, proc, inbox, faults>>

Tick ==
    /\ now < MaxNow
    /\ now' = now + 1
    /\ UNCHANGED <<mon, alerts, row, active, proc, inbox, faults, changes>>

-----------------------------------------------------------------------------
Claim(r) == \E d \in proc[r].todo : claimNotificationTx(r, d)
Deliver(r) == \E accepted \in BOOLEAN : deliverNotification(r, accepted)

\* One step of the tick.
runLifecycle(r) ==
    \/ openAlertsForDownMonitors(r)
    \/ openOutageAlert(r)
    \/ resolveAlertsForRecoveredMonitors(r)
    \/ resolveAlert(r)
    \/ notifyFiredChannels(r)
    \/ dispatchOpenAlerts(r)
    \/ dispatchAcknowledgements(r)
    \/ dispatchPendingRecoveries(r)
    \/ SweepNext(r)
    \/ SweepEnds(r)
    \/ Claim(r)
    \/ Deliver(r)

Failures(r) ==
    \/ \E accepted \in BOOLEAN : DeliveryFails(r, accepted)
    \/ PhaseFails(r)
    \/ SweepAborted(r)
    \/ Crash(r)

Environment ==
    \/ MonitorChanges
    \/ \E a \in Alerts : AcknowledgeAlert(a) \/ ResolveAlert(a)
    \/ \E c \in Channels : ToggleChannel(c)
    \/ Tick

Next == (\E r \in Alerters : runLifecycle(r) \/ Failures(r)) \/ Environment

Spec == Init /\ [][Next]_vars

\* Every replica keeps ticking, providers answer, the clock moves; failures
\* (MaxFaults) and operator actions (MaxChanges) end.
Fairness == WF_vars(Tick) /\ \A r \in Alerters : WF_vars(runLifecycle(r))

FairSpec == Spec /\ Fairness

-----------------------------------------------------------------------------
(* Properties.                                                             *)

\* However the replicas interleave, the monitor has at most one open
\* availability alert (architecture.md: one open alert per monitor and kind).
OneOpenAlert == \A a, b \in OpenAlerts : a = b

Last(s) == s[Len(s)]

Times(e, s) == Cardinality({i \in DOMAIN s : s[i] = e})

\* Replicas that read the same open alert, a resolve that races a dispatch and
\* retried recoveries reach a provider once per event; only a failed or crashed
\* attempt, whose claim was released, can repeat one.
OncePerEvent ==
    \A a \in Alerts, c \in Channels, e \in Events \ {"reminder"} :
        Times(e, inbox[a][c]) <= 1 + faults

\* No stale page: a provider takes a DOWN, a reminder or an acknowledgement only
\* while its alert is open, and a recovery only after the resolution was
\* committed, however old the list the dispatcher works from.
NoStalePage ==
    [][\A a \in Alerts, c \in Channels : inbox'[a][c] # inbox[a][c] =>
           (Last(inbox'[a][c]) = "resolved") = (alerts[a].status = "resolved")]_inbox

\* Every channel that was paged hears of the recovery (or its provider refuses
\* for good), whichever replica crashed after resolving and whatever was in
\* front of it in the sweep; so does one that an operator resolved.
PagedChannelsHearRecovery ==
    \A a \in Alerts, c \in Channels :
        alerts[a].status = "resolved" /\ c \in Fired(a)
            ~> row[a][c].last = "resolved" \/ c \notin active

\* A monitor that stays down, enabled and unmuted ends up with an open alert
\* that has fired on every active channel, also after an operator resolved one.
OutageIsPaged ==
    <>[](mon.state = "down" /\ mon.live = "enabled" /\ mon.muted = "no")
        => <>[](\E a \in OpenAlerts : \A c \in active : row[a][c].last # "none")

=============================================================================
