-------------------------- MODULE DowntimeProjection --------------------------
(***************************************************************************)
(* The downtime tables: rollup maintenance projects the 'down' intervals   *)
(* of a monitor's state timeline onto monitor_downtime_periods (closed)    *)
(* and monitor_downtime_open (the open one).  A run looks only at monitors *)
(* whose timeline carries a stamp later than SyncOverlap before its start. *)
(*                                                                         *)
(* A change of the timeline is stamped with the start of its transaction   *)
(* and is visible from its commit on, which may be later.                  *)
(***************************************************************************)
EXTENDS Integers

CONSTANTS
    SyncOverlap,   \* the 10 minutes before the start of a run
    MaxMinute,     \* last minute of the clock (bound)
    MaxChangesDown \* state changes (bound)

ASSUME DowntimeAssumption == SyncOverlap \in Nat /\ MaxMinute \in Nat /\ MaxChangesDown \in Nat

VARIABLES
    minute,     \* the clock
    begun,      \* stamps of the transactions that will change the state
    down,       \* the open interval is a 'down' interval
    started,    \* start of the open interval
    touched,    \* latest created_at or ended_at of the timeline
    closed,     \* closed 'down' intervals: <<start, end>>
    periods,    \* monitor_downtime_periods
    openPeriod, \* monitor_downtime_open: its start, -1 when there is none
    syncRun,    \* start of the maintenance run under way, -1 when there is none
    reading,    \* the run has read the closed intervals of this monitor
    read,       \* the closed intervals it read
    known,      \* closed intervals there were when the run began (history)
    lastSync,   \* start of the last run whose projection did not fail on this monitor
    slowest,    \* longest time from the stamp of a change to its commit (history)
    late,       \* some run came too long after lastSync (history)
    changes

downtimeVars == <<minute, begun, down, started, touched, closed, periods, openPeriod, syncRun, reading,
                  read, known, lastSync, slowest, late, changes>>
timelineVars == <<begun, down, started, touched, closed, slowest, changes>>
runVars == <<periods, openPeriod, syncRun, reading, read, known, lastSync, late>>

DowntimeInit ==
    /\ minute = 0 /\ begun = {} /\ down = FALSE /\ started = 0 /\ touched = 0 /\ closed = {}
    /\ periods = {} /\ openPeriod = -1 /\ syncRun = -1 /\ reading = FALSE /\ read = {} /\ known = {}
    /\ lastSync = 0 /\ slowest = 0 /\ late = FALSE /\ changes = 0

Later(a, b) == IF a >= b THEN a ELSE b
OpenDown == IF down THEN started ELSE -1

-----------------------------------------------------------------------------
(* The timeline *)

\* A transaction that will record a state begins: its NOW().
BeginChange ==
    /\ changes < MaxChangesDown /\ minute \notin begun
    /\ begun' = begun \cup {minute} /\ changes' = changes + 1
    /\ UNCHANGED <<minute, down, started, touched, closed, slowest, runVars>>

\* It commits: the open interval ends, no earlier than it began, and the next one begins.
ChangeState(t, isDown) ==
    LET end == Later(t, started)
    IN  /\ t \in begun /\ ~(down /\ isDown)
        /\ begun' = begun \ {t}
        /\ closed' = IF down THEN closed \cup {<<started, end>>} ELSE closed
        /\ down' = isDown /\ started' = end
        /\ touched' = Later(touched, t)
        /\ slowest' = Later(slowest, minute - t)
        /\ UNCHANGED <<minute, changes, runVars>>

-----------------------------------------------------------------------------
(* A run of rollup maintenance *)

StartRun ==
    /\ syncRun = -1
    /\ syncRun' = minute /\ known' = closed
    /\ UNCHANGED <<minute, timelineVars, periods, openPeriod, reading, read, lastSync, late>>

\* The run ends without having synced the monitor: a batch of the ledger could not be
\* rebuilt or the context expired, or the sync of this monitor failed.  The latter is
\* logged, the run goes on and succeeds.
NotSynced ==
    /\ syncRun' = -1 /\ reading' = FALSE /\ read' = {}
    /\ UNCHANGED <<minute, timelineVars, periods, openPeriod, known, lastSync, late>>
FailRun == syncRun # -1 /\ ~reading /\ NotSynced
FailMonitorSync == reading /\ NotSynced

\* started.Add(-10 minutes)
SinceStart == syncRun
Since == syncRun - SyncOverlap

\* created_at > since OR ended_at > since
SelectedSince(since) == touched > since

\* A change made visible after the last sync is stamped at most `slowest` before it.
TooLate == syncRun - lastSync + slowest >= SyncOverlap
Synced ==
    /\ lastSync' = syncRun /\ late' = (late \/ TooLate)
    /\ syncRun' = -1 /\ reading' = FALSE /\ read' = {}

\* The run looks for monitors that changed; the sync of one reads what is closed,
syncDowntimeFromIntervals ==
    /\ syncRun # -1 /\ ~reading
    /\ IF SelectedSince(Since)
       THEN reading' = TRUE /\ read' = closed /\ UNCHANGED <<syncRun, lastSync, late>>
       ELSE Synced
    /\ UNCHANGED <<minute, timelineVars, periods, openPeriod, known>>
\* then what is open, and commits.
syncMonitorDowntime ==
    /\ reading /\ Synced
    /\ periods' = periods \cup read
    /\ openPeriod' = OpenDown
    /\ UNCHANGED <<minute, timelineVars, known>>

Minute ==
    /\ minute < MaxMinute
    /\ minute' = minute + 1
    /\ UNCHANGED <<timelineVars, runVars>>

DowntimeNext ==
    \/ BeginChange \/ StartRun \/ FailRun \/ FailMonitorSync
    \/ syncDowntimeFromIntervals \/ syncMonitorDowntime \/ Minute
    \/ \E t \in 0..MaxMinute, isDown \in BOOLEAN : ChangeState(t, isDown)

DowntimeSpec == DowntimeInit /\ [][DowntimeNext]_downtimeVars

\* A run that does not fail on the monitor leaves in the downtime tables every outage
\* that had ended when the run began and the one open when it ends.  This holds as long
\* as no run began so long after the last one that did not fail on the monitor that, with
\* the time a change takes to become visible, a change could be stamped SyncOverlap or
\* more before the run.  (Past that, intervals are lost until the monitor changes again:
\* the window is relative to the start of the run, not to the last success, and a
\* failed sync of one monitor leaves nothing to retry.)
ProjectionTrailsOneRun ==
    [][(syncDowntimeFromIntervals \/ syncMonitorDowntime) /\ syncRun' = -1 /\ ~late'
          => known \subseteq periods' /\ openPeriod' = OpenDown]_downtimeVars
===============================================================================
