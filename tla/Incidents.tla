----------------------------- MODULE Incidents -----------------------------
(***************************************************************************)
(* Incidents and the alerts, monitors and status pages linked to them.     *)
(* Two kinds of writer meet here.  The alerter (and the API when it        *)
(* creates or resolves an alert) runs transactions of several statements:  *)
(* opening an alert finds or creates the incident of its monitor, and      *)
(* resolving alerts writes "all alerts recovered" on the timeline of every *)
(* incident that has no open alert left.  They are modelled statement by   *)
(* statement, with the locks they hold until they commit or roll back.     *)
(* Operators edit an incident in transactions that first lock its row      *)
(* FOR UPDATE and wait for nothing afterwards; each is one action.         *)
(* Statements see committed data and their own (READ COMMITTED).           *)
(***************************************************************************)
EXTENDS Naturals, Sequences, FiniteSets

CONSTANTS Incs,      \* incident ids, numbers: the code sorts ids
          Alts,      \* alert ids 1..n, given out in the order of insertion
          Mons,      \* monitors
          Kinds,     \* alert kinds that open incidents (availability, latency_anomaly)
          Pages,     \* status pages, each showing every monitor
          Txs,       \* concurrent alert transactions
          MaxResolves, \* bound: resolving transactions of a behaviour
          MaxEdits   \* bound: operator requests of a behaviour

ASSUME IncidentsAssumption ==
    /\ Incs \subseteq Nat \ {0} /\ IsFiniteSet(Incs) /\ Alts \subseteq Nat \ {0} /\ IsFiniteSet(Alts)
    /\ "none" \notin Mons \cup Kinds /\ MaxResolves \in Nat /\ MaxEdits \in Nat

VARIABLES
    inc,       \* [state, auto] of every incident; state "none" = no row
    alt,       \* [status, mon, kind, at] of every alert; at = resolved_at
    links,     \* incident_alerts
    monLinks,  \* incident_monitors
    pubs,      \* active incident_status_page_publications
    picks,     \* incident_status_page_monitors
    notes,     \* <<incident, marker>> -> recovery entries of its timeline
    tx,        \* the alert transactions in flight
    clock,     \* time.Now() of the next resolve
    handEdited, \* history: incidents an operator gave a closed alert or took one from
    edits      \* operator requests so far

incidentVars == <<inc, alt, links, monLinks, pubs, picks, notes, tx, clock, handEdited, edits>>

None == "none"
States == {"investigating", "monitoring", "resolved"}
OpenStatuses == {"active", "acknowledged"}

\* A recovery entry carries the time the last alert closed.
Markers == 1..MaxResolves
NoEntries == [x \in Incs \X Markers |-> 0]

IdleTx == [op |-> None, alert |-> 0, mon |-> None, kind |-> None, inc |-> 0,
           asked |-> {}, alerts |-> {}, left |-> {}, todo |-> <<>>,
           pc |-> None, wrote |-> NoEntries, at |-> 0, held |-> {}]

IncidentsInit ==
    /\ inc = [i \in Incs |-> [state |-> None, auto |-> None]]
    /\ alt = [a \in Alts |-> [status |-> None, mon |-> None, kind |-> None, at |-> 0]]
    /\ links = {} /\ monLinks = {} /\ pubs = {} /\ picks = {}
    /\ notes = NoEntries
    /\ tx = [t \in Txs |-> IdleTx]
    /\ clock = 1
    /\ handEdited = {}
    /\ edits = 0

-----------------------------------------------------------------------------
(* Locks.  Advisory keys and row locks are held to the end of a transaction. *)

\* Mutant: every transaction takes a key of its own.
PrivateKey(i) == <<"recovery", i, {t \in Txs : tx[t].op = "resolve" /\ tx[t].pc = "load"}, clock>>

RecoveryKey(i) == <<"recovery", i>>
Row(i) == <<"row", i>>
AlertRow(a) == <<"alert", a>>

Free(t, lock) == \A u \in Txs \ {t} : lock \notin tx[u].held
RowFree(i) == \A u \in Txs : Row(i) \notin tx[u].held

Exists(i) == inc[i].state # None
LinkedAlerts(i) == {a \in Alts : <<i, a>> \in links}

-----------------------------------------------------------------------------
(* Opening an alert: INSERT, then find or create the monitor's incident.    *)

Inserted == {a \in Alts : alt[a].status # None} \cup {tx[t].alert : t \in Txs}

OpenAlertExists(m, k) ==
    \/ \E a \in Alts : alt[a].mon = m /\ alt[a].kind = k /\ alt[a].status \in OpenStatuses
    \/ \E t \in Txs : tx[t].op = "fire" /\ tx[t].mon = m /\ tx[t].kind = k

\* Mutant: the search and the insert are not serialised.
NoAutoKey(m) == <<"none", m, Cardinality({t \in Txs : tx[t].op = "fire"})>>

AutoKey(m) == <<"auto", m>>

\* The INSERT that the unique index of open alerts lets through, and the
\* wait for the advisory key of the monitor's incident.
createAlert(t, m, k) ==
    \E a \in Alts \ Inserted :
       /\ a - 1 \in Inserted \cup {0}
       /\ tx[t].op = None
       /\ ~ OpenAlertExists(m, k)
       /\ Free(t, AutoKey(m))
       /\ tx' = [tx EXCEPT ![t] =
                   [IdleTx EXCEPT !.op = "fire", !.alert = a, !.mon = m, !.kind = k,
                                  !.pc = "find", !.held = {AutoKey(m), AlertRow(a)}]]
       /\ UNCHANGED <<inc, alt, links, monLinks, pubs, picks, notes, clock, handEdited>>

OpenAutoIncidents(m) == {i \in Incs : inc[i].auto = m /\ inc[i].state \notin {None, "resolved"}}

Reserved == {tx[t].inc : t \in Txs}

\* SELECT ... state <> 'resolved' ... FOR UPDATE, or a new incident.
findOrCreateAutoIncidentTx(t) ==
    /\ tx[t].op = "fire" /\ tx[t].pc = "find"
    /\ \E i \in Incs :
          /\ IF OpenAutoIncidents(tx[t].mon) # {}
               THEN i \in OpenAutoIncidents(tx[t].mon) /\ Free(t, Row(i))
               ELSE ~ Exists(i) /\ i \notin Reserved
          /\ tx' = [tx EXCEPT ![t].inc = i, ![t].pc = "commit",
                              ![t].held = @ \cup {Row(i)}]
    /\ UNCHANGED <<inc, alt, links, monLinks, pubs, picks, notes, clock, handEdited>>

\* The links of the alert and its monitor, and COMMIT.
ensureAutoIncidentForAlertTx(t) ==
    /\ tx[t].op = "fire" /\ tx[t].pc = "commit"
    /\ LET x == tx[t] IN
       /\ alt' = [alt EXCEPT ![x.alert] =
                    [status |-> "active", mon |-> x.mon, kind |-> x.kind, at |-> 0]]
       /\ inc' = IF Exists(x.inc) THEN inc
                 ELSE [inc EXCEPT ![x.inc] = [state |-> "investigating", auto |-> x.mon]]
       /\ links' = links \cup {<<x.inc, x.alert>>}
       /\ monLinks' = monLinks \cup {<<x.inc, x.mon>>}
    /\ tx' = [tx EXCEPT ![t] = IdleTx]
    /\ UNCHANGED <<pubs, picks, notes, clock, handEdited>>

-----------------------------------------------------------------------------
(* Resolving alerts: one (the alerter, ResolveAlert) or several             *)
(* (BulkResolve); then the recovery of every incident they are linked to.   *)

\* UPDATE alerts ... WHERE status IN ('active','acknowledged'); the rows stay locked.
ResolveAlert(t, S) ==
    LET open == {a \in S : alt[a].status \in OpenStatuses} IN
    /\ tx[t].op = None
    /\ open # {}
    /\ clock <= MaxResolves
    /\ \A a \in S : Free(t, AlertRow(a))
    /\ tx' = [tx EXCEPT ![t] =
                [IdleTx EXCEPT !.op = "resolve", !.asked = S, !.alerts = open, !.left = open,
                               !.pc = "load", !.at = clock, !.held = {AlertRow(a) : a \in open}]]
    /\ clock' = clock + 1
    /\ UNCHANGED <<inc, alt, links, monLinks, pubs, picks, notes, handEdited>>

\* Mutant: the ids in any order (here: the one the transaction's alert gives).
UnsortedIncidents(S) ==
    CHOOSE s \in [1..Cardinality(S) -> S] :
       \A j, k \in 1..Cardinality(S) : j < k => IF clock % 2 = 0 THEN s[j] < s[k] ELSE s[j] > s[k]

\* The ids of S in ascending order.
SortedIncidents(S) ==
    CHOOSE s \in [1..Cardinality(S) -> S] : \A j, k \in 1..Cardinality(S) : j < k => s[j] < s[k]

\* SELECT the incidents of the next resolved alert, sorted by id.
loadIncidentIDsForAlertTx(t) ==
    /\ tx[t].op = "resolve" /\ tx[t].pc = "load" /\ tx[t].todo = <<>>
    /\ \E a \in tx[t].left :
          tx' = [tx EXCEPT ![t].left = @ \ {a},
                           ![t].todo = SortedIncidents({i \in Incs : <<i, a>> \in links})]
    /\ UNCHANGED <<inc, alt, links, monLinks, pubs, picks, notes, clock, handEdited>>

\* What a statement of t sees: committed alerts and those t resolved.
StatusSeen(t, a) == IF a \in tx[t].alerts THEN "resolved" ELSE alt[a].status
ResolvedAtSeen(t, a) == IF a \in tx[t].alerts THEN tx[t].at ELSE alt[a].at

MaxOf(S) == CHOOSE x \in S : \A y \in S : y <= x

AllResolvedSeen(t, i) ==
    /\ LinkedAlerts(i) # {}
    /\ \A a \in LinkedAlerts(i) : StatusSeen(t, a) \notin OpenStatuses

resolvedAfter(t, i) == MaxOf({ResolvedAtSeen(t, a) : a \in LinkedAlerts(i)})

AlreadyRecorded(t, i) ==
    notes[<<i, resolvedAfter(t, i)>>] + tx[t].wrote[<<i, resolvedAfter(t, i)>>] > 0

Noted(entries, x) == [entries EXCEPT ![x] = @ + 1]

\* The advisory key of the incident, then the counts: whether a note is due.
lockIncidentRecoveryKeyTx(t) ==
    /\ tx[t].op = "resolve" /\ tx[t].pc = "load" /\ tx[t].todo # <<>>
    /\ LET i == Head(tx[t].todo)
           due == AllResolvedSeen(t, i) /\ ~ AlreadyRecorded(t, i)
       IN /\ Free(t, RecoveryKey(i))
          /\ tx' = [tx EXCEPT ![t].held = @ \cup {RecoveryKey(i)},
                              ![t].pc = IF due THEN "note" ELSE "load",
                              ![t].inc = IF due THEN i ELSE 0,
                              ![t].alert = 0,
                              ![t].wrote = IF due THEN Noted(@, <<i, resolvedAfter(t, i)>>) ELSE @,
                              ![t].todo = Tail(@)]
    /\ UNCHANGED <<inc, alt, links, monLinks, pubs, picks, notes, clock, handEdited>>

\* INSERT the entry and touch the incident's row, which may be locked.
insertTimelineEntryTx(t) ==
    /\ tx[t].op = "resolve" /\ tx[t].pc = "note"
    /\ Free(t, Row(tx[t].inc))
    /\ tx' = [tx EXCEPT ![t].pc = "load", ![t].inc = 0, ![t].held = @ \cup {Row(tx[t].inc)}]
    /\ UNCHANGED <<inc, alt, links, monLinks, pubs, picks, notes, clock, handEdited>>

CommitResolve(t) ==
    /\ tx[t].op = "resolve" /\ tx[t].pc = "load" /\ tx[t].todo = <<>> /\ tx[t].left = {}
    /\ alt' = [a \in Alts |-> IF a \in tx[t].alerts
                                THEN [alt[a] EXCEPT !.status = "resolved", !.at = tx[t].at]
                                ELSE alt[a]]
    /\ notes' = [x \in Incs \X Markers |-> notes[x] + tx[t].wrote[x]]
    /\ tx' = [tx EXCEPT ![t] = IdleTx]
    /\ UNCHANGED <<inc, links, monLinks, pubs, picks, clock, handEdited>>

\* Any statement may fail, and PostgreSQL picks a victim of a deadlock: ROLLBACK.
Rollback(t) ==
    /\ tx[t].op # None
    /\ tx' = [tx EXCEPT ![t] = IdleTx]
    /\ UNCHANGED <<inc, alt, links, monLinks, pubs, picks, notes, clock, handEdited>>

-----------------------------------------------------------------------------
(* Operators. *)

AcknowledgeAlert(a) ==
    /\ alt[a].status = "active"
    /\ \A t \in Txs : AlertRow(a) \notin tx[t].held
    /\ alt' = [alt EXCEPT ![a].status = "acknowledged"]
    /\ UNCHANGED <<inc, links, monLinks, pubs, picks, notes, tx, clock, handEdited>>

\* An alert that is closed, or is being closed by a transaction under way.
Closing(a) == alt[a].status = "resolved" \/ \E t \in Txs : a \in tx[t].alerts

\* The optional alert and monitor of the request become its first links.
CreateIncident(i, A, M) ==
    /\ ~ Exists(i) /\ i \notin Reserved
    /\ \A a \in A : alt[a].status # None
    /\ inc' = [inc EXCEPT ![i] = [state |-> "investigating", auto |-> None]]
    /\ links' = links \cup ({i} \X A)
    /\ monLinks' = monLinks \cup ({i} \X M)
    /\ handEdited' = IF \E a \in A : Closing(a) THEN handEdited \cup {i} ELSE handEdited
    /\ UNCHANGED <<alt, pubs, picks, notes, tx, clock>>

TransitionIncidentState(i, s) ==
    /\ Exists(i) /\ RowFree(i)
    /\ inc[i].state # s
    /\ inc[i].state # "resolved"
    /\ inc' = [inc EXCEPT ![i].state = s]
    /\ UNCHANGED <<alt, links, monLinks, pubs, picks, notes, tx, clock, handEdited>>

AttachAlert(i, a) ==
    /\ Exists(i) /\ RowFree(i)
    /\ alt[a].status # None
    /\ <<i, a>> \notin links
    /\ links' = links \cup {<<i, a>>}
    /\ handEdited' = IF Closing(a) THEN handEdited \cup {i} ELSE handEdited
    /\ UNCHANGED <<inc, alt, monLinks, pubs, picks, notes, tx, clock>>

DetachAlert(i, a) ==
    /\ Exists(i) /\ RowFree(i)
    /\ <<i, a>> \in links
    /\ links' = links \ {<<i, a>>}
    /\ handEdited' = handEdited \cup {i}
    /\ UNCHANGED <<inc, alt, monLinks, pubs, picks, notes, tx, clock>>

AttachMonitor(i, m) ==
    /\ Exists(i) /\ RowFree(i)
    /\ monLinks' = monLinks \cup {<<i, m>>}
    /\ UNCHANGED <<inc, alt, links, pubs, picks, notes, tx, clock, handEdited>>

DetachMonitor(i, m) ==
    /\ Exists(i) /\ RowFree(i)
    /\ <<i, m>> \in monLinks
    /\ monLinks' = monLinks \ {<<i, m>>}
    /\ picks' = {r \in picks : ~ (r[1] = i /\ r[3] = m)}
    /\ UNCHANGED <<inc, alt, links, pubs, notes, tx, clock, handEdited>>

\* Every monitor named must be linked to the incident (and shown on the page).
validatePublicationMonitorSelection(i, M) == \A m \in M : <<i, m>> \in monLinks

isNoOpIncidentPublicationUpdate(i, p, M) ==
    <<i, p>> \in pubs /\ {m \in Mons : <<i, p, m>> \in picks} = M

PublishIncidentToStatusPage(i, p, M) ==
    /\ Exists(i) /\ RowFree(i)
    /\ validatePublicationMonitorSelection(i, M)
    /\ ~ isNoOpIncidentPublicationUpdate(i, p, M)
    /\ pubs' = pubs \cup {<<i, p>>}
    /\ picks' = {r \in picks : ~ (r[1] = i /\ r[2] = p)} \cup ({i} \X {p} \X M)
    /\ UNCHANGED <<inc, alt, links, monLinks, notes, tx, clock, handEdited>>

UnpublishIncidentFromStatusPage(i, p) ==
    /\ Exists(i) /\ RowFree(i)
    /\ <<i, p>> \in pubs
    /\ pubs' = pubs \ {<<i, p>>}
    /\ picks' = {r \in picks : ~ (r[1] = i /\ r[2] = p)}
    /\ UNCHANGED <<inc, alt, links, monLinks, notes, tx, clock, handEdited>>

-----------------------------------------------------------------------------
AlertTransaction(t) ==
    \/ \E m \in Mons, k \in Kinds : createAlert(t, m, k)
    \/ findOrCreateAutoIncidentTx(t)
    \/ ensureAutoIncidentForAlertTx(t)
    \/ \E S \in SUBSET Alts : ResolveAlert(t, S)
    \/ loadIncidentIDsForAlertTx(t)
    \/ lockIncidentRecoveryKeyTx(t)
    \/ insertTimelineEntryTx(t)
    \/ CommitResolve(t)
    \/ Rollback(t)

\* The handlers: ids and bodies are parsed and validated, the service is
\* called, and a refusal answers 400 or 404 and changes nothing.
HandleAcknowledge == \E a \in Alts : AcknowledgeAlert(a)

HandleCreateIncident ==
    \/ \E i \in Incs, a \in Alts : CreateIncident(i, {a}, {})
    \/ \E i \in Incs, M \in SUBSET Mons : CreateIncident(i, {}, M)

HandleTransition == \E i \in Incs, s \in States : TransitionIncidentState(i, s)
AttachIncidentAlert == \E i \in Incs, a \in Alts : AttachAlert(i, a)
DetachIncidentAlert == \E i \in Incs, a \in Alts : DetachAlert(i, a)
AttachIncidentMonitor == \E i \in Incs, m \in Mons : AttachMonitor(i, m)
DetachIncidentMonitor == \E i \in Incs, m \in Mons : DetachMonitor(i, m)
HandlePublish == \E i \in Incs, p \in Pages, M \in SUBSET Mons : PublishIncidentToStatusPage(i, p, M)
HandleUnpublish == \E i \in Incs, p \in Pages : UnpublishIncidentFromStatusPage(i, p)

Operator ==
    /\ edits < MaxEdits
    /\ edits' = edits + 1
    /\ \/ HandleAcknowledge \/ HandleCreateIncident \/ HandleTransition
       \/ AttachIncidentAlert \/ DetachIncidentAlert
       \/ AttachIncidentMonitor \/ DetachIncidentMonitor
       \/ HandlePublish \/ HandleUnpublish

IncidentsNext == (UNCHANGED edits /\ \E t \in Txs : AlertTransaction(t)) \/ Operator
IncidentsSpec == IncidentsInit /\ [][IncidentsNext]_incidentVars

-----------------------------------------------------------------------------
(* Properties *)

\* A monitor has at most one open incident of its own making, however many
\* kinds of alert open on it at once: findOrCreateAutoIncidentTx looks and
\* inserts under lockAutoIncidentKeyTx.
OneOpenAutoIncident ==
    \A i, j \in Incs : (i # j /\ inc[i].auto # None /\ inc[i].auto = inc[j].auto)
                         => "resolved" \in {inc[i].state, inc[j].state}

\* When the last open alert of an incident closes, the timeline says so once,
\* with the time the last one closed: also when two transactions close the last
\* two alerts at the same time (lockIncidentRecoveryKeyTx), and when one bulk
\* request closes several.  Incidents to which an operator linked an alert that
\* was already closing, or from which one was taken, are left out: AttachAlert
\* and DetachAlert write no recovery entry.
RecoveryIsNotedOnce ==
    \A i \in Incs \ handEdited :
       (LinkedAlerts(i) # {} /\ \A a \in LinkedAlerts(i) : alt[a].status = "resolved")
         => notes[<<i, MaxOf({alt[a].at : a \in LinkedAlerts(i)})>>] = 1

\* The transaction that t waits for next.
WaitsFor(t, u) ==
    /\ u # t /\ tx[t].op = "resolve"
    /\ \/ tx[t].pc = "load" /\ tx[t].todo # <<>> /\ RecoveryKey(Head(tx[t].todo)) \in tx[u].held
       \/ tx[t].pc = "note" /\ Row(tx[t].inc) \in tx[u].held

\* Transactions that resolve one alert each never wait for each other in a
\* circle, whatever incidents their alerts share: the keys are taken in the
\* order of the incident ids.
SingleResolvesNeverDeadlock ==
    \A t, u \in Txs : ~ (/\ Cardinality(tx[t].alerts) = 1 /\ Cardinality(tx[u].alerts) = 1
                         /\ WaitsFor(t, u) /\ WaitsFor(u, t))

=============================================================================
