----------------------------- MODULE ServicesProofs -----------------------------
(***************************************************************************)
(* Theorems about the components that run beside the alert path and share  *)
(* no state with one another: the downtime projection, asynchronous        *)
(* deliveries, the metric store and incidents.  Each has a part of its own *)
(* below, with its invariant, its steps and its conclusions.               *)
(***************************************************************************)
EXTENDS Incidents, DowntimeProjection, MetricStore, NotificationDelivery,
        SequenceTheorems, FiniteSetTheorems, TLAPS

-----------------------------------------------------------------------------
(* The downtime projection.                                                *)

DowntimeTypes ==
    /\ minute \in Nat /\ touched \in Int /\ slowest \in Int /\ late \in BOOLEAN /\ reading \in BOOLEAN
    /\ lastSync \in Nat /\ syncRun \in Nat \cup {-1} /\ begun \subseteq Int
    /\ lastSync <= minute /\ syncRun <= minute /\ (reading => syncRun # -1)
    /\ known \subseteq closed

\* What a sync at time `at` leaves to the ones after it: a change it did not find is
\* stamped less than `slowest` before it.
Found(at, table) == touched < at - slowest => closed \subseteq table

\* As long as no run was late, the tables show what the last sync found.
Projected ==
    ~late => Found(lastSync, periods) /\ (touched < lastSync - slowest => openPeriod = OpenDown)
\* So does what a run under way has read.
ReadsAll == reading => Found(syncRun, read) /\ known \subseteq read

DowntimeInv == DowntimeTypes /\ Projected /\ ReadsAll

\* A run that finds nothing changed, and is not late, has nothing to do.
LEMMA NothingToSync ==
    ASSUME DowntimeInv, syncRun # -1, ~SelectedSince(Since), ~late, ~TooLate
    PROVE  closed \subseteq periods /\ openPeriod = OpenDown
<1>1. touched <= syncRun - SyncOverlap
  BY DowntimeAssumption DEF SelectedSince, Since, DowntimeInv, DowntimeTypes
<1>2. syncRun - lastSync + slowest < SyncOverlap
  BY DowntimeAssumption DEF TooLate, DowntimeInv, DowntimeTypes
<1>3. touched < lastSync - slowest
  BY <1>1, <1>2, DowntimeAssumption DEF DowntimeInv, DowntimeTypes
<1> QED BY <1>3 DEF DowntimeInv, Projected, Found

\* A run that completes, and is not late, leaves what was known and what is open in the tables.
LEMMA SyncProjects ==
    ASSUME DowntimeInv, syncDowntimeFromIntervals \/ syncMonitorDowntime, syncRun' = -1, ~late'
    PROVE  known \subseteq periods' /\ openPeriod' = OpenDown
<1>1. CASE syncDowntimeFromIntervals
  <2>1. syncRun # -1 /\ ~SelectedSince(Since) /\ Synced
    BY <1>1 DEF syncDowntimeFromIntervals
  <2>2. closed \subseteq periods /\ openPeriod = OpenDown
    BY <2>1, NothingToSync DEF Synced
  <2>3. known \subseteq closed
    BY DEF DowntimeInv, DowntimeTypes
  <2> QED BY <1>1, <2>2, <2>3 DEF syncDowntimeFromIntervals
<1>2. CASE syncMonitorDowntime
  BY <1>2 DEF syncMonitorDowntime, DowntimeInv, ReadsAll
<1> QED BY <1>1, <1>2

\* A commit is stamped no earlier than the clock less the slowest commit so far.
LEMMA CommitIsStamped ==
    ASSUME DowntimeInv, NEW t \in 0..MaxMinute, NEW isDown, ChangeState(t, isDown)
    PROVE  /\ touched' \in Int /\ slowest' \in Int
           /\ touched' >= minute - slowest'
<1>1. touched \in Int /\ slowest \in Int /\ minute \in Int /\ t \in Int
  BY DowntimeAssumption DEF DowntimeInv, DowntimeTypes
<1>2. touched' = Later(touched, t) /\ slowest' = Later(slowest, minute - t)
  BY DEF ChangeState
<1>3. touched' \in Int /\ touched' >= t
  BY <1>1, <1>2 DEF Later
<1>4. slowest' \in Int /\ slowest' >= minute - t
  BY <1>1, <1>2 DEF Later
<1> HIDE DEF Later
<1>5. \A x, y, m, n \in Int : x >= n /\ y >= m - n => x >= m - y
  OBVIOUS
<1> QED BY <1>1, <1>3, <1>4, <1>5

\* The end of a run.
LEMMA RunEnds ==
    ASSUME DowntimeTypes, syncRun # -1, syncRun' = -1, reading' = FALSE, late' \in BOOLEAN,
           lastSync' \in {lastSync, syncRun}, UNCHANGED <<minute, begun, touched, closed, slowest, known>>
    PROVE  DowntimeTypes'
<1>1. lastSync' \in Nat /\ lastSync' <= minute'
  BY DEF DowntimeTypes
<1>2. syncRun' \in Nat \cup {-1} /\ syncRun' <= minute'
  BY DEF DowntimeTypes
<1> QED BY <1>1, <1>2 DEF DowntimeTypes

\* The invariant is inductive.
LEMMA DowntimeStep == DowntimeInv /\ [DowntimeNext]_downtimeVars => DowntimeInv'
<1> SUFFICES ASSUME DowntimeInv, [DowntimeNext]_downtimeVars PROVE DowntimeInv'
  OBVIOUS
<1> USE DEF DowntimeInv
<1>1. ASSUME NEW t \in 0..MaxMinute, NEW isDown \in BOOLEAN, ChangeState(t, isDown) PROVE DowntimeInv'
  <2>1. touched' \in Int /\ slowest' \in Int /\ touched' >= minute - slowest'
    BY <1>1, CommitIsStamped
  <2>2. UNCHANGED <<minute, lastSync, syncRun, reading, read, late, known, periods, openPeriod>>
    BY <1>1 DEF ChangeState, runVars
  <2>3. closed \subseteq closed' /\ begun' \subseteq begun
    BY <1>1 DEF ChangeState
  <2>4. DowntimeTypes'
    <3>1. begun' \subseteq Int /\ known' \subseteq closed'
      BY <2>2, <2>3 DEF DowntimeTypes
    <3> QED BY <2>1, <2>2, <3>1 DEF DowntimeTypes
  <2>5. ~(touched' < lastSync' - slowest') /\ ~(touched' < syncRun' - slowest')
    <3>1. \A x, y, m, n \in Int : x >= m - y /\ n <= m => ~(x < n - y)
      OBVIOUS
    <3>2. /\ minute \in Int /\ lastSync' \in Int /\ syncRun' \in Int
          /\ lastSync' <= minute /\ syncRun' <= minute
      BY <2>2 DEF DowntimeTypes
    <3> QED BY <2>1, <3>1, <3>2
  <2> QED BY <2>2, <2>4, <2>5 DEF Projected, ReadsAll, Found
<1>2. CASE BeginChange
  <2>1. UNCHANGED <<minute, down, started, touched, closed, slowest, runVars>> /\ begun' = begun \cup {minute}
    BY <1>2 DEF BeginChange
  <2>2. begun' \subseteq Int
    BY <2>1 DEF DowntimeTypes
  <2>3. DowntimeTypes'
    BY <2>1, <2>2 DEF DowntimeTypes, runVars
  <2> QED BY <2>1, <2>3 DEF runVars, Projected, ReadsAll, Found, OpenDown
<1>3. CASE StartRun
  <2>1. UNCHANGED <<minute, timelineVars, periods, openPeriod, reading, read, lastSync, late>>
        /\ syncRun = -1 /\ syncRun' = minute /\ known' = closed
    BY <1>3 DEF StartRun
  <2>2. DowntimeTypes' /\ ~reading'
    BY <2>1 DEF DowntimeTypes, timelineVars
  <2> QED BY <2>1, <2>2 DEF timelineVars, Projected, ReadsAll, Found, OpenDown
<1>4. CASE FailRun \/ FailMonitorSync
  <2>1. NotSynced
    BY <1>4 DEF FailRun, FailMonitorSync
  <2>2. DowntimeTypes' /\ ~reading'
    BY <1>4, <2>1, RunEnds DEF FailRun, FailMonitorSync, NotSynced, DowntimeTypes, timelineVars
  <2> QED BY <2>1, <2>2 DEF NotSynced, timelineVars, Projected, ReadsAll, Found, OpenDown
<1>5. CASE syncDowntimeFromIntervals
  <2>1. UNCHANGED <<minute, timelineVars, periods, openPeriod, known>> /\ syncRun # -1 /\ ~reading
    BY <1>5 DEF syncDowntimeFromIntervals
  <2>2. CASE SelectedSince(Since)
    <3>1. reading' = TRUE /\ read' = closed /\ UNCHANGED <<syncRun, lastSync, late>>
      BY <1>5, <2>2 DEF syncDowntimeFromIntervals
    <3>2. DowntimeTypes'
      BY <2>1, <3>1 DEF DowntimeTypes, timelineVars
    <3>3. ReadsAll'
      BY <2>1, <3>1 DEF DowntimeTypes, timelineVars, ReadsAll, Found
    <3> QED BY <2>1, <3>1, <3>2, <3>3 DEF timelineVars, Projected, Found, OpenDown
  <2>3. CASE ~SelectedSince(Since)
    <3>1. Synced
      BY <1>5, <2>3 DEF syncDowntimeFromIntervals
    <3>2. DowntimeTypes' /\ ~reading'
      BY <2>1, <3>1, RunEnds DEF Synced, timelineVars
    <3>3. ~late' => closed \subseteq periods /\ openPeriod = OpenDown
      BY <2>1, <2>3, <3>1, NothingToSync DEF Synced
    <3> QED BY <2>1, <3>2, <3>3 DEF timelineVars, Projected, ReadsAll, Found, OpenDown
  <2> QED BY <2>2, <2>3
<1>6. CASE syncMonitorDowntime
  <2>1. /\ UNCHANGED <<minute, timelineVars, known>> /\ reading /\ Synced
        /\ periods' = periods \cup read /\ openPeriod' = OpenDown
    BY <1>6 DEF syncMonitorDowntime
  <2>2. DowntimeTypes' /\ ~reading' /\ lastSync' = syncRun
    BY <2>1, RunEnds DEF Synced, DowntimeTypes, timelineVars
  <2>3. Found(syncRun, read)
    BY <2>1 DEF ReadsAll
  <2> QED BY <2>1, <2>2, <2>3 DEF timelineVars, Projected, ReadsAll, Found, OpenDown
<1>7. CASE Minute
  <2>1. UNCHANGED <<timelineVars, runVars>> /\ minute' = minute + 1
    BY <1>7 DEF Minute
  <2>2. DowntimeTypes'
    BY <2>1 DEF DowntimeTypes, timelineVars, runVars
  <2> QED BY <2>1, <2>2 DEF timelineVars, runVars, Projected, ReadsAll, Found, OpenDown
<1>8. CASE UNCHANGED downtimeVars
  BY <1>8 DEF downtimeVars, DowntimeTypes, Projected, ReadsAll, Found, OpenDown
<1> QED BY <1>1, <1>2, <1>3, <1>4, <1>5, <1>6, <1>7, <1>8 DEF DowntimeNext

\* A run that does not fail on the monitor, and did not come too late for the slowest
\* change, leaves the downtime tables showing the timeline it began with and the open
\* interval: for every overlap and every order of changes that commit late, failed runs
\* and failed syncs of the monitor.
THEOREM DowntimeTablesTrailOneRun == DowntimeSpec => ProjectionTrailsOneRun
<1>1. DowntimeInit => DowntimeInv
  <2> SUFFICES ASSUME DowntimeInit PROVE DowntimeInv
    OBVIOUS
  <2> USE DEF DowntimeInit
  <2>1. /\ minute \in Nat /\ touched \in Int /\ slowest \in Int
        /\ lastSync \in Nat /\ syncRun \in Nat \cup {-1}
    OBVIOUS
  <2>2. begun = {} /\ known = {} /\ late \in BOOLEAN /\ reading \in BOOLEAN
    OBVIOUS
  <2>3. lastSync <= minute /\ syncRun <= minute /\ ~reading
    OBVIOUS
  <2>4. Projected /\ ReadsAll
    BY DEF Projected, ReadsAll, Found, OpenDown
  <2> QED BY <2>1, <2>2, <2>3, <2>4 DEF DowntimeInv, DowntimeTypes
<1>2. DowntimeInv /\ [DowntimeNext]_downtimeVars
        => [(syncDowntimeFromIntervals \/ syncMonitorDowntime) /\ syncRun' = -1 /\ ~late'
              => known \subseteq periods' /\ openPeriod' = OpenDown]_downtimeVars
  BY SyncProjects
<1> QED BY <1>1, <1>2, DowntimeStep, PTL DEF DowntimeSpec, ProjectionTrailsOneRun
-----------------------------------------------------------------------------
(* Asynchronous deliveries.                                                *)

MailStates == {"none", "queued", "sending", "waiting", "gone"}
Messages == [st : MailStates, n : Nat, to : SUBSET Recipients]

DeliveryTypes ==
    /\ kind \in {"pager", "sms"}
    /\ alert \in {"active", "acknowledged", "resolved"}
    /\ slots \subseteq Events
    /\ mail \in [Envelopes -> Messages]
    /\ incident \in {"none", "open", "acked", "closed"}
    /\ ledger \subseteq Events \X Recipients
    /\ texts \in [Events \X Recipients -> Nat]
    /\ refused \subseteq Events \X Recipients

\* Texts.  Only an event in doubt has a second message.  The ledger counts the texts of the
\* others, and no message is on its way to a recipient the ledger shows as reached.
SecondMeansDoubt == \A e \in Events \ doubtful : mail[<<e, 2>>].st = "none"
LedgerCounts ==
    \A e \in Events \ doubtful, p \in Recipients :
        texts[<<e, p>>] = IF <<e, p>> \in ledger THEN 1 ELSE 0
SendsToUnreached ==
    \A m \in Envelopes : kind = "sms" /\ mail[m].st = "sending" /\ Event(m) \notin doubtful
        => \A p \in mail[m].to : <<Event(m), p>> \notin ledger
TextInv == DeliveryTypes /\ SecondMeansDoubt /\ LedgerCounts /\ SendsToUnreached

\* Recipients.  A recipient in the ledger was texted; a message under way skips only those;
\* a message that is gone, not dropped, reached everyone or was refused.
LedgerMeansTexted == \A x \in ledger : texts[x] >= 1
SkipsReached ==
    \A m \in Envelopes, p \in Recipients :
        kind = "sms" /\ mail[m].st = "sending" /\ p \notin mail[m].to => <<Event(m), p>> \in ledger
GoneReachedAll ==
    \A m \in Envelopes, p \in Recipients :
        (/\ kind = "sms" /\ mail[m].st = "gone" /\ Event(m) \notin gaveUp
         /\ alert # "resolved" \/ Event(m) = "resolved")
        => texts[<<Event(m), p>>] >= 1 \/ <<Event(m), p>> \in refused
ReachInv == DeliveryTypes /\ LedgerMeansTexted /\ SkipsReached /\ GoneReachedAll

\* The pager.
StillToCome(e) == \E i \in {1, 2} : mail[<<e, i>>].st \in {"queued", "sending", "waiting"}
NoMailIsBlank == \A m \in Envelopes : mail[m].st = "none" => mail[m] = NoMail
TextsPageNobody == kind = "sms" => incident = "none"
ClaimsHaveMail == \A e \in slots : \E i \in {1, 2} : mail[<<e, i>>].st # "none"
ClaimsInOrder ==
    /\ "acknowledged" \in slots => "created" \in slots
    /\ alert # "resolved" => "resolved" \notin slots
MailFollowsAlert ==
    \A i \in {1, 2} : /\ alert = "active" => mail[<<"acknowledged", i>>].st = "none"
                      /\ alert # "resolved" => mail[<<"resolved", i>>].st = "none"
NothingOvertakesResolve ==
    alert = "resolved" => \A m \in Envelopes : mail[m].st = "sending" => Event(m) = "resolved"
ResolveCloses ==
    \A i \in {1, 2} : mail[<<"resolved", i>>].st = "gone" /\ "resolved" \notin gaveUp
        => incident \notin {"open", "acked"}
AckSilences ==
    \A i \in {1, 2} : 
        (/\ alert = "acknowledged" /\ incident = "open"
         /\ mail[<<"acknowledged", i>>].st = "gone" /\ "acknowledged" \notin gaveUp)
        => StillToCome("created") \/ "created" \in gaveUp
PagerInv ==
    /\ DeliveryTypes /\ NoMailIsBlank /\ TextsPageNobody /\ ClaimsHaveMail /\ ClaimsInOrder
    /\ MailFollowsAlert /\ NothingOvertakesResolve /\ ResolveCloses /\ AckSilences

\* What becomes of a message: published, taken up, gone, or tried again.
LEMMA QueuedMail ==
    ASSUME DeliveryTypes, NEW m \in Envelopes, NEW e, NEW commits, Publish(e, m, commits)
    PROVE  /\ mail' \in [Envelopes -> Messages]
           /\ mail'[m].st = "queued"
           /\ \A x \in Envelopes : x # m => mail'[x] = mail[x]
BY DEF DeliveryTypes, Publish, Messages, MailStates

LEMMA SendingMail ==
    ASSUME DeliveryTypes, NEW m \in Envelopes, BeginSend(m)
    PROVE  /\ mail' \in [Envelopes -> Messages]
           /\ mail'[m].st = "sending"
           /\ kind = "sms" => mail'[m].to = Unreached(Event(m))
           /\ \A x \in Envelopes : x # m => mail'[x] = mail[x]
<1> DEFINE sent == [st |-> "sending", n |-> mail[m].n + 1,
                    to |-> IF kind = "sms" THEN Unreached(Event(m)) ELSE {}]
<1>1. mail' = [mail EXCEPT ![m] = sent]
  BY DEF BeginSend
<1>2. mail[m].n \in Nat
  BY DEF DeliveryTypes, Messages
<1>3. sent \in Messages
  BY <1>2 DEF Messages, MailStates, Unreached
<1> QED BY <1>1, <1>3 DEF DeliveryTypes

LEMMA GoneMail ==
    ASSUME DeliveryTypes, NEW m \in Envelopes, mail' = Gone(m)
    PROVE  /\ mail' \in [Envelopes -> Messages]
           /\ mail'[m].st = "gone"
           /\ \A x \in Envelopes : x # m => mail'[x] = mail[x]
BY DEF DeliveryTypes, Gone, NoMail, Messages, MailStates

LEMMA RetriedMail ==
    ASSUME DeliveryTypes, NEW m \in Envelopes, RetryOrGiveUp(m)
    PROVE  /\ mail' \in [Envelopes -> Messages]
           /\ \A x \in Envelopes : x # m => mail'[x] = mail[x]
           /\ \/ mail'[m].st = "waiting" /\ gaveUp' = gaveUp
              \/ mail'[m].st = "gone" /\ gaveUp' = gaveUp \cup {Event(m)}
<1>1. CASE AttemptLeft(m)
  BY <1>1 DEF DeliveryTypes, RetryOrGiveUp, Retried, Messages, MailStates
<1>2. CASE ~AttemptLeft(m)
  BY <1>2, GoneMail DEF RetryOrGiveUp, Retried, GivesUp
<1> QED BY <1>1, <1>2

LEMMA TextedBy ==
    ASSUME DeliveryTypes, NEW e, NEW ps, texts' = Texted(e, ps)
    PROVE  /\ texts' \in [Events \X Recipients -> Nat]
           /\ \A d \in Events, p \in Recipients :
                 /\ d = e /\ p \in ps => texts'[<<d, p>>] = texts[<<d, p>>] + 1
                 /\ d # e \/ p \notin ps => texts'[<<d, p>>] = texts[<<d, p>>]
<1>1. DOMAIN texts = Events \X Recipients /\ \A x \in Events \X Recipients : texts[x] \in Nat
  BY DEF DeliveryTypes
<1>2. texts' = [x \in Events \X Recipients |-> texts[x] + IF x[1] = e /\ x[2] \in ps THEN 1 ELSE 0]
  BY <1>1 DEF Texted
<1> QED BY <1>1, <1>2

LEMMA PagedStates ==
    ASSUME NEW e \in Events, NEW i \in {"none", "open", "acked", "closed"}
    PROVE  /\ Paged(e, i) \in {"none", "open", "acked", "closed"}
           /\ Paged("resolved", i) \notin {"open", "acked"}
           /\ Paged("acknowledged", i) # "open"
           /\ e # "created" /\ Paged(e, i) = "open" => i = "open"
BY DEF Events, Paged

\* Steps keep the shape of the state.
LEMMA DeliveryTypesStep == DeliveryTypes /\ [DeliveryNext]_deliveryVars => DeliveryTypes'
<1> SUFFICES ASSUME DeliveryTypes, [DeliveryNext]_deliveryVars PROVE DeliveryTypes'
  OBVIOUS
<1>1. CASE Acknowledge \/ Resolve \/ ChannelChanges
  BY <1>1 DEF Acknowledge, Resolve, ChannelChanges, DeliveryTypes
<1>2. ASSUME NEW m \in Envelopes, NEW commits \in BOOLEAN, Publish(Event(m), m, commits)
      PROVE  DeliveryTypes'
  <2>1. Event(m) \in Events
    BY DEF Envelopes, Event
  <2>2. slots' \subseteq Events
    BY <1>2, <2>1 DEF Publish, DeliveryTypes
  <2> QED BY <1>2, <2>2, QueuedMail DEF Publish, DeliveryTypes
<1>3. ASSUME NEW e \in Events, PublishDuplicate(e) PROVE DeliveryTypes'
  BY <1>3 DEF PublishDuplicate, DeliveryTypes
<1>4. ASSUME NEW m \in Envelopes, DropUndeliverable(m) \/ DropSuperseded(m) PROVE DeliveryTypes'
  BY <1>4, GoneMail DEF DropUndeliverable, DropSuperseded, DeliveryTypes
<1>5. ASSUME NEW m \in Envelopes, BeginSend(m) PROVE DeliveryTypes'
  BY <1>5, SendingMail DEF BeginSend, DeliveryTypes
<1>6. ASSUME NEW m \in Envelopes,
             PageSent(m) \/ PageHalfSent(m) \/ PageRefused(m) \/ \E accepted \in BOOLEAN : PageFails(m, accepted)
      PROVE  DeliveryTypes'
  <2>1. Event(m) \in Events /\ "acknowledged" \in Events
    BY DEF Envelopes, Event, Events
  <2>2. incident' \in {"none", "open", "acked", "closed"}
    BY <1>6, <2>1, PagedStates DEF PageSent, PageHalfSent, PageRefused, PageFails, DeliveryTypes
  <2>3. mail' \in [Envelopes -> Messages]
    BY <1>6, GoneMail, RetriedMail DEF PageSent, PageHalfSent, PageRefused, PageFails
  <2> QED BY <1>6, <2>2, <2>3 DEF PageSent, PageHalfSent, PageRefused, PageFails, DeliveryTypes
<1>7. ASSUME NEW m \in Envelopes, SenderLost(m) PROVE DeliveryTypes'
  <2>1. Event(m) \in Events
    BY DEF Envelopes, Event
  <2>2. incident' \in {"none", "open", "acked", "closed"}
    BY <1>7, <2>1, PagedStates DEF SenderLost, DeliveryTypes
  <2>3. mail' \in [Envelopes -> Messages]
    BY <1>7, RetriedMail DEF SenderLost
  <2>4. texts' \in [Events \X Recipients -> Nat]
    BY <1>7, TextedBy DEF SenderLost, DeliveryTypes
  <2> QED BY <1>7, <2>2, <2>3, <2>4 DEF SenderLost, DeliveryTypes
<1>8. ASSUME NEW m \in Envelopes, NEW t \in SUBSET Recipients, NEW p \in SUBSET Recipients,
             NEW u \in SUBSET Recipients, TextsSent(m, t, p, u)
      PROVE  DeliveryTypes'
  <2>1. Event(m) \in Events /\ mail[m].to \subseteq Recipients
    BY DEF Envelopes, Event, DeliveryTypes, Messages
  <2>2. mail' \in [Envelopes -> Messages]
    BY <1>8, GoneMail, RetriedMail DEF TextsSent
  <2>3. texts' \in [Events \X Recipients -> Nat]
    BY <1>8, TextedBy DEF TextsSent
  <2>4. ledger' \subseteq Events \X Recipients /\ refused' \subseteq Events \X Recipients
    BY <1>8, <2>1 DEF TextsSent, DeliveryTypes
  <2> QED BY <1>8, <2>2, <2>3, <2>4 DEF TextsSent, DeliveryTypes
<1>9. CASE UNCHANGED deliveryVars
  BY <1>9 DEF deliveryVars, DeliveryTypes
<1> QED BY <1>1, <1>2, <1>3, <1>4, <1>5, <1>6, <1>7, <1>8, <1>9 DEF DeliveryNext


\* Steps that neither text nor take up a message keep the counts.
LEMMA QuietTextStep ==
    ASSUME TextInv, DeliveryTypes', UNCHANGED <<kind, ledger, texts>>, doubtful \subseteq doubtful',
           \A e \in Events \ doubtful' : mail[<<e, 2>>].st = "none" => mail'[<<e, 2>>].st = "none",
           \A m \in Envelopes : mail'[m].st = "sending" => mail'[m] = mail[m]
    PROVE  TextInv'
<1>1. SecondMeansDoubt'
  BY DEF TextInv, SecondMeansDoubt
<1>2. LedgerCounts'
  BY DEF TextInv, LedgerCounts
<1>3. SendsToUnreached'
  BY DEF TextInv, SendsToUnreached, Envelopes, Event
<1> QED BY <1>1, <1>2, <1>3 DEF TextInv

\* An event whose second message exists is in doubt.
LEMMA OneMessage ==
    ASSUME TextInv, NEW m \in Envelopes, mail[m].st # "none", Event(m) \notin doubtful
    PROVE  m = <<Event(m), 1>> /\ Event(m) \in Events
BY DEF TextInv, SecondMeansDoubt, Envelopes, Event

LEMMA TextStep == TextInv /\ [DeliveryNext]_deliveryVars => TextInv'
<1> SUFFICES ASSUME TextInv, [DeliveryNext]_deliveryVars PROVE TextInv'
  OBVIOUS
<1> USE DEF TextInv
<1>0. DeliveryTypes'
  BY DeliveryTypesStep
<1>1. CASE Acknowledge \/ Resolve \/ ChannelChanges \/ UNCHANGED deliveryVars
  <2>1. UNCHANGED <<kind, ledger, texts, mail, doubtful>>
    BY <1>1 DEF Acknowledge, Resolve, ChannelChanges, deliveryVars
  <2> QED BY <1>0, <2>1, QuietTextStep
<1>2. ASSUME NEW m \in Envelopes, NEW commits \in BOOLEAN, Publish(Event(m), m, commits)
      PROVE  TextInv'
  <2>1. doubtful \subseteq doubtful' /\ UNCHANGED <<kind, ledger, texts>>
    BY <1>2 DEF Publish
  <2>2. ASSUME NEW e \in Events \ doubtful', mail[<<e, 2>>].st = "none"
        PROVE  mail'[<<e, 2>>].st = "none"
    BY <1>2, <2>2, QueuedMail DEF Publish, Envelopes, Event
  <2>3. \A x \in Envelopes : mail'[x].st = "sending" => mail'[x] = mail[x]
    BY <1>2, QueuedMail
  <2> QED BY <1>0, <2>1, <2>2, <2>3, QuietTextStep
<1>3. ASSUME NEW e \in Events, PublishDuplicate(e) PROVE TextInv'
  <2>1. UNCHANGED <<kind, ledger, texts, mail, doubtful>>
    BY <1>3 DEF PublishDuplicate
  <2> QED BY <1>0, <2>1, QuietTextStep
<1>4. ASSUME NEW m \in Envelopes,
             \/ DropUndeliverable(m) \/ DropSuperseded(m) \/ PageSent(m) \/ PageHalfSent(m)
             \/ PageRefused(m) \/ \E accepted \in BOOLEAN : PageFails(m, accepted)
      PROVE  TextInv'
  <2>1. UNCHANGED <<kind, ledger, texts, doubtful>> /\ mail[m].st # "none"
    BY <1>4 DEF DropUndeliverable, DropSuperseded, PageSent, PageHalfSent, PageRefused, PageFails, Arrives
  <2>2. mail' = Gone(m) \/ RetryOrGiveUp(m)
    BY <1>4 DEF DropUndeliverable, DropSuperseded, PageSent, PageHalfSent, PageRefused, PageFails
  <2>3. mail'[m].st # "sending" /\ \A x \in Envelopes : x # m => mail'[x] = mail[x]
    BY <2>2, GoneMail, RetriedMail
  <2>4. \A e \in Events \ doubtful' : mail[<<e, 2>>].st = "none" => mail'[<<e, 2>>].st = "none"
    BY <2>1, <2>3 DEF Envelopes
  <2> QED BY <1>0, <2>1, <2>3, <2>4, QuietTextStep
<1>5. ASSUME NEW m \in Envelopes, BeginSend(m) PROVE TextInv'
  <2>1. UNCHANGED <<kind, ledger, texts, doubtful>> /\ mail[m].st # "none"
    BY <1>5 DEF BeginSend, Arrives
  <2>2. \A x \in Envelopes : x # m => mail'[x] = mail[x]
    BY <1>5, SendingMail
  <2>3. SecondMeansDoubt'
    BY <2>1, <2>2 DEF SecondMeansDoubt, Envelopes
  <2>4. LedgerCounts'
    BY <2>1 DEF LedgerCounts
  <2>5. kind = "sms" => \A p \in mail'[m].to : <<Event(m), p>> \notin ledger
    BY <1>5, SendingMail DEF Unreached
  <2>6. SendsToUnreached'
    BY <2>1, <2>2, <2>5 DEF SendsToUnreached, Event
  <2> QED BY <1>0, <2>3, <2>4, <2>6
<1>6. ASSUME NEW m \in Envelopes,
             \/ SenderLost(m)
             \/ \E t, p, u \in SUBSET Recipients : TextsSent(m, t, p, u)
      PROVE  TextInv'
  <2>1. PICK lost \in BOOLEAN, t \in SUBSET Recipients, p \in SUBSET Recipients, u \in SUBSET Recipients :
          IF lost THEN SenderLost(m) ELSE TextsSent(m, t, p, u)
    BY <1>6
  <2>2. mail[m].st = "sending" /\ kind' = kind /\ doubtful \subseteq doubtful'
    BY <2>1 DEF SenderLost, TextsSent
  <2>3. mail'[m].st # "sending" /\ \A x \in Envelopes : x # m => mail'[x] = mail[x]
    BY <2>1, GoneMail, RetriedMail DEF SenderLost, TextsSent
  <2>4. SecondMeansDoubt'
    BY <2>2, <2>3 DEF SecondMeansDoubt, Envelopes
  <2>5. CASE Event(m) \in doubtful' \/ kind # "sms"
    <3>1. \A e \in Events \ doubtful', q \in Recipients :
             /\ texts'[<<e, q>>] = texts[<<e, q>>]
             /\ <<e, q>> \in ledger' <=> <<e, q>> \in ledger
      <4>1. CASE lost
        <5>1. SenderLost(m) /\ ledger' = ledger
          BY <2>1, <4>1 DEF SenderLost
        <5>2. CASE kind = "sms"
          <6>1. PICK ps \in SUBSET mail[m].to : texts' = Texted(Event(m), ps)
            BY <5>1, <5>2 DEF SenderLost
          <6>2. Event(m) \in doubtful'
            BY <2>5, <5>2
          <6>3. \A e \in Events, q \in Recipients :
                  e # Event(m) => texts'[<<e, q>>] = texts[<<e, q>>]
            BY <6>1, TextedBy
          <6> QED BY <5>1, <6>2, <6>3
        <5>3. CASE kind # "sms"
          BY <5>1, <5>3 DEF SenderLost, DeliveryTypes
        <5> QED BY <5>2, <5>3
      <4>2. CASE ~lost
        <5>1. TextsSent(m, t, p, u) /\ Event(m) \in doubtful'
          BY <2>1, <2>5, <4>2 DEF TextsSent
        <5> DEFINE accepted == mail[m].to \ (t \cup p)
        <5>2. texts' = Texted(Event(m), accepted)
              /\ ledger' = ledger \cup ({Event(m)} \X (accepted \ u))
          BY <5>1 DEF TextsSent
        <5> HIDE DEF accepted
        <5>3. \A e \in Events, q \in Recipients :
                e # Event(m) => texts'[<<e, q>>] = texts[<<e, q>>]
          BY <5>2, TextedBy
        <5> QED BY <5>1, <5>2, <5>3
      <4> QED BY <4>1, <4>2
    <3>2. LedgerCounts'
      BY <2>2, <3>1 DEF LedgerCounts
    <3>3. ASSUME NEW x \in Envelopes, kind' = "sms", mail'[x].st = "sending", Event(x) \notin doubtful',
                 NEW q \in mail'[x].to
          PROVE  <<Event(x), q>> \notin ledger'
      <4>1. x # m /\ mail'[x] = mail[x] /\ Event(x) \in Events /\ q \in Recipients
        BY <2>3, <3>3 DEF Envelopes, Event, DeliveryTypes, Messages
      <4>2. <<Event(x), q>> \notin ledger
        BY <2>2, <3>3, <4>1 DEF SendsToUnreached
      <4> QED BY <3>1, <3>3, <4>1, <4>2
    <3> QED BY <1>0, <2>4, <3>2, <3>3 DEF SendsToUnreached
  <2>6. CASE Event(m) \notin doubtful' /\ kind = "sms"
    <3> DEFINE accepted == mail[m].to \ (t \cup p)
    <3>1. /\ ~lost /\ u = {} /\ Event(m) \notin doubtful
          /\ texts' = Texted(Event(m), accepted)
          /\ ledger' = ledger \cup ({Event(m)} \X accepted)
          /\ doubtful' = doubtful
      BY <2>1, <2>6 DEF SenderLost, TextsSent
    <3>0. accepted \subseteq mail[m].to
      OBVIOUS
    <3> HIDE DEF accepted
    <3>2. m = <<Event(m), 1>> /\ Event(m) \in Events
      BY <2>2, <3>1, OneMessage
    <3>3. \A q \in accepted : <<Event(m), q>> \notin ledger
      BY <2>2, <2>6, <3>0, <3>1 DEF SendsToUnreached
    <3>4. \A e \in Events, q \in Recipients :
             /\ e = Event(m) /\ q \in accepted => texts'[<<e, q>>] = texts[<<e, q>>] + 1
             /\ e # Event(m) \/ q \notin accepted => texts'[<<e, q>>] = texts[<<e, q>>]
      BY <3>1, TextedBy
    <3>5. LedgerCounts'
      <4> SUFFICES ASSUME NEW e \in Events \ doubtful, NEW q \in Recipients
                   PROVE  texts'[<<e, q>>] = IF <<e, q>> \in ledger' THEN 1 ELSE 0
        BY <3>1 DEF LedgerCounts
      <4>1. texts[<<e, q>>] = IF <<e, q>> \in ledger THEN 1 ELSE 0
        BY DEF LedgerCounts
      <4>2. CASE e = Event(m) /\ q \in accepted
        <5>1. <<e, q>> \notin ledger /\ <<e, q>> \in ledger'
          BY <3>1, <3>3, <4>2
        <5> QED BY <3>4, <4>1, <4>2, <5>1
      <4>3. CASE ~(e = Event(m) /\ q \in accepted)
        <5>1. <<e, q>> \in ledger' <=> <<e, q>> \in ledger
          BY <3>1, <4>3
        <5> QED BY <3>4, <4>1, <4>3, <5>1
      <4> QED BY <4>2, <4>3
    <3>6. ASSUME NEW x \in Envelopes, kind' = "sms", mail'[x].st = "sending", Event(x) \notin doubtful',
                 NEW q \in mail'[x].to
          PROVE  <<Event(x), q>> \notin ledger'
      <4>1. x # m /\ mail'[x] = mail[x]
        BY <2>3, <3>6
      <4>2. Event(x) # Event(m)
        BY <3>1, <3>2, <3>6, <4>1, OneMessage
      <4>3. <<Event(x), q>> \notin ledger
        BY <2>6, <3>1, <3>6, <4>1 DEF SendsToUnreached
      <4> QED BY <3>1, <4>2, <4>3
    <3> QED BY <1>0, <2>4, <3>5, <3>6 DEF SendsToUnreached
  <2> QED BY <2>5, <2>6
<1> QED BY <1>1, <1>2, <1>3, <1>4, <1>5, <1>6 DEF DeliveryNext

\* For every number of recipients, redeliveries and failures: unless an event was published
\* twice, or a provider took a text that was not recorded, no recipient is texted twice for it.
THEOREM NobodyIsTextedTwice == DeliverySpec => []TextedOnce
<1>1. DeliveryInit => TextInv
  <2> SUFFICES ASSUME DeliveryInit PROVE TextInv
    OBVIOUS
  <2>1. mail \in [Envelopes -> Messages]
    BY DEF DeliveryInit, NoMail, Messages, MailStates
  <2>2. DeliveryTypes
    BY <2>1 DEF DeliveryInit, DeliveryTypes
  <2> QED BY <2>2 DEF DeliveryInit, TextInv, SecondMeansDoubt, LedgerCounts, SendsToUnreached, NoMail, Envelopes
<1>2. TextInv => TextedOnce
  <2> SUFFICES ASSUME TextInv, NEW e \in Events \ doubtful, NEW p \in Recipients
               PROVE  texts[<<e, p>>] <= 1
    BY DEF TextedOnce
  <2>1. texts[<<e, p>>] = IF <<e, p>> \in ledger THEN 1 ELSE 0
    BY DEF TextInv, LedgerCounts
  <2> QED BY <2>1
<1> QED BY <1>1, <1>2, TextStep, PTL DEF DeliverySpec


\* Steps that text nobody keep what is known of a message that ended none well.
LEMMA QuietReachStep ==
    ASSUME ReachInv, DeliveryTypes', UNCHANGED <<kind, ledger, texts, refused>>, gaveUp \subseteq gaveUp',
           alert = "resolved" => alert' = "resolved",
           \A m \in Envelopes :
              \/ mail'[m] = mail[m]
              \/ mail'[m].st \notin {"sending", "gone"}
              \/ mail'[m].st = "sending" /\ (kind = "sms" => mail'[m].to = Unreached(Event(m)))
              \/ mail'[m].st = "gone"
                 /\ \/ Event(m) \in gaveUp' \/ kind # "sms"
                    \/ alert' = "resolved" /\ Event(m) # "resolved"
    PROVE  ReachInv'
<1>1. LedgerMeansTexted'
  BY DEF ReachInv, LedgerMeansTexted
<1>2. SkipsReached'
  <2> SUFFICES ASSUME NEW m \in Envelopes, NEW p \in Recipients,
                      kind = "sms", mail'[m].st = "sending", p \notin mail'[m].to
               PROVE  <<Event(m), p>> \in ledger
    BY DEF SkipsReached, Event
  <2>1. CASE mail'[m] = mail[m]
    BY <2>1 DEF ReachInv, SkipsReached
  <2>2. CASE mail'[m].to = Unreached(Event(m))
    BY <2>2 DEF Unreached
  <2> QED BY <2>1, <2>2
<1>3. GoneReachedAll'
  <2> SUFFICES ASSUME NEW m \in Envelopes, NEW p \in Recipients,
                      kind = "sms", mail'[m].st = "gone", Event(m) \notin gaveUp',
                      alert' # "resolved" \/ Event(m) = "resolved"
               PROVE  texts[<<Event(m), p>>] >= 1 \/ <<Event(m), p>> \in refused
    BY DEF GoneReachedAll, Event
  <2>1. mail'[m] = mail[m] /\ Event(m) \notin gaveUp /\ (alert # "resolved" \/ Event(m) = "resolved")
    OBVIOUS
  <2> QED BY <2>1 DEF ReachInv, GoneReachedAll
<1> QED BY <1>1, <1>2, <1>3 DEF ReachInv

LEMMA ReachStep == ReachInv /\ [DeliveryNext]_deliveryVars => ReachInv'
<1> SUFFICES ASSUME ReachInv, [DeliveryNext]_deliveryVars PROVE ReachInv'
  OBVIOUS
<1>0. DeliveryTypes /\ DeliveryTypes'
  BY DeliveryTypesStep DEF ReachInv
<1>1. CASE Acknowledge \/ Resolve \/ ChannelChanges \/ UNCHANGED deliveryVars
  <2>1. /\ UNCHANGED <<kind, ledger, texts, refused, mail, gaveUp>>
        /\ alert = "resolved" => alert' = "resolved"
    BY <1>1 DEF Acknowledge, Resolve, ChannelChanges, deliveryVars
  <2> QED BY <1>0, <2>1, QuietReachStep
<1>2. ASSUME NEW m \in Envelopes, NEW commits \in BOOLEAN, Publish(Event(m), m, commits)
      PROVE  ReachInv'
  <2>1. UNCHANGED <<kind, ledger, texts, refused, gaveUp, alert>>
    BY <1>2 DEF Publish
  <2>2. mail'[m].st = "queued" /\ \A x \in Envelopes : x # m => mail'[x] = mail[x]
    BY <1>0, <1>2, QueuedMail
  <2> QED BY <1>0, <2>1, <2>2, QuietReachStep
<1>3. ASSUME NEW e \in Events, PublishDuplicate(e) PROVE ReachInv'
  <2>1. UNCHANGED <<kind, ledger, texts, refused, mail, gaveUp, alert>>
    BY <1>3 DEF PublishDuplicate
  <2> QED BY <1>0, <2>1, QuietReachStep
<1>4. ASSUME NEW m \in Envelopes, DropUndeliverable(m) \/ DropSuperseded(m) PROVE ReachInv'
  <2>1. UNCHANGED <<kind, ledger, texts, refused, alert>> /\ gaveUp \subseteq gaveUp' /\ mail' = Gone(m)
    BY <1>4 DEF DropUndeliverable, DropSuperseded, GivesUp
  <2>2. Event(m) \in gaveUp' \/ (alert' = "resolved" /\ Event(m) # "resolved")
    BY <1>4 DEF DropUndeliverable, DropSuperseded, GivesUp, Superseded
  <2>3. mail'[m].st = "gone" /\ \A x \in Envelopes : x # m => mail'[x] = mail[x]
    BY <1>0, <2>1, GoneMail
  <2> QED BY <1>0, <2>1, <2>2, <2>3, QuietReachStep
<1>5. ASSUME NEW m \in Envelopes, BeginSend(m) PROVE ReachInv'
  <2>1. UNCHANGED <<kind, ledger, texts, refused, alert, gaveUp>>
    BY <1>5 DEF BeginSend
  <2>2. /\ mail'[m].st = "sending" /\ (kind = "sms" => mail'[m].to = Unreached(Event(m)))
        /\ \A x \in Envelopes : x # m => mail'[x] = mail[x]
    BY <1>0, <1>5, SendingMail
  <2> QED BY <1>0, <2>1, <2>2, QuietReachStep
<1>6. ASSUME NEW m \in Envelopes,
             PageSent(m) \/ PageHalfSent(m) \/ PageRefused(m) \/ \E accepted \in BOOLEAN : PageFails(m, accepted)
      PROVE  ReachInv'
  <2>1. UNCHANGED <<kind, ledger, texts, refused, alert>> /\ kind # "sms" /\ gaveUp \subseteq gaveUp'
    BY <1>6 DEF PageSent, PageHalfSent, PageRefused, PageFails, RetryOrGiveUp, GivesUp
  <2>2. mail' = Gone(m) \/ RetryOrGiveUp(m)
    BY <1>6 DEF PageSent, PageHalfSent, PageRefused, PageFails
  <2>3. mail'[m].st \in {"waiting", "gone"} /\ \A x \in Envelopes : x # m => mail'[x] = mail[x]
    BY <1>0, <2>2, GoneMail, RetriedMail
  <2> QED BY <1>0, <2>1, <2>3, QuietReachStep
<1>7. ASSUME NEW m \in Envelopes,
             \/ SenderLost(m)
             \/ \E t, p, u \in SUBSET Recipients : TextsSent(m, t, p, u)
      PROVE  ReachInv'
  <2>1. PICK lost \in BOOLEAN, t \in SUBSET Recipients, p \in SUBSET Recipients, u \in SUBSET Recipients :
          IF lost THEN SenderLost(m) ELSE TextsSent(m, t, p, u)
    BY <1>7
  <2> DEFINE accepted == mail[m].to \ (t \cup p)
  <2>2. /\ mail[m].st = "sending" /\ UNCHANGED <<kind, alert>>
        /\ ledger \subseteq ledger' /\ refused \subseteq refused' /\ gaveUp \subseteq gaveUp'
        /\ Event(m) \in Events /\ mail[m].to \subseteq Recipients
    BY <1>0, <2>1 DEF SenderLost, TextsSent, RetryOrGiveUp, GivesUp, Envelopes, Event, DeliveryTypes, Messages
  <2>3. \A x \in Envelopes : x # m => mail'[x] = mail[x]
    BY <1>0, <2>1, GoneMail, RetriedMail DEF SenderLost, TextsSent
  <2>4. mail'[m].st = "waiting" \/ (mail'[m].st = "gone" /\ (~lost \/ Event(m) \in gaveUp'))
    BY <1>0, <2>1, GoneMail, RetriedMail DEF SenderLost, TextsSent
  <2>5. ASSUME NEW e \in Events, NEW q \in Recipients
        PROVE  /\ texts[<<e, q>>] \in Nat /\ texts'[<<e, q>>] \in Nat
               /\ texts'[<<e, q>>] >= texts[<<e, q>>]
               /\ ~lost /\ e = Event(m) /\ q \in accepted => texts'[<<e, q>>] >= 1
    <3>0. texts[<<e, q>>] \in Nat /\ texts'[<<e, q>>] \in Nat
      BY <1>0 DEF DeliveryTypes
    <3>1. CASE UNCHANGED texts /\ lost
      BY <3>0, <3>1
    <3>2. ASSUME NEW ps, texts' = Texted(Event(m), ps)
          PROVE  /\ texts'[<<e, q>>] >= texts[<<e, q>>]
                 /\ e = Event(m) /\ q \in ps => texts'[<<e, q>>] >= 1
      <4>1. /\ e = Event(m) /\ q \in ps => texts'[<<e, q>>] = texts[<<e, q>>] + 1
            /\ e # Event(m) \/ q \notin ps => texts'[<<e, q>>] = texts[<<e, q>>]
        BY <1>0, <3>2, TextedBy
      <4> QED BY <3>0, <4>1
    <3>3. CASE lost
      BY <2>1, <3>0, <3>1, <3>2, <3>3 DEF SenderLost
    <3>4. CASE ~lost
      <4>1. texts' = Texted(Event(m), accepted)
        BY <2>1, <3>4 DEF TextsSent
      <4> QED BY <3>0, <3>2, <3>4, <4>1
    <3> QED BY <3>3, <3>4
  <2>6. LedgerMeansTexted'
    <3> SUFFICES ASSUME NEW x \in ledger' PROVE texts'[x] >= 1
      BY DEF LedgerMeansTexted
    <3>1. PICK e \in Events, q \in Recipients : x = <<e, q>>
      BY <1>0 DEF DeliveryTypes
    <3>2. CASE x \in ledger
      <4>1. texts[x] >= 1
        BY <3>2 DEF ReachInv, LedgerMeansTexted
      <4> QED BY <2>5, <3>1, <4>1
    <3>3. CASE x \notin ledger
      <4>1. ~lost /\ e = Event(m) /\ q \in accepted
        BY <2>1, <3>1, <3>3 DEF SenderLost, TextsSent
      <4> QED BY <2>5, <3>1, <4>1
    <3> QED BY <3>2, <3>3
  <2>7. SkipsReached'
    BY <2>2, <2>3, <2>4 DEF ReachInv, SkipsReached, Event
  <2>8. ASSUME NEW x \in Envelopes, NEW q \in Recipients,
               kind = "sms", mail'[x].st = "gone", Event(x) \notin gaveUp',
               alert # "resolved" \/ Event(x) = "resolved"
        PROVE  texts'[<<Event(x), q>>] >= 1 \/ <<Event(x), q>> \in refused'
    <3>0. Event(x) \in Events
      BY DEF Envelopes, Event
    <3>1. CASE x # m
      <4>1. texts[<<Event(x), q>>] >= 1 \/ <<Event(x), q>> \in refused
        BY <2>2, <2>3, <2>8, <3>1 DEF ReachInv, GoneReachedAll
      <4> QED BY <2>2, <2>5, <3>0, <4>1
    <3>2. CASE x = m
      <4>1. ~lost /\ TextsSent(m, t, p, u)
        BY <2>1, <2>4, <2>8, <3>2
      <4>2. t = {} /\ refused' = refused \cup ({Event(m)} \X p)
        BY <1>0, <2>8, <3>2, <4>1, RetriedMail DEF TextsSent, PermanentSend
      <4>3. CASE q \in p
        BY <3>2, <4>2, <4>3
      <4>4. CASE q \in accepted
        BY <2>5, <3>0, <3>2, <4>1, <4>4
      <4>5. CASE q \notin mail[m].to
        <5>1. <<Event(m), q>> \in ledger
          BY <2>2, <2>8, <4>5 DEF ReachInv, SkipsReached
        <5>2. texts[<<Event(m), q>>] >= 1
          BY <5>1 DEF ReachInv, LedgerMeansTexted
        <5> QED BY <2>5, <3>0, <3>2, <5>2
      <4> QED BY <4>2, <4>3, <4>4, <4>5
    <3> QED BY <3>1, <3>2
  <2>9. GoneReachedAll'
    BY <2>2, <2>8 DEF GoneReachedAll, Event
  <2> QED BY <1>0, <2>6, <2>7, <2>9 DEF ReachInv
<1> QED BY <1>1, <1>2, <1>3, <1>4, <1>5, <1>6, <1>7 DEF DeliveryNext

\* For every number of recipients and failures: a message that ended without being dropped
\* texted every recipient but those refused for good.
THEOREM EveryoneIsTexted == DeliverySpec => []EveryRecipientTexted
<1>1. DeliveryInit => ReachInv
  <2> SUFFICES ASSUME DeliveryInit PROVE ReachInv
    OBVIOUS
  <2>1. mail \in [Envelopes -> Messages]
    BY DEF DeliveryInit, NoMail, Messages, MailStates
  <2>2. DeliveryTypes
    BY <2>1 DEF DeliveryInit, DeliveryTypes
  <2> QED BY <2>2 DEF DeliveryInit, ReachInv, LedgerMeansTexted, SkipsReached, GoneReachedAll, NoMail
<1>2. ReachInv => EveryRecipientTexted
  BY DEF ReachInv, GoneReachedAll, EveryRecipientTexted, Envelopes, Event
<1> QED BY <1>1, <1>2, ReachStep, PTL DEF DeliverySpec


\* Steps that leave the incident alone and end no message as delivered.
LEMMA QuietPagerStep ==
    ASSUME PagerInv, DeliveryTypes', UNCHANGED <<kind, alert, slots, incident>>, gaveUp \subseteq gaveUp',
           NEW m \in Envelopes, \A x \in Envelopes : x # m => mail'[x] = mail[x],
           mail[m].st # "none", mail'[m].st # "none",
           mail'[m].st = "sending" => alert # "resolved" \/ Event(m) = "resolved",
           mail'[m].st = "gone" => \/ incident \notin {"open", "acked"} \/ Event(m) \in gaveUp'
                                   \/ alert = "resolved" /\ Event(m) # "resolved"
    PROVE  PagerInv'
<1> USE DEF PagerInv
<1>1. NoMailIsBlank' /\ TextsPageNobody' /\ ClaimsInOrder'
  BY DEF NoMailIsBlank, TextsPageNobody, ClaimsInOrder
<1>2. \A e \in Events, i \in {1, 2} : <<e, i>> \in Envelopes /\ Event(<<e, i>>) = e
  BY DEF Envelopes, Event
<1>3. ClaimsHaveMail'
  <2>1. \A e \in slots, i \in {1, 2} : mail[<<e, i>>].st # "none" => mail'[<<e, i>>].st # "none"
    BY <1>2 DEF DeliveryTypes
  <2> QED BY <2>1 DEF ClaimsHaveMail
<1>4. MailFollowsAlert' /\ NothingOvertakesResolve'
  BY <1>2 DEF MailFollowsAlert, NothingOvertakesResolve, Events, Event
<1>5. ResolveCloses'
  BY <1>2 DEF ResolveCloses, Events
<1>6. AckSilences'
  <2> SUFFICES ASSUME NEW i \in {1, 2}, alert = "acknowledged", incident = "open",
                      mail'[<<"acknowledged", i>>].st = "gone", "acknowledged" \notin gaveUp'
               PROVE  StillToCome("created")' \/ "created" \in gaveUp'
    BY DEF AckSilences
  <2>1. <<"acknowledged", i>> # m
    BY <1>2 DEF Events
  <2>2. StillToCome("created") \/ "created" \in gaveUp
    BY <1>2, <2>1 DEF AckSilences, Events
  <2>3. CASE StillToCome("created")
    <3>1. PICK j \in {1, 2} : mail[<<"created", j>>].st \in {"queued", "sending", "waiting"}
      BY <2>3 DEF StillToCome
    <3>2. CASE <<"created", j>> # m
      BY <1>2, <3>1, <3>2 DEF StillToCome, Events
    <3>3. CASE <<"created", j>> = m
      <4>1. mail'[m].st \in MailStates
        BY DEF DeliveryTypes, Messages
      <4>2. mail'[m].st = "gone" => "created" \in gaveUp'
        BY <1>2, <3>3 DEF Events
      <4> QED BY <3>3, <4>1, <4>2 DEF StillToCome, MailStates
    <3> QED BY <3>2, <3>3
  <2> QED BY <2>2, <2>3
<1> QED BY <1>1, <1>3, <1>4, <1>5, <1>6

\* A delivery that reached the pager.
LEMMA PagedStep ==
    ASSUME PagerInv, DeliveryTypes', UNCHANGED <<kind, alert, slots>>, gaveUp \subseteq gaveUp',
           NEW m \in Envelopes, mail[m].st = "sending", kind = "pager",
           \A x \in Envelopes : x # m => mail'[x] = mail[x],
           \/ /\ mail'[m].st = "gone"
              /\ incident' = IF AckOvertaken(Event(m))
                             THEN Paged("acknowledged", Paged(Event(m), incident))
                             ELSE Paged(Event(m), incident)
           \/ /\ mail'[m].st = "waiting" \/ (mail'[m].st = "gone" /\ Event(m) \in gaveUp')
              /\ incident' \in {incident, Paged(Event(m), incident)}
    PROVE  PagerInv'
<1> USE DEF PagerInv
<1>1. NoMailIsBlank' /\ TextsPageNobody' /\ ClaimsInOrder'
  BY DEF NoMailIsBlank, TextsPageNobody, ClaimsInOrder
<1>2. /\ \A e \in Events, i \in {1, 2} : <<e, i>> \in Envelopes /\ Event(<<e, i>>) = e
      /\ Event(m) \in Events /\ incident \in {"none", "open", "acked", "closed"}
  BY DEF Envelopes, Event, DeliveryTypes
<1>3. ClaimsHaveMail'
  <2>1. \A e \in slots, i \in {1, 2} : mail[<<e, i>>].st # "none" => mail'[<<e, i>>].st # "none"
    BY <1>2 DEF DeliveryTypes
  <2> QED BY <2>1 DEF ClaimsHaveMail
<1>4. MailFollowsAlert' /\ NothingOvertakesResolve'
  <2>1. \A x \in Envelopes : mail'[x].st = "sending" => mail'[x] = mail[x]
    OBVIOUS
  <2>2. NothingOvertakesResolve'
    BY <2>1 DEF NothingOvertakesResolve, Event
  <2>3. ASSUME NEW e \in Events, NEW i \in {1, 2}, mail[<<e, i>>].st = "none"
        PROVE  mail'[<<e, i>>].st = "none"
    BY <1>2, <2>3
  <2>4. MailFollowsAlert'
    BY <2>3 DEF MailFollowsAlert, Events
  <2> QED BY <2>2, <2>4
<1>5. ResolveCloses'
  <2> SUFFICES ASSUME NEW i \in {1, 2}, mail'[<<"resolved", i>>].st = "gone", "resolved" \notin gaveUp'
               PROVE  incident' \notin {"open", "acked"}
    BY DEF ResolveCloses
  <2>0. <<"resolved", i>> \in Envelopes /\ Event(<<"resolved", i>>) = "resolved"
    BY <1>2 DEF Events
  <2>1. CASE m = <<"resolved", i>>
    <3>1. incident' = Paged("resolved", incident)
      BY <2>0, <2>1 DEF AckOvertaken
    <3> QED BY <1>2, <3>1, PagedStates DEF Events
  <2>2. CASE m # <<"resolved", i>>
    <3>1. mail[<<"resolved", i>>].st = "gone" /\ "resolved" \notin gaveUp
      BY <2>0, <2>2
    <3>2. alert = "resolved" /\ incident \notin {"open", "acked"}
      BY <3>1 DEF MailFollowsAlert, ResolveCloses
    <3>3. Event(m) = "resolved"
      BY <3>2 DEF NothingOvertakesResolve
    <3>4. incident' \in {incident, Paged("resolved", incident)}
      BY <3>3 DEF AckOvertaken
    <3> QED BY <1>2, <3>2, <3>4, PagedStates DEF Events
  <2> QED BY <2>1, <2>2
<1>6. AckSilences'
  <2> SUFFICES ASSUME NEW i \in {1, 2}, alert = "acknowledged", incident' = "open",
                      mail'[<<"acknowledged", i>>].st = "gone", "acknowledged" \notin gaveUp'
               PROVE  StillToCome("created")' \/ "created" \in gaveUp'
    BY DEF AckSilences
  <2>0. <<"acknowledged", i>> \in Envelopes /\ Event(<<"acknowledged", i>>) = "acknowledged"
    BY <1>2 DEF Events
  <2>1. CASE Event(m) = "created"
    <3>1. mail'[m].st = "waiting" \/ "created" \in gaveUp'
      BY <1>2, <2>1, PagedStates DEF AckOvertaken, Events
    <3>2. PICK j \in {1, 2} : m = <<"created", j>>
      BY <2>1 DEF Envelopes, Event
    <3> QED BY <3>1, <3>2 DEF StillToCome
  <2>2. CASE Event(m) # "created"
    <3>1. incident = "open" /\ incident' \in {incident, Paged(Event(m), incident)}
      BY <1>2, <2>2, PagedStates DEF AckOvertaken
    <3>2. m # <<"acknowledged", i>>
      <4> SUFFICES ASSUME m = <<"acknowledged", i>> PROVE FALSE
        OBVIOUS
      <4>1. incident' = Paged("acknowledged", incident)
        BY <2>0 DEF AckOvertaken
      <4> QED BY <1>2, <4>1, PagedStates DEF Events
    <3>3. StillToCome("created") \/ "created" \in gaveUp
      BY <2>0, <3>1, <3>2 DEF AckSilences
    <3>4. \A j \in {1, 2} : m # <<"created", j>>
      BY <2>2 DEF Event
    <3>5. StillToCome("created") => StillToCome("created")'
      BY <1>2, <3>4 DEF StillToCome, Events
    <3> QED BY <3>3, <3>5
  <2> QED BY <2>1, <2>2
<1> QED BY <1>1, <1>3, <1>4, <1>5, <1>6


\* A publish: the event was due.
LEMMA PublishedStep ==
    ASSUME PagerInv, DeliveryTypes', NEW e \in Events, Due(e),
           UNCHANGED <<kind, alert, incident, gaveUp>>, slots' \in {slots, slots \cup {e}},
           \/ \E i \in {1, 2} : /\ mail'[<<e, i>>].st = "queued"
                                /\ \A x \in Envelopes : x # <<e, i>> => mail'[x] = mail[x]
           \/ \E i \in {1, 2} : mail[<<e, i>>] # NoMail /\ UNCHANGED mail
    PROVE  PagerInv'
<1> USE DEF PagerInv
<1>1. PICK i \in {1, 2} :
        \/ /\ mail'[<<e, i>>].st = "queued"
           /\ \A x \in Envelopes : x # <<e, i>> => mail'[x] = mail[x]
        \/ mail[<<e, i>>] # NoMail /\ UNCHANGED mail
  OBVIOUS
<1>2. \A d \in Events, j \in {1, 2} : <<d, j>> \in Envelopes /\ Event(<<d, j>>) = d
  BY DEF Envelopes, Event
<1>3. NoMailIsBlank' /\ TextsPageNobody'
  BY <1>1 DEF NoMailIsBlank, TextsPageNobody
<1>4. mail'[<<e, i>>].st # "none" /\ \A x \in Envelopes : mail[x].st # "none" => mail'[x].st # "none"
  BY <1>1, <1>2 DEF NoMailIsBlank
<1>5. ClaimsHaveMail'
  <2> SUFFICES ASSUME NEW d \in slots'
               PROVE  \E k \in {1, 2} : mail'[<<d, k>>].st # "none"
    BY DEF ClaimsHaveMail
  <2>1. CASE d = e
    BY <1>4, <2>1
  <2>2. CASE d # e
    <3>1. d \in slots /\ d \in Events
      BY <2>2 DEF DeliveryTypes
    <3>2. PICK k \in {1, 2} : mail[<<d, k>>].st # "none"
      BY <3>1 DEF ClaimsHaveMail
    <3> QED BY <1>2, <1>4, <3>1, <3>2
  <2> QED BY <2>1, <2>2
<1>6. ClaimsInOrder'
  BY DEF ClaimsInOrder, Due, Events
<1>7. \A x \in Envelopes : mail'[x].st \in {"sending", "gone"} => mail'[x] = mail[x]
  BY <1>1
<1>8. MailFollowsAlert'
  <2>1. (e = "acknowledged" => alert = "acknowledged") /\ (e = "resolved" => alert = "resolved")
    BY DEF Due
  <2>2. \A d \in Events, j \in {1, 2} : d # e => mail'[<<d, j>>] = mail[<<d, j>>]
    BY <1>1, <1>2
  <2> QED BY <2>1, <2>2 DEF MailFollowsAlert, Events
<1>9. NothingOvertakesResolve'
  BY <1>7 DEF NothingOvertakesResolve, Event
<1>10. ResolveCloses'
  BY <1>2, <1>7 DEF ResolveCloses, Events
<1>11. AckSilences'
  <2>1. StillToCome("created") => StillToCome("created")'
    BY <1>1, <1>2 DEF StillToCome, Events
  <2> QED BY <1>2, <1>7, <2>1 DEF AckSilences, Events
<1> QED BY <1>3, <1>5, <1>6, <1>8, <1>9, <1>10, <1>11

LEMMA PagerStep == PagerInv /\ [DeliveryNext]_deliveryVars => PagerInv'
<1> SUFFICES ASSUME PagerInv, [DeliveryNext]_deliveryVars PROVE PagerInv'
  OBVIOUS
<1>0. DeliveryTypes /\ DeliveryTypes'
  BY DeliveryTypesStep DEF PagerInv
<1>1. CASE Acknowledge \/ Resolve
  <2>1. UNCHANGED <<kind, slots, mail, incident, gaveUp>> /\ ~UpdateWaits
    BY <1>1 DEF Acknowledge, Resolve
  <2>2. \/ alert = "active" /\ alert' = "acknowledged"
        \/ alert # "resolved" /\ alert' = "resolved"
    BY <1>1 DEF Acknowledge, Resolve
  <2>3. NoMailIsBlank' /\ TextsPageNobody' /\ ClaimsHaveMail' /\ ClaimsInOrder'
    BY <2>1, <2>2 DEF PagerInv, NoMailIsBlank, TextsPageNobody, ClaimsHaveMail, ClaimsInOrder
  <2>4. MailFollowsAlert' /\ ResolveCloses'
    BY <2>1, <2>2 DEF PagerInv, MailFollowsAlert, ResolveCloses
  <2>5. NothingOvertakesResolve'
    BY <2>1, <2>2 DEF NothingOvertakesResolve, UpdateWaits, Event
  <2>6. AckSilences'
    <3>1. alert' = "acknowledged" => \A i \in {1, 2} : mail[<<"acknowledged", i>>].st = "none"
      BY <2>2 DEF PagerInv, MailFollowsAlert
    <3> QED BY <2>1, <3>1 DEF AckSilences
  <2> QED BY <1>0, <2>3, <2>4, <2>5, <2>6 DEF PagerInv
<1>2. CASE ChannelChanges \/ UNCHANGED deliveryVars
  <2>1. UNCHANGED <<kind, alert, slots, mail, incident, gaveUp>>
    BY <1>2 DEF ChannelChanges, deliveryVars
  <2> QED BY <1>0, <2>1 DEF PagerInv, NoMailIsBlank, TextsPageNobody, ClaimsHaveMail, ClaimsInOrder,
         MailFollowsAlert, NothingOvertakesResolve, ResolveCloses, AckSilences, StillToCome
<1>3. ASSUME NEW m \in Envelopes, NEW commits \in BOOLEAN, Publish(Event(m), m, commits)
      PROVE  PagerInv'
  <2>1. PICK e \in Events, i \in {1, 2} : m = <<e, i>> /\ Event(m) = e
    BY DEF Envelopes, Event
  <2>2. mail'[m].st = "queued" /\ \A x \in Envelopes : x # m => mail'[x] = mail[x]
    BY <1>0, <1>3, QueuedMail
  <2>3. Due(e) /\ UNCHANGED <<kind, alert, incident, gaveUp>> /\ slots' \in {slots, slots \cup {e}}
    BY <1>3, <2>1 DEF Publish
  <2> QED BY <1>0, <2>1, <2>2, <2>3, PublishedStep
<1>4. ASSUME NEW e \in Events, PublishDuplicate(e) PROVE PagerInv'
  <2>1. /\ Due(e) /\ UNCHANGED <<kind, alert, incident, gaveUp, mail>> /\ slots' = slots \cup {e}
        /\ mail[<<e, 1>>] # NoMail
    BY <1>4 DEF PublishDuplicate
  <2> QED BY <1>0, <2>1, PublishedStep
<1>5. ASSUME NEW m \in Envelopes, DropUndeliverable(m) \/ DropSuperseded(m) PROVE PagerInv'
  <2>1. /\ UNCHANGED <<kind, alert, slots, incident>> /\ gaveUp \subseteq gaveUp' /\ mail' = Gone(m)
        /\ mail[m].st # "none"
    BY <1>5 DEF DropUndeliverable, DropSuperseded, GivesUp, Arrives
  <2>2. Event(m) \in gaveUp' \/ (alert = "resolved" /\ Event(m) # "resolved")
    BY <1>5 DEF DropUndeliverable, DropSuperseded, GivesUp, Superseded
  <2>3. mail'[m].st = "gone" /\ \A x \in Envelopes : x # m => mail'[x] = mail[x]
    BY <1>0, <2>1, GoneMail
  <2> QED BY <1>0, <2>1, <2>2, <2>3, QuietPagerStep
<1>6. ASSUME NEW m \in Envelopes, BeginSend(m) PROVE PagerInv'
  <2>1. /\ UNCHANGED <<kind, alert, slots, incident, gaveUp>> /\ mail[m].st # "none"
        /\ alert # "resolved" \/ Event(m) = "resolved"
    BY <1>6 DEF BeginSend, Arrives, Superseded
  <2>2. mail'[m].st = "sending" /\ \A x \in Envelopes : x # m => mail'[x] = mail[x]
    BY <1>0, <1>6, SendingMail
  <2> QED BY <1>0, <2>1, <2>2, QuietPagerStep
<1>7. ASSUME NEW m \in Envelopes,
             \/ PageSent(m) \/ PageHalfSent(m) \/ PageRefused(m) \/ (SenderLost(m) /\ kind = "pager")
             \/ \E accepted \in BOOLEAN : PageFails(m, accepted)
      PROVE  PagerInv'
  <2>1. /\ UNCHANGED <<kind, alert, slots>> /\ kind = "pager" /\ mail[m].st = "sending"
        /\ gaveUp \subseteq gaveUp'
    BY <1>7 DEF PageSent, PageHalfSent, PageRefused, PageFails, SenderLost, RetryOrGiveUp, GivesUp
  <2>2. CASE PageSent(m)
    <3>1. mail'[m].st = "gone" /\ \A x \in Envelopes : x # m => mail'[x] = mail[x]
      BY <1>0, <2>2, GoneMail DEF PageSent
    <3>2. incident' = IF AckOvertaken(Event(m))
                      THEN Paged("acknowledged", Paged(Event(m), incident))
                      ELSE Paged(Event(m), incident)
      BY <2>2 DEF PageSent
    <3> QED BY <1>0, <2>1, <3>1, <3>2, PagedStep
  <2>3. CASE ~PageSent(m)
    <3>1. /\ mail'[m].st = "waiting" \/ (mail'[m].st = "gone" /\ Event(m) \in gaveUp')
          /\ \A x \in Envelopes : x # m => mail'[x] = mail[x]
      BY <1>0, <1>7, <2>3, GoneMail, RetriedMail
         DEF PageHalfSent, PageRefused, PageFails, SenderLost, GivesUp
    <3>2. incident' \in {incident, Paged(Event(m), incident)}
      BY <1>7, <2>3 DEF PageHalfSent, PageRefused, PageFails, SenderLost
    <3> QED BY <1>0, <2>1, <3>1, <3>2, PagedStep
  <2> QED BY <2>2, <2>3
<1>8. ASSUME NEW m \in Envelopes,
             \/ SenderLost(m) /\ kind = "sms"
             \/ \E t, p, u \in SUBSET Recipients : TextsSent(m, t, p, u)
      PROVE  PagerInv'
  <2>1. /\ UNCHANGED <<kind, alert, slots, incident>> /\ kind = "sms" /\ mail[m].st = "sending"
        /\ gaveUp \subseteq gaveUp'
    BY <1>8 DEF TextsSent, SenderLost, RetryOrGiveUp, GivesUp
  <2>2. mail'[m].st \in {"waiting", "gone"} /\ \A x \in Envelopes : x # m => mail'[x] = mail[x]
    BY <1>0, <1>8, GoneMail, RetriedMail DEF TextsSent, SenderLost
  <2>3. incident = "none"
    BY <2>1 DEF PagerInv, TextsPageNobody
  <2> QED BY <1>0, <2>1, <2>2, <2>3, QuietPagerStep
<1> QED BY <1>0, <1>1, <1>2, <1>3, <1>4, <1>5, <1>6, <1>7, <1>8 DEF DeliveryNext, DeliveryTypes

\* The incident at the pager follows the alert, through every order of publishes, retries,
\* overtaking acknowledgements and lost workers: where the opening was claimed, a resolve
\* that was delivered leaves nothing open, and an acknowledged alert pages on only while a
\* message can still silence it.
THEOREM PagerAgreesWithAlert == DeliverySpec => []PagerFollowsAlert
<1>1. DeliveryInit => PagerInv
  <2> SUFFICES ASSUME DeliveryInit PROVE PagerInv
    OBVIOUS
  <2>1. mail \in [Envelopes -> Messages]
    BY DEF DeliveryInit, NoMail, Messages, MailStates
  <2>2. DeliveryTypes
    BY <2>1 DEF DeliveryInit, DeliveryTypes
  <2>3. \A m \in Envelopes : mail[m] = NoMail /\ mail[m].st = "none"
    BY DEF DeliveryInit, NoMail
  <2>4. \A i \in {1, 2} : <<"acknowledged", i>> \in Envelopes /\ <<"resolved", i>> \in Envelopes
    BY DEF Envelopes, Events
  <2>5. NoMailIsBlank /\ TextsPageNobody /\ ClaimsHaveMail /\ ClaimsInOrder
    BY <2>3 DEF DeliveryInit, NoMailIsBlank, TextsPageNobody, ClaimsHaveMail, ClaimsInOrder
  <2>6. MailFollowsAlert /\ NothingOvertakesResolve /\ ResolveCloses /\ AckSilences
    BY <2>3, <2>4 DEF DeliveryInit, MailFollowsAlert, NothingOvertakesResolve, ResolveCloses, AckSilences
  <2> QED BY <2>2, <2>5, <2>6 DEF PagerInv
<1>2. PagerInv => PagerFollowsAlert
  <2> SUFFICES ASSUME PagerInv PROVE PagerFollowsAlert
    OBVIOUS
  <2>1. \A e \in Events, i \in {1, 2} : mail[<<e, i>>].st \in MailStates
    BY DEF PagerInv, DeliveryTypes, Messages, Envelopes
  <2>2. ASSUME "created" \in slots, channelOn, alert = "resolved", incident \in {"open", "acked"}
        PROVE  OnItsWay("resolved")
    <3>1. CASE "resolved" \notin slots
      BY <2>2, <3>1 DEF OnItsWay, Due
    <3>2. CASE "resolved" \in slots
      <4>1. PICK i \in {1, 2} : mail[<<"resolved", i>>].st # "none"
        BY <3>2 DEF PagerInv, ClaimsHaveMail
      <4>2. mail[<<"resolved", i>>].st = "gone" => "resolved" \in gaveUp
        BY <2>2 DEF PagerInv, ResolveCloses
      <4> QED BY <2>1, <4>1, <4>2 DEF OnItsWay, Events, MailStates
    <3> QED BY <3>1, <3>2
  <2>3. ASSUME "created" \in slots, channelOn, alert = "acknowledged", incident = "open"
        PROVE  OnItsWay("acknowledged") \/ OnItsWay("created")
    <3>1. kind = "pager"
      BY <2>3 DEF PagerInv, DeliveryTypes, TextsPageNobody
    <3>2. CASE "acknowledged" \notin slots
      BY <2>3, <3>1, <3>2 DEF OnItsWay, Due
    <3>3. CASE "acknowledged" \in slots
      <4>1. PICK i \in {1, 2} : mail[<<"acknowledged", i>>].st # "none"
        BY <3>3 DEF PagerInv, ClaimsHaveMail
      <4>2. CASE mail[<<"acknowledged", i>>].st = "gone" /\ "acknowledged" \notin gaveUp
        <5>1. StillToCome("created") \/ "created" \in gaveUp
          BY <2>3, <4>2 DEF PagerInv, AckSilences
        <5> QED BY <5>1 DEF OnItsWay, StillToCome
      <4>3. CASE ~(mail[<<"acknowledged", i>>].st = "gone" /\ "acknowledged" \notin gaveUp)
        BY <2>1, <4>1, <4>3 DEF OnItsWay, Events, MailStates
      <4> QED BY <4>2, <4>3
    <3> QED BY <3>2, <3>3
  <2> QED BY <2>2, <2>3 DEF PagerFollowsAlert
<1> QED BY <1>1, <1>2, PagerStep, PTL DEF DeliverySpec


-----------------------------------------------------------------------------
(* The metric store.                                                       *)

ExportSteps == {"unsent", "lookup", "resolve", "insert", "commit", "beat", "answer",
                "accepted", "refused", "unavailable"}
ExportRecord == [pc : ExportSteps, key : SeriesKeys \cup {""}, day : MetricDays, id : Nat,
                 new : BOOLEAN, attempt : {0, 1}, mark : Nat]

MetricTypes ==
    /\ export \in [Exports -> ExportRecord]
    /\ \A q \in Exports : export[q].pc # "unsent" => export[q].key \in SeriesKeys
    /\ DOMAIN registry \subseteq Nat /\ lastID \in Nat
    /\ seriesCache \in [SeriesKeys -> Nat]
    /\ samples \subseteq Nat \X Exports \X BOOLEAN
    /\ metricDirty \in [MetricDays -> Nat]
    /\ metricJob = [pc |-> metricJob.pc, batch |-> metricJob.batch, built |-> metricJob.built]

SampleDay(s) == export[s[2]].day

\* A stored sample's request has been sent, so that its day is settled, and what was
\* registered when the sample was stored still is.
SamplesAreSettled ==
    \A s \in samples : export[s[2]].pc # "unsent" /\ (s[3] => s[1] \in DOMAIN registry)
\* One transaction at a time marks a day, with a version newer than the committed one.
MarksAreNewer ==
    \A q \in Exports : export[q].pc = "commit"
        => /\ export[q].mark > metricDirty[export[q].day]
           /\ \A p \in Exports : export[p].pc = "commit" /\ export[p].day = export[q].day => p = q
\* A rebuild holds versions no newer than the committed ones, and has aggregated all the
\* samples of a day whose mark it will remove.
BatchIsBehind ==
    metricJob.pc \in {"rebuild", "consume"} =>
        /\ DOMAIN metricJob.batch \subseteq MetricDays
        /\ \A d \in DOMAIN metricJob.batch :
              metricJob.batch[d] \in Nat /\ metricJob.batch[d] <= metricDirty[d]
BuiltIsComplete ==
    metricJob.pc = "consume" =>
        \A d \in DOMAIN metricJob.batch : metricDirty[d] <= metricJob.batch[d]
            => \A s \in samples : s[3] /\ SampleDay(s) = d => s \in metricJob.built[d]
MetricInv ==
    /\ MetricTypes /\ SamplesAreSettled /\ MarksAreNewer /\ BatchIsBehind /\ BuiltIsComplete
    /\ SampleFoldedOrMarked

\* Steps that store, mark and roll up nothing, and move no request past its day or into a commit.
LEMMA QuietMetricStep ==
    ASSUME MetricInv, MetricTypes', UNCHANGED <<registry, samples, metricDirty, metricRollup, metricJob>>,
           \A q \in Exports :
              /\ export'[q].pc = "commit" => export'[q] = export[q]
              /\ export[q].pc # "unsent" => export'[q].pc # "unsent" /\ export'[q].day = export[q].day
    PROVE  MetricInv'
<1> USE DEF MetricInv
<1>1. ASSUME NEW s \in samples PROVE SampleDay(s)' = SampleDay(s) /\ export'[s[2]].pc # "unsent"
  <2>1. s[2] \in Exports
    BY DEF MetricTypes
  <2> QED BY <2>1 DEF SamplesAreSettled, SampleDay
<1>2. SamplesAreSettled'
  BY <1>1 DEF SamplesAreSettled
<1>3. MarksAreNewer'
  BY DEF MarksAreNewer
<1>4. BatchIsBehind'
  BY DEF BatchIsBehind
<1>5. BuiltIsComplete'
  BY <1>1 DEF BuiltIsComplete
<1>6. SampleFoldedOrMarked'
  BY <1>1 DEF SampleFoldedOrMarked, SampleDay
<1> QED BY <1>2, <1>3, <1>4, <1>5, <1>6

\* The steps of a request up to its commit, and after it.
QuietIngest(q) ==
    \/ \E k \in SeriesKeys, d \in MetricDays : Send(q, k, d)
    \/ Ingest(q) \/ resolveCached(q) \/ overCap(q) \/ ResolveSeries(q) \/ missingPartition(q)
    \/ heartbeat(q) \/ Answer(q) \/ Retry(q) \/ RateLimited(q) \/ IngestFails(q)

LEMMA ExportEdits ==
    ASSUME NEW r \in ExportRecord, NEW pc \in ExportSteps, NEW mark \in Nat
    PROVE  /\ [r EXCEPT !.pc = pc, !.mark = mark] \in ExportRecord
           /\ [r EXCEPT !.pc = pc, !.new = FALSE, !.mark = 0] \in ExportRecord
BY DEF ExportRecord

LEMMA ExportMoves ==
    ASSUME MetricTypes, NEW q \in Exports, QuietIngest(q)
    PROVE  /\ export' \in [Exports -> ExportRecord]
           /\ \A p \in Exports : p # q => export'[p] = export[p]
           /\ export'[q] = export[q] \/ export'[q].pc \notin {"unsent", "commit"}
           /\ export[q].pc # "unsent" => export'[q].key = export[q].key /\ export'[q].day = export[q].day
           /\ export'[q].pc # "unsent" => export'[q].key \in SeriesKeys
           /\ UNCHANGED <<registry, samples, metricDirty, metricRollup, metricJob>>
           /\ lastID' \in Nat /\ seriesCache' \in [SeriesKeys -> Nat]
<1> USE DEF MetricTypes
<1>1. export[q] \in ExportRecord /\ (export[q].pc # "unsent" => export[q].key \in SeriesKeys)
  OBVIOUS
<1>2. CASE \E k \in SeriesKeys, d \in MetricDays : Send(q, k, d)
  <2>1. PICK k \in SeriesKeys, d \in MetricDays : Send(q, k, d)
    BY <1>2
  <2>2. /\ export' = [export EXCEPT ![q].pc = "lookup", ![q].key = k, ![q].day = d]
        /\ UNCHANGED <<registry, samples, metricDirty, metricRollup, metricJob, lastID, seriesCache>>
        /\ export[q].pc = "unsent"
    BY <2>1 DEF Send
  <2> QED BY <1>1, <2>2 DEF ExportRecord, ExportSteps
<1>3. CASE Ingest(q) \/ overCap(q) \/ heartbeat(q) \/ Answer(q)
  <2>1. PICK pc \in {"resolve", "refused", "beat", "answer", "accepted"} : export' = [export EXCEPT ![q].pc = pc]
    BY <1>3 DEF Ingest, overCap, heartbeat, Answer, Go
  <2>2. export[q].pc # "unsent"
    BY <1>3 DEF Ingest, overCap, heartbeat, Answer
  <2>3. UNCHANGED <<registry, samples, metricDirty, metricRollup, metricJob, lastID, seriesCache>>
    BY <1>3 DEF Ingest, overCap, heartbeat, Answer, IngestKept
  <2> QED BY <1>1, <2>1, <2>2, <2>3 DEF ExportRecord, ExportSteps
<1>4. CASE resolveCached(q)
  <2>1. seriesCache[export[q].key] \in Nat /\ export[q].pc # "unsent"
    BY <1>1, <1>4 DEF resolveCached
  <2> QED BY <1>1, <1>4, <2>1 DEF resolveCached, IngestKept, ExportRecord, ExportSteps
<1>5. CASE ResolveSeries(q)
  <2> DEFINE k == export[q].key
             fresh == Registered(k) = {}
             id == IF fresh THEN lastID + 1 ELSE CHOOSE i \in Registered(k) : TRUE
  <2>1. id \in Nat
    <3>1. Registered(k) \subseteq Nat
      BY DEF Registered
    <3> QED BY <3>1
  <2>2. /\ export' = [export EXCEPT ![q].pc = "insert", ![q].id = id, ![q].new = fresh]
        /\ seriesCache' = [seriesCache EXCEPT ![k] = id]
        /\ lastID' \in {lastID, lastID + 1}
        /\ UNCHANGED <<registry, samples, metricDirty, metricRollup, metricJob>>
        /\ export[q].pc # "unsent"
    BY <1>5 DEF ResolveSeries, IngestKept
  <2>3. fresh \in BOOLEAN
    OBVIOUS
  <2> HIDE DEF id, fresh
  <2> DEFINE moved == [export[q] EXCEPT !.pc = "insert", !.id = id, !.new = fresh]
  <2>5. export' = [export EXCEPT ![q] = moved]
    BY <2>2
  <2>6. moved \in ExportRecord /\ moved.pc = "insert" /\ moved.key = k /\ moved.day = export[q].day
    BY <1>1, <2>1, <2>3 DEF ExportRecord, ExportSteps
  <2>7. lastID' \in Nat /\ seriesCache' \in [SeriesKeys -> Nat]
    BY <2>1, <2>2
  <2> HIDE DEF moved, k
  <2>8. /\ export' \in [Exports -> ExportRecord] /\ export'[q] = moved
        /\ \A p \in Exports : p # q => export'[p] = export[p]
    BY <2>5, <2>6
  <2>9. export'[q].pc = "insert" /\ export'[q].key = export[q].key /\ export'[q].day = export[q].day
    BY <2>6, <2>8 DEF k
  <2> QED BY <1>1, <2>2, <2>7, <2>8, <2>9
<1>6. CASE missingPartition(q)
  <2>1. /\ export[q].pc # "unsent"
        /\ \/ export' = [export EXCEPT ![q].pc = "resolve", ![q].attempt = 1, ![q].new = FALSE]
           \/ export' = [export EXCEPT ![q].pc = "unavailable", ![q].new = FALSE]
        /\ UNCHANGED <<registry, samples, metricDirty, metricRollup, metricJob, lastID, seriesCache>>
    BY <1>6 DEF missingPartition
  <2>2. CASE export' = [export EXCEPT ![q].pc = "resolve", ![q].attempt = 1, ![q].new = FALSE]
    BY <1>1, <2>1, <2>2 DEF ExportRecord, ExportSteps
  <2>3. CASE export' = [export EXCEPT ![q].pc = "unavailable", ![q].new = FALSE]
    BY <1>1, <2>1, <2>3 DEF ExportRecord, ExportSteps
  <2> QED BY <2>1, <2>2, <2>3
<1>7. CASE Retry(q)
  BY <1>1, <1>7 DEF Retry, IngestKept, ExportRecord, ExportSteps
<1>8. CASE RateLimited(q)
  BY <1>1, <1>8 DEF RateLimited
<1>9. CASE IngestFails(q)
  BY <1>1, <1>9 DEF IngestFails, FailureAnswer, ExportRecord, ExportSteps
<1> QED BY <1>2, <1>3, <1>4, <1>5, <1>6, <1>7, <1>8, <1>9 DEF QuietIngest


\* A commit: the sample, the series and the day's mark are stored at once.
LEMMA CommitStep ==
    ASSUME MetricInv, NEW q \in Exports, writeBatchOnce(q)
    PROVE  MetricInv'
<1> DEFINE e == export[q]
           day == export[q].day
<1> USE DEF MetricInv
<1>1. /\ e \in ExportRecord /\ e.pc = "commit" /\ day \in MetricDays /\ e.key \in SeriesKeys
      /\ e.mark \in Nat /\ e.mark > metricDirty[day] /\ metricDirty[day] \in Nat
  BY DEF writeBatchOnce, MetricTypes, ExportRecord, MarksAreNewer
<1>2. /\ export' = [export EXCEPT ![q].pc = "beat", ![q].new = FALSE, ![q].mark = 0]
      /\ metricDirty' = [metricDirty EXCEPT ![day] = e.mark]
      /\ UNCHANGED <<lastID, seriesCache, metricRollup, metricJob>>
  BY DEF writeBatchOnce, IngestKept
<1>3. /\ DOMAIN registry' \subseteq Nat /\ DOMAIN registry \subseteq DOMAIN registry'
      /\ e.new => e.id \in DOMAIN registry'
  <2>1. e.id \in Nat /\ DOMAIN registry \subseteq Nat
    BY <1>1 DEF ExportRecord, MetricTypes
  <2>2. CASE e.new
    <3>1. registry' = [i \in DOMAIN registry \cup {e.id} |-> IF i = e.id THEN e.key ELSE registry[i]]
      BY <2>2 DEF writeBatchOnce
    <3>2. DOMAIN registry' = DOMAIN registry \cup {e.id}
      BY <3>1
    <3> QED BY <2>1, <3>2
  <2>3. CASE ~e.new
    BY <2>1, <2>3 DEF writeBatchOnce
  <2> QED BY <2>2, <2>3
<1>4. ASSUME NEW s \in samples'
      PROVE  \/ s \in samples
             \/ /\ s \in Nat \X Exports \X BOOLEAN /\ s[2] = q
                /\ s[3] => s[1] \in DOMAIN registry'
  <2>1. e.id \in Nat /\ e.new \in BOOLEAN
    BY <1>1 DEF ExportRecord
  <2>2. s \in samples \/ s = <<e.id, q, e.new \/ e.id \in DOMAIN registry>>
    BY DEF writeBatchOnce
  <2>3. CASE s = <<e.id, q, e.new \/ e.id \in DOMAIN registry>>
    <3>1. s \in Nat \X Exports \X BOOLEAN /\ s[1] = e.id /\ s[2] = q
      BY <2>1, <2>3
    <3>2. s[3] => e.new \/ e.id \in DOMAIN registry
      BY <2>3
    <3> QED BY <1>3, <3>1, <3>2
  <2> QED BY <2>2, <2>3
<1>5. /\ export' \in [Exports -> ExportRecord]
      /\ \A p \in Exports : p # q => export'[p] = export[p]
      /\ export'[q].pc = "beat" /\ export'[q].key = e.key /\ export'[q].day = day
  BY <1>1, <1>2 DEF MetricTypes, ExportRecord, ExportSteps
<1>6. MetricTypes'
  <2>1. samples' \subseteq Nat \X Exports \X BOOLEAN
    BY <1>4 DEF MetricTypes
  <2>2. metricDirty' \in [MetricDays -> Nat]
    BY <1>1, <1>2 DEF MetricTypes
  <2> QED BY <1>1, <1>2, <1>3, <1>5, <2>1, <2>2 DEF MetricTypes
<1>7. \A s \in samples : s[2] \in Exports
  BY DEF MetricTypes
<1>8. SamplesAreSettled'
  <2> SUFFICES ASSUME NEW s \in samples' PROVE export'[s[2]].pc # "unsent" /\ (s[3] => s[1] \in DOMAIN registry')
    BY DEF SamplesAreSettled
  <2>1. CASE s \in samples
    BY <1>3, <1>5, <1>7, <2>1 DEF SamplesAreSettled
  <2>2. CASE s \notin samples
    BY <1>4, <1>5, <2>2
  <2> QED BY <2>1, <2>2
<1>9. \A d \in MetricDays : d # day => metricDirty'[d] = metricDirty[d]
  BY <1>2 DEF MetricTypes
<1>10. metricDirty'[day] = e.mark
  BY <1>1, <1>2 DEF MetricTypes
<1>11. MarksAreNewer'
  <2> SUFFICES ASSUME NEW p \in Exports, export'[p].pc = "commit"
               PROVE  /\ export'[p].mark > metricDirty'[export'[p].day]
                      /\ \A r \in Exports : export'[r].pc = "commit" /\ export'[r].day = export'[p].day => r = p
    BY DEF MarksAreNewer
  <2>1. p # q /\ export'[p] = export[p] /\ export[p].day \in MetricDays
    BY <1>5 DEF MetricTypes, ExportRecord
  <2>2. export[p].day # day
    BY <1>1, <2>1 DEF MarksAreNewer
  <2> QED BY <1>5, <1>9, <2>1, <2>2 DEF MarksAreNewer
<1>12. BatchIsBehind'
  <2> SUFFICES ASSUME metricJob.pc \in {"rebuild", "consume"}, NEW d \in DOMAIN metricJob.batch
               PROVE  d \in MetricDays /\ metricJob.batch[d] \in Nat /\ metricJob.batch[d] <= metricDirty'[d]
    BY <1>2 DEF BatchIsBehind
  <2>1. d \in MetricDays /\ metricJob.batch[d] \in Nat /\ metricJob.batch[d] <= metricDirty[d]
    BY DEF BatchIsBehind
  <2> QED BY <1>1, <1>9, <1>10, <2>1
<1>13. \A s \in samples : SampleDay(s)' = SampleDay(s)
  BY <1>5, <1>7 DEF SampleDay
<1>14. BuiltIsComplete'
  <2> SUFFICES ASSUME metricJob.pc = "consume", NEW d \in DOMAIN metricJob.batch,
                      metricDirty'[d] <= metricJob.batch[d],
                      NEW s \in samples', s[3], SampleDay(s)' = d
               PROVE  s \in metricJob.built[d]
    BY <1>2 DEF BuiltIsComplete
  <2>1. d \in MetricDays /\ metricJob.batch[d] \in Nat /\ metricJob.batch[d] <= metricDirty[d]
    BY DEF BatchIsBehind
  <2>2. d # day
    BY <1>1, <1>10, <2>1
  <2>3. s \in samples
    BY <1>4, <1>5, <2>2 DEF SampleDay
  <2> QED BY <1>9, <1>13, <2>1, <2>2, <2>3 DEF BuiltIsComplete
<1>15. SampleFoldedOrMarked'
  <2> SUFFICES ASSUME NEW s \in samples', s[3]
               PROVE  s \in metricRollup[SampleDay(s)'] \/ metricDirty'[SampleDay(s)'] # 0
    BY <1>2 DEF SampleFoldedOrMarked, SampleDay
  <2>1. CASE SampleDay(s)' = day
    BY <1>1, <1>10, <2>1
  <2>2. CASE SampleDay(s)' # day
    <3>1. s \in samples
      BY <1>4, <1>5, <2>2 DEF SampleDay
    <3>2. SampleDay(s) \in MetricDays /\ SampleDay(s)' = SampleDay(s)
      BY <1>7, <1>13, <3>1 DEF SampleDay, MetricTypes, ExportRecord
    <3> QED BY <1>9, <2>2, <3>1, <3>2 DEF SampleFoldedOrMarked, SampleDay
  <2> QED BY <2>1, <2>2
<1> QED BY <1>6, <1>8, <1>11, <1>12, <1>14, <1>15

\* A day is marked by a transaction that waited for every other one that marked it.
LEMMA MarkStep ==
    ASSUME MetricInv, NEW q \in Exports, MarkDirty(q)
    PROVE  MetricInv'
<1> USE DEF MetricInv
<1>1. /\ export[q] \in ExportRecord /\ export[q].pc = "insert" /\ export[q].day \in MetricDays
      /\ metricDirty[export[q].day] \in Nat /\ export[q].key \in SeriesKeys
  BY DEF MarkDirty, MetricTypes, ExportRecord
<1> DEFINE day == export[q].day
<1>2. /\ export' = [export EXCEPT ![q].pc = "commit", ![q].mark = metricDirty[day] + 1]
      /\ UNCHANGED <<registry, lastID, seriesCache, samples, metricDirty, metricRollup, metricJob>>
      /\ \A p \in Exports : p # q => ~(export[p].pc = "commit" /\ export[p].day = day)
  BY DEF MarkDirty, IngestKept, Remark, MetricMarkHeld
<1>3. /\ export' \in [Exports -> ExportRecord]
      /\ \A p \in Exports : p # q => export'[p] = export[p]
      /\ export'[q].pc = "commit" /\ export'[q].key = export[q].key /\ export'[q].day = day
      /\ export'[q].mark = metricDirty[day] + 1
  <2> DEFINE moved == [export[q] EXCEPT !.pc = "commit", !.mark = metricDirty[day] + 1]
  <2>1. export' = [export EXCEPT ![q] = moved]
    BY <1>2
  <2>2. moved \in ExportRecord
    <3>1. "commit" \in ExportSteps /\ metricDirty[day] + 1 \in Nat
      BY <1>1 DEF ExportSteps
    <3> QED BY <1>1, <3>1, ExportEdits
  <2>3. moved.pc = "commit" /\ moved.key = export[q].key /\ moved.day = day /\ moved.mark = metricDirty[day] + 1
    BY <1>1 DEF ExportRecord
  <2> HIDE DEF moved
  <2> QED BY <2>1, <2>2, <2>3 DEF MetricTypes
<1>4. MetricTypes'
  BY <1>1, <1>2, <1>3 DEF MetricTypes
<1>5. \A p \in Exports : export'[p].day = export[p].day /\ (export[p].pc # "unsent" => export'[p].pc # "unsent")
  BY <1>3
<1>6. MarksAreNewer'
  <2> SUFFICES ASSUME NEW p \in Exports, export'[p].pc = "commit"
               PROVE  /\ export'[p].mark > metricDirty[export'[p].day]
                      /\ \A r \in Exports : export'[r].pc = "commit" /\ export'[r].day = export'[p].day => r = p
    BY <1>2 DEF MarksAreNewer
  <2>1. CASE p = q
    BY <1>1, <1>2, <1>3, <2>1
  <2>2. CASE p # q
    <3>1. export'[p] = export[p] /\ export[p].pc = "commit" /\ export[p].day # day
      BY <1>2, <1>3, <2>2
    <3> QED BY <1>3, <3>1 DEF MarksAreNewer
  <2> QED BY <2>1, <2>2
<1>7. \A s \in samples : s[2] \in Exports
  BY DEF MetricTypes
<1>8. SamplesAreSettled' /\ SampleFoldedOrMarked' /\ BuiltIsComplete'
  BY <1>2, <1>5, <1>7 DEF SamplesAreSettled, SampleFoldedOrMarked, BuiltIsComplete, SampleDay
<1>9. BatchIsBehind'
  BY <1>2 DEF BatchIsBehind
<1> QED BY <1>4, <1>6, <1>8, <1>9

\* The maintenance job: load the marks, aggregate, and remove the marks that have not moved.
LEMMA MaintenanceStep ==
    ASSUME MetricInv, maintainMetricPartitions \/ consumeMetricDirtyBuckets
    PROVE  MetricInv'
<1> USE DEF MetricInv
<1>1. export' = export /\ UNCHANGED <<registry, lastID, seriesCache>>
  BY DEF maintainMetricPartitions, consumeMetricDirtyBuckets, loadMetricDirtyBatch, rebuildMetricBuckets,
         rebuildMetricDirtyBatchTx, MaintainKept
<1>2. \A s \in samples : s[2] \in Exports /\ SampleDay(s) \in MetricDays
  BY DEF MetricTypes, SampleDay, ExportRecord
<1>3. CASE maintainMetricPartitions
  <2>1. samples' \subseteq samples /\ UNCHANGED <<metricDirty, metricRollup>>
        /\ metricJob' = [MetricIdle EXCEPT !.pc = "load"]
    BY <1>3 DEF maintainMetricPartitions
  <2>2. metricJob'.pc = "load" /\ metricJob' = [pc |-> "load", batch |-> metricJob'.batch, built |-> metricJob'.built]
    BY <2>1 DEF MetricIdle
  <2>3. MetricTypes'
    BY <1>1, <2>1, <2>2 DEF MetricTypes
  <2>4. SamplesAreSettled' /\ MarksAreNewer' /\ SampleFoldedOrMarked'
    BY <1>1, <2>1 DEF SamplesAreSettled, MarksAreNewer, SampleFoldedOrMarked
  <2> QED BY <2>2, <2>3, <2>4 DEF BatchIsBehind, BuiltIsComplete
<1>4. CASE loadMetricDirtyBatch
  <2> DEFINE marked == {d \in MetricDays : metricDirty[d] # 0}
  <2>1. UNCHANGED <<samples, metricDirty, metricRollup>>
    BY <1>4 DEF loadMetricDirtyBatch
  <2>2. \/ metricJob' = MetricIdle
        \/ metricJob' = [MetricIdle EXCEPT !.pc = "rebuild", !.batch = [d \in marked |-> metricDirty[d]]]
    BY <1>4 DEF loadMetricDirtyBatch
  <2>3. /\ metricJob'.pc # "consume"
        /\ metricJob' = [pc |-> metricJob'.pc, batch |-> metricJob'.batch, built |-> metricJob'.built]
        /\ metricJob'.pc = "rebuild" => metricJob'.batch = [d \in marked |-> metricDirty[d]]
    <3>1. CASE metricJob' = MetricIdle
      BY <3>1 DEF MetricIdle
    <3>2. CASE metricJob' = [MetricIdle EXCEPT !.pc = "rebuild", !.batch = [d \in marked |-> metricDirty[d]]]
      <4>1. metricJob' = [pc |-> "rebuild", batch |-> [d \in marked |-> metricDirty[d]], built |-> <<>>]
        BY <3>2 DEF MetricIdle
      <4> QED BY <4>1
    <3> QED BY <2>2, <3>1, <3>2
  <2>4. MetricTypes'
    BY <1>1, <2>1, <2>3 DEF MetricTypes
  <2>5. SamplesAreSettled' /\ MarksAreNewer' /\ SampleFoldedOrMarked'
    BY <1>1, <2>1 DEF SamplesAreSettled, MarksAreNewer, SampleFoldedOrMarked
  <2>6. BatchIsBehind'
    BY <2>1, <2>3 DEF BatchIsBehind, MetricTypes
  <2> QED BY <2>3, <2>4, <2>5, <2>6 DEF BuiltIsComplete
<1>5. CASE rebuildMetricBuckets
  <2>1. UNCHANGED <<samples, metricDirty, metricRollup>> /\ metricJob.pc = "rebuild"
    BY <1>5 DEF rebuildMetricBuckets
  <2>2. metricJob' = [pc |-> "consume", batch |-> metricJob.batch,
                      built |-> [d \in DOMAIN metricJob.batch |-> Aggregated(d)]]
    BY <1>5 DEF rebuildMetricBuckets, MetricTypes
  <2>3. MetricTypes'
    BY <1>1, <2>1, <2>2 DEF MetricTypes
  <2>4. SamplesAreSettled' /\ MarksAreNewer' /\ SampleFoldedOrMarked'
    BY <1>1, <2>1 DEF SamplesAreSettled, MarksAreNewer, SampleFoldedOrMarked
  <2>5. BatchIsBehind'
    BY <2>1, <2>2 DEF BatchIsBehind
  <2>6. BuiltIsComplete'
    BY <1>1, <2>1, <2>2 DEF BuiltIsComplete, Aggregated, SampleDay, SamplesAreSettled
  <2> QED BY <2>3, <2>4, <2>5, <2>6
<1>6. CASE rebuildMetricDirtyBatchTx
  <2> DEFINE batch == metricJob.batch
  <2>1. /\ metricJob.pc = "consume" /\ metricJob' = MetricIdle /\ samples' = samples
        /\ metricRollup' = [d \in MetricDays |-> IF d \in DOMAIN batch THEN metricJob.built[d] ELSE metricRollup[d]]
        /\ metricDirty' = [d \in MetricDays |->
                              IF d \in DOMAIN batch /\ metricDirty[d] <= batch[d] THEN 0 ELSE metricDirty[d]]
    BY <1>6 DEF rebuildMetricDirtyBatchTx
  <2>2. \A d \in MetricDays : metricDirty[d] \in Nat
    BY DEF MetricTypes
  <2>3. metricDirty' \in [MetricDays -> Nat]
    BY <2>1, <2>2
  <2>4. MetricTypes' /\ metricJob'.pc = "idle"
    BY <1>1, <2>1, <2>3 DEF MetricTypes, MetricIdle
  <2>5. SamplesAreSettled'
    BY <1>1, <2>1 DEF SamplesAreSettled
  <2>6. MarksAreNewer'
    <3> SUFFICES ASSUME NEW q \in Exports, export[q].pc = "commit"
                 PROVE  export[q].mark > metricDirty'[export[q].day]
      BY <1>1 DEF MarksAreNewer
    <3>1. export[q].day \in MetricDays /\ export[q].day \notin DOMAIN batch
      <4>1. q # 0
        BY MetricAssumption
      <4> QED BY <1>6, <4>1 DEF rebuildMetricDirtyBatchTx, MetricMarkHeld, MetricTypes, ExportRecord
    <3> QED BY <2>1, <3>1 DEF MarksAreNewer
  <2>7. SampleFoldedOrMarked'
    <3> SUFFICES ASSUME NEW s \in samples, s[3]
                 PROVE  s \in metricRollup'[SampleDay(s)] \/ metricDirty'[SampleDay(s)] # 0
      BY <1>1, <2>1 DEF SampleFoldedOrMarked, SampleDay
    <3> DEFINE d == SampleDay(s)
    <3>1. d \in MetricDays
      BY <1>2
    <3>2. CASE d \in DOMAIN batch /\ metricDirty[d] <= batch[d]
      BY <2>1, <3>1, <3>2 DEF BuiltIsComplete
    <3>3. CASE d \in DOMAIN batch /\ ~(metricDirty[d] <= batch[d])
      <4>1. batch[d] \in Nat /\ metricDirty'[d] = metricDirty[d]
        BY <2>1, <3>1, <3>3 DEF BatchIsBehind
      <4> QED BY <2>2, <3>1, <3>3, <4>1
    <3>4. CASE d \notin DOMAIN batch
      <4>1. metricDirty'[d] = metricDirty[d] /\ metricRollup'[d] = metricRollup[d]
        BY <2>1, <3>1, <3>4
      <4> QED BY <4>1 DEF SampleFoldedOrMarked, SampleDay
    <3> QED BY <3>2, <3>3, <3>4
  <2> QED BY <2>4, <2>5, <2>6, <2>7 DEF BatchIsBehind, BuiltIsComplete
<1> QED BY <1>3, <1>4, <1>5, <1>6 DEF consumeMetricDirtyBuckets

LEMMA MetricStep == MetricInv /\ [MetricNext]_metricVars => MetricInv'
<1> SUFFICES ASSUME MetricInv, [MetricNext]_metricVars PROVE MetricInv'
  OBVIOUS
<1>1. ASSUME NEW q \in Exports, QuietIngest(q) PROVE MetricInv'
  <2>1. MetricTypes'
    BY <1>1, ExportMoves DEF MetricInv, MetricTypes
  <2> QED BY <1>1, <2>1, ExportMoves, QuietMetricStep DEF MetricInv
<1>2. CASE RestartAPI
  <2>1. \A q \in Exports :
          /\ export'[q] \in ExportRecord
          /\ export'[q].pc = "commit" => export'[q] = export[q]
          /\ export[q].pc # "unsent" => export'[q].pc # "unsent"
          /\ export'[q].day = export[q].day /\ export'[q].key = export[q].key
          /\ export'[q].pc # "unsent" => export[q].pc # "unsent"
    <3> SUFFICES ASSUME NEW q \in Exports
                 PROVE  /\ export'[q] \in ExportRecord
                        /\ export'[q].pc = "commit" => export'[q] = export[q]
                        /\ export[q].pc # "unsent" => export'[q].pc # "unsent"
                        /\ export'[q].day = export[q].day /\ export'[q].key = export[q].key
                        /\ export'[q].pc # "unsent" => export[q].pc # "unsent"
      OBVIOUS
    <3>1. export[q] \in ExportRecord
      BY DEF MetricInv, MetricTypes
    <3>2. CASE export[q].pc \in {"unsent", "accepted", "refused"}
      BY <1>2, <3>1, <3>2 DEF RestartAPI
    <3>3. CASE export[q].pc \notin {"unsent", "accepted", "refused"}
      <4>1. export'[q] = [export[q] EXCEPT !.pc = "unavailable", !.new = FALSE, !.mark = 0]
        BY <1>2, <3>3 DEF RestartAPI
      <4>2. export'[q].pc = "unavailable" /\ export'[q].day = export[q].day /\ export'[q].key = export[q].key
        BY <3>1, <4>1 DEF ExportRecord
      <4>3. export'[q] \in ExportRecord
        <5>1. "unavailable" \in ExportSteps
          BY DEF ExportSteps
        <5> QED BY <3>1, <4>1, <5>1, ExportEdits
      <4> QED BY <3>3, <4>2, <4>3
    <3> QED BY <3>2, <3>3
  <2>2. UNCHANGED <<registry, samples, metricDirty, metricRollup, metricJob, lastID>>
        /\ seriesCache' \in [SeriesKeys -> Nat] /\ export' \in [Exports -> ExportRecord]
    BY <1>2, <2>1 DEF RestartAPI
  <2>3. MetricTypes'
    BY <2>1, <2>2 DEF MetricInv, MetricTypes
  <2> QED BY <2>1, <2>2, <2>3, QuietMetricStep
<1>3. CASE EditAgentMonitor \/ NextDay \/ UNCHANGED metricVars
  <2>1. UNCHANGED <<export, registry, samples, metricDirty, metricRollup, metricJob, lastID, seriesCache>>
    BY <1>3 DEF EditAgentMonitor, NextDay, metricVars
  <2>2. MetricTypes'
    BY <2>1 DEF MetricInv, MetricTypes
  <2> QED BY <2>1, <2>2, QuietMetricStep
<1>4. CASE maintainMetricPartitions \/ consumeMetricDirtyBuckets
  BY <1>4, MaintenanceStep
<1>5. ASSUME NEW q \in Exports, MarkDirty(q) \/ writeBatchOnce(q) PROVE MetricInv'
  BY <1>5, MarkStep, CommitStep
<1> QED BY <1>1, <1>2, <1>3, <1>4, <1>5 DEF MetricNext, HandleExportMetrics, QuietIngest

\* For every number of requests, series and days: whatever order ingest, rebuilds, restarts and
\* partition maintenance take, a sample of a registered series is in its rollup or marked for it.
THEOREM SamplesAreFoldedOrMarked == MetricSpec => []SampleFoldedOrMarked
<1>1. MetricInit => MetricInv
  <2> SUFFICES ASSUME MetricInit PROVE MetricInv
    OBVIOUS
  <2>1. NewExport \in ExportRecord /\ NewExport.pc = "unsent"
    BY MetricAssumption DEF NewExport, ExportRecord, ExportSteps, MetricDays
  <2>2. DOMAIN registry \subseteq Nat
    BY DEF MetricInit
  <2>3. MetricTypes
    BY <2>1, <2>2 DEF MetricInit, MetricTypes, MetricIdle
  <2> QED BY <2>1, <2>3 DEF MetricInit, MetricInv, SamplesAreSettled, MarksAreNewer, BatchIsBehind, BuiltIsComplete,
         SampleFoldedOrMarked, MetricIdle
<1>2. MetricInv => SampleFoldedOrMarked
  BY DEF MetricInv
<1> QED BY <1>1, <1>2, MetricStep, PTL DEF MetricSpec


-----------------------------------------------------------------------------
(* Incidents.                                                              *)

Locks == ({"recovery", "row"} \X Incs) \cup ({"alert"} \X Alts) \cup ({"auto"} \X Mons)
TxRecord ==
    [op : {None, "fire", "resolve"}, alert : Alts \cup {0}, mon : Mons \cup {None}, kind : Kinds \cup {None},
     inc : Incs \cup {0}, asked : SUBSET Alts, alerts : SUBSET Alts, left : SUBSET Alts, todo : Seq(Incs),
     pc : {None, "find", "commit", "load", "note"}, wrote : [Incs \X Markers -> Nat],
     at : Nat, held : SUBSET Locks]

IncidentsTypes ==
    /\ inc \in [Incs -> [state : States \cup {None}, auto : Mons \cup {None}]]
    /\ alt \in [Alts -> [status : OpenStatuses \cup {None, "resolved"}, mon : Mons \cup {None},
                         kind : Kinds \cup {None}, at : Nat]]
    /\ links \subseteq Incs \X Alts
    /\ notes \in [Incs \X Markers -> Nat]
    /\ tx \in [Txs -> TxRecord]
    /\ clock \in Nat \ {0}
    /\ \A t \in Txs : /\ tx[t].pc \in {"commit", "note"} => tx[t].inc \in Incs
                      /\ tx[t].op = "fire" => tx[t].mon \in Mons /\ tx[t].alert \in Alts

Fires(t) == tx[t].op = "fire"
Resolves(t) == tx[t].op = "resolve"

\* Opening.  A monitor's key is held from the search to the commit; what the search did not find
\* is still not there, and an incident that is not there is nobody's.
KeyHeldToOpen ==
    /\ \A t \in Txs : Fires(t) => AutoKey(tx[t].mon) \in tx[t].held
    /\ \A t, u \in Txs : Fires(t) /\ Fires(u) /\ tx[t].mon = tx[u].mon => t = u
SearchStillTrue ==
    \A t \in Txs : Fires(t) /\ tx[t].pc = "commit" /\ ~Exists(tx[t].inc)
        => OpenAutoIncidents(tx[t].mon) = {}
MissingIsNobodys == \A i \in Incs : ~Exists(i) => inc[i].auto = None
AutoInv ==
    /\ IncidentsTypes /\ KeyHeldToOpen /\ SearchStillTrue /\ MissingIsNobodys /\ OneOpenAutoIncident

\* Resolving: keys before rows, one holder per key, ascending ids.
KeysFirst(r) ==
    /\ \A i \in Incs : Row(i) \in r.held => RecoveryKey(i) \in r.held
    /\ r.pc = "note" => RecoveryKey(r.inc) \in r.held
Ascends(r) ==
    /\ r.left \subseteq r.alerts
    /\ \A j, k \in DOMAIN r.todo : j < k => r.todo[j] < r.todo[k]
    /\ r.left = r.alerts => r.todo = <<>> /\ \A i \in Incs : RecoveryKey(i) \notin r.held
    /\ Cardinality(r.alerts) = 1 =>
          \A i \in Incs, k \in DOMAIN r.todo : RecoveryKey(i) \in r.held => i < r.todo[k]
KeysBeforeRows == \A t \in Txs : Resolves(t) => KeysFirst(tx[t])
TakenInOrder == \A t \in Txs : Resolves(t) => Ascends(tx[t])
KeysAreExclusive ==
    \A t, u \in Txs, i \in Incs : RecoveryKey(i) \in tx[t].held /\ RecoveryKey(i) \in tx[u].held => t = u
DeadlockInv == IncidentsTypes /\ KeysBeforeRows /\ KeysAreExclusive /\ TakenInOrder

\* Recovery.  An alert that is being opened is not there for the others; alerts being closed are
\* open and belong to one transaction; resolved ones have a marker for their time.
AlertsAreOwned ==
    /\ \A t \in Txs : Fires(t) => alt[tx[t].alert].status = None
    /\ \A t, u \in Txs : Fires(t) /\ Fires(u) /\ tx[t].alert = tx[u].alert => t = u
    /\ \A t \in Txs : ~Resolves(t) => tx[t].alerts = {}
    /\ \A t \in Txs : Resolves(t) => tx[t].at \in Markers
    /\ \A t \in Txs : \A a \in tx[t].alerts : alt[a].status \in OpenStatuses /\ AlertRow(a) \in tx[t].held
    /\ \A t, u \in Txs, a \in Alts : a \in tx[t].alerts /\ a \in tx[u].alerts => t = u
    /\ \A i \in Incs, a \in Alts : <<i, a>> \in links => alt[a].status # None
    /\ \A a \in Alts : alt[a].status = "resolved" => alt[a].at \in Markers
\* The incidents of the alerts a transaction has looked at are ahead of it, or locked.
VisitedBy(t) ==
    \A i \in Incs \ handEdited : \A a \in tx[t].alerts \ tx[t].left :
        <<i, a>> \in links => (\E k \in DOMAIN tx[t].todo : tx[t].todo[k] = i) \/ RecoveryKey(i) \in tx[t].held
\* Whoever holds the key of an incident that has recovered has noted it.
NotedBy(t) ==
    \A i \in Incs \ handEdited :
        RecoveryKey(i) \in tx[t].held /\ AllResolvedSeen(t, i) => AlreadyRecorded(t, i)
LinkedIsVisited == \A t \in Txs : Resolves(t) => VisitedBy(t)
LockedIsNoted == \A t \in Txs : Resolves(t) => NotedBy(t)
WritesUnderKey ==
    \A t \in Txs, x \in Incs \X Markers :
        /\ tx[t].wrote[x] > 0 => RecoveryKey(x[1]) \in tx[t].held
        /\ notes[x] + tx[t].wrote[x] <= 1
RecoveryInv ==
    /\ DeadlockInv /\ AlertsAreOwned /\ LinkedIsVisited /\ LockedIsNoted /\ WritesUnderKey
    /\ RecoveryIsNotedOnce

\* The ids of a finite set can be listed in ascending order: an id's place is the number of ids
\* up to it.
LEMMA SortedExists ==
    ASSUME NEW S \in SUBSET Nat, IsFiniteSet(S)
    PROVE  \E s \in [1..Cardinality(S) -> S] :
              \A j, k \in 1..Cardinality(S) : j < k => s[j] < s[k]
<1> DEFINE n == Cardinality(S)
           UpTo(x) == {y \in S : y <= x}
           rank == [x \in S |-> Cardinality(UpTo(x))]
<1>0. n \in Nat
  BY FS_CardinalityType
<1>1. ASSUME NEW x \in S
      PROVE  IsFiniteSet(UpTo(x)) /\ Cardinality(UpTo(x)) \in 1..n
  <2>1. UpTo(x) \in SUBSET S /\ UpTo(x) # {}
    OBVIOUS
  <2>2. IsFiniteSet(UpTo(x)) /\ Cardinality(UpTo(x)) <= n
    <3> HIDE DEF UpTo
    <3> QED BY <2>1, FS_Subset
  <2>3. Cardinality(UpTo(x)) \in Nat /\ Cardinality(UpTo(x)) # 0
    <3> HIDE DEF UpTo
    <3> QED BY <2>1, <2>2, FS_CardinalityType, FS_EmptySet
  <2> QED BY <1>0, <2>2, <2>3
<1>2. ASSUME NEW x \in S, NEW y \in S, x < y
      PROVE  Cardinality(UpTo(x)) < Cardinality(UpTo(y))
  <2>0. x \in Nat /\ y \in Nat /\ \A z \in S : z \in Nat
    OBVIOUS
  <2>1. UpTo(x) \in SUBSET UpTo(y) /\ UpTo(x) # UpTo(y)
    <3>1. \A z \in S : z <= x => z <= y
      BY <1>2, <2>0
    <3>2. y \in UpTo(y) /\ y \notin UpTo(x)
      BY <1>2, <2>0
    <3> QED BY <3>1, <3>2
  <2>2. IsFiniteSet(UpTo(y)) /\ Cardinality(UpTo(y)) \in 1..n /\ Cardinality(UpTo(x)) \in 1..n
    BY <1>1
  <2>3. Cardinality(UpTo(x)) <= Cardinality(UpTo(y)) /\ Cardinality(UpTo(x)) # Cardinality(UpTo(y))
    <3> HIDE DEF UpTo
    <3> QED BY <2>1, <2>2, FS_Subset
  <2> QED BY <1>0, <2>2, <2>3
<1>3. rank \in [S -> 1..n] /\ \A x, y \in S : x < y => rank[x] < rank[y]
  BY <1>1, <1>2
<1> HIDE DEF rank
<1>4. \A x, y \in S : rank[x] = rank[y] => x = y
  <2> SUFFICES ASSUME NEW x \in S, NEW y \in S, rank[x] = rank[y], x # y PROVE FALSE
    OBVIOUS
  <2>1. rank[x] \in Nat /\ x \in Nat /\ y \in Nat
    BY <1>0, <1>3
  <2>2. x < y \/ y < x
    BY <2>1
  <2> QED BY <1>3, <2>1, <2>2
<1>5. rank \in Injection(S, 1..n)
  BY <1>3, <1>4 DEF Injection, IsInjective
<1>6. IsFiniteSet(1..n) /\ Cardinality(1..n) = n
  BY <1>0, FS_Interval
<1>7. rank \in Surjection(S, 1..n)
  BY <1>5, <1>6, FS_Injection
<1>8. \A k \in 1..n : \E x \in S : rank[x] = k
  BY <1>7 DEF Surjection
<1> DEFINE s == [k \in 1..n |-> CHOOSE x \in S : rank[x] = k]
<1>9. \A k \in 1..n : s[k] \in S /\ rank[s[k]] = k
  BY <1>8
<1>10. s \in [1..n -> S]
  BY <1>9
<1> HIDE DEF s
<1>11. ASSUME NEW j \in 1..n, NEW k \in 1..n, j < k PROVE s[j] < s[k]
  <2>1. s[j] \in Nat /\ s[k] \in Nat /\ j \in Nat /\ k \in Nat
    <3>1. s[j] \in S /\ s[k] \in S
      BY <1>9
    <3>2. j \in Nat /\ k \in Nat
      BY <1>0
    <3> QED BY <3>1, <3>2
  <2>2. s[j] # s[k]
    BY <1>9, <1>11, <2>1
  <2>3. ~(s[k] < s[j])
    BY <1>3, <1>9, <1>11, <2>1
  <2> QED BY <2>1, <2>2, <2>3
<1> QED BY <1>10, <1>11

\* A list of all the ids of a finite set in ascending order leaves none out.
LEMMA SortedOnto ==
    ASSUME NEW S \in SUBSET Nat, IsFiniteSet(S), NEW s \in [1..Cardinality(S) -> S],
           \A j, k \in 1..Cardinality(S) : j < k => s[j] < s[k]
    PROVE  \A x \in S : \E k \in 1..Cardinality(S) : s[k] = x
<1> DEFINE n == Cardinality(S)
<1>0. n \in Nat
  BY FS_CardinalityType
<1>1. \A j, k \in 1..n : s[j] = s[k] => j = k
  <2> SUFFICES ASSUME NEW j \in 1..n, NEW k \in 1..n, s[j] = s[k], j # k PROVE FALSE
    OBVIOUS
  <2>1. j \in Nat /\ k \in Nat /\ s[j] \in Nat
    <3>1. s[j] \in S
      OBVIOUS
    <3>2. j \in Nat /\ k \in Nat
      BY <1>0
    <3> QED BY <3>1, <3>2
  <2>2. j < k \/ k < j
    BY <2>1
  <2> QED BY <2>1, <2>2
<1>2. s \in Injection(1..n, S)
  BY <1>1 DEF Injection, IsInjective
<1>3. Cardinality(1..n) = n
  BY <1>0, FS_Interval
<1>4. s \in Surjection(1..n, S)
  BY <1>2, <1>3, FS_Injection
<1> QED BY <1>4 DEF Surjection

LEMMA SortedIncidentsIs ==
    ASSUME NEW S \in SUBSET Incs
    PROVE  /\ SortedIncidents(S) \in Seq(Incs)
           /\ \A j, k \in DOMAIN SortedIncidents(S) :
                 j < k => SortedIncidents(S)[j] < SortedIncidents(S)[k]
           /\ \A i \in S : \E k \in DOMAIN SortedIncidents(S) : SortedIncidents(S)[k] = i
<1> DEFINE n == Cardinality(S)
           Sorted(s) == \A j, k \in 1..n : j < k => s[j] < s[k]
<1>1. S \in SUBSET Nat /\ IsFiniteSet(S) /\ n \in Nat
  BY IncidentsAssumption, FS_Subset, FS_CardinalityType
<1>2. \E s \in [1..n -> S] : Sorted(s)
  BY <1>1, SortedExists
<1>3. SortedIncidents(S) = CHOOSE s \in [1..n -> S] : Sorted(s)
  BY DEF SortedIncidents
<1>4. SortedIncidents(S) \in [1..n -> S] /\ Sorted(SortedIncidents(S))
  <2> HIDE DEF Sorted
  <2> QED BY <1>2, <1>3
<1> DEFINE s == SortedIncidents(S)
<1>5. s \in [1..n -> Incs] /\ DOMAIN s = 1..n
  BY <1>4
<1>6. s \in Seq(Incs)
  BY <1>1, <1>5
<1>7. \A i \in S : \E k \in 1..n : s[k] = i
  BY <1>1, <1>4, SortedOnto
<1> QED BY <1>4, <1>5, <1>6, <1>7


\* What becomes of a transaction: begun, moved on, or over.
LEMMA LockNames ==
    /\ \A i \in Incs : RecoveryKey(i) \in Locks /\ Row(i) \in Locks
    /\ \A a \in Alts : AlertRow(a) \in Locks
    /\ \A m \in Mons : AutoKey(m) \in Locks
    /\ \A i, j : RecoveryKey(i) = RecoveryKey(j) => i = j
    /\ \A i, j : Row(i) = Row(j) => i = j
    /\ \A i, j : RecoveryKey(i) # Row(j) /\ RecoveryKey(i) # AlertRow(j) /\ RecoveryKey(i) # AutoKey(j)
    /\ \A i, j : Row(i) # AlertRow(j) /\ Row(i) # AutoKey(j)
BY DEF RecoveryKey, Row, AlertRow, AutoKey, Locks

LEMMA IdleIsRecord ==
    /\ NoEntries \in [Incs \X Markers -> Nat] /\ \A x \in Incs \X Markers : NoEntries[x] = 0
    /\ IdleTx \in TxRecord
    /\ IdleTx.op = None /\ IdleTx.alerts = {} /\ IdleTx.held = {} /\ IdleTx.wrote = NoEntries
    /\ IdleTx.todo = <<>> /\ IdleTx.inc = 0 /\ IdleTx.pc = None
<1>1. NoEntries \in [Incs \X Markers -> Nat] /\ \A x \in Incs \X Markers : NoEntries[x] = 0
  BY DEF NoEntries
<1>2. <<>> \in Seq(Incs)
  OBVIOUS
<1> QED BY <1>1, <1>2 DEF IdleTx, TxRecord

LEMMA TxEnds ==
    ASSUME IncidentsTypes, NEW t \in Txs, tx' = [tx EXCEPT ![t] = IdleTx]
    PROVE  /\ tx' \in [Txs -> TxRecord] /\ tx'[t] = IdleTx
           /\ \A u \in Txs : u # t => tx'[u] = tx[u]
BY IdleIsRecord DEF IncidentsTypes

LEMMA FireBegins ==
    ASSUME IncidentsTypes, NEW t \in Txs, NEW m \in Mons, NEW k \in Kinds, createAlert(t, m, k)
    PROVE  /\ tx' \in [Txs -> TxRecord] /\ tx[t].op = None
           /\ \A u \in Txs : u # t => tx'[u] = tx[u]
           /\ tx'[t].op = "fire" /\ tx'[t].mon = m /\ tx'[t].pc = "find" /\ tx'[t].inc = 0
           /\ tx'[t].alerts = {} /\ tx'[t].wrote = NoEntries
           /\ tx'[t].alert \in Alts \ Inserted
           /\ tx'[t].held = {AutoKey(m), AlertRow(tx'[t].alert)}
           /\ Free(t, AutoKey(m))
           /\ UNCHANGED <<inc, alt, links, notes, clock, handEdited>>
<1>1. PICK a \in Alts \ Inserted :
        /\ tx[t].op = None /\ Free(t, AutoKey(m))
        /\ tx' = [tx EXCEPT ![t] = [IdleTx EXCEPT !.op = "fire", !.alert = a, !.mon = m, !.kind = k,
                                                  !.pc = "find", !.held = {AutoKey(m), AlertRow(a)}]]
        /\ UNCHANGED <<inc, alt, links, notes, clock, handEdited>>
  BY DEF createAlert
<1> DEFINE r == [IdleTx EXCEPT !.op = "fire", !.alert = a, !.mon = m, !.kind = k,
                               !.pc = "find", !.held = {AutoKey(m), AlertRow(a)}]
<1>2. {AutoKey(m), AlertRow(a)} \in SUBSET Locks
  BY LockNames
<1>3. r \in TxRecord
  BY <1>2, IdleIsRecord DEF TxRecord
<1>4. /\ r.op = "fire" /\ r.mon = m /\ r.pc = "find" /\ r.alerts = {} /\ r.wrote = NoEntries
      /\ r.alert = a /\ r.held = {AutoKey(m), AlertRow(a)} /\ r.inc = 0
  BY IdleIsRecord DEF TxRecord
<1>5. tx' = [tx EXCEPT ![t] = r]
  BY <1>1
<1> HIDE DEF r
<1>6. tx' \in [Txs -> TxRecord] /\ tx'[t] = r /\ \A u \in Txs : u # t => tx'[u] = tx[u]
  BY <1>3, <1>5 DEF IncidentsTypes
<1> QED BY <1>1, <1>4, <1>6

LEMMA FireFinds ==
    ASSUME IncidentsTypes, NEW t \in Txs, findOrCreateAutoIncidentTx(t)
    PROVE  /\ tx' \in [Txs -> TxRecord] /\ tx[t].op = "fire"
           /\ \A u \in Txs : u # t => tx'[u] = tx[u]
           /\ tx'[t].op = "fire" /\ tx'[t].mon = tx[t].mon /\ tx'[t].pc = "commit"
           /\ tx'[t].alerts = tx[t].alerts /\ tx'[t].wrote = tx[t].wrote /\ tx'[t].alert = tx[t].alert
           /\ tx'[t].inc \in Incs /\ tx'[t].held = tx[t].held \cup {Row(tx'[t].inc)}
           /\ ~Exists(tx'[t].inc) => OpenAutoIncidents(tx[t].mon) = {}
           /\ UNCHANGED <<inc, alt, links, notes, clock, handEdited>>
<1>1. PICK i \in Incs :
        /\ IF OpenAutoIncidents(tx[t].mon) # {}
           THEN i \in OpenAutoIncidents(tx[t].mon) ELSE ~Exists(i)
        /\ tx' = [tx EXCEPT ![t].inc = i, ![t].pc = "commit", ![t].held = @ \cup {Row(i)}]
  BY DEF findOrCreateAutoIncidentTx
<1> DEFINE r == [tx[t] EXCEPT !.inc = i, !.pc = "commit", !.held = @ \cup {Row(i)}]
<1>2. tx[t] \in TxRecord /\ tx[t].held \cup {Row(i)} \in SUBSET Locks
  <2>1. tx[t] \in TxRecord
    BY DEF IncidentsTypes
  <2>2. tx[t].held \in SUBSET Locks
    BY <2>1 DEF TxRecord
  <2>3. Row(i) \in Locks
    BY LockNames
  <2> QED BY <2>1, <2>2, <2>3
<1>3. r \in TxRecord
  BY <1>2 DEF TxRecord
<1>4. /\ r.op = tx[t].op /\ r.mon = tx[t].mon /\ r.pc = "commit" /\ r.alerts = tx[t].alerts
      /\ r.wrote = tx[t].wrote /\ r.inc = i /\ r.held = tx[t].held \cup {Row(i)}
      /\ r.alert = tx[t].alert
  BY <1>2 DEF TxRecord
<1>5. ~Exists(i) => OpenAutoIncidents(tx[t].mon) = {}
  BY <1>1 DEF OpenAutoIncidents, Exists
<1>6. tx' = [tx EXCEPT ![t] = r]
  BY <1>1
<1> HIDE DEF r
<1> QED BY <1>3, <1>4, <1>5, <1>6 DEF IncidentsTypes, findOrCreateAutoIncidentTx

LEMMA ResolveBegins ==
    ASSUME IncidentsTypes, NEW t \in Txs, NEW S \in SUBSET Alts, ResolveAlert(t, S)
    PROVE  /\ tx' \in [Txs -> TxRecord] /\ tx[t].op = None
           /\ \A u \in Txs : u # t => tx'[u] = tx[u]
           /\ tx'[t].op = "resolve" /\ tx'[t].pc = "load" /\ tx'[t].inc = 0
           /\ tx'[t].alerts = {a \in S : alt[a].status \in OpenStatuses}
           /\ tx'[t].left = tx'[t].alerts /\ tx'[t].todo = <<>> /\ tx'[t].wrote = NoEntries
           /\ tx'[t].at = clock /\ clock <= MaxResolves /\ clock' = clock + 1
           /\ tx'[t].held = {AlertRow(a) : a \in tx'[t].alerts}
           /\ \A a \in S : Free(t, AlertRow(a))
           /\ UNCHANGED <<inc, alt, links, notes, handEdited>>
<1> DEFINE opened == {a \in S : alt[a].status \in OpenStatuses}
           r == [IdleTx EXCEPT !.op = "resolve", !.asked = S, !.alerts = opened, !.left = opened,
                               !.pc = "load", !.at = clock, !.held = {AlertRow(a) : a \in opened}]
<1>1. opened \in SUBSET Alts /\ {AlertRow(a) : a \in opened} \in SUBSET Locks /\ clock \in Nat
  BY LockNames DEF IncidentsTypes
<1>2. tx' = [tx EXCEPT ![t] = r]
  BY DEF ResolveAlert
<1> HIDE DEF opened
<1>3. r \in TxRecord
  BY <1>1, IdleIsRecord DEF TxRecord
<1>4. /\ r.op = "resolve" /\ r.pc = "load" /\ r.inc = 0 /\ r.alerts = opened /\ r.left = opened
      /\ r.todo = <<>> /\ r.wrote = NoEntries /\ r.at = clock /\ r.held = {AlertRow(a) : a \in opened}
  BY IdleIsRecord DEF TxRecord
<1> HIDE DEF r
<1>5. tx' \in [Txs -> TxRecord] /\ tx'[t] = r /\ \A u \in Txs : u # t => tx'[u] = tx[u]
  BY <1>2, <1>3 DEF IncidentsTypes
<1> QED BY <1>4, <1>5 DEF ResolveAlert, opened

LEMMA ResolveLoads ==
    ASSUME IncidentsTypes, NEW t \in Txs, loadIncidentIDsForAlertTx(t)
    PROVE  /\ tx' \in [Txs -> TxRecord] /\ tx[t].op = "resolve" /\ tx[t].todo = <<>>
           /\ \A u \in Txs : u # t => tx'[u] = tx[u]
           /\ tx'[t].op = "resolve" /\ tx'[t].pc = "load"
           /\ tx'[t].alerts = tx[t].alerts /\ tx'[t].at = tx[t].at
           /\ tx'[t].wrote = tx[t].wrote /\ tx'[t].held = tx[t].held
           /\ \E a \in tx[t].left :
                 /\ tx'[t].left = tx[t].left \ {a}
                 /\ tx'[t].todo = SortedIncidents({i \in Incs : <<i, a>> \in links})
           /\ UNCHANGED <<inc, alt, links, notes, clock, handEdited>>
<1>1. PICK a \in tx[t].left :
        tx' = [tx EXCEPT ![t].left = @ \ {a}, ![t].todo = SortedIncidents({i \in Incs : <<i, a>> \in links})]
  BY DEF loadIncidentIDsForAlertTx
<1> DEFINE ids == {i \in Incs : <<i, a>> \in links}
           r == [tx[t] EXCEPT !.left = @ \ {a}, !.todo = SortedIncidents(ids)]
<1>2. SortedIncidents(ids) \in Seq(Incs)
  BY SortedIncidentsIs
<1>3. tx[t] \in TxRecord
  BY DEF IncidentsTypes
<1>4. tx' = [tx EXCEPT ![t] = r]
  BY <1>1
<1> HIDE DEF ids
<1>5. r \in TxRecord
  BY <1>2, <1>3 DEF TxRecord
<1>6. /\ r.op = tx[t].op /\ r.pc = tx[t].pc /\ r.alerts = tx[t].alerts /\ r.at = tx[t].at
      /\ r.wrote = tx[t].wrote /\ r.held = tx[t].held /\ r.left = tx[t].left \ {a} /\ r.todo = SortedIncidents(ids)
  BY <1>3 DEF TxRecord
<1> HIDE DEF r
<1>7. tx' \in [Txs -> TxRecord] /\ tx'[t] = r /\ \A u \in Txs : u # t => tx'[u] = tx[u]
  BY <1>4, <1>5 DEF IncidentsTypes
<1> QED BY <1>6, <1>7 DEF loadIncidentIDsForAlertTx, ids

\* A note counts one more entry, its own.
LEMMA NotedIsCount ==
    ASSUME NEW v \in [Incs \X Markers -> Nat], NEW x
    PROVE  /\ Noted(v, x) \in [Incs \X Markers -> Nat]
           /\ x \in Incs \X Markers => Noted(v, x)[x] = v[x] + 1
           /\ \A y \in Incs \X Markers : y # x => Noted(v, x)[y] = v[y]
<1> DEFINE D == Incs \X Markers
<1>0. \A y \in D : v[y] \in Nat
  OBVIOUS
<1>1. Noted(v, x) = [v EXCEPT ![x] = v[x] + 1]
  BY DEF Noted
<1>2. v \in [D -> Nat]
  OBVIOUS
<1> HIDE DEF D
<1>3. CASE x \in D
  <2>1. v[x] + 1 \in Nat
    BY <1>0, <1>3
  <2> HIDE DEF Noted
  <2> QED BY <1>1, <1>2, <1>3, <2>1 DEF D
<1>4. CASE x \notin D
  BY <1>1, <1>2, <1>4 DEF D
<1> QED BY <1>3, <1>4

LEMMA ResolveLocks ==
    ASSUME IncidentsTypes, NEW t \in Txs, lockIncidentRecoveryKeyTx(t)
    PROVE  LET i == Head(tx[t].todo)
               due == AllResolvedSeen(t, i) /\ ~AlreadyRecorded(t, i)
           IN  /\ tx' \in [Txs -> TxRecord] /\ tx[t].op = "resolve" /\ tx[t].todo # <<>> /\ i \in Incs
               /\ \A u \in Txs : u # t => tx'[u] = tx[u]
               /\ tx'[t].op = "resolve" /\ tx'[t].alerts = tx[t].alerts
               /\ tx'[t].left = tx[t].left /\ tx'[t].at = tx[t].at /\ tx'[t].todo = Tail(tx[t].todo)
               /\ tx'[t].held = tx[t].held \cup {RecoveryKey(i)} /\ Free(t, RecoveryKey(i))
               /\ tx'[t].pc = (IF due THEN "note" ELSE "load") /\ tx'[t].inc = (IF due THEN i ELSE 0)
               /\ due => tx'[t].wrote = Noted(tx[t].wrote, <<i, resolvedAfter(t, i)>>)
               /\ ~due => tx'[t].wrote = tx[t].wrote
               /\ UNCHANGED <<inc, alt, links, notes, clock, handEdited>>
<1> DEFINE i == Head(tx[t].todo)
           due == AllResolvedSeen(t, i) /\ ~AlreadyRecorded(t, i)
           w == IF due THEN Noted(tx[t].wrote, <<i, resolvedAfter(t, i)>>) ELSE tx[t].wrote
           r == [tx[t] EXCEPT !.held = @ \cup {RecoveryKey(i)}, !.pc = IF due THEN "note" ELSE "load",
                              !.inc = IF due THEN i ELSE 0, !.alert = 0, !.wrote = w, !.todo = Tail(@)]
<1>1. tx' = [tx EXCEPT ![t] = r]
  BY ZenonT(60) DEF lockIncidentRecoveryKeyTx
<1>2. /\ tx[t].op = "resolve" /\ tx[t].todo # <<>> /\ Free(t, RecoveryKey(i))
      /\ UNCHANGED <<inc, alt, links, notes, clock, handEdited>>
  BY DEF lockIncidentRecoveryKeyTx
<1>3. tx[t] \in TxRecord
  BY DEF IncidentsTypes
<1>4. tx[t].todo \in Seq(Incs) /\ tx[t].held \in SUBSET Locks /\ tx[t].wrote \in [Incs \X Markers -> Nat]
  BY <1>3 DEF TxRecord
<1>5. i \in Incs /\ Tail(tx[t].todo) \in Seq(Incs)
  BY <1>2, <1>4, HeadTailProperties
<1>6. tx[t].held \cup {RecoveryKey(i)} \in SUBSET Locks
  <2>1. RecoveryKey(i) \in Locks
    BY <1>5, LockNames
  <2> QED BY <1>4, <2>1
<1> HIDE DEF i, due
<1>7. w \in [Incs \X Markers -> Nat]
  <2>2. CASE due
    BY <1>4, <2>2, NotedIsCount
  <2>3. CASE ~due
    BY <1>4, <2>3
  <2> QED BY <2>2, <2>3
<1> HIDE DEF w
<1>8. r \in TxRecord
  BY <1>3, <1>5, <1>6, <1>7, ZenonT(60) DEF TxRecord, i
<1>9. /\ r.op = tx[t].op /\ r.alerts = tx[t].alerts /\ r.left = tx[t].left /\ r.at = tx[t].at
      /\ r.todo = Tail(tx[t].todo) /\ r.held = tx[t].held \cup {RecoveryKey(i)}
      /\ r.pc = (IF due THEN "note" ELSE "load") /\ r.inc = (IF due THEN i ELSE 0) /\ r.wrote = w
  BY <1>3 DEF TxRecord
<1> HIDE DEF r
<1>10. tx' \in [Txs -> TxRecord] /\ tx'[t] = r /\ \A u \in Txs : u # t => tx'[u] = tx[u]
  BY <1>1, <1>8 DEF IncidentsTypes
<1> QED BY <1>2, <1>5, <1>9, <1>10 DEF i, due, w

LEMMA ResolveNotes ==
    ASSUME IncidentsTypes, NEW t \in Txs, insertTimelineEntryTx(t)
    PROVE  /\ tx' \in [Txs -> TxRecord] /\ tx[t].op = "resolve" /\ tx[t].pc = "note" /\ tx[t].inc \in Incs
           /\ \A u \in Txs : u # t => tx'[u] = tx[u]
           /\ tx'[t].op = "resolve" /\ tx'[t].pc = "load" /\ tx'[t].alerts = tx[t].alerts
           /\ tx'[t].left = tx[t].left /\ tx'[t].at = tx[t].at /\ tx'[t].todo = tx[t].todo
           /\ tx'[t].wrote = tx[t].wrote
           /\ tx'[t].held = tx[t].held \cup {Row(tx[t].inc)}
           /\ UNCHANGED <<inc, alt, links, notes, clock, handEdited>>
<1> DEFINE i == tx[t].inc
           r == [tx[t] EXCEPT !.pc = "load", !.inc = 0, !.held = @ \cup {Row(i)}]
<1>1. tx[t] \in TxRecord
  BY DEF IncidentsTypes
<1>2. /\ tx[t].op = "resolve" /\ tx[t].pc = "note" /\ i \in Incs
      /\ UNCHANGED <<inc, alt, links, notes, clock, handEdited>>
      /\ tx' = [tx EXCEPT ![t] = r]
  BY DEF insertTimelineEntryTx, IncidentsTypes
<1>3. tx[t].held \cup {Row(i)} \in SUBSET Locks
  <2>1. tx[t].held \in SUBSET Locks
    BY <1>1 DEF TxRecord
  <2>2. Row(i) \in Locks
    BY <1>2, LockNames
  <2> QED BY <2>1, <2>2
<1> HIDE DEF i
<1>4. r \in TxRecord
  BY <1>1, <1>3 DEF TxRecord
<1>5. /\ r.op = tx[t].op /\ r.pc = "load" /\ r.alerts = tx[t].alerts /\ r.left = tx[t].left
      /\ r.at = tx[t].at /\ r.todo = tx[t].todo /\ r.wrote = tx[t].wrote
      /\ r.held = tx[t].held \cup {Row(i)}
  BY <1>1 DEF TxRecord
<1> HIDE DEF r
<1>6. tx' \in [Txs -> TxRecord] /\ tx'[t] = r /\ \A u \in Txs : u # t => tx'[u] = tx[u]
  BY <1>2, <1>4 DEF IncidentsTypes
<1> QED BY <1>2, <1>5, <1>6 DEF i

\* An operator's request starts and moves no transaction.
LEMMA OperatorKeepsTxs == Operator => UNCHANGED <<tx, notes, clock>>
BY DEF Operator, HandleAcknowledge, HandleCreateIncident, HandleTransition, AttachIncidentAlert,
       DetachIncidentAlert, AttachIncidentMonitor, DetachIncidentMonitor, HandlePublish, HandleUnpublish,
       AcknowledgeAlert, CreateIncident, TransitionIncidentState, AttachAlert, DetachAlert, AttachMonitor,
       DetachMonitor, PublishIncidentToStatusPage, UnpublishIncidentFromStatusPage

\* What a request does to incidents, alerts and links.
LEMMA OperatorDoes ==
    ASSUME IncidentsTypes, Operator
    PROVE  /\ \A i \in Incs :
                 \/ inc'[i] = inc[i]
                 \/ ~Exists(i) /\ inc'[i] = [state |-> "investigating", auto |-> None] /\ i \notin Reserved
                 \/ /\ Exists(i) /\ inc[i].state # "resolved"
                    /\ inc'[i].auto = inc[i].auto /\ inc'[i].state \in States
           /\ inc' \in [Incs -> [state : States \cup {None}, auto : Mons \cup {None}]]
           /\ \A a \in Alts :
                 \/ alt'[a] = alt[a]
                 \/ /\ alt[a].status \in OpenStatuses /\ alt'[a].status \in OpenStatuses
                    /\ \A t \in Txs : AlertRow(a) \notin tx[t].held
           /\ alt' \in [Alts -> [status : OpenStatuses \cup {None, "resolved"}, mon : Mons \cup {None},
                                 kind : Kinds \cup {None}, at : Nat]]
           /\ handEdited \subseteq handEdited'
           /\ links' \subseteq Incs \X Alts
           /\ \A i \in Incs, a \in Alts :
                 /\ <<i, a>> \in links /\ <<i, a>> \notin links' => i \in handEdited'
                 /\ <<i, a>> \notin links /\ <<i, a>> \in links'
                       => /\ alt[a].status # None /\ alt' = alt
                          /\ Closing(a) => i \in handEdited'
<1> USE DEF IncidentsTypes
<1>1. CASE HandleAcknowledge
  <2>1. PICK a \in Alts : AcknowledgeAlert(a)
    BY <1>1 DEF HandleAcknowledge
  <2>2. /\ alt[a].status = "active" /\ \A t \in Txs : AlertRow(a) \notin tx[t].held
        /\ alt' = [alt EXCEPT ![a].status = "acknowledged"]
        /\ UNCHANGED <<inc, links, handEdited>>
    BY <2>1 DEF AcknowledgeAlert
  <2> QED BY <2>2 DEF OpenStatuses
<1>2. CASE HandleCreateIncident
  <2>1. PICK i \in Incs, A \in SUBSET Alts, M \in SUBSET Mons : CreateIncident(i, A, M)
    BY <1>2 DEF HandleCreateIncident
  <2>2. /\ inc' = [inc EXCEPT ![i] = [state |-> "investigating", auto |-> None]] /\ UNCHANGED alt
        /\ ~Exists(i) /\ i \notin Reserved
        /\ links' = links \cup ({i} \X A) /\ \A a \in A : alt[a].status # None
        /\ handEdited' = IF \E a \in A : Closing(a) THEN handEdited \cup {i} ELSE handEdited
    BY <2>1 DEF CreateIncident
  <2>3. inc' \in [Incs -> [state : States \cup {None}, auto : Mons \cup {None}]]
    BY <2>2 DEF States
  <2> QED BY <2>2, <2>3
<1>3. CASE HandleTransition
  <2>1. PICK i \in Incs, s \in States : TransitionIncidentState(i, s)
    BY <1>3 DEF HandleTransition
  <2> QED BY <2>1 DEF TransitionIncidentState
<1>4. CASE AttachIncidentAlert
  <2>1. PICK i \in Incs, a \in Alts : AttachAlert(i, a)
    BY <1>4 DEF AttachIncidentAlert
  <2> QED BY <2>1 DEF AttachAlert
<1>5. CASE DetachIncidentAlert
  <2>1. PICK i \in Incs, a \in Alts : DetachAlert(i, a)
    BY <1>5 DEF DetachIncidentAlert
  <2> QED BY <2>1 DEF DetachAlert
<1>6. CASE AttachIncidentMonitor \/ DetachIncidentMonitor \/ HandlePublish \/ HandleUnpublish
  <2>1. UNCHANGED <<inc, alt, links, handEdited>>
    BY <1>6 DEF AttachIncidentMonitor, DetachIncidentMonitor, HandlePublish, HandleUnpublish, AttachMonitor,
         DetachMonitor, PublishIncidentToStatusPage, UnpublishIncidentFromStatusPage
  <2> QED BY <2>1
<1> QED BY <1>1, <1>2, <1>3, <1>4, <1>5, <1>6 DEF Operator



\* COMMIT of an opening: the alert is there and linked to the incident, new or found.
LEMMA FireCommits ==
    ASSUME IncidentsTypes, NEW t \in Txs, ensureAutoIncidentForAlertTx(t)
    PROVE  LET x == tx[t]
               new == [state |-> "investigating", auto |-> x.mon]
           IN  /\ x.op = "fire" /\ x.pc = "commit" /\ x.mon \in Mons /\ x.inc \in Incs /\ x.alert \in Alts
               /\ tx' = [tx EXCEPT ![t] = IdleTx]
               /\ alt' \in [Alts -> [status : OpenStatuses \cup {None, "resolved"}, mon : Mons \cup {None},
                                     kind : Kinds \cup {None}, at : Nat]]
               /\ alt'[x.alert].status = "active" /\ \A a \in Alts : a # x.alert => alt'[a] = alt[a]
               /\ inc' \in [Incs -> [state : States \cup {None}, auto : Mons \cup {None}]]
               /\ \A i \in Incs : i # x.inc \/ Exists(i) => inc'[i] = inc[i]
               /\ ~Exists(x.inc) => inc'[x.inc] = new
               /\ links' = links \cup {<<x.inc, x.alert>>}
               /\ UNCHANGED <<notes, clock, handEdited>>
<1> DEFINE x == tx[t]
           new == [state |-> "investigating", auto |-> x.mon]
           row == [status |-> "active", mon |-> x.mon, kind |-> x.kind, at |-> 0]
<1>1. /\ x.op = "fire" /\ x.pc = "commit" /\ x.mon \in Mons /\ x.inc \in Incs /\ x.alert \in Alts
      /\ x.kind \in Kinds \cup {None}
  <2>1. x \in TxRecord
    BY DEF IncidentsTypes
  <2>2. x.kind \in Kinds \cup {None}
    BY <2>1 DEF TxRecord
  <2> QED BY <2>2 DEF ensureAutoIncidentForAlertTx, IncidentsTypes
<1>2. /\ alt' = [alt EXCEPT ![x.alert] = row] /\ links' = links \cup {<<x.inc, x.alert>>}
      /\ inc' = IF Exists(x.inc) THEN inc ELSE [inc EXCEPT ![x.inc] = new]
      /\ tx' = [tx EXCEPT ![t] = IdleTx]
      /\ UNCHANGED <<notes, clock, handEdited>>
  BY DEF ensureAutoIncidentForAlertTx
<1>3. new \in [state : States \cup {None}, auto : Mons \cup {None}]
  BY <1>1 DEF States
<1>4. row \in [status : OpenStatuses \cup {None, "resolved"}, mon : Mons \cup {None}, kind : Kinds \cup {None},
               at : Nat] /\ row.status = "active"
  BY <1>1 DEF OpenStatuses
<1> HIDE DEF new, row
<1>5. /\ inc' \in [Incs -> [state : States \cup {None}, auto : Mons \cup {None}]]
      /\ \A i \in Incs : i # x.inc \/ Exists(i) => inc'[i] = inc[i]
      /\ ~Exists(x.inc) => inc'[x.inc] = new
  BY <1>1, <1>2, <1>3 DEF IncidentsTypes
<1>6. /\ alt' \in [Alts -> [status : OpenStatuses \cup {None, "resolved"}, mon : Mons \cup {None},
                            kind : Kinds \cup {None}, at : Nat]]
      /\ alt'[x.alert].status = "active" /\ \A a \in Alts : a # x.alert => alt'[a] = alt[a]
  BY <1>1, <1>2, <1>4 DEF IncidentsTypes
<1> QED BY <1>1, <1>2, <1>5, <1>6 DEF new

\* COMMIT of a resolve: its alerts are closed and its notes are on the timelines.
LEMMA ResolveCommits ==
    ASSUME IncidentsTypes, NEW t \in Txs, CommitResolve(t)
    PROVE  LET x == tx[t]
           IN  /\ x.op = "resolve" /\ x.left = {} /\ x.todo = <<>>
               /\ tx' = [tx EXCEPT ![t] = IdleTx]
               /\ alt' \in [Alts -> [status : OpenStatuses \cup {None, "resolved"}, mon : Mons \cup {None},
                                     kind : Kinds \cup {None}, at : Nat]]
               /\ \A a \in x.alerts : alt'[a].status = "resolved" /\ alt'[a].at = x.at
               /\ \A a \in Alts \ x.alerts : alt'[a] = alt[a]
               /\ notes' \in [Incs \X Markers -> Nat]
               /\ \A k \in Incs \X Markers : notes'[k] = notes[k] + x.wrote[k]
               /\ UNCHANGED <<inc, links, clock, handEdited>>
<1> DEFINE x == tx[t]
           AltRows == [status : OpenStatuses \cup {None, "resolved"}, mon : Mons \cup {None},
                       kind : Kinds \cup {None}, at : Nat]
<1>1. /\ x.op = "resolve" /\ x.left = {} /\ x.todo = <<>> /\ UNCHANGED <<inc, links, clock, handEdited>>
      /\ alt' = [a \in Alts |-> IF a \in x.alerts THEN [alt[a] EXCEPT !.status = "resolved", !.at = x.at]
                                ELSE alt[a]]
      /\ notes' = [k \in Incs \X Markers |-> notes[k] + x.wrote[k]]
      /\ tx' = [tx EXCEPT ![t] = IdleTx]
  BY DEF CommitResolve
<1>2. x \in TxRecord
  BY DEF IncidentsTypes
<1>3. x.alerts \subseteq Alts /\ x.at \in Nat /\ x.wrote \in [Incs \X Markers -> Nat]
  BY <1>2 DEF TxRecord
<1> HIDE DEF x
<1>4. ASSUME NEW a \in Alts
      PROVE  /\ alt[a] \in AltRows /\ [alt[a] EXCEPT !.status = "resolved", !.at = x.at] \in AltRows
             /\ [alt[a] EXCEPT !.status = "resolved", !.at = x.at].status = "resolved"
             /\ [alt[a] EXCEPT !.status = "resolved", !.at = x.at].at = x.at
  <2>1. alt[a] \in AltRows
    BY DEF IncidentsTypes
  <2> QED BY <2>1, <1>3
<1> HIDE DEF AltRows
<1>5. alt' \in [Alts -> AltRows]
  BY <1>1, <1>4
<1>6. /\ \A a \in x.alerts : alt'[a].status = "resolved" /\ alt'[a].at = x.at
      /\ \A a \in Alts \ x.alerts : alt'[a] = alt[a]
  BY <1>1, <1>3, <1>4
<1>7. \A k \in Incs \X Markers : notes[k] + x.wrote[k] \in Nat
  <2>1. notes \in [Incs \X Markers -> Nat]
    BY DEF IncidentsTypes
  <2>2. \A k \in Incs \X Markers : notes[k] \in Nat /\ x.wrote[k] \in Nat
    BY <1>3, <2>1
  <2> QED BY <2>2
<1>8. notes' \in [Incs \X Markers -> Nat] /\ \A k \in Incs \X Markers : notes'[k] = notes[k] + x.wrote[k]
  BY <1>1, <1>7
<1> QED BY <1>1, <1>5, <1>6, <1>8 DEF x, AltRows

LEMMA IncidentsTypesStep == IncidentsTypes /\ [IncidentsNext]_incidentVars => IncidentsTypes'
<1> SUFFICES ASSUME IncidentsTypes, [IncidentsNext]_incidentVars PROVE IncidentsTypes'
  OBVIOUS
<1> DEFINE Fine(r) == /\ r.pc \in {"commit", "note"} => r.inc \in Incs
                      /\ r.op = "fire" => r.mon \in Mons /\ r.alert \in Alts
<1>0. \A t \in Txs : Fine(tx[t])
  BY DEF IncidentsTypes
<1>1. ASSUME NEW t \in Txs, tx' \in [Txs -> TxRecord], Fine(tx'[t]), \A u \in Txs : u # t => tx'[u] = tx[u],
             UNCHANGED <<inc, alt, links, notes>>, clock' \in Nat \ {0}
      PROVE  IncidentsTypes'
  <2>1. \A u \in Txs : Fine(tx'[u])
    BY <1>0, <1>1
  <2> QED BY <1>1, <2>1 DEF IncidentsTypes
<1>2. clock \in Nat \ {0} /\ clock + 1 \in Nat \ {0} /\ Fine(IdleTx)
  <2>1. clock \in Nat \ {0}
    BY DEF IncidentsTypes
  <2> QED BY <2>1, IdleIsRecord DEF None
<1>3. ASSUME NEW t \in Txs, NEW m \in Mons, NEW k \in Kinds, createAlert(t, m, k) PROVE IncidentsTypes'
  <2> HIDE DEF Fine
  <2>1. Fine(tx'[t])
    BY <1>3, FireBegins DEF Fine
  <2> QED BY <1>1, <1>2, <1>3, <2>1, FireBegins
<1>4. ASSUME NEW t \in Txs, findOrCreateAutoIncidentTx(t) PROVE IncidentsTypes'
  <2> HIDE DEF Fine
  <2>1. Fine(tx'[t])
    BY <1>0, <1>4, FireFinds DEF Fine
  <2> QED BY <1>1, <1>2, <1>4, <2>1, FireFinds
<1>5. ASSUME NEW t \in Txs, ensureAutoIncidentForAlertTx(t) PROVE IncidentsTypes'
  <2>1. tx' \in [Txs -> TxRecord] /\ \A u \in Txs : Fine(tx'[u])
    <3> HIDE DEF Fine
    <3> QED BY <1>0, <1>2, <1>5, FireCommits, TxEnds
  <2>2. links' \subseteq Incs \X Alts /\ UNCHANGED <<notes, clock>>
    <3>1. links \subseteq Incs \X Alts
      BY DEF IncidentsTypes
    <3>2. /\ links' = links \cup {<<tx[t].inc, tx[t].alert>>} /\ UNCHANGED <<notes, clock>>
          /\ tx[t].inc \in Incs /\ tx[t].alert \in Alts
      BY <1>5, FireCommits
    <3> QED BY <3>1, <3>2
  <2>3. /\ alt' \in [Alts -> [status : OpenStatuses \cup {None, "resolved"}, mon : Mons \cup {None},
                              kind : Kinds \cup {None}, at : Nat]]
        /\ inc' \in [Incs -> [state : States \cup {None}, auto : Mons \cup {None}]]
    BY <1>5, FireCommits
  <2> QED BY <2>1, <2>2, <2>3 DEF IncidentsTypes
<1>6. ASSUME NEW t \in Txs, NEW S \in SUBSET Alts, ResolveAlert(t, S) PROVE IncidentsTypes'
  <2> HIDE DEF Fine
  <2>1. Fine(tx'[t])
    BY <1>6, ResolveBegins DEF Fine
  <2> QED BY <1>1, <1>2, <1>6, <2>1, ResolveBegins
<1>7. ASSUME NEW t \in Txs, loadIncidentIDsForAlertTx(t) PROVE IncidentsTypes'
  <2> HIDE DEF Fine
  <2>1. Fine(tx'[t])
    BY <1>7, ResolveLoads DEF Fine
  <2> QED BY <1>1, <1>2, <1>7, <2>1, ResolveLoads
<1>8. ASSUME NEW t \in Txs, lockIncidentRecoveryKeyTx(t) PROVE IncidentsTypes'
  <2> HIDE DEF Fine
  <2>1. Fine(tx'[t])
    BY <1>8, ResolveLocks DEF Fine
  <2> QED BY <1>1, <1>2, <1>8, <2>1, ResolveLocks
<1>9. ASSUME NEW t \in Txs, insertTimelineEntryTx(t) PROVE IncidentsTypes'
  <2> HIDE DEF Fine
  <2>1. Fine(tx'[t])
    BY <1>9, ResolveNotes DEF Fine
  <2> QED BY <1>1, <1>2, <1>9, <2>1, ResolveNotes
<1>10. ASSUME NEW t \in Txs, CommitResolve(t) PROVE IncidentsTypes'
  <2>1. tx' \in [Txs -> TxRecord] /\ \A u \in Txs : Fine(tx'[u])
    <3> HIDE DEF Fine
    <3> QED BY <1>0, <1>2, <1>10, ResolveCommits, TxEnds
  <2>2. /\ alt' \in [Alts -> [status : OpenStatuses \cup {None, "resolved"}, mon : Mons \cup {None},
                              kind : Kinds \cup {None}, at : Nat]]
        /\ notes' \in [Incs \X Markers -> Nat] /\ UNCHANGED <<inc, links, clock>>
    BY <1>10, ResolveCommits
  <2> QED BY <2>1, <2>2 DEF IncidentsTypes
<1>11. ASSUME NEW t \in Txs, Rollback(t) PROVE IncidentsTypes'
  <2>1. tx' = [tx EXCEPT ![t] = IdleTx] /\ UNCHANGED <<inc, alt, links, notes, clock>>
    BY <1>11 DEF Rollback
  <2> HIDE DEF Fine
  <2> QED BY <1>1, <1>2, <2>1, TxEnds
<1>12. ASSUME Operator PROVE IncidentsTypes'
  <2>1. UNCHANGED <<tx, notes, clock>>
    BY <1>12, OperatorKeepsTxs
  <2>2. /\ alt' \in [Alts -> [status : OpenStatuses \cup {None, "resolved"}, mon : Mons \cup {None},
                              kind : Kinds \cup {None}, at : Nat]]
        /\ inc' \in [Incs -> [state : States \cup {None}, auto : Mons \cup {None}]]
        /\ links' \subseteq Incs \X Alts
    BY <1>12, OperatorDoes
  <2> QED BY <2>1, <2>2 DEF IncidentsTypes
<1>13. CASE UNCHANGED incidentVars
  BY <1>13 DEF IncidentsTypes, incidentVars
<1> QED BY <1>3, <1>4, <1>5, <1>6, <1>7, <1>8, <1>9, <1>10, <1>11, <1>12, <1>13 DEF IncidentsNext, AlertTransaction

LEMMA IncidentsStart ==
    IncidentsInit => /\ IncidentsTypes /\ \A t \in Txs : tx[t] = IdleTx
                     /\ \A i \in Incs : ~Exists(i) /\ inc[i].auto = None
                     /\ \A a \in Alts : alt[a].status = None
                     /\ links = {} /\ notes = NoEntries
<1> SUFFICES ASSUME IncidentsInit
             PROVE  /\ IncidentsTypes /\ \A t \in Txs : tx[t] = IdleTx
                    /\ \A i \in Incs : ~Exists(i) /\ inc[i].auto = None
                    /\ \A a \in Alts : alt[a].status = None
                    /\ links = {} /\ notes = NoEntries
  OBVIOUS
<1>1. tx \in [Txs -> TxRecord] /\ \A t \in Txs : tx[t] = IdleTx
  BY IdleIsRecord DEF IncidentsInit
<1>2. \A t \in Txs : tx[t].pc \notin {"commit", "note"} /\ tx[t].op # "fire"
  BY <1>1, IdleIsRecord DEF None
<1>3. /\ inc \in [Incs -> [state : States \cup {None}, auto : Mons \cup {None}]]
      /\ alt \in [Alts -> [status : OpenStatuses \cup {None, "resolved"}, mon : Mons \cup {None},
                           kind : Kinds \cup {None}, at : Nat]]
      /\ \A i \in Incs : ~Exists(i) /\ inc[i].auto = None
      /\ \A a \in Alts : alt[a].status = None
  BY DEF IncidentsInit, Exists
<1>4. links = {} /\ notes = NoEntries /\ clock \in Nat \ {0}
  BY DEF IncidentsInit
<1> QED BY <1>1, <1>2, <1>3, <1>4, IdleIsRecord DEF IncidentsTypes


\* A step of one transaction that leaves the incidents as they are.
LEMMA AutoTxMoves ==
    ASSUME AutoInv, IncidentsTypes', NEW t \in Txs, UNCHANGED inc, \A u \in Txs : u # t => tx'[u] = tx[u],
           tx'[t].op = "fire" =>
               /\ AutoKey(tx'[t].mon) \in tx'[t].held
               /\ \A u \in Txs : u # t /\ Fires(u) => tx[u].mon # tx'[t].mon
               /\ tx'[t].pc = "commit" /\ ~Exists(tx'[t].inc) => OpenAutoIncidents(tx'[t].mon) = {}
    PROVE  AutoInv'
<1>1. KeyHeldToOpen'
  BY DEF AutoInv, KeyHeldToOpen, Fires, AutoKey
<1>2. \A i : Exists(i)' <=> Exists(i)
  BY DEF Exists
<1>3. ASSUME NEW u \in Txs, Fires(u)', tx'[u].pc = "commit", ~Exists(tx'[u].inc)
      PROVE  OpenAutoIncidents(tx'[u].mon) = {}
  <2>1. CASE u = t
    BY <1>3, <2>1 DEF Fires
  <2>2. CASE u # t
    BY <1>3, <2>2 DEF AutoInv, SearchStillTrue, Fires
  <2> QED BY <2>1, <2>2
<1>4. SearchStillTrue'
  <2>1. \A m : OpenAutoIncidents(m)' = OpenAutoIncidents(m)
    BY DEF OpenAutoIncidents
  <2> SUFFICES ASSUME NEW u \in Txs, Fires(u)', tx'[u].pc = "commit", ~Exists(tx[u].inc)'
               PROVE  OpenAutoIncidents(tx[u].mon)' = {}
    BY DEF SearchStillTrue
  <2>2. OpenAutoIncidents(tx'[u].mon) = {}
    BY <1>2, <1>3
  <2> QED BY <2>2 DEF OpenAutoIncidents
<1>5. MissingIsNobodys' /\ OneOpenAutoIncident'
  BY DEF AutoInv, MissingIsNobodys, OneOpenAutoIncident, Exists
<1> QED BY <1>1, <1>4, <1>5 DEF AutoInv

\* The incident that an opening commits, when the search found none.
LEMMA AutoFireCommits ==
    ASSUME AutoInv, IncidentsTypes', NEW t \in Txs, ensureAutoIncidentForAlertTx(t)
    PROVE  AutoInv'
<1> DEFINE x == tx[t]
<1>1. /\ x.op = "fire" /\ x.pc = "commit" /\ x.mon \in Mons /\ x.inc \in Incs
      /\ \A i \in Incs : i # x.inc \/ Exists(i) => inc'[i] = inc[i]
      /\ ~Exists(x.inc) => inc'[x.inc].auto = x.mon /\ inc'[x.inc].state = "investigating"
      /\ tx'[t] = IdleTx /\ \A u \in Txs : u # t => tx'[u] = tx[u]
  <2>1. IncidentsTypes
    BY DEF AutoInv
  <2>2. ~Exists(x.inc) => inc'[x.inc] = [state |-> "investigating", auto |-> x.mon]
    BY <2>1, FireCommits
  <2>3. /\ x.op = "fire" /\ x.pc = "commit" /\ x.mon \in Mons /\ x.inc \in Incs
        /\ \A i \in Incs : i # x.inc \/ Exists(i) => inc'[i] = inc[i]
        /\ tx' = [tx EXCEPT ![t] = IdleTx]
    BY <2>1, FireCommits
  <2>4. tx'[t] = IdleTx /\ \A u \in Txs : u # t => tx'[u] = tx[u]
    BY <2>1, <2>3, TxEnds
  <2> QED BY <2>2, <2>3, <2>4
<1>2. \A u \in Txs : Fires(u)' => u # t /\ Fires(u) /\ tx[u].mon # x.mon
  BY <1>1, IdleIsRecord DEF Fires, None, AutoInv, KeyHeldToOpen
<1>3. KeyHeldToOpen'
  BY <1>1, <1>2 DEF AutoInv, KeyHeldToOpen, Fires, AutoKey
<1>4. \A i \in Incs : Exists(i) => Exists(i)'
  BY <1>1 DEF Exists
<1>5. SearchStillTrue'
  <2> SUFFICES ASSUME NEW u \in Txs, Fires(u)', tx'[u].pc = "commit", ~Exists(tx[u].inc)'
               PROVE  OpenAutoIncidents(tx[u].mon)' = {}
    BY DEF SearchStillTrue
  <2>1. u # t /\ Fires(u) /\ tx[u].mon # x.mon /\ tx'[u] = tx[u]
    BY <1>1, <1>2
  <2>2. tx[u].inc \in Incs
    BY <2>1 DEF AutoInv, IncidentsTypes
  <2>3. OpenAutoIncidents(tx[u].mon) = {}
    BY <1>4, <2>1, <2>2 DEF AutoInv, SearchStillTrue, Exists
  <2> QED BY <1>1, <2>1, <2>3 DEF OpenAutoIncidents
<1>6. MissingIsNobodys'
  BY <1>1 DEF AutoInv, MissingIsNobodys, Exists, None
<1>7. \A j \in Incs : ~Exists(x.inc) /\ inc[j].auto = x.mon => inc[j].state = "resolved"
  <2> SUFFICES ASSUME NEW j \in Incs, ~Exists(x.inc), inc[j].auto = x.mon PROVE inc[j].state = "resolved"
    OBVIOUS
  <2>1. OpenAutoIncidents(x.mon) = {}
    BY <1>1 DEF AutoInv, SearchStillTrue, Fires
  <2>2. inc[j].state # None
    BY <1>1, IncidentsAssumption DEF AutoInv, MissingIsNobodys, Exists, None
  <2> QED BY <2>1, <2>2 DEF OpenAutoIncidents
<1>8. OneOpenAutoIncident'
  <2> SUFFICES ASSUME NEW i \in Incs, NEW j \in Incs, i # j, inc'[i].auto # None, inc'[i].auto = inc'[j].auto
               PROVE  "resolved" \in {inc'[i].state, inc'[j].state}
    BY DEF OneOpenAutoIncident
  <2>1. CASE i = x.inc /\ ~Exists(i)
    BY <1>1, <1>7, <2>1
  <2>2. CASE j = x.inc /\ ~Exists(j)
    BY <1>1, <1>7, <2>2
  <2>3. CASE inc'[i] = inc[i] /\ inc'[j] = inc[j]
    BY <2>3 DEF AutoInv, OneOpenAutoIncident
  <2> QED BY <1>1, <2>1, <2>2, <2>3
<1> QED BY <1>3, <1>5, <1>6, <1>8 DEF AutoInv

LEMMA AutoOperator ==
    ASSUME AutoInv, IncidentsTypes', Operator
    PROVE  AutoInv'
<1>1. UNCHANGED tx
  BY OperatorKeepsTxs
<1>2. ASSUME NEW i \in Incs
      PROVE  \/ inc'[i] = inc[i]
             \/ ~Exists(i) /\ inc'[i].state = "investigating" /\ inc'[i].auto = None
             \/ Exists(i) /\ inc[i].state # "resolved" /\ inc'[i].auto = inc[i].auto /\ inc'[i].state \in States
  <2>1. \/ inc'[i] = inc[i]
        \/ ~Exists(i) /\ inc'[i] = [state |-> "investigating", auto |-> None] /\ i \notin Reserved
        \/ Exists(i) /\ inc[i].state # "resolved" /\ inc'[i].auto = inc[i].auto /\ inc'[i].state \in States
    BY OperatorDoes DEF AutoInv
  <2> QED BY <2>1
<1>3. ASSUME NEW i \in Incs PROVE Exists(i) => Exists(i)'
  BY <1>2 DEF Exists, None, States
<1>4. KeyHeldToOpen'
  BY <1>1 DEF AutoInv, KeyHeldToOpen, Fires, AutoKey
<1>5. ASSUME NEW m \in Mons PROVE OpenAutoIncidents(m)' \subseteq OpenAutoIncidents(m)
  <2> SUFFICES ASSUME NEW i \in Incs, inc'[i].auto = m, inc'[i].state \notin {None, "resolved"}
               PROVE  inc[i].auto = m /\ inc[i].state \notin {None, "resolved"}
    BY DEF OpenAutoIncidents
  <2>1. m # None
    BY IncidentsAssumption DEF None
  <2> QED BY <1>2, <2>1 DEF Exists
<1>6. SearchStillTrue'
  <2> SUFFICES ASSUME NEW u \in Txs, Fires(u)', tx'[u].pc = "commit", ~Exists(tx[u].inc)'
               PROVE  OpenAutoIncidents(tx[u].mon)' = {}
    BY DEF SearchStillTrue
  <2>1. Fires(u) /\ tx'[u] = tx[u] /\ tx[u].pc = "commit"
    BY <1>1 DEF Fires
  <2>2. tx[u].inc \in Incs /\ tx[u].mon \in Mons
    BY <2>1 DEF AutoInv, IncidentsTypes, Fires
  <2>3. ~Exists(tx[u].inc)
    BY <1>3, <2>1, <2>2 DEF Exists
  <2>4. OpenAutoIncidents(tx[u].mon) = {}
    BY <2>1, <2>3 DEF AutoInv, SearchStillTrue
  <2> QED BY <1>1, <1>5, <2>2, <2>4 DEF OpenAutoIncidents
<1>7. MissingIsNobodys'
  BY <1>2 DEF AutoInv, MissingIsNobodys, Exists, None, States
<1>8. OneOpenAutoIncident'
  BY <1>2 DEF AutoInv, OneOpenAutoIncident
<1> QED BY <1>4, <1>6, <1>7, <1>8 DEF AutoInv

LEMMA AutoStep == AutoInv /\ [IncidentsNext]_incidentVars => AutoInv'
<1> SUFFICES ASSUME AutoInv, [IncidentsNext]_incidentVars PROVE AutoInv'
  OBVIOUS
<1>1. IncidentsTypes /\ IncidentsTypes'
  BY IncidentsTypesStep DEF AutoInv
<1>2. ASSUME NEW t \in Txs, NEW m \in Mons, NEW k \in Kinds, createAlert(t, m, k) PROVE AutoInv'
  <2>1. \A u \in Txs : u # t /\ Fires(u) => tx[u].mon # m
    BY <1>1, <1>2, FireBegins DEF AutoInv, KeyHeldToOpen, Free
  <2>2. tx'[t].mon = m /\ tx'[t].pc # "commit" /\ AutoKey(m) \in tx'[t].held /\ UNCHANGED inc
    BY <1>1, <1>2, FireBegins
  <2> QED BY <1>1, <1>2, <2>1, <2>2, FireBegins, AutoTxMoves
<1>3. ASSUME NEW t \in Txs, findOrCreateAutoIncidentTx(t) PROVE AutoInv'
  <2>1. /\ Fires(t) /\ tx'[t].mon = tx[t].mon /\ UNCHANGED inc
        /\ ~Exists(tx'[t].inc) => OpenAutoIncidents(tx'[t].mon) = {}
        /\ tx'[t].held = tx[t].held \cup {Row(tx'[t].inc)}
        /\ \A u \in Txs : u # t => tx'[u] = tx[u]
    BY <1>1, <1>3, FireFinds DEF Fires
  <2>2. \A u \in Txs : u # t /\ Fires(u) => tx[u].mon # tx'[t].mon
    BY <2>1 DEF AutoInv, KeyHeldToOpen
  <2>3. AutoKey(tx'[t].mon) \in tx'[t].held
    BY <2>1 DEF AutoInv, KeyHeldToOpen
  <2> QED BY <1>1, <2>1, <2>2, <2>3, AutoTxMoves
<1>4. ASSUME NEW t \in Txs, ensureAutoIncidentForAlertTx(t) PROVE AutoInv'
  BY <1>1, <1>4, AutoFireCommits
<1>5. ASSUME NEW t \in Txs, NEW S \in SUBSET Alts, ResolveAlert(t, S) PROVE AutoInv'
  <2>1. tx'[t].op # "fire" /\ UNCHANGED inc /\ \A u \in Txs : u # t => tx'[u] = tx[u]
    BY <1>1, <1>5, ResolveBegins
  <2> QED BY <1>1, <2>1, AutoTxMoves
<1>6. ASSUME NEW t \in Txs, loadIncidentIDsForAlertTx(t) PROVE AutoInv'
  <2>1. tx'[t].op # "fire" /\ UNCHANGED inc /\ \A u \in Txs : u # t => tx'[u] = tx[u]
    BY <1>1, <1>6, ResolveLoads
  <2> QED BY <1>1, <2>1, AutoTxMoves
<1>7. ASSUME NEW t \in Txs, lockIncidentRecoveryKeyTx(t) PROVE AutoInv'
  <2>1. tx'[t].op # "fire" /\ UNCHANGED inc /\ \A u \in Txs : u # t => tx'[u] = tx[u]
    BY <1>1, <1>7, ResolveLocks
  <2> QED BY <1>1, <2>1, AutoTxMoves
<1>8. ASSUME NEW t \in Txs, insertTimelineEntryTx(t) PROVE AutoInv'
  <2>1. tx'[t].op # "fire" /\ UNCHANGED inc /\ \A u \in Txs : u # t => tx'[u] = tx[u]
    BY <1>1, <1>8, ResolveNotes
  <2> QED BY <1>1, <2>1, AutoTxMoves
<1>9. ASSUME NEW t \in Txs, CommitResolve(t) \/ Rollback(t) PROVE AutoInv'
  <2>1. tx' = [tx EXCEPT ![t] = IdleTx] /\ UNCHANGED inc
    BY <1>9 DEF CommitResolve, Rollback
  <2>2. tx'[t].op # "fire" /\ \A u \in Txs : u # t => tx'[u] = tx[u]
    BY <1>1, <2>1, TxEnds, IdleIsRecord DEF None
  <2> QED BY <1>1, <2>1, <2>2, AutoTxMoves
<1>10. CASE Operator
  BY <1>1, <1>10, AutoOperator
<1>11. CASE UNCHANGED incidentVars
  BY <1>1, <1>11 DEF AutoInv, KeyHeldToOpen, SearchStillTrue, MissingIsNobodys, OneOpenAutoIncident, Fires, Exists,
     OpenAutoIncidents, AutoKey, incidentVars
<1> QED BY <1>2, <1>3, <1>4, <1>5, <1>6, <1>7, <1>8, <1>9, <1>10, <1>11 DEF IncidentsNext, AlertTransaction

\* A monitor has at most one open incident of its own making, however many alerts of however many
\* kinds open at once (lockAutoIncidentKeyTx before the search and the insert).
THEOREM OneAutoIncidentPerMonitor == IncidentsSpec => []OneOpenAutoIncident
<1>1. IncidentsInit => AutoInv
  <2> SUFFICES ASSUME IncidentsInit PROVE AutoInv
    OBVIOUS
  <2>1. \A t \in Txs : tx[t].op # "fire"
    BY IncidentsStart, IdleIsRecord DEF None
  <2> QED BY <2>1, IncidentsStart DEF AutoInv, KeyHeldToOpen, SearchStillTrue, MissingIsNobodys, OneOpenAutoIncident,
         Fires
<1>2. AutoInv => OneOpenAutoIncident
  BY DEF AutoInv
<1> QED BY <1>1, <1>2, AutoStep, PTL DEF IncidentsSpec


\* A step of one transaction leaves the order of the locks alone, if it keeps its own.
LEMMA OrderedMoves ==
    ASSUME DeadlockInv, IncidentsTypes', NEW t \in Txs, \A u \in Txs : u # t => tx'[u] = tx[u],
           tx'[t].op = "resolve" => KeysFirst(tx'[t]) /\ Ascends(tx'[t]),
           \A i \in Incs : RecoveryKey(i) \in tx'[t].held => RecoveryKey(i) \in tx[t].held \/ Free(t, RecoveryKey(i))
    PROVE  DeadlockInv'
<1>1. \A u \in Txs : tx'[u].op = "resolve" => KeysFirst(tx'[u]) /\ Ascends(tx'[u])
  BY DEF DeadlockInv, KeysBeforeRows, TakenInOrder, Resolves
<1>2. (KeysBeforeRows /\ TakenInOrder)'
  BY <1>1 DEF KeysBeforeRows, TakenInOrder, Resolves, KeysFirst, Ascends, Row, RecoveryKey
<1>3. \A u, w \in Txs, i \in Incs : RecoveryKey(i) \in tx'[u].held /\ RecoveryKey(i) \in tx'[w].held => u = w
  BY DEF DeadlockInv, KeysAreExclusive, Free
<1>4. KeysAreExclusive'
  BY <1>3 DEF KeysAreExclusive, RecoveryKey
<1> QED BY <1>2, <1>4 DEF DeadlockInv

\* The list of incidents gets shorter from its head, and stays ascending.
LEMMA TailAscends ==
    ASSUME NEW s \in Seq(Incs), s # <<>>, \A j, k \in DOMAIN s : j < k => s[j] < s[k]
    PROVE  /\ \A j, k \in DOMAIN Tail(s) : j < k => Tail(s)[j] < Tail(s)[k]
           /\ \A k \in DOMAIN Tail(s) : Head(s) < Tail(s)[k]
           /\ \A k \in DOMAIN Tail(s) : k + 1 \in DOMAIN s /\ Tail(s)[k] = s[k + 1]
           /\ 1 \in DOMAIN s /\ Head(s) = s[1] /\ Head(s) \in Incs
<1>1. Tail(s) \in Seq(Incs) /\ Len(Tail(s)) = Len(s) - 1 /\ Head(s) = s[1] /\ Head(s) \in Incs /\ Len(s) \in Nat \ {0}
      /\ \A k \in 1..Len(Tail(s)) : Tail(s)[k] = s[k + 1]
  BY HeadTailProperties, EmptySeq
<1>2. DOMAIN s = 1..Len(s) /\ DOMAIN Tail(s) = 1..Len(Tail(s))
  BY <1>1
<1>3. ASSUME NEW k \in DOMAIN Tail(s)
      PROVE  k \in Nat /\ 1 < k + 1 /\ k + 1 \in DOMAIN s /\ Tail(s)[k] = s[k + 1]
  BY <1>1, <1>2
<1>4. 1 \in DOMAIN s
  BY <1>1, <1>2
<1> QED BY <1>1, <1>3, <1>4

LEMMA OrderStep == DeadlockInv /\ [IncidentsNext]_incidentVars => DeadlockInv'
<1> SUFFICES ASSUME DeadlockInv, [IncidentsNext]_incidentVars PROVE DeadlockInv'
  OBVIOUS
<1>1. IncidentsTypes /\ IncidentsTypes'
  BY IncidentsTypesStep DEF DeadlockInv
<1>2. ASSUME NEW t \in Txs, NEW m \in Mons, NEW k \in Kinds, createAlert(t, m, k) PROVE DeadlockInv'
  <2>1. tx'[t].op # "resolve" /\ \A i \in Incs : RecoveryKey(i) \notin tx'[t].held
    <3>1. tx'[t].op = "fire" /\ tx'[t].held = {AutoKey(m), AlertRow(tx'[t].alert)}
      BY <1>1, <1>2, FireBegins
    <3> QED BY <3>1, LockNames
  <2> QED BY <1>1, <1>2, <2>1, FireBegins, OrderedMoves
<1>3. ASSUME NEW t \in Txs, findOrCreateAutoIncidentTx(t) PROVE DeadlockInv'
  <2>1. tx'[t].op # "resolve" /\ \A i \in Incs : RecoveryKey(i) \in tx'[t].held => RecoveryKey(i) \in tx[t].held
    BY <1>1, <1>3, FireFinds, LockNames
  <2> QED BY <1>1, <1>3, <2>1, FireFinds, OrderedMoves
<1>4. ASSUME NEW t \in Txs, ensureAutoIncidentForAlertTx(t) \/ CommitResolve(t) \/ Rollback(t) PROVE DeadlockInv'
  <2>1. tx' = [tx EXCEPT ![t] = IdleTx]
    BY <1>4 DEF ensureAutoIncidentForAlertTx, CommitResolve, Rollback
  <2>2. tx'[t].op # "resolve" /\ tx'[t].held = {} /\ \A u \in Txs : u # t => tx'[u] = tx[u]
    BY <1>1, <2>1, TxEnds, IdleIsRecord DEF None
  <2> QED BY <1>1, <2>2, OrderedMoves
<1>5. ASSUME NEW t \in Txs, NEW S \in SUBSET Alts, ResolveAlert(t, S) PROVE DeadlockInv'
  <2>1. /\ tx'[t].pc = "load" /\ tx'[t].left = tx'[t].alerts /\ tx'[t].todo = <<>>
        /\ \A i \in Incs : RecoveryKey(i) \notin tx'[t].held /\ Row(i) \notin tx'[t].held
    BY <1>1, <1>5, ResolveBegins, LockNames
  <2>2. DOMAIN tx'[t].todo = {}
    BY <2>1
  <2>3. KeysFirst(tx'[t]) /\ Ascends(tx'[t])
    BY <2>1, <2>2 DEF KeysFirst, Ascends
  <2> QED BY <1>1, <1>5, <2>1, <2>3, ResolveBegins, OrderedMoves
<1>6. ASSUME NEW t \in Txs, loadIncidentIDsForAlertTx(t) PROVE DeadlockInv'
  <2>1. KeysFirst(tx[t]) /\ Ascends(tx[t]) /\ tx[t] \in TxRecord
    BY <1>1, <1>6, ResolveLoads DEF DeadlockInv, KeysBeforeRows, TakenInOrder, Resolves, IncidentsTypes
  <2>2. /\ tx'[t].pc = "load" /\ tx'[t].alerts = tx[t].alerts /\ tx'[t].held = tx[t].held
        /\ \A u \in Txs : u # t => tx'[u] = tx[u]
    BY <1>1, <1>6, ResolveLoads
  <2>3. PICK a \in tx[t].left :
          /\ tx'[t].left = tx[t].left \ {a}
          /\ tx'[t].todo = SortedIncidents({i \in Incs : <<i, a>> \in links})
    BY <1>1, <1>6, ResolveLoads
  <2>4. \A j, k \in DOMAIN tx'[t].todo : j < k => tx'[t].todo[j] < tx'[t].todo[k]
    BY <2>3, SortedIncidentsIs
  <2>5. Cardinality(tx[t].alerts) = 1 => tx[t].left = tx[t].alerts
    <3> SUFFICES ASSUME Cardinality(tx[t].alerts) = 1 PROVE tx[t].left = tx[t].alerts
      OBVIOUS
    <3>1. tx[t].alerts \in SUBSET Alts /\ tx[t].left \subseteq tx[t].alerts
      BY <2>1 DEF TxRecord, Ascends
    <3>2. IsFiniteSet(tx[t].alerts)
      BY <3>1, IncidentsAssumption, FS_Subset
    <3>3. \E x : tx[t].alerts = {x}
      BY <3>2, FS_Singleton
    <3> QED BY <2>3, <3>1, <3>3
  <2>6. a \in tx[t].alerts /\ tx'[t].left # tx'[t].alerts /\ tx'[t].left \subseteq tx'[t].alerts
    BY <2>1, <2>2, <2>3 DEF Ascends
  <2>7. KeysFirst(tx'[t])
    BY <2>1, <2>2 DEF KeysFirst
  <2>8. Ascends(tx'[t])
    BY <2>1, <2>2, <2>4, <2>5, <2>6 DEF Ascends
  <2> QED BY <1>1, <2>2, <2>7, <2>8, OrderedMoves
<1>7. ASSUME NEW t \in Txs, lockIncidentRecoveryKeyTx(t) PROVE DeadlockInv'
  <2> DEFINE h == Head(tx[t].todo)
  <2>1. KeysFirst(tx[t]) /\ Ascends(tx[t]) /\ tx[t] \in TxRecord
    BY <1>1, <1>7, ResolveLocks DEF DeadlockInv, KeysBeforeRows, TakenInOrder, Resolves, IncidentsTypes
  <2>2. /\ tx'[t].alerts = tx[t].alerts /\ tx'[t].left = tx[t].left /\ tx'[t].todo = Tail(tx[t].todo)
        /\ tx'[t].held = tx[t].held \cup {RecoveryKey(h)} /\ Free(t, RecoveryKey(h))
        /\ tx'[t].pc = "note" => tx'[t].inc = h
        /\ \A u \in Txs : u # t => tx'[u] = tx[u]
        /\ tx[t].todo # <<>> /\ h \in Incs
    BY <1>1, <1>7, ResolveLocks
  <2>3. tx[t].todo \in Seq(Incs)
    BY <2>1 DEF TxRecord
  <2>4. \A j, k \in DOMAIN tx[t].todo : j < k => tx[t].todo[j] < tx[t].todo[k]
    BY <2>1 DEF Ascends
  <2>5. /\ \A j, k \in DOMAIN tx'[t].todo : j < k => tx'[t].todo[j] < tx'[t].todo[k]
        /\ \A k \in DOMAIN tx'[t].todo : h < tx'[t].todo[k]
        /\ \A k \in DOMAIN tx'[t].todo : k + 1 \in DOMAIN tx[t].todo /\ tx'[t].todo[k] = tx[t].todo[k + 1]
    BY <2>2, <2>3, <2>4, TailAscends
  <2> HIDE DEF h
  <2>6. KeysFirst(tx'[t])
    BY <2>1, <2>2, LockNames DEF KeysFirst
  <2>7. \A i \in Incs : RecoveryKey(i) \in tx'[t].held => RecoveryKey(i) \in tx[t].held \/ i = h
    BY <2>2, LockNames
  <2>8. Ascends(tx'[t])
    <3>1. tx'[t].left \subseteq tx'[t].alerts /\ tx'[t].left # tx'[t].alerts
      BY <2>1, <2>2 DEF Ascends
    <3>2. ASSUME Cardinality(tx'[t].alerts) = 1, NEW i \in Incs, NEW k \in DOMAIN tx'[t].todo,
                 RecoveryKey(i) \in tx'[t].held
          PROVE  i < tx'[t].todo[k]
      BY <2>1, <2>2, <2>5, <2>7, <3>2 DEF Ascends
    <3> QED BY <2>5, <3>1, <3>2 DEF Ascends
  <2>9. \A i \in Incs : RecoveryKey(i) \in tx'[t].held => RecoveryKey(i) \in tx[t].held \/ Free(t, RecoveryKey(i))
    BY <2>2, <2>7
  <2> QED BY <1>1, <2>2, <2>6, <2>8, <2>9, OrderedMoves
<1>8. ASSUME NEW t \in Txs, insertTimelineEntryTx(t) PROVE DeadlockInv'
  <2>1. KeysFirst(tx[t]) /\ Ascends(tx[t])
    BY <1>1, <1>8, ResolveNotes DEF DeadlockInv, KeysBeforeRows, TakenInOrder, Resolves
  <2>2. /\ tx'[t].pc = "load" /\ tx'[t].alerts = tx[t].alerts /\ tx'[t].left = tx[t].left
        /\ tx'[t].todo = tx[t].todo /\ tx'[t].held = tx[t].held \cup {Row(tx[t].inc)}
        /\ tx[t].pc = "note" /\ tx[t].inc \in Incs
        /\ \A u \in Txs : u # t => tx'[u] = tx[u]
    BY <1>1, <1>8, ResolveNotes
  <2>3. \A i \in Incs : /\ RecoveryKey(i) \in tx'[t].held <=> RecoveryKey(i) \in tx[t].held
                        /\ Row(i) \in tx'[t].held => Row(i) \in tx[t].held \/ i = tx[t].inc
    BY <2>2, LockNames
  <2>4. KeysFirst(tx'[t])
    BY <2>1, <2>2, <2>3 DEF KeysFirst
  <2>5. Ascends(tx'[t])
    BY <2>1, <2>2, <2>3 DEF Ascends
  <2> QED BY <1>1, <2>2, <2>3, <2>4, <2>5, OrderedMoves
<1>9. CASE Operator \/ UNCHANGED incidentVars
  <2>1. UNCHANGED tx
    BY <1>9, OperatorKeepsTxs DEF incidentVars
  <2> QED BY <1>1, <2>1 DEF DeadlockInv, KeysBeforeRows, KeysAreExclusive, TakenInOrder, Resolves, KeysFirst, Ascends,
         Row, RecoveryKey
<1> QED BY <1>2, <1>3, <1>4, <1>5, <1>6, <1>7, <1>8, <1>9 DEF IncidentsNext, AlertTransaction

\* Transactions that resolve one alert each never wait for each other in a circle: each takes the keys
\* of its incidents in ascending order, and an incident's row only under its key.
THEOREM SingleResolvesAreOrdered == IncidentsSpec => []SingleResolvesNeverDeadlock
<1>1. IncidentsInit => DeadlockInv
  <2> SUFFICES ASSUME IncidentsInit PROVE DeadlockInv
    OBVIOUS
  <2>1. \A t \in Txs : tx[t].op # "resolve" /\ tx[t].held = {}
    BY IncidentsStart, IdleIsRecord DEF None
  <2> QED BY <2>1, IncidentsStart DEF DeadlockInv, KeysBeforeRows, KeysAreExclusive, TakenInOrder, Resolves
<1>2. DeadlockInv => SingleResolvesNeverDeadlock
  <2> SUFFICES ASSUME DeadlockInv, NEW t \in Txs, NEW u \in Txs,
                      Cardinality(tx[t].alerts) = 1, Cardinality(tx[u].alerts) = 1,
                      WaitsFor(t, u), WaitsFor(u, t)
               PROVE  FALSE
    BY DEF SingleResolvesNeverDeadlock
  <2>1. t # u /\ tx[t].op = "resolve" /\ tx[u].op = "resolve"
    BY DEF WaitsFor
  <2>2. KeysFirst(tx[t]) /\ KeysFirst(tx[u]) /\ Ascends(tx[t]) /\ Ascends(tx[u])
    BY <2>1 DEF DeadlockInv, KeysBeforeRows, TakenInOrder, Resolves
  <2>3. ASSUME NEW x \in Txs, NEW y \in Txs, x # y, WaitsFor(x, y), KeysFirst(tx[x]), KeysFirst(tx[y])
        PROVE  tx[x].pc # "note"
    <3> SUFFICES ASSUME tx[x].pc = "note" PROVE FALSE
      OBVIOUS
    <3>1. tx[x].inc \in Incs /\ Row(tx[x].inc) \in tx[y].held
      BY <2>3 DEF WaitsFor, DeadlockInv, IncidentsTypes
    <3>2. RecoveryKey(tx[x].inc) \in tx[x].held /\ RecoveryKey(tx[x].inc) \in tx[y].held
      BY <2>3, <3>1 DEF KeysFirst
    <3> QED BY <2>3, <3>1, <3>2 DEF DeadlockInv, KeysAreExclusive
  <2>4. ASSUME NEW x \in Txs, NEW y \in Txs, WaitsFor(x, y), tx[x].pc # "note"
        PROVE  /\ 1 \in DOMAIN tx[x].todo /\ Head(tx[x].todo) = tx[x].todo[1]
               /\ Head(tx[x].todo) \in Incs /\ RecoveryKey(Head(tx[x].todo)) \in tx[y].held
    <3>1. tx[x].todo # <<>> /\ RecoveryKey(Head(tx[x].todo)) \in tx[y].held
      BY <2>4 DEF WaitsFor
    <3>2. tx[x].todo \in Seq(Incs)
      <4>1. tx[x] \in TxRecord
        BY DEF DeadlockInv, IncidentsTypes
      <4> QED BY <4>1 DEF TxRecord
    <3> QED BY <3>1, <3>2, HeadTailProperties, EmptySeq
  <2>5. /\ 1 \in DOMAIN tx[t].todo /\ Head(tx[t].todo) = tx[t].todo[1] /\ Head(tx[t].todo) \in Incs
        /\ RecoveryKey(Head(tx[t].todo)) \in tx[u].held
    BY <2>1, <2>2, <2>3, <2>4
  <2>6. /\ 1 \in DOMAIN tx[u].todo /\ Head(tx[u].todo) = tx[u].todo[1] /\ Head(tx[u].todo) \in Incs
        /\ RecoveryKey(Head(tx[u].todo)) \in tx[t].held
    BY <2>1, <2>2, <2>3, <2>4
  <2>7. Head(tx[t].todo) < Head(tx[u].todo) /\ Head(tx[u].todo) < Head(tx[t].todo)
    BY <2>2, <2>5, <2>6 DEF Ascends
  <2>8. Head(tx[t].todo) \in Nat /\ Head(tx[u].todo) \in Nat
    BY <2>5, <2>6, IncidentsAssumption
  <2> QED BY <2>7, <2>8
<1> QED BY <1>1, <1>2, OrderStep, PTL DEF IncidentsSpec


\* The times at which alerts closed have a last one.
LEMMA MaxOfIsOne ==
    ASSUME NEW n \in Nat, NEW S \in SUBSET (1..n), S # {}
    PROVE  MaxOf(S) \in S
<1>1. S \in SUBSET Nat /\ IsFiniteSet(S)
  <2>1. IsFiniteSet(1..n)
    BY FS_Interval
  <2>2. IsFiniteSet(S)
    BY <2>1, FS_Subset
  <2> QED BY <2>2
<1> DEFINE c == Cardinality(S)
<1>2. c \in Nat /\ c # 0
  BY <1>1, FS_CardinalityType, FS_EmptySet
<1>3. PICK s \in [1..c -> S] : \A j, k \in 1..c : j < k => s[j] < s[k]
  BY <1>1, SortedExists
<1>4. \A x \in S : \E k \in 1..c : s[k] = x
  BY <1>1, <1>3, SortedOnto
<1> HIDE DEF c
<1>5. s[c] \in S /\ c \in 1..c
  BY <1>2, <1>3
<1>6. ASSUME NEW y \in S PROVE y <= s[c]
  <2>1. PICK k \in 1..c : s[k] = y
    BY <1>4
  <2>2. CASE k = c
    BY <1>1, <1>5, <2>1, <2>2
  <2>3. CASE k # c
    <3>1. k < c
      BY <1>2, <2>3
    <3>2. s[k] < s[c]
      BY <1>3, <1>5, <3>1
    <3>3. y \in Nat /\ s[c] \in Nat
      BY <1>1, <1>5
    <3> QED BY <2>1, <3>2, <3>3
  <2> QED BY <2>2, <2>3
<1> QED BY <1>5, <1>6 DEF MaxOf

\* What a transaction sees closed has a time that is a marker, and so has the last of them.
LEMMA SeenMarkers ==
    ASSUME IncidentsTypes, AlertsAreOwned, NEW t \in Txs, NEW i \in Incs, AllResolvedSeen(t, i)
    PROVE  resolvedAfter(t, i) \in Markers /\ <<i, resolvedAfter(t, i)>> \in Incs \X Markers
<1>1. ASSUME NEW a \in LinkedAlerts(i) PROVE ResolvedAtSeen(t, a) \in Markers
  <2>1. a \in Alts /\ <<i, a>> \in links
    BY DEF LinkedAlerts
  <2>2. CASE a \in tx[t].alerts
    BY <2>2 DEF AlertsAreOwned, ResolvedAtSeen
  <2>3. CASE a \notin tx[t].alerts
    <3>1. alt[a].status \notin OpenStatuses /\ alt[a].status # None
      BY <2>1, <2>3 DEF AllResolvedSeen, StatusSeen, AlertsAreOwned
    <3>2. alt[a].status = "resolved"
      BY <2>1, <3>1 DEF IncidentsTypes
    <3> QED BY <2>1, <2>3, <3>2 DEF AlertsAreOwned, ResolvedAtSeen
  <2> QED BY <2>2, <2>3
<1> DEFINE S == {ResolvedAtSeen(t, a) : a \in LinkedAlerts(i)}
<1>2. S \in SUBSET (1..MaxResolves) /\ S # {} /\ MaxResolves \in Nat
  BY <1>1, IncidentsAssumption DEF AllResolvedSeen, Markers
<1>3. MaxOf(S) \in S
  BY <1>2, MaxOfIsOne
<1>4. resolvedAfter(t, i) \in S
  BY <1>3 DEF resolvedAfter
<1> QED BY <1>2, <1>4 DEF Markers

\* A step of one transaction before its commit: its alerts are its own.
LEMMA OwnedMoves ==
    ASSUME AlertsAreOwned, NEW t \in Txs, \A u \in Txs : u # t => tx'[u] = tx[u], UNCHANGED <<alt, links>>,
           tx'[t].op = "fire" => /\ alt[tx'[t].alert].status = None
                                 /\ \A u \in Txs : u # t /\ Fires(u) => tx[u].alert # tx'[t].alert,
           tx'[t].op # "resolve" => tx'[t].alerts = {},
           tx'[t].op = "resolve" => tx'[t].at \in Markers,
           \A a \in tx'[t].alerts : /\ alt[a].status \in OpenStatuses /\ AlertRow(a) \in tx'[t].held
                                    /\ \A u \in Txs : u # t => a \notin tx[u].alerts
    PROVE  AlertsAreOwned'
<1> USE DEF Fires, Resolves
<1>1. /\ \A u \in Txs : tx'[u].op = "fire" => alt[tx'[u].alert].status = None
      /\ \A u, w \in Txs : tx'[u].op = "fire" /\ tx'[w].op = "fire" /\ tx'[u].alert = tx'[w].alert => u = w
  BY DEF AlertsAreOwned
<1>2. \A u \in Txs : /\ tx'[u].op # "resolve" => tx'[u].alerts = {}
                     /\ tx'[u].op = "resolve" => tx'[u].at \in Markers
  BY DEF AlertsAreOwned
<1>3. \A u \in Txs : \A a \in tx'[u].alerts : alt[a].status \in OpenStatuses /\ AlertRow(a) \in tx'[u].held
  BY DEF AlertsAreOwned
<1>4. \A u, w \in Txs, a \in Alts : a \in tx'[u].alerts /\ a \in tx'[w].alerts => u = w
  BY DEF AlertsAreOwned
<1>5. Markers' = Markers /\ \A a : AlertRow(a)' = AlertRow(a)
  BY DEF Markers, AlertRow
<1> QED BY <1>1, <1>2, <1>3, <1>4, <1>5 DEF AlertsAreOwned

LEMMA OwnedStep == IncidentsTypes /\ AlertsAreOwned /\ [IncidentsNext]_incidentVars => AlertsAreOwned'
<1> SUFFICES ASSUME IncidentsTypes, AlertsAreOwned, [IncidentsNext]_incidentVars PROVE AlertsAreOwned'
  OBVIOUS
<1>1. IncidentsTypes' /\ Markers' = Markers /\ \A a : AlertRow(a)' = AlertRow(a)
  BY IncidentsTypesStep DEF Markers, AlertRow
<1>2. ASSUME NEW t \in Txs, NEW m \in Mons, NEW k \in Kinds, createAlert(t, m, k) PROVE AlertsAreOwned'
  <2>1. /\ tx'[t].op = "fire" /\ tx'[t].alerts = {} /\ tx'[t].alert \in Alts \ Inserted
        /\ UNCHANGED <<alt, links>> /\ \A u \in Txs : u # t => tx'[u] = tx[u]
    BY <1>2, FireBegins
  <2>2. alt[tx'[t].alert].status = None /\ \A u \in Txs : tx[u].alert # tx'[t].alert
    BY <2>1 DEF Inserted
  <2> QED BY <2>1, <2>2, OwnedMoves
<1>3. ASSUME NEW t \in Txs, findOrCreateAutoIncidentTx(t) PROVE AlertsAreOwned'
  <2>1. /\ tx[t].op = "fire" /\ tx'[t].op = "fire" /\ tx'[t].alerts = tx[t].alerts /\ tx'[t].alert = tx[t].alert
        /\ UNCHANGED <<alt, links>> /\ \A u \in Txs : u # t => tx'[u] = tx[u]
    BY <1>3, FireFinds
  <2>2. /\ tx'[t].alerts = {} /\ alt[tx'[t].alert].status = None
        /\ \A u \in Txs : u # t /\ Fires(u) => tx[u].alert # tx'[t].alert
    BY <2>1 DEF AlertsAreOwned, Fires, Resolves
  <2> QED BY <2>1, <2>2, OwnedMoves
<1>4. ASSUME NEW t \in Txs, ensureAutoIncidentForAlertTx(t) PROVE AlertsAreOwned'
  <2> DEFINE x == tx[t]
  <2>1. /\ x.op = "fire" /\ x.alert \in Alts /\ x.inc \in Incs /\ tx' = [tx EXCEPT ![t] = IdleTx]
        /\ alt'[x.alert].status = "active" /\ \A a \in Alts : a # x.alert => alt'[a] = alt[a]
        /\ links' = links \cup {<<x.inc, x.alert>>}
    BY <1>4, FireCommits
  <2>2. tx'[t] = IdleTx /\ \A u \in Txs : u # t => tx'[u] = tx[u]
    BY <2>1, TxEnds
  <2>3. alt[x.alert].status = None
    BY <2>1 DEF AlertsAreOwned, Fires
  <2> HIDE DEF x
  <2>4. \A u \in Txs : Fires(u)' => u # t /\ Fires(u) /\ tx'[u] = tx[u]
    BY <2>2, IdleIsRecord DEF Fires, None
  <2>5. \A u \in Txs : Fires(u)' => tx[u].alert \in Alts /\ tx[u].alert # x.alert
    BY <2>1, <2>4 DEF AlertsAreOwned, Fires, IncidentsTypes, x
  <2>6. \A u \in Txs : tx'[u].alerts \subseteq tx[u].alerts /\ tx[u].alerts \subseteq Alts
    <3>1. \A u \in Txs : tx[u].alerts \subseteq Alts
      BY DEF IncidentsTypes, TxRecord
    <3> QED BY <2>2, <3>1, IdleIsRecord
  <2>7. \A u \in Txs : x.alert \notin tx[u].alerts
    BY <2>3 DEF AlertsAreOwned, OpenStatuses, None
  <2>8. \A u \in Txs : \A a \in tx'[u].alerts : alt'[a].status \in OpenStatuses /\ AlertRow(a) \in tx'[u].held
    <3> SUFFICES ASSUME NEW u \in Txs, NEW a \in tx'[u].alerts
                 PROVE  alt'[a].status \in OpenStatuses /\ AlertRow(a) \in tx'[u].held
      OBVIOUS
    <3>1. u # t
      BY <2>2, IdleIsRecord
    <3>2. a \in tx[u].alerts /\ a \in Alts /\ a # x.alert /\ tx'[u] = tx[u]
      BY <2>2, <2>6, <2>7, <3>1
    <3> QED BY <2>1, <3>2 DEF AlertsAreOwned
  <2>9. \A u \in Txs : /\ ~Resolves(u)' => tx'[u].alerts = {}
                       /\ Resolves(u)' => tx'[u].at \in Markers
    BY <2>2, IdleIsRecord DEF AlertsAreOwned, Resolves, None
  <2>10. /\ \A i \in Incs, a \in Alts : <<i, a>> \in links' => alt'[a].status # None
         /\ \A a \in Alts : alt'[a].status = "resolved" => alt'[a].at \in Markers
    BY <2>1, <2>3 DEF AlertsAreOwned, None
  <2>11. \A u \in Txs : Fires(u)' => alt'[tx'[u].alert].status = None
    BY <2>1, <2>4, <2>5 DEF AlertsAreOwned
  <2>12. /\ \A u, w \in Txs : Fires(u)' /\ Fires(w)' /\ tx'[u].alert = tx'[w].alert => u = w
         /\ \A u, w \in Txs, a \in Alts : a \in tx'[u].alerts /\ a \in tx'[w].alerts => u = w
    BY <2>4, <2>6 DEF AlertsAreOwned
  <2> QED BY <1>1, <2>8, <2>9, <2>10, <2>11, <2>12 DEF AlertsAreOwned, Fires, Resolves
<1>5. ASSUME NEW t \in Txs, NEW S \in SUBSET Alts, ResolveAlert(t, S) PROVE AlertsAreOwned'
  <2>1. /\ tx'[t].op = "resolve" /\ tx'[t].alerts = {a \in S : alt[a].status \in OpenStatuses}
        /\ tx'[t].at = clock /\ clock <= MaxResolves /\ tx'[t].held = {AlertRow(a) : a \in tx'[t].alerts}
        /\ \A a \in S : Free(t, AlertRow(a))
        /\ UNCHANGED <<alt, links>> /\ \A u \in Txs : u # t => tx'[u] = tx[u]
    BY <1>5, ResolveBegins
  <2>2. tx'[t].at \in Markers
    BY <2>1, IncidentsAssumption DEF IncidentsTypes, Markers
  <2>3. \A a \in tx'[t].alerts : /\ alt[a].status \in OpenStatuses /\ AlertRow(a) \in tx'[t].held
                                 /\ \A u \in Txs : u # t => a \notin tx[u].alerts
    BY <2>1 DEF Free, AlertsAreOwned
  <2> QED BY <2>1, <2>2, <2>3, OwnedMoves
<1>6. ASSUME NEW t \in Txs, tx[t].op = "resolve", tx'[t].op = "resolve", tx'[t].alerts = tx[t].alerts, tx'[t].at = tx[t].at,
             tx[t].held \subseteq tx'[t].held, UNCHANGED <<alt, links>>, \A u \in Txs : u # t => tx'[u] = tx[u]
      PROVE  AlertsAreOwned'
  <2>1. /\ tx'[t].at \in Markers
        /\ \A a \in tx'[t].alerts : alt[a].status \in OpenStatuses /\ AlertRow(a) \in tx'[t].held
    BY <1>6 DEF AlertsAreOwned, Resolves
  <2>2. \A a \in tx'[t].alerts : \A u \in Txs : u # t => a \notin tx[u].alerts
    <3>1. tx[t].alerts \subseteq Alts
      BY DEF IncidentsTypes, TxRecord
    <3> QED BY <1>6, <3>1 DEF AlertsAreOwned
  <2> QED BY <1>6, <2>1, <2>2, OwnedMoves
<1>7. ASSUME NEW t \in Txs, loadIncidentIDsForAlertTx(t) PROVE AlertsAreOwned'
  BY <1>6, <1>7, ResolveLoads
<1>8. ASSUME NEW t \in Txs, lockIncidentRecoveryKeyTx(t) PROVE AlertsAreOwned'
  BY <1>6, <1>8, ResolveLocks
<1>9. ASSUME NEW t \in Txs, insertTimelineEntryTx(t) PROVE AlertsAreOwned'
  BY <1>6, <1>9, ResolveNotes
<1>10. ASSUME NEW t \in Txs, CommitResolve(t) PROVE AlertsAreOwned'
  <2> DEFINE x == tx[t]
  <2>1. /\ x.op = "resolve" /\ tx' = [tx EXCEPT ![t] = IdleTx] /\ UNCHANGED links
        /\ \A a \in x.alerts : alt'[a].status = "resolved" /\ alt'[a].at = x.at
        /\ \A a \in Alts \ x.alerts : alt'[a] = alt[a]
    BY <1>10, ResolveCommits
  <2>2. tx'[t] = IdleTx /\ \A u \in Txs : u # t => tx'[u] = tx[u]
    BY <2>1, TxEnds
  <2>3. x.at \in Markers /\ \A a \in x.alerts : alt[a].status \in OpenStatuses
    BY <2>1 DEF AlertsAreOwned, Resolves
  <2> HIDE DEF x
  <2>4. \A u \in Txs : Fires(u)' => /\ u # t /\ Fires(u) /\ tx'[u] = tx[u] /\ tx[u].alert \in Alts
                                    /\ alt[tx[u].alert].status = None
    BY <2>2, IdleIsRecord DEF Fires, None, IncidentsTypes, AlertsAreOwned
  <2>5. \A u \in Txs : Fires(u)' => alt'[tx'[u].alert].status = None
    BY <2>1, <2>3, <2>4 DEF OpenStatuses, None
  <2>6. \A u \in Txs : tx'[u].alerts \subseteq tx[u].alerts /\ tx[u].alerts \subseteq Alts
    <3>1. \A u \in Txs : tx[u].alerts \subseteq Alts
      BY DEF IncidentsTypes, TxRecord
    <3> QED BY <2>2, <3>1, IdleIsRecord
  <2>7. \A u \in Txs : \A a \in tx'[u].alerts : alt'[a].status \in OpenStatuses /\ AlertRow(a) \in tx'[u].held
    <3> SUFFICES ASSUME NEW u \in Txs, NEW a \in tx'[u].alerts
                 PROVE  alt'[a].status \in OpenStatuses /\ AlertRow(a) \in tx'[u].held
      OBVIOUS
    <3>1. u # t
      BY <2>2, IdleIsRecord
    <3>2. a \in tx[u].alerts /\ a \in Alts /\ a \notin x.alerts /\ tx'[u] = tx[u]
      BY <2>2, <2>6, <3>1 DEF AlertsAreOwned, x
    <3> QED BY <2>1, <3>2 DEF AlertsAreOwned
  <2>8. \A u \in Txs : /\ ~Resolves(u)' => tx'[u].alerts = {}
                       /\ Resolves(u)' => tx'[u].at \in Markers
    BY <2>2, IdleIsRecord DEF AlertsAreOwned, Resolves, None
  <2>9. /\ \A i \in Incs, a \in Alts : <<i, a>> \in links' => alt'[a].status # None
        /\ \A a \in Alts : alt'[a].status = "resolved" => alt'[a].at \in Markers
    BY <2>1, <2>3 DEF AlertsAreOwned, None
  <2>10. /\ \A u, w \in Txs : Fires(u)' /\ Fires(w)' /\ tx'[u].alert = tx'[w].alert => u = w
         /\ \A u, w \in Txs, a \in Alts : a \in tx'[u].alerts /\ a \in tx'[w].alerts => u = w
    BY <2>4, <2>6 DEF AlertsAreOwned
  <2> QED BY <1>1, <2>5, <2>7, <2>8, <2>9, <2>10 DEF AlertsAreOwned, Fires, Resolves
<1>11. ASSUME NEW t \in Txs, Rollback(t) PROVE AlertsAreOwned'
  <2>1. tx' = [tx EXCEPT ![t] = IdleTx] /\ UNCHANGED <<alt, links>>
    BY <1>11 DEF Rollback
  <2>2. tx'[t].op = None /\ tx'[t].alerts = {} /\ \A u \in Txs : u # t => tx'[u] = tx[u]
    BY <2>1, TxEnds, IdleIsRecord
  <2>3. tx'[t].op # "fire" /\ tx'[t].op # "resolve"
    BY <2>2 DEF None
  <2> QED BY <2>1, <2>2, <2>3, OwnedMoves
<1>12. CASE Operator
  <2>1. UNCHANGED tx
    BY <1>12, OperatorKeepsTxs
  <2>2. \A a \in Alts : alt'[a] = alt[a] \/ (alt[a].status \in OpenStatuses /\ alt'[a].status \in OpenStatuses)
    BY <1>12, OperatorDoes
  <2>3. \A i \in Incs, a \in Alts : <<i, a>> \notin links /\ <<i, a>> \in links' => alt[a].status # None
    <3>1. \A i \in Incs, a \in Alts :
             /\ <<i, a>> \in links /\ <<i, a>> \notin links' => i \in handEdited'
             /\ <<i, a>> \notin links /\ <<i, a>> \in links'
                   => /\ alt[a].status # None /\ alt' = alt
                      /\ Closing(a) => i \in handEdited'
      BY <1>12, OperatorDoes
    <3> QED BY <3>1
  <2>4. \A u \in Txs : /\ tx[u].alerts \subseteq Alts
                       /\ Fires(u) => tx[u].alert \in Alts
    BY DEF IncidentsTypes, TxRecord, Fires
  <2>5. \A u \in Txs : Fires(u) => alt'[tx[u].alert].status = None
    BY <2>2, <2>4 DEF AlertsAreOwned, OpenStatuses, None
  <2>6. \A u \in Txs : \A a \in tx[u].alerts : alt'[a].status \in OpenStatuses
    BY <2>2, <2>4 DEF AlertsAreOwned
  <2>7. \A i \in Incs, a \in Alts : <<i, a>> \in links' => alt'[a].status # None
    BY <2>2, <2>3 DEF AlertsAreOwned, OpenStatuses, None
  <2>8. \A a \in Alts : alt'[a].status = "resolved" => alt'[a].at \in Markers
    BY <2>2 DEF AlertsAreOwned, OpenStatuses
  <2> QED BY <1>1, <2>1, <2>5, <2>6, <2>7, <2>8 DEF AlertsAreOwned, Fires, Resolves
<1>13. CASE UNCHANGED incidentVars
  BY <1>1, <1>13 DEF AlertsAreOwned, Fires, Resolves, incidentVars
<1> QED BY <1>2, <1>3, <1>4, <1>5, <1>7, <1>8, <1>9, <1>10, <1>11, <1>12, <1>13 DEF IncidentsNext, AlertTransaction


\* A step that is not the commit of a resolve leaves the linked alerts of an incident, and what is known
\* of them, alone, or there is an open one among them that nobody is closing.
KeptOrReopened(i) ==
    \/ \E a \in LinkedAlerts(i)' : alt'[a].status \in OpenStatuses /\ \A u \in Txs : a \notin tx'[u].alerts
    \/ /\ LinkedAlerts(i)' = LinkedAlerts(i)
       /\ \A a \in LinkedAlerts(i) :
             \/ alt'[a] = alt[a]
             \/ alt'[a].status \in OpenStatuses /\ \A u \in Txs : a \notin tx'[u].alerts

LEMMA OpeningKeeps ==
    ASSUME IncidentsTypes, AlertsAreOwned, NEW t \in Txs, ensureAutoIncidentForAlertTx(t), NEW i \in Incs
    PROVE  KeptOrReopened(i) /\ \A u \in Txs : \A a \in tx[u].alerts : <<i, a>> \in links' => <<i, a>> \in links
<1> DEFINE x == tx[t]
<1>1. /\ x.op = "fire" /\ x.alert \in Alts /\ x.inc \in Incs /\ tx' = [tx EXCEPT ![t] = IdleTx]
      /\ alt'[x.alert].status = "active" /\ \A a \in Alts : a # x.alert => alt'[a] = alt[a]
      /\ links' = links \cup {<<x.inc, x.alert>>}
  BY FireCommits
<1>2. alt[x.alert].status = None
  BY <1>1 DEF AlertsAreOwned, Fires
<1>3. \A u \in Txs : x.alert \notin tx[u].alerts
  BY <1>2 DEF AlertsAreOwned, OpenStatuses, None
<1>4. \A u \in Txs : tx'[u].alerts = {} \/ tx'[u] = tx[u]
  BY <1>1, TxEnds, IdleIsRecord
<1> HIDE DEF x
<1>5. CASE i = x.inc
  BY <1>1, <1>3, <1>4, <1>5 DEF KeptOrReopened, LinkedAlerts, OpenStatuses
<1>6. CASE i # x.inc
  <2>1. LinkedAlerts(i)' = LinkedAlerts(i)
    BY <1>1, <1>6 DEF LinkedAlerts
  <2>2. \A a \in LinkedAlerts(i) : a \in Alts /\ a # x.alert
    BY <1>1, <1>2 DEF LinkedAlerts, AlertsAreOwned
  <2> QED BY <1>1, <1>6, <2>1, <2>2 DEF KeptOrReopened
<1>7. \A u \in Txs : \A a \in tx[u].alerts : <<i, a>> \in links' => <<i, a>> \in links
  BY <1>1, <1>3
<1> QED BY <1>5, <1>6, <1>7

LEMMA OperatorKeeps ==
    ASSUME IncidentsTypes, AlertsAreOwned, Operator
    PROVE  /\ handEdited \subseteq handEdited'
           /\ \A i \in Incs \ handEdited' :
                 KeptOrReopened(i) /\ \A u \in Txs : \A a \in tx[u].alerts : <<i, a>> \in links' => <<i, a>> \in links
<1>1. UNCHANGED <<tx, notes>> /\ handEdited \subseteq handEdited' /\ links' \subseteq Incs \X Alts
  BY OperatorKeepsTxs, OperatorDoes
<1>2. \A i \in Incs, a \in Alts :
         /\ <<i, a>> \in links /\ <<i, a>> \notin links' => i \in handEdited'
         /\ <<i, a>> \notin links /\ <<i, a>> \in links'
               => /\ alt[a].status # None /\ alt' = alt
                  /\ Closing(a) => i \in handEdited'
  BY OperatorDoes
<1>3. \A a \in Alts :
         \/ alt'[a] = alt[a]
         \/ alt[a].status \in OpenStatuses /\ alt'[a].status \in OpenStatuses /\ \A t \in Txs : AlertRow(a) \notin tx[t].held
  <2>1. \A a \in Alts :
           \/ alt'[a] = alt[a]
           \/ /\ alt[a].status \in OpenStatuses /\ alt'[a].status \in OpenStatuses
              /\ \A t \in Txs : AlertRow(a) \notin tx[t].held
    BY OperatorDoes
  <2> QED BY <2>1
<1>4. \A a \in Alts : alt'[a] = alt[a] \/ (alt'[a].status \in OpenStatuses /\ \A u \in Txs : a \notin tx'[u].alerts)
  BY <1>1, <1>3 DEF AlertsAreOwned
<1>5. ASSUME NEW i \in Incs \ handEdited'
      PROVE  KeptOrReopened(i) /\ \A u \in Txs : \A a \in tx[u].alerts : <<i, a>> \in links' => <<i, a>> \in links
  <2>1. ASSUME NEW a \in Alts, <<i, a>> \notin links, <<i, a>> \in links'
        PROVE  alt'[a].status \in OpenStatuses /\ \A u \in Txs : a \notin tx[u].alerts
    <3>1. alt[a].status # None /\ alt' = alt /\ ~Closing(a)
      BY <1>2, <1>5, <2>1
    <3>2. alt[a].status \in OpenStatuses \cup {None, "resolved"}
      BY DEF IncidentsTypes
    <3> QED BY <3>1, <3>2 DEF Closing
  <2>2. \A a \in Alts : <<i, a>> \in links => <<i, a>> \in links'
    BY <1>2, <1>5
  <2>3. \A u \in Txs : \A a \in tx[u].alerts : <<i, a>> \in links' => <<i, a>> \in links
    BY <1>1, <2>1
  <2>4. CASE \E a \in Alts : <<i, a>> \notin links /\ <<i, a>> \in links'
    BY <1>1, <2>1, <2>3, <2>4 DEF KeptOrReopened, LinkedAlerts
  <2>5. CASE ~\E a \in Alts : <<i, a>> \notin links /\ <<i, a>> \in links'
    <3>1. LinkedAlerts(i)' = LinkedAlerts(i) /\ LinkedAlerts(i) \subseteq Alts
      BY <2>2, <2>5 DEF LinkedAlerts
    <3>2. \A a \in LinkedAlerts(i) :
             \/ alt'[a] = alt[a]
             \/ alt'[a].status \in OpenStatuses /\ \A u \in Txs : a \notin tx'[u].alerts
      BY <1>4, <3>1
    <3> QED BY <2>3, <3>1, <3>2 DEF KeptOrReopened
  <2> QED BY <2>4, <2>5
<1> QED BY <1>1, <1>5

\* What a transaction sees of an incident that has recovered it saw before, with the same time.
LEMMA SeenKept ==
    ASSUME NEW u \in Txs, NEW i \in Incs, KeptOrReopened(i), tx'[u].alerts = tx[u].alerts, tx'[u].at = tx[u].at,
           AllResolvedSeen(u, i)'
    PROVE  AllResolvedSeen(u, i) /\ resolvedAfter(u, i)' = resolvedAfter(u, i)
<1>1. LinkedAlerts(i)' # {} /\ \A a \in LinkedAlerts(i)' : ~(alt'[a].status \in OpenStatuses /\ a \notin tx'[u].alerts)
  BY DEF AllResolvedSeen, StatusSeen
<1>2. LinkedAlerts(i)' = LinkedAlerts(i) /\ \A a \in LinkedAlerts(i) : alt'[a] = alt[a]
  BY <1>1 DEF KeptOrReopened
<1>3. \A a \in LinkedAlerts(i) : /\ StatusSeen(u, a)' = StatusSeen(u, a)
                                 /\ ResolvedAtSeen(u, a)' = ResolvedAtSeen(u, a)
  BY <1>2 DEF StatusSeen, ResolvedAtSeen
<1>4. AllResolvedSeen(u, i)
  BY <1>2, <1>3 DEF AllResolvedSeen
<1>5. {ResolvedAtSeen(u, a)' : a \in LinkedAlerts(i)'} = {ResolvedAtSeen(u, a) : a \in LinkedAlerts(i)}
  BY <1>2, <1>3
<1>6. resolvedAfter(u, i)' = MaxOf({ResolvedAtSeen(u, a)' : a \in LinkedAlerts(i)'})
  BY DEF resolvedAfter, MaxOf
<1> QED BY <1>4, <1>5, <1>6 DEF resolvedAfter

LEMMA NotedKept ==
    ASSUME NEW u \in Txs, \A i \in Incs \ handEdited' : KeptOrReopened(i), handEdited \subseteq handEdited', UNCHANGED notes,
           NotedBy(u), tx'[u].alerts = tx[u].alerts, tx'[u].at = tx[u].at, tx'[u].wrote = tx[u].wrote,
           \A i \in Incs : RecoveryKey(i) \in tx'[u].held => RecoveryKey(i) \in tx[u].held
    PROVE  NotedBy(u)'
<1> SUFFICES ASSUME NEW i \in Incs \ handEdited', RecoveryKey(i) \in tx'[u].held, AllResolvedSeen(u, i)'
             PROVE  AlreadyRecorded(u, i)'
  BY DEF NotedBy, RecoveryKey
<1>1. AllResolvedSeen(u, i) /\ resolvedAfter(u, i)' = resolvedAfter(u, i)
  BY SeenKept
<1>2. AlreadyRecorded(u, i)
  BY <1>1 DEF NotedBy
<1> QED BY <1>1, <1>2 DEF AlreadyRecorded

\* One entry for an incident that has recovered stays the one entry.
NotedOnce(i) ==
    (LinkedAlerts(i) # {} /\ \A a \in LinkedAlerts(i) : alt[a].status = "resolved")
        => notes[<<i, MaxOf({alt[a].at : a \in LinkedAlerts(i)})>>] = 1

LEMMA OnceKept ==
    ASSUME NEW i \in Incs, KeptOrReopened(i), UNCHANGED notes, NotedOnce(i)
    PROVE  NotedOnce(i)'
<1> SUFFICES ASSUME LinkedAlerts(i)' # {}, \A a \in LinkedAlerts(i)' : alt'[a].status = "resolved"
             PROVE  notes[<<i, MaxOf({alt'[a].at : a \in LinkedAlerts(i)'})>>] = 1
  BY DEF NotedOnce, MaxOf
<1>1. LinkedAlerts(i)' = LinkedAlerts(i) /\ \A a \in LinkedAlerts(i) : alt'[a] = alt[a]
  BY DEF KeptOrReopened, OpenStatuses
<1>2. {alt'[a].at : a \in LinkedAlerts(i)'} = {alt[a].at : a \in LinkedAlerts(i)}
  BY <1>1
<1> QED BY <1>1, <1>2 DEF NotedOnce


LEMMA OnceForEach == RecoveryIsNotedOnce <=> \A i \in Incs \ handEdited : NotedOnce(i)
BY DEF RecoveryIsNotedOnce, NotedOnce

LEMMA EntriesAreCounts ==
    ASSUME IncidentsTypes, NEW u \in Txs, NEW x \in Incs \X Markers
    PROVE  notes[x] \in Nat /\ tx[u].wrote[x] \in Nat
<1>1. notes \in [Incs \X Markers -> Nat] /\ tx[u] \in TxRecord
  BY DEF IncidentsTypes
<1>2. tx[u].wrote \in [Incs \X Markers -> Nat]
  BY <1>1 DEF TxRecord
<1> QED BY <1>1, <1>2

\* A step of one transaction before its commit.
LEMMA RecoveryMoves ==
    ASSUME RecoveryInv, DeadlockInv', AlertsAreOwned', NEW t \in Txs, \A u \in Txs : u # t => tx'[u] = tx[u],
           UNCHANGED <<alt, links, notes, handEdited>>,
           tx'[t].op = "resolve" => VisitedBy(t)' /\ NotedBy(t)',
           \A x \in Incs \X Markers : /\ tx'[t].wrote[x] > 0 => RecoveryKey(x[1]) \in tx'[t].held
                                      /\ notes[x] + tx'[t].wrote[x] <= 1
    PROVE  RecoveryInv'
<1>1. \A i : KeptOrReopened(i) /\ LinkedAlerts(i)' = LinkedAlerts(i)
  BY DEF KeptOrReopened, LinkedAlerts
<1>2. LinkedIsVisited'
  <2> SUFFICES ASSUME NEW u \in Txs, Resolves(u)' PROVE VisitedBy(u)'
    BY DEF LinkedIsVisited
  <2>1. CASE u = t
    BY <2>1 DEF Resolves
  <2>2. CASE u # t
    <3>1. tx'[u] = tx[u] /\ VisitedBy(u)
      BY <2>2 DEF RecoveryInv, LinkedIsVisited, Resolves
    <3> QED BY <3>1 DEF VisitedBy, RecoveryKey
  <2> QED BY <2>1, <2>2
<1>3. LockedIsNoted'
  <2> SUFFICES ASSUME NEW u \in Txs, Resolves(u)' PROVE NotedBy(u)'
    BY DEF LockedIsNoted
  <2>1. CASE u = t
    BY <2>1 DEF Resolves
  <2>2. CASE u # t
    <3>1. tx'[u] = tx[u] /\ NotedBy(u)
      BY <2>2 DEF RecoveryInv, LockedIsNoted, Resolves
    <3> QED BY <1>1, <3>1, NotedKept
  <2> QED BY <2>1, <2>2
<1>4. WritesUnderKey'
  <2>1. \A u \in Txs, x \in Incs \X Markers :
           /\ tx'[u].wrote[x] > 0 => RecoveryKey(x[1]) \in tx'[u].held
           /\ notes[x] + tx'[u].wrote[x] <= 1
    BY DEF RecoveryInv, WritesUnderKey
  <2> QED BY <2>1 DEF WritesUnderKey, Markers, RecoveryKey
<1>5. RecoveryIsNotedOnce'
  <2>1. \A i \in Incs \ handEdited : NotedOnce(i)'
    BY <1>1, OnceKept, OnceForEach DEF RecoveryInv
  <2>2. RecoveryIsNotedOnce' <=> \A i \in Incs \ handEdited' : NotedOnce(i)'
    BY DEF RecoveryIsNotedOnce, NotedOnce
  <2> QED BY <2>1, <2>2
<1> QED BY <1>2, <1>3, <1>4, <1>5 DEF RecoveryInv

\* Begun or over, a transaction has written nothing.
LEMMA NothingWritten ==
    ASSUME RecoveryInv, NEW t \in Txs, tx'[t].wrote = NoEntries
    PROVE  \A x \in Incs \X Markers : /\ tx'[t].wrote[x] > 0 => RecoveryKey(x[1]) \in tx'[t].held
                                      /\ notes[x] + tx'[t].wrote[x] <= 1
<1> SUFFICES ASSUME NEW x \in Incs \X Markers PROVE tx'[t].wrote[x] = 0 /\ notes[x] + 0 <= 1
  OBVIOUS
<1>1. notes[x] \in Nat /\ tx[t].wrote[x] \in Nat /\ notes[x] + tx[t].wrote[x] <= 1
  BY EntriesAreCounts DEF RecoveryInv, DeadlockInv, WritesUnderKey
<1> QED BY <1>1, IdleIsRecord

LEMMA RecoveryLocks ==
    ASSUME RecoveryInv, DeadlockInv', AlertsAreOwned', NEW t \in Txs, lockIncidentRecoveryKeyTx(t)
    PROVE  RecoveryInv'
<1> DEFINE h == Head(tx[t].todo)
           m == resolvedAfter(t, h)
           due == AllResolvedSeen(t, h) /\ ~AlreadyRecorded(t, h)
<1>0. IncidentsTypes /\ AlertsAreOwned
  BY DEF RecoveryInv, DeadlockInv
<1>1. /\ tx[t].op = "resolve" /\ tx[t].todo # <<>> /\ h \in Incs
      /\ \A u \in Txs : u # t => tx'[u] = tx[u]
      /\ tx'[t].alerts = tx[t].alerts /\ tx'[t].left = tx[t].left /\ tx'[t].at = tx[t].at
      /\ tx'[t].todo = Tail(tx[t].todo) /\ tx'[t].held = tx[t].held \cup {RecoveryKey(h)}
      /\ due => tx'[t].wrote = Noted(tx[t].wrote, <<h, m>>)
      /\ ~due => tx'[t].wrote = tx[t].wrote
      /\ UNCHANGED <<alt, links, notes, handEdited>>
  BY <1>0, ResolveLocks
<1>2. VisitedBy(t) /\ NotedBy(t)
  BY <1>1 DEF RecoveryInv, LinkedIsVisited, LockedIsNoted, Resolves
<1>3. \A i : KeptOrReopened(i)
  BY <1>1 DEF KeptOrReopened, LinkedAlerts
<1>4. tx[t].wrote \in [Incs \X Markers -> Nat] /\ tx[t].todo \in Seq(Incs)
  <2>1. tx[t] \in TxRecord
    BY <1>0 DEF IncidentsTypes
  <2> QED BY <2>1 DEF TxRecord
<1>5. VisitedBy(t)'
  <2> SUFFICES ASSUME NEW i \in Incs \ handEdited, NEW a \in tx[t].alerts \ tx[t].left, <<i, a>> \in links,
                      RecoveryKey(i) \notin tx'[t].held
               PROVE  \E k \in DOMAIN Tail(tx[t].todo) : Tail(tx[t].todo)[k] = i
    BY <1>1 DEF VisitedBy, RecoveryKey
  <2>1. PICK k \in DOMAIN tx[t].todo : tx[t].todo[k] = i
    BY <1>1, <1>2 DEF VisitedBy
  <2>2. i # h
    BY <1>1
  <2>3. /\ Len(tx[t].todo) \in Nat /\ DOMAIN tx[t].todo = 1..Len(tx[t].todo) /\ h = tx[t].todo[1]
        /\ Tail(tx[t].todo) \in Seq(Incs) /\ Len(Tail(tx[t].todo)) = Len(tx[t].todo) - 1
        /\ \A n \in 1..Len(Tail(tx[t].todo)) : Tail(tx[t].todo)[n] = tx[t].todo[n + 1]
    BY <1>1, <1>4, HeadTailProperties
  <2>4. DOMAIN Tail(tx[t].todo) = 1..Len(Tail(tx[t].todo))
    BY <2>3
  <2>5. k \in 1..Len(tx[t].todo) /\ k # 1
    BY <2>1, <2>2, <2>3
  <2>6. k - 1 \in 1..Len(Tail(tx[t].todo)) /\ (k - 1) + 1 = k
    BY <2>3, <2>5
  <2> QED BY <2>1, <2>3, <2>4, <2>6
<1> HIDE DEF h
<1>6. ASSUME due PROVE <<h, m>> \in Incs \X Markers /\ notes[<<h, m>>] = 0 /\ tx[t].wrote[<<h, m>>] = 0
  <2>1. <<h, m>> \in Incs \X Markers
    BY <1>0, <1>1, <1>6, SeenMarkers
  <2>2. notes[<<h, m>>] \in Nat /\ tx[t].wrote[<<h, m>>] \in Nat
    BY <1>0, <2>1, EntriesAreCounts
  <2> QED BY <1>6, <2>1, <2>2 DEF AlreadyRecorded
<1>7. ASSUME due
      PROVE  /\ tx'[t].wrote[<<h, m>>] = 1
             /\ \A y \in Incs \X Markers : y # <<h, m>> => tx'[t].wrote[y] = tx[t].wrote[y]
  <2> DEFINE p == <<h, m>>
             v == tx[t].wrote
  <2>1. v \in [Incs \X Markers -> Nat] /\ tx'[t].wrote = Noted(v, p) /\ p \in Incs \X Markers /\ v[p] = 0
    BY <1>1, <1>4, <1>6, <1>7
  <2> HIDE DEF p, v
  <2>2. Noted(v, p)[p] = v[p] + 1 /\ \A y \in Incs \X Markers : y # p => Noted(v, p)[y] = v[y]
    BY <2>1, NotedIsCount
  <2>3. tx'[t].wrote[p] = 1 /\ \A y \in Incs \X Markers : y # p => tx'[t].wrote[y] = v[y]
    BY <2>1, <2>2
  <2> QED BY <2>3 DEF p, v
<1>8. NotedBy(t)'
  <2> SUFFICES ASSUME NEW i \in Incs \ handEdited, RecoveryKey(i) \in tx'[t].held, AllResolvedSeen(t, i)'
               PROVE  notes[<<i, resolvedAfter(t, i)'>>] + tx'[t].wrote[<<i, resolvedAfter(t, i)'>>] > 0
    BY <1>1 DEF NotedBy, RecoveryKey, AlreadyRecorded
  <2>1. AllResolvedSeen(t, i) /\ resolvedAfter(t, i)' = resolvedAfter(t, i)
    BY <1>1, <1>3, SeenKept
  <2> DEFINE n == resolvedAfter(t, i)
  <2>2. <<i, n>> \in Incs \X Markers
    BY <1>0, <2>1, SeenMarkers
  <2>3. CASE due /\ i = h
    <3>1. tx'[t].wrote[<<h, m>>] = 1
      BY <1>7, <2>3
    <3> QED BY <1>6, <2>1, <2>3, <3>1
  <2>4. CASE ~due \/ i # h
    <3>1. AlreadyRecorded(t, i)
      <4>1. CASE i = h
        BY <2>1, <2>4, <4>1
      <4>2. CASE i # h
        <5>1. RecoveryKey(i) \in tx[t].held
          BY <1>1, <4>2, LockNames
        <5> QED BY <1>2, <2>1, <5>1 DEF NotedBy
      <4> QED BY <4>1, <4>2
    <3>2. tx'[t].wrote[<<i, n>>] = tx[t].wrote[<<i, n>>]
      <4> HIDE DEF m, n
      <4>1. CASE ~due
        BY <1>1, <4>1
      <4>2. CASE due
        <5>1. <<i, n>> # <<h, m>>
          BY <2>4, <4>2
        <5> HIDE DEF due
        <5> QED BY <1>7, <2>2, <4>2, <5>1
      <4> QED BY <4>1, <4>2
    <3> QED BY <2>1, <3>1, <3>2 DEF AlreadyRecorded
  <2> QED BY <2>3, <2>4
<1>9. ASSUME NEW x \in Incs \X Markers
      PROVE  /\ tx'[t].wrote[x] > 0 => RecoveryKey(x[1]) \in tx'[t].held
             /\ notes[x] + tx'[t].wrote[x] <= 1
  <2>1. (tx[t].wrote[x] > 0 => RecoveryKey(x[1]) \in tx[t].held) /\ notes[x] + tx[t].wrote[x] <= 1
    BY DEF RecoveryInv, WritesUnderKey
  <2> HIDE DEF m
  <2>2. CASE due /\ x = <<h, m>>
    <3>1. tx'[t].wrote[x] = 1
      BY <1>7, <2>2
    <3>2. x[1] = h
      BY <2>2
    <3> QED BY <1>1, <1>6, <2>2, <3>1, <3>2
  <2>3. CASE ~due \/ x # <<h, m>>
    <3>1. tx'[t].wrote[x] = tx[t].wrote[x]
      <4> HIDE DEF due
      <4> QED BY <1>1, <1>7, <2>3
    <3> QED BY <1>1, <2>1, <3>1
  <2> QED BY <2>2, <2>3
<1> QED BY <1>1, <1>5, <1>8, <1>9, RecoveryMoves


\* A step that is not the commit of a resolve, and in which nobody writes.
LEMMA RecoveryElsewhere ==
    ASSUME RecoveryInv, DeadlockInv', AlertsAreOwned', handEdited \subseteq handEdited', UNCHANGED notes,
           \A u \in Txs : tx'[u] = tx[u] \/ (tx'[u] = IdleTx),
           \A i \in Incs \ handEdited' :
              KeptOrReopened(i) /\ \A u \in Txs : \A a \in tx[u].alerts : <<i, a>> \in links' => <<i, a>> \in links
    PROVE  RecoveryInv'
<1>1. \A u \in Txs : tx'[u].op = "resolve" => tx'[u] = tx[u]
  BY IdleIsRecord DEF None
<1>2. LinkedIsVisited'
  <2> SUFFICES ASSUME NEW u \in Txs, tx'[u].op = "resolve" PROVE VisitedBy(u)'
    BY DEF LinkedIsVisited, Resolves
  <2>1. tx'[u] = tx[u] /\ VisitedBy(u)
    BY <1>1 DEF RecoveryInv, LinkedIsVisited, Resolves
  <2> QED BY <2>1 DEF VisitedBy, RecoveryKey
<1>3. LockedIsNoted'
  <2> SUFFICES ASSUME NEW u \in Txs, tx'[u].op = "resolve" PROVE NotedBy(u)'
    BY DEF LockedIsNoted, Resolves
  <2>1. tx'[u] = tx[u] /\ NotedBy(u)
    BY <1>1 DEF RecoveryInv, LockedIsNoted, Resolves
  <2> QED BY <2>1, NotedKept
<1>4. WritesUnderKey'
  <2> SUFFICES ASSUME NEW u \in Txs, NEW x \in Incs \X Markers
               PROVE  /\ tx'[u].wrote[x] > 0 => RecoveryKey(x[1]) \in tx'[u].held
                      /\ notes[x] + tx'[u].wrote[x] <= 1
    BY DEF WritesUnderKey, Markers, RecoveryKey
  <2>1. CASE tx'[u] = tx[u]
    BY <2>1 DEF RecoveryInv, WritesUnderKey
  <2>2. CASE tx'[u] = IdleTx
    BY <2>2, NothingWritten, IdleIsRecord
  <2> QED BY <2>1, <2>2
<1>5. RecoveryIsNotedOnce'
  <2>1. \A i \in Incs \ handEdited' : NotedOnce(i)'
    BY OnceKept, OnceForEach DEF RecoveryInv
  <2>2. RecoveryIsNotedOnce' <=> \A i \in Incs \ handEdited' : NotedOnce(i)'
    BY DEF RecoveryIsNotedOnce, NotedOnce
  <2> QED BY <2>1, <2>2
<1> QED BY <1>2, <1>3, <1>4, <1>5 DEF RecoveryInv

\* The commit of a resolve touches only incidents whose keys it holds.
LEMMA RecoveryCommits ==
    ASSUME RecoveryInv, DeadlockInv', AlertsAreOwned', NEW t \in Txs, CommitResolve(t)
    PROVE  RecoveryInv'
<1> DEFINE x == tx[t]
<1>0. IncidentsTypes /\ AlertsAreOwned
  BY DEF RecoveryInv, DeadlockInv
<1>1. /\ x.op = "resolve" /\ x.left = {} /\ x.todo = <<>> /\ tx' = [tx EXCEPT ![t] = IdleTx]
      /\ \A a \in x.alerts : alt'[a].status = "resolved" /\ alt'[a].at = x.at
      /\ \A a \in Alts \ x.alerts : alt'[a] = alt[a]
      /\ \A k \in Incs \X Markers : notes'[k] = notes[k] + x.wrote[k]
      /\ UNCHANGED <<links, handEdited>>
  BY <1>0, ResolveCommits
<1>2. tx'[t] = IdleTx /\ \A u \in Txs : u # t => tx'[u] = tx[u]
  BY <1>0, <1>1, TxEnds
<1>3. VisitedBy(t) /\ NotedBy(t) /\ x.alerts \subseteq Alts
  <2>1. x \in TxRecord
    BY <1>0 DEF IncidentsTypes
  <2> QED BY <1>1, <2>1 DEF RecoveryInv, LinkedIsVisited, LockedIsNoted, Resolves, TxRecord
<1>4. ASSUME NEW i \in Incs \ handEdited, NEW a \in LinkedAlerts(i), a \in x.alerts
      PROVE  RecoveryKey(i) \in x.held
  <2>1. <<i, a>> \in links /\ DOMAIN x.todo = {}
    BY <1>1 DEF LinkedAlerts
  <2> QED BY <1>1, <1>3, <1>4, <2>1 DEF VisitedBy
<1>5. \A i : LinkedAlerts(i)' = LinkedAlerts(i) /\ LinkedAlerts(i) \subseteq Alts
  BY <1>1 DEF LinkedAlerts
<1>6. \A u \in Txs, k \in Incs \X Markers :
         /\ notes[k] \in Nat /\ tx[u].wrote[k] \in Nat /\ notes[k] + tx[u].wrote[k] <= 1
         /\ tx[u].wrote[k] > 0 => RecoveryKey(k[1]) \in tx[u].held
  BY <1>0, EntriesAreCounts DEF RecoveryInv, WritesUnderKey
<1>7. ASSUME NEW u \in Txs, u # t, NEW i \in Incs PROVE ~(RecoveryKey(i) \in tx[u].held /\ RecoveryKey(i) \in x.held)
  BY <1>7 DEF RecoveryInv, DeadlockInv, KeysAreExclusive
<1> HIDE DEF x
<1>8. LinkedIsVisited'
  <2> SUFFICES ASSUME NEW u \in Txs, tx'[u].op = "resolve" PROVE VisitedBy(u)'
    BY DEF LinkedIsVisited, Resolves
  <2>1. u # t
    BY <1>2, IdleIsRecord DEF None
  <2>2. tx'[u] = tx[u] /\ VisitedBy(u)
    BY <1>2, <2>1 DEF RecoveryInv, LinkedIsVisited, Resolves
  <2> QED BY <1>1, <2>2 DEF VisitedBy, RecoveryKey
<1>9. LockedIsNoted'
  <2> SUFFICES ASSUME NEW u \in Txs, tx'[u].op = "resolve", NEW i \in Incs \ handEdited,
                      RecoveryKey(i) \in tx'[u].held, AllResolvedSeen(u, i)'
               PROVE  notes'[<<i, resolvedAfter(u, i)'>>] + tx'[u].wrote[<<i, resolvedAfter(u, i)'>>] > 0
    BY <1>1 DEF LockedIsNoted, NotedBy, Resolves, RecoveryKey, AlreadyRecorded
  <2>1. u # t
    BY <1>2, IdleIsRecord DEF None
  <2>2. tx'[u] = tx[u] /\ NotedBy(u)
    BY <1>2, <2>1 DEF RecoveryInv, LockedIsNoted, Resolves
  <2>3. \A a \in LinkedAlerts(i) : a \notin x.alerts
    BY <1>4, <1>7, <2>1, <2>2
  <2>4. \A a \in LinkedAlerts(i) : alt'[a] = alt[a]
    BY <1>1, <1>5, <2>3
  <2>5. KeptOrReopened(i)
    BY <1>5, <2>4 DEF KeptOrReopened
  <2>6. AllResolvedSeen(u, i) /\ resolvedAfter(u, i)' = resolvedAfter(u, i)
    BY <2>2, <2>5, SeenKept
  <2> DEFINE k == <<i, resolvedAfter(u, i)>>
  <2>7. k \in Incs \X Markers
    BY <1>0, <2>6, SeenMarkers
  <2>8. notes[k] + tx[u].wrote[k] > 0
    BY <2>2, <2>6 DEF NotedBy, AlreadyRecorded
  <2>9. notes'[k] = notes[k] + x.wrote[k] /\ notes[k] \in Nat /\ x.wrote[k] \in Nat /\ tx[u].wrote[k] \in Nat
    BY <1>1, <1>6, <2>7 DEF x
  <2>10. notes'[k] + tx'[u].wrote[k] > 0
    <3> HIDE DEF k
    <3> QED BY <2>2, <2>8, <2>9
  <2> QED BY <2>6, <2>10
<1>10. WritesUnderKey'
  <2> SUFFICES ASSUME NEW u \in Txs, NEW k \in Incs \X Markers
               PROVE  /\ tx'[u].wrote[k] > 0 => RecoveryKey(k[1]) \in tx'[u].held
                      /\ notes'[k] + tx'[u].wrote[k] <= 1
    BY DEF WritesUnderKey, Markers, RecoveryKey
  <2>1. /\ notes'[k] = notes[k] + x.wrote[k] /\ notes[k] \in Nat /\ x.wrote[k] \in Nat
        /\ notes[k] + x.wrote[k] <= 1 /\ k[1] \in Incs
    BY <1>1, <1>6 DEF x
  <2>2. CASE u = t
    BY <1>2, <2>1, <2>2, IdleIsRecord
  <2>3. CASE u # t
    <3>1. /\ tx'[u] = tx[u] /\ tx[u].wrote[k] \in Nat /\ notes[k] + tx[u].wrote[k] <= 1
          /\ tx[u].wrote[k] > 0 => RecoveryKey(k[1]) \in tx[u].held
      BY <1>2, <1>6, <2>3
    <3>2. tx[u].wrote[k] = 0 \/ x.wrote[k] = 0
      BY <1>6, <1>7, <2>1, <2>3, <3>1 DEF x
    <3> QED BY <2>1, <3>1, <3>2
  <2> QED BY <2>2, <2>3
<1>11. ASSUME NEW i \in Incs \ handEdited PROVE NotedOnce(i)'
  <2>1. CASE \A a \in LinkedAlerts(i) : a \notin x.alerts
    <3> SUFFICES ASSUME LinkedAlerts(i)' # {}, \A a \in LinkedAlerts(i)' : alt'[a].status = "resolved"
                 PROVE  notes'[<<i, MaxOf({alt'[a].at : a \in LinkedAlerts(i)'})>>] = 1
      BY DEF NotedOnce, MaxOf
    <3> DEFINE S == {alt[a].at : a \in LinkedAlerts(i)}
    <3>1. \A a \in LinkedAlerts(i) : alt'[a] = alt[a]
      BY <1>1, <1>5, <2>1
    <3>2. {alt'[a].at : a \in LinkedAlerts(i)'} = S
      BY <1>5, <3>1
    <3>3. notes[<<i, MaxOf(S)>>] = 1
      BY <1>5, <3>1, OnceForEach DEF NotedOnce, RecoveryInv
    <3>4. S \in SUBSET (1..MaxResolves) /\ S # {} /\ MaxResolves \in Nat
      <4>1. \A a \in LinkedAlerts(i) : alt[a].at \in Markers
        BY <1>0, <1>5, <3>1 DEF AlertsAreOwned
      <4> QED BY <1>5, <4>1, IncidentsAssumption DEF Markers
    <3>5. <<i, MaxOf(S)>> \in Incs \X Markers
      <4>1. MaxOf(S) \in S
        <5> HIDE DEF S
        <5> QED BY <3>4, MaxOfIsOne
      <4> QED BY <3>4, <4>1 DEF Markers
    <3> DEFINE k == <<i, MaxOf(S)>>
    <3> HIDE DEF S
    <3>6. notes'[k] = notes[k] + x.wrote[k] /\ x.wrote[k] \in Nat /\ notes[k] + x.wrote[k] <= 1 /\ notes[k] = 1
      BY <1>1, <1>6, <3>3, <3>5 DEF x
    <3>7. notes'[k] = 1
      <4> HIDE DEF k
      <4> QED BY <3>6
    <3> QED BY <3>2, <3>7
  <2>2. CASE \E a \in LinkedAlerts(i) : a \in x.alerts
    <3> SUFFICES ASSUME LinkedAlerts(i)' # {}, \A a \in LinkedAlerts(i)' : alt'[a].status = "resolved"
                 PROVE  notes'[<<i, MaxOf({alt'[a].at : a \in LinkedAlerts(i)'})>>] = 1
      BY DEF NotedOnce, MaxOf
    <3>1. RecoveryKey(i) \in x.held
      BY <1>4, <2>2
    <3>2. \A a \in LinkedAlerts(i) : /\ StatusSeen(t, a) = alt'[a].status
                                     /\ ResolvedAtSeen(t, a) = alt'[a].at
      BY <1>1, <1>5 DEF StatusSeen, ResolvedAtSeen, x
    <3>3. AllResolvedSeen(t, i)
      BY <1>5, <3>2 DEF AllResolvedSeen, OpenStatuses
    <3>4. {alt'[a].at : a \in LinkedAlerts(i)'} = {ResolvedAtSeen(t, a) : a \in LinkedAlerts(i)}
      BY <1>5, <3>2
    <3>5. MaxOf({alt'[a].at : a \in LinkedAlerts(i)'}) = resolvedAfter(t, i)
      BY <3>4 DEF resolvedAfter
    <3> DEFINE k == <<i, resolvedAfter(t, i)>>
    <3>6. k \in Incs \X Markers
      BY <1>0, <3>3, SeenMarkers
    <3>7. notes[k] + x.wrote[k] > 0
      BY <1>3, <3>1, <3>3 DEF NotedBy, AlreadyRecorded, x
    <3>8. /\ notes'[k] = notes[k] + x.wrote[k] /\ notes[k] \in Nat /\ x.wrote[k] \in Nat
          /\ notes[k] + x.wrote[k] <= 1
      BY <1>1, <1>6, <3>6 DEF x
    <3>9. notes'[k] = 1
      <4> HIDE DEF k
      <4> QED BY <3>7, <3>8
    <3> QED BY <3>5, <3>9
  <2> QED BY <2>1, <2>2
<1>12. RecoveryIsNotedOnce'
  <2>1. RecoveryIsNotedOnce' <=> \A i \in Incs \ handEdited' : NotedOnce(i)'
    BY DEF RecoveryIsNotedOnce, NotedOnce
  <2> QED BY <1>1, <1>11, <2>1
<1> QED BY <1>8, <1>9, <1>10, <1>12 DEF RecoveryInv

LEMMA RecoveryStep == RecoveryInv /\ [IncidentsNext]_incidentVars => RecoveryInv'
<1> SUFFICES ASSUME RecoveryInv, [IncidentsNext]_incidentVars PROVE RecoveryInv'
  OBVIOUS
<1>0. IncidentsTypes /\ AlertsAreOwned /\ DeadlockInv
  BY DEF RecoveryInv, DeadlockInv
<1>1. DeadlockInv' /\ AlertsAreOwned'
  BY <1>0, OrderStep, OwnedStep
<1>2. ASSUME NEW t \in Txs, NEW m \in Mons, NEW k \in Kinds, createAlert(t, m, k) PROVE RecoveryInv'
  <2>1. /\ tx'[t].op # "resolve" /\ tx'[t].wrote = NoEntries /\ UNCHANGED <<alt, links, notes, handEdited>>
        /\ \A u \in Txs : u # t => tx'[u] = tx[u]
    BY <1>0, <1>2, FireBegins
  <2>2. \A x \in Incs \X Markers : /\ tx'[t].wrote[x] > 0 => RecoveryKey(x[1]) \in tx'[t].held
                                   /\ notes[x] + tx'[t].wrote[x] <= 1
    BY <2>1, NothingWritten
  <2> QED BY <1>1, <2>1, <2>2, RecoveryMoves
<1>3. ASSUME NEW t \in Txs, findOrCreateAutoIncidentTx(t) PROVE RecoveryInv'
  <2>1. /\ tx'[t].op # "resolve" /\ tx'[t].wrote = tx[t].wrote /\ tx[t].held \subseteq tx'[t].held
        /\ UNCHANGED <<alt, links, notes, handEdited>> /\ \A u \in Txs : u # t => tx'[u] = tx[u]
    BY <1>0, <1>3, FireFinds
  <2>2. \A x \in Incs \X Markers : /\ tx'[t].wrote[x] > 0 => RecoveryKey(x[1]) \in tx'[t].held
                                   /\ notes[x] + tx'[t].wrote[x] <= 1
    BY <2>1 DEF RecoveryInv, WritesUnderKey
  <2> QED BY <1>1, <2>1, <2>2, RecoveryMoves
<1>4. ASSUME NEW t \in Txs, ensureAutoIncidentForAlertTx(t) PROVE RecoveryInv'
  <2>1. tx' = [tx EXCEPT ![t] = IdleTx] /\ UNCHANGED <<notes, handEdited>>
    BY <1>4 DEF ensureAutoIncidentForAlertTx
  <2>2. \A u \in Txs : tx'[u] = tx[u] \/ tx'[u] = IdleTx
    BY <1>0, <2>1, TxEnds
  <2>3. \A i \in Incs : KeptOrReopened(i) /\ \A u \in Txs : \A a \in tx[u].alerts : <<i, a>> \in links' => <<i, a>> \in links
    BY <1>0, <1>4, OpeningKeeps
  <2> QED BY <1>1, <2>1, <2>2, <2>3, RecoveryElsewhere
<1>5. ASSUME NEW t \in Txs, NEW S \in SUBSET Alts, ResolveAlert(t, S) PROVE RecoveryInv'
  <2>1. /\ tx'[t].wrote = NoEntries /\ tx'[t].left = tx'[t].alerts /\ tx'[t].held = {AlertRow(a) : a \in tx'[t].alerts}
        /\ UNCHANGED <<alt, links, notes, handEdited>> /\ \A u \in Txs : u # t => tx'[u] = tx[u]
    BY <1>0, <1>5, ResolveBegins
  <2>2. \A x \in Incs \X Markers : /\ tx'[t].wrote[x] > 0 => RecoveryKey(x[1]) \in tx'[t].held
                                   /\ notes[x] + tx'[t].wrote[x] <= 1
    BY <2>1, NothingWritten
  <2>3. \A i \in Incs : RecoveryKey(i) \notin tx'[t].held
    BY <2>1, LockNames
  <2>4. VisitedBy(t)' /\ NotedBy(t)'
    BY <2>1, <2>3 DEF VisitedBy, NotedBy, RecoveryKey
  <2> QED BY <1>1, <2>1, <2>2, <2>4, RecoveryMoves
<1>6. ASSUME NEW t \in Txs, tx[t].op = "resolve", tx'[t].alerts = tx[t].alerts, tx'[t].at = tx[t].at,
             tx'[t].wrote = tx[t].wrote, tx[t].held \subseteq tx'[t].held, VisitedBy(t)',
             \A i \in Incs : RecoveryKey(i) \in tx'[t].held => RecoveryKey(i) \in tx[t].held,
             UNCHANGED <<alt, links, notes, handEdited>>, \A u \in Txs : u # t => tx'[u] = tx[u]
      PROVE  RecoveryInv'
  <2>1. \A i : KeptOrReopened(i)
    BY <1>6 DEF KeptOrReopened, LinkedAlerts
  <2>2. NotedBy(t)
    BY <1>6 DEF RecoveryInv, LockedIsNoted, Resolves
  <2>3. NotedBy(t)'
    BY <1>6, <2>1, <2>2, NotedKept
  <2>4. \A x \in Incs \X Markers : /\ tx'[t].wrote[x] > 0 => RecoveryKey(x[1]) \in tx'[t].held
                                   /\ notes[x] + tx'[t].wrote[x] <= 1
    BY <1>6 DEF RecoveryInv, WritesUnderKey
  <2> QED BY <1>1, <1>6, <2>3, <2>4, RecoveryMoves
<1>7. ASSUME NEW t \in Txs, loadIncidentIDsForAlertTx(t) PROVE RecoveryInv'
  <2>1. /\ tx[t].op = "resolve" /\ tx[t].todo = <<>> /\ tx'[t].alerts = tx[t].alerts /\ tx'[t].at = tx[t].at
        /\ tx'[t].wrote = tx[t].wrote /\ tx'[t].held = tx[t].held
        /\ UNCHANGED <<alt, links, notes, handEdited>> /\ \A u \in Txs : u # t => tx'[u] = tx[u]
    BY <1>0, <1>7, ResolveLoads
  <2>2. PICK a \in tx[t].left :
          /\ tx'[t].left = tx[t].left \ {a}
          /\ tx'[t].todo = SortedIncidents({i \in Incs : <<i, a>> \in links})
    BY <1>0, <1>7, ResolveLoads
  <2>3. \A i \in Incs : <<i, a>> \in links => \E k \in DOMAIN tx'[t].todo : tx'[t].todo[k] = i
    <3> DEFINE ids == {i \in Incs : <<i, a>> \in links}
    <3>1. \A i \in ids : \E k \in DOMAIN SortedIncidents(ids) : SortedIncidents(ids)[k] = i
      BY SortedIncidentsIs
    <3> QED BY <2>2, <3>1
  <2>4. VisitedBy(t) /\ DOMAIN tx[t].todo = {}
    BY <2>1 DEF RecoveryInv, LinkedIsVisited, Resolves
  <2>5. VisitedBy(t)'
    <3> SUFFICES ASSUME NEW i \in Incs \ handEdited, NEW b \in tx[t].alerts \ tx'[t].left, <<i, b>> \in links
                 PROVE  (\E k \in DOMAIN tx'[t].todo : tx'[t].todo[k] = i) \/ RecoveryKey(i) \in tx'[t].held
      BY <2>1 DEF VisitedBy, RecoveryKey
    <3>1. CASE b = a
      BY <2>3, <3>1
    <3>2. CASE b # a
      BY <2>1, <2>2, <2>4, <3>2 DEF VisitedBy
    <3> QED BY <3>1, <3>2
  <2> QED BY <1>6, <2>1, <2>5
<1>8. ASSUME NEW t \in Txs, lockIncidentRecoveryKeyTx(t) PROVE RecoveryInv'
  BY <1>1, <1>8, RecoveryLocks
<1>9. ASSUME NEW t \in Txs, insertTimelineEntryTx(t) PROVE RecoveryInv'
  <2>1. /\ tx[t].op = "resolve" /\ tx'[t].alerts = tx[t].alerts /\ tx'[t].left = tx[t].left /\ tx'[t].at = tx[t].at
        /\ tx'[t].todo = tx[t].todo /\ tx'[t].wrote = tx[t].wrote /\ tx'[t].held = tx[t].held \cup {Row(tx[t].inc)}
        /\ UNCHANGED <<alt, links, notes, handEdited>> /\ \A u \in Txs : u # t => tx'[u] = tx[u]
    BY <1>0, <1>9, ResolveNotes
  <2>2. \A i \in Incs : RecoveryKey(i) \in tx'[t].held <=> RecoveryKey(i) \in tx[t].held
    BY <2>1, LockNames
  <2>3. VisitedBy(t)
    BY <2>1 DEF RecoveryInv, LinkedIsVisited, Resolves
  <2>4. VisitedBy(t)'
    <3> SUFFICES ASSUME NEW i \in Incs \ handEdited, NEW b \in tx[t].alerts \ tx[t].left, <<i, b>> \in links
                 PROVE  (\E k \in DOMAIN tx[t].todo : tx[t].todo[k] = i) \/ RecoveryKey(i) \in tx'[t].held
      BY <2>1 DEF VisitedBy, RecoveryKey
    <3> QED BY <2>2, <2>3 DEF VisitedBy
  <2> QED BY <1>6, <2>1, <2>2, <2>4
<1>10. ASSUME NEW t \in Txs, CommitResolve(t) PROVE RecoveryInv'
  BY <1>1, <1>10, RecoveryCommits
<1>11. ASSUME NEW t \in Txs, Rollback(t) PROVE RecoveryInv'
  <2>1. tx' = [tx EXCEPT ![t] = IdleTx] /\ UNCHANGED <<alt, links, notes, handEdited>>
    BY <1>11 DEF Rollback
  <2>2. \A u \in Txs : tx'[u] = tx[u] \/ tx'[u] = IdleTx
    BY <1>0, <2>1, TxEnds
  <2>3. \A i : KeptOrReopened(i)
    BY <2>1 DEF KeptOrReopened, LinkedAlerts
  <2> QED BY <1>1, <2>1, <2>2, <2>3, RecoveryElsewhere
<1>12. CASE Operator
  <2>1. UNCHANGED <<tx, notes>>
    BY <1>12, OperatorKeepsTxs
  <2> QED BY <1>0, <1>1, <1>12, <2>1, OperatorKeeps, RecoveryElsewhere
<1>13. CASE UNCHANGED incidentVars
  <2>1. UNCHANGED <<tx, alt, links, notes, handEdited>>
    BY <1>13 DEF incidentVars
  <2>2. \A i : KeptOrReopened(i)
    BY <2>1 DEF KeptOrReopened, LinkedAlerts
  <2> QED BY <1>1, <2>1, <2>2, RecoveryElsewhere
<1> QED BY <1>2, <1>3, <1>4, <1>5, <1>7, <1>8, <1>9, <1>10, <1>11, <1>12, <1>13 DEF IncidentsNext, AlertTransaction

\* When the last open alert of an incident closes, its timeline says so, once and with the right time,
\* whoever closed the others and when: RecordAlertRecoveryIfNeededTx counts and notes under the key of
\* the incident, and keeps the key to its commit.
THEOREM RecoveriesAreNotedOnce == IncidentsSpec => []RecoveryIsNotedOnce
<1>1. IncidentsInit => RecoveryInv
  <2> SUFFICES ASSUME IncidentsInit PROVE RecoveryInv
    OBVIOUS
  <2>1. \A t \in Txs : /\ tx[t].op # "resolve" /\ tx[t].op # "fire" /\ tx[t].held = {} /\ tx[t].alerts = {}
                       /\ tx[t].wrote = NoEntries
    BY IncidentsStart, IdleIsRecord DEF None
  <2>2. DeadlockInv
    BY <2>1, IncidentsStart DEF DeadlockInv, KeysBeforeRows, KeysAreExclusive, TakenInOrder, Resolves
  <2>3. AlertsAreOwned
    BY <2>1, IncidentsStart DEF AlertsAreOwned, Fires, Resolves, None
  <2>4. LinkedIsVisited /\ LockedIsNoted
    BY <2>1 DEF LinkedIsVisited, LockedIsNoted, Resolves
  <2>5. WritesUnderKey
    <3> SUFFICES ASSUME NEW t \in Txs, NEW x \in Incs \X Markers PROVE tx[t].wrote[x] = 0 /\ notes[x] = 0
      BY DEF WritesUnderKey
    <3> QED BY <2>1, IncidentsStart, IdleIsRecord
  <2>6. RecoveryIsNotedOnce
    BY IncidentsStart DEF RecoveryIsNotedOnce, LinkedAlerts
  <2> QED BY <2>2, <2>3, <2>4, <2>5, <2>6 DEF RecoveryInv
<1>2. RecoveryInv => RecoveryIsNotedOnce
  BY DEF RecoveryInv
<1> QED BY <1>1, <1>2, RecoveryStep, PTL DEF IncidentsSpec

=============================================================================
