------------------------------ MODULE StatusPush ------------------------------
(***************************************************************************)
(* Browser notifications of a public status page: every replica turns the  *)
(* timeline of a monitor into rows of a delivery ledger, claims rows and   *)
(* sends them to the browsers subscribed to the page.                      *)
(*                                                                         *)
(* One monitor shown on one page.  A delivery row is known by the interval *)
(* it announces (the unique index on page and interval).  Statements are   *)
(* atomic; replicas interleave between them.  One unit of the clock stands *)
(* for the pass budget of a replica.                                       *)
(***************************************************************************)
EXTENDS Naturals, Sequences, FiniteSets

CONSTANTS
    PushReplicas,       \* the status-page processes
    Browsers,           \* subscription endpoints
    FlapDebounce,       \* pushFlapDebounce
    PushHorizon,        \* pushNotificationHorizon
    ClaimStaleAfter,    \* pushClaimStaleAfter
    DeliveryRetention,  \* pushDeliveryRetention
    FailureCap,         \* pushFailureCap
    SubscriptionCap,    \* STATUS_PAGE_PUSH_MAX_SUBSCRIPTIONS_PER_PAGE
    MaxTransitions,     \* bound: transitions of the monitor
    MaxPushEdits,       \* bound: changes by visitors and operators
    MaxPushFaults,      \* bound: failures
    MaxPushTime         \* bound: the clock

\* A claim is not taken for dead while its pass may still run, and the ledger
\* outlives the lookback of the reconciler.
ASSUME PushAssumption ==
    /\ ClaimStaleAfter > 1 /\ DeliveryRetention >= PushHorizon
    /\ PushHorizon \in Nat /\ ClaimStaleAfter \in Nat /\ DeliveryRetention \in Nat
    /\ FlapDebounce \in Nat /\ FailureCap \in Nat \ {0} /\ SubscriptionCap \in Nat
    /\ MaxTransitions \in Nat /\ MaxPushEdits \in Nat /\ MaxPushFaults \in Nat
    /\ MaxPushTime \in Nat

VARIABLES
    pushTime,
    intervals,   \* monitor_state_intervals: sequence of [state, trigger, at]
    shown,       \* the monitor is enabled, not deleted and not in maintenance
    pushOn,      \* enable_push_notifications of the page
    subscribers, \* status_page_push_subscriptions: browser -> failure_count
    deliveries,  \* status_page_push_deliveries: interval -> [status, created, claimed]
    sender,      \* pushSender of each replica
    received,    \* observer: pushes the browsers' services accepted
    resent,      \* observer: intervals whose claim was lost
    pushEdits, pushFaults

pushVars == <<pushTime, intervals, shown, pushOn, subscribers, deliveries, sender,
              received, resent, pushEdits, pushFaults>>

SenderIdle == [pc |-> "idle", began |-> 0, claims |-> {}, row |-> 0,
               to |-> {}, sent |-> 0, failed |-> 0]

\* Interval numbers: the one the monitor begins with, and its transitions.
Numbers == 1..(MaxTransitions + 1)

IntervalRow == [state : {"up", "down", "suspect"}, trigger : BOOLEAN, at : Nat]
DeliveryRow == [status : {"pending", "sending", "sent", "failed"}, created : Nat, claimed : Nat]
Sender == [pc : {"idle", "claim", "next", "send"}, began : Nat, claims : SUBSET Numbers,
           row : {0} \cup Numbers, to : SUBSET Browsers, sent : Nat, failed : Nat]

PushTypeOK ==
    /\ pushTime \in Nat /\ pushEdits \in Nat /\ pushFaults \in Nat
    /\ intervals \in Seq(IntervalRow) /\ DOMAIN intervals \subseteq Numbers
    /\ shown \in BOOLEAN /\ pushOn \in BOOLEAN
    /\ DOMAIN subscribers \subseteq Browsers /\ subscribers \in [DOMAIN subscribers -> Nat]
    /\ DOMAIN deliveries \subseteq DOMAIN intervals /\ deliveries \in [DOMAIN deliveries -> DeliveryRow]
    /\ sender \in [PushReplicas -> Sender]
    /\ received \in [Numbers -> [Browsers -> Nat]] /\ resent \subseteq Numbers

PushInit ==
    /\ pushTime = 0
    /\ intervals = <<[state |-> "up", trigger |-> FALSE, at |-> 0]>>
    /\ shown = TRUE /\ pushOn = TRUE
    /\ subscribers = [b \in Browsers |-> 0]
    /\ deliveries = <<>>
    /\ sender = [r \in PushReplicas |-> SenderIdle]
    /\ received = [i \in Numbers |-> [b \in Browsers |-> 0]]
    /\ resent = {} /\ pushEdits = 0 /\ pushFaults = 0

PushFault == pushFaults < MaxPushFaults /\ pushFaults' = pushFaults + 1
PushEdit == pushEdits < MaxPushEdits /\ pushEdits' = pushEdits + 1

Without(f, S) == [x \in DOMAIN f \ S |-> f[x]]

-----------------------------------------------------------------------------
(* The monitor, its page and the visitors *)

\* A transition opens an interval; `trigger`: by a result or the watchdog.
TransitionOpens(s, trigger) ==
    /\ Len(intervals) <= MaxTransitions
    /\ s # intervals[Len(intervals)].state
    /\ intervals' = Append(intervals, [state |-> s, trigger |-> trigger, at |-> pushTime])
    /\ UNCHANGED <<pushTime, shown, pushOn, subscribers, deliveries, sender, received, resent,
                   pushEdits, pushFaults>>

\* A pause or a maintenance window starts or ends; the page opts out or in.
EditPage ==
    /\ PushEdit
    /\ \/ shown' = ~shown /\ UNCHANGED pushOn
       \/ pushOn' = ~pushOn /\ UNCHANGED shown
    /\ UNCHANGED <<pushTime, intervals, subscribers, deliveries, sender, received, resent, pushFaults>>

\* Subscribe: refused at the cap, also for a browser that is already there;
\* otherwise the row is inserted, or refreshed with no failures.
Subscribe(b) ==
    /\ Cardinality(DOMAIN subscribers) < SubscriptionCap
    /\ subscribers' = [x \in DOMAIN subscribers \cup {b} |->
                          IF x = b THEN 0 ELSE subscribers[x]]
    /\ UNCHANGED <<pushTime, intervals, shown, pushOn, deliveries, sender, received, resent, pushFaults>>

Unsubscribe(b) ==
    /\ b \in DOMAIN subscribers
    /\ subscribers' = Without(subscribers, {b})
    /\ UNCHANGED <<pushTime, intervals, shown, pushOn, deliveries, sender, received, resent, pushFaults>>

\* The handlers: a page that has not opted in takes no subscription, but one
\* can always be taken back.
HandlePushSubscribe(b) == PushEdit /\ pushOn /\ Subscribe(b)
HandlePushUnsubscribe(b) == PushEdit /\ Unsubscribe(b)

-----------------------------------------------------------------------------
(* The reconciler *)

Told(i) == intervals[i].state \in {"down", "up"}

\* The state of the last up or down interval before i, "none" if there is none.
PreviousState(i) ==
    LET earlier == {j \in 1..(i - 1) : Told(j)}
    IN  IF earlier = {} THEN "none"
        ELSE intervals[CHOOSE j \in earlier : \A k \in earlier : k <= j].state

classifyPushTransition(i) ==
    \/ intervals[i].state = "down" /\ PreviousState(i) # "down"
    \/ intervals[i].state = "up" /\ PreviousState(i) = "down"

\* The lookback window of the reconciler.
Eligible(i) ==
    /\ intervals[i].at + PushHorizon > pushTime
    /\ intervals[i].at + FlapDebounce < pushTime

\* The ledger already knows the interval (ON CONFLICT DO NOTHING).
NeverRecorded(i) == FALSE
Recorded(i) == i \in DOMAIN deliveries

Notifiable ==
    {i \in DOMAIN intervals : Told(i) /\ intervals[i].trigger /\ Eligible(i)
                              /\ classifyPushTransition(i) /\ ~Recorded(i)}

\* A pass begins, with the reconciler's one statement; when that fails the pass
\* goes on.
reconcileNotifications(r) ==
    /\ sender[r].pc = "idle"
    /\ sender' = [sender EXCEPT ![r] = [@ EXCEPT !.pc = "claim", !.began = pushTime]]
    /\ \/ /\ deliveries' = IF shown /\ pushOn /\ DOMAIN subscribers # {}
                           THEN [i \in DOMAIN deliveries \cup Notifiable |->
                                    IF i \in Notifiable
                                    THEN [status |-> "pending", created |-> pushTime, claimed |-> 0]
                                    ELSE deliveries[i]]
                           ELSE deliveries
          /\ UNCHANGED pushFaults
       \/ PushFault /\ UNCHANGED deliveries
    /\ UNCHANGED <<pushTime, intervals, shown, pushOn, subscribers, received, resent, pushEdits>>

-----------------------------------------------------------------------------
(* The sender *)

ClaimableSoon(i) == deliveries[i].status \in {"pending", "sending"}
Claimable(i) ==
    \/ deliveries[i].status = "pending"
    \/ deliveries[i].status = "sending" /\ deliveries[i].claimed + ClaimStaleAfter < pushTime

\* ClaimDeliveries: the claims are committed before anything is sent.
ClaimDeliveries(r) ==
    LET claims == {i \in DOMAIN deliveries : Claimable(i)} IN
    /\ sender[r].pc = "claim"
    /\ sender' = IF claims = {} THEN [sender EXCEPT ![r] = SenderIdle]
                 ELSE [sender EXCEPT ![r] = [@ EXCEPT !.pc = "next", !.claims = claims]]
    /\ deliveries' = [i \in DOMAIN deliveries |->
                         IF i \in claims
                         THEN [deliveries[i] EXCEPT !.status = "sending", !.claimed = pushTime]
                         ELSE deliveries[i]]
    /\ UNCHANGED <<pushTime, intervals, shown, pushOn, subscribers, received, resent,
                   pushEdits, pushFaults>>

SubscriptionsForPage == DOMAIN subscribers

\* The fan-out starts with the browsers subscribed now; a failed query leaves
\* the row claimed.
deliver(r, i) ==
    /\ sender[r].pc = "next" /\ i \in sender[r].claims
    /\ \/ /\ sender' = [sender EXCEPT ![r] = [@ EXCEPT !.pc = "send", !.row = i,
                              !.to = SubscriptionsForPage, !.sent = 0, !.failed = 0]]
          /\ UNCHANGED <<resent, pushFaults>>
       \/ /\ PushFault
          /\ sender' = [sender EXCEPT ![r] = [@ EXCEPT !.claims = sender[r].claims \ {i}]]
          /\ resent' = resent \cup {i}
    /\ UNCHANGED <<pushTime, intervals, shown, pushOn, subscribers, deliveries, received, pushEdits>>

\* The subscription's health; the row may be gone meanwhile.
RecordSendResult(b, ok) ==
    IF b \in DOMAIN subscribers
    THEN [subscribers EXCEPT ![b] = IF ok THEN 0 ELSE @ + 1] ELSE subscribers

\* One request and what it does to the subscription: only 404 and 410 delete
\* it, a rejected credential does not count against it.
sendPush(r, b) ==
    LET i == sender[r].row
        to == sender[r].to \ {b} IN
    /\ sender[r].pc = "send" /\ b \in sender[r].to
    /\ \/ /\ received' = [received EXCEPT ![i][b] = @ + 1]
          /\ subscribers' = RecordSendResult(b, TRUE)
          /\ sender' = [sender EXCEPT ![r] = [@ EXCEPT !.to = to, !.sent = sender[r].sent + 1]]
          /\ UNCHANGED pushFaults
       \/ /\ PushFault
          /\ sender' = [sender EXCEPT ![r] = [@ EXCEPT !.to = to, !.failed = sender[r].failed + 1]]
          /\ UNCHANGED received
          /\ \/ subscribers' = Without(subscribers, {b})   \* gone
             \/ subscribers' = RecordSendResult(b, FALSE)
             \/ UNCHANGED subscribers                      \* config error
    /\ UNCHANGED <<pushTime, intervals, shown, pushOn, deliveries, resent, pushEdits>>

\* CompleteDelivery: failed only when every browser failed.  When the write
\* fails the row stays claimed.
CompleteDelivery(r) ==
    LET i == sender[r].row IN
    /\ sender[r].pc = "send" /\ sender[r].to = {}
    /\ sender' = IF sender[r].claims = {i} THEN [sender EXCEPT ![r] = SenderIdle]
                 ELSE [sender EXCEPT ![r] = [@ EXCEPT !.pc = "next", !.row = 0,
                                                    !.claims = sender[r].claims \ {i}]]
    /\ \/ /\ deliveries' = IF i \in DOMAIN deliveries
                           THEN [deliveries EXCEPT ![i].status =
                                    IF sender[r].sent > 0 \/ sender[r].failed = 0 THEN "sent" ELSE "failed"]
                           ELSE deliveries
          /\ UNCHANGED <<resent, pushFaults>>
       \/ PushFault /\ resent' = resent \cup {i} /\ UNCHANGED deliveries
    /\ UNCHANGED <<pushTime, intervals, shown, pushOn, subscribers, received, pushEdits>>

\* The process stops, or the pass runs out of its budget: the rows it claimed
\* stay in "sending".
PassLost(r) ==
    /\ sender[r].pc # "idle" /\ PushFault
    /\ sender' = [sender EXCEPT ![r] = SenderIdle]
    /\ resent' = resent \cup sender[r].claims
    /\ UNCHANGED <<pushTime, intervals, shown, pushOn, subscribers, deliveries, received, pushEdits>>

\* The hourly prune of a replica's loop: old ledger rows, and subscriptions that
\* failed too often (one not seen for long leaves the table as by Unsubscribe).
PrunedSoon(i) == deliveries[i].created + 1 <= pushTime
Pruned(i) == deliveries[i].created + DeliveryRetention < pushTime

PruneSubscriptions ==
    Without(subscribers, {b \in DOMAIN subscribers : subscribers[b] >= FailureCap})

prune(r) ==
    /\ sender[r].pc = "idle"
    /\ deliveries' = Without(deliveries, {i \in DOMAIN deliveries : Pruned(i)})
    /\ subscribers' = PruneSubscriptions
    /\ UNCHANGED <<pushTime, intervals, shown, pushOn, sender, received, resent, pushEdits, pushFaults>>

\* Time passes; a pass ends within its budget.
PushTick ==
    /\ pushTime < MaxPushTime
    /\ \A r \in PushReplicas : sender[r].pc # "idle" => pushTime - sender[r].began < 1
    /\ pushTime' = pushTime + 1
    /\ UNCHANGED <<intervals, shown, pushOn, subscribers, deliveries, sender, received, resent,
                   pushEdits, pushFaults>>

PushNext ==
    \/ \E s \in {"up", "down"}, trigger \in BOOLEAN : TransitionOpens(s, trigger)
    \/ TransitionOpens("suspect", TRUE)
    \/ EditPage
    \/ \E b \in Browsers : HandlePushSubscribe(b) \/ HandlePushUnsubscribe(b)
    \/ \E r \in PushReplicas :
          \/ reconcileNotifications(r) \/ ClaimDeliveries(r) \/ CompleteDelivery(r)
          \/ PassLost(r) \/ prune(r)
          \/ \E i \in DOMAIN deliveries : deliver(r, i)
          \/ \E b \in Browsers : sendPush(r, b)
    \/ PushTick

PushSpec == PushInit /\ [][PushNext]_pushVars

-----------------------------------------------------------------------------
(* Properties *)

\* However many replicas reconcile and send, and although the ledger forgets, a
\* browser is told of a transition once, unless the pass that held the claim was
\* lost or could not record its outcome ("exactly-once across status-page
\* replicas").
ToldOnce ==
    \A i \in DOMAIN intervals \ resent, b \in Browsers : received[i][b] <= 1

===============================================================================
