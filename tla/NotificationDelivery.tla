-------------------------- MODULE NotificationDelivery --------------------------
(***************************************************************************)
(* Asynchronous dispatch: the alerter publishes the events of an alert for *)
(* one channel, workers deliver them with retries to the provider.         *)
(*                                                                         *)
(* One alert and one channel, which is either a pager that keeps an        *)
(* incident of its own (opened, acknowledged and closed by key) or a       *)
(* fan-out that texts several recipients.  Delays are left out: a message  *)
(* that waits may come back at any time.  What a provider does with a      *)
(* request it does when the worker sends it.                               *)
(***************************************************************************)
EXTENDS Integers, FiniteSets

CONSTANTS
    Recipients,      \* phone numbers of the fan-out channel
    MaxAttempts,     \* MaxDeliver
    MaxSendFaults    \* failed sends, commits and workers (bound)

ASSUME DeliveryAssumption ==
    MaxAttempts \in Nat \ {0} /\ MaxSendFaults \in Nat /\ IsFiniteSet(Recipients)

VARIABLES
    kind,        \* "pager" or "sms"
    channelOn,   \* the channel exists, is active and has its type
    alert,       \* "active", "acknowledged" or "resolved"
    slots,       \* events claimed in alert_notification_states
    mail,        \* envelope -> its message in the stream
    incident,    \* at the pager: "none", "open", "acked" or "closed"
    ledger,      \* alert_notification_recipient_deliveries: <<event, recipient>>
    texts,       \* <<event, recipient>> -> texts sent
    refused,     \* <<event, recipient>> refused for good (history)
    gaveUp,      \* events whose message was dropped undelivered (history)
    doubtful,    \* events accepted without a record, or published twice (history)
    sendFaults

deliveryVars == <<kind, channelOn, alert, slots, mail, incident, ledger, texts,
                  refused, gaveUp, doubtful, sendFaults>>

Events == {"created", "acknowledged", "resolved"}
\* An event is published again when its claim did not commit.
Envelopes == Events \X {1, 2}
Event(m) == m[1]
NoMail == [st |-> "none", n |-> 0, to |-> {}]

DeliveryInit ==
    /\ kind \in {"pager", "sms"} /\ channelOn = TRUE
    /\ alert = "active" /\ slots = {}
    /\ mail = [m \in Envelopes |-> NoMail]
    /\ incident = "none"
    /\ ledger = {} /\ texts = [x \in Events \X Recipients |-> 0]
    /\ refused = {} /\ gaveUp = {} /\ doubtful = {} /\ sendFaults = 0

SendFault == sendFaults < MaxSendFaults /\ sendFaults' = sendFaults + 1

-----------------------------------------------------------------------------
(* The alert and the alerter *)

\* A delivery in progress holds a share lock on the alert, unless it delivers a
\* resolve: an update of the alert waits for it.
UpdateNeverWaits == FALSE
UpdateWaits == \E m \in Envelopes : mail[m].st = "sending" /\ Event(m) # "resolved"

Acknowledge ==
    /\ alert = "active" /\ ~UpdateWaits
    /\ alert' = "acknowledged"
    /\ UNCHANGED <<kind, channelOn, slots, mail, incident, ledger, texts, refused, gaveUp, doubtful, sendFaults>>
Resolve ==
    /\ alert # "resolved" /\ ~UpdateWaits
    /\ alert' = "resolved"
    /\ UNCHANGED <<kind, channelOn, slots, mail, incident, ledger, texts, refused, gaveUp, doubtful, sendFaults>>
ChannelChanges ==
    /\ channelOn /\ channelOn' = FALSE
    /\ UNCHANGED <<kind, alert, slots, mail, incident, ledger, texts, refused, gaveUp, doubtful, sendFaults>>

\* The alerter opens what has no claim yet.  It acknowledges (at a pager) and resolves only
\* where an opening was claimed: a claim that was rolled back leaves no row to find.
Due(e) ==
    /\ channelOn /\ e \notin slots
    /\ CASE e = "created" -> alert # "resolved" /\ slots = {}
         [] e = "acknowledged" -> alert = "acknowledged" /\ "created" \in slots /\ kind = "pager"
         [] e = "resolved" -> alert = "resolved" /\ "created" \in slots

\* The envelope is published inside the claim's transaction.  If the commit
\* fails it is published again, and stored again past the duplicates window.
Publish(e, m, commits) ==
    /\ Due(e) /\ Event(m) = e
    /\ commits \/ m = <<e, 1>>
    /\ mail[m] = NoMail
    /\ m = <<e, 2>> => mail[<<e, 1>>] # NoMail
    /\ mail' = [mail EXCEPT ![m].st = "queued"]
    /\ slots' = IF commits THEN slots \cup {e} ELSE slots
    /\ IF commits THEN UNCHANGED sendFaults ELSE SendFault
    /\ doubtful' = IF m = <<e, 2>> THEN doubtful \cup {e} ELSE doubtful
    /\ UNCHANGED <<kind, channelOn, alert, incident, ledger, texts, refused, gaveUp>>
\* The second publish of an event is taken for a duplicate: only the claim is new.
PublishDuplicate(e) ==
    /\ Due(e) /\ mail[<<e, 1>>] # NoMail
    /\ slots' = slots \cup {e}
    /\ UNCHANGED <<kind, channelOn, alert, mail, incident, ledger, texts, refused, gaveUp, doubtful, sendFaults>>

-----------------------------------------------------------------------------
(* The worker *)

Arrives(m) == mail[m].st \in {"queued", "waiting"}
Gone(m) == [mail EXCEPT ![m] = [NoMail EXCEPT !.st = "gone"]]
GivesUp(m) == gaveUp' = gaveUp \cup {Event(m)}

\* An event other than the resolve is dropped once the alert is resolved.
Superseded(e) == e # "resolved" /\ alert = "resolved"

DropUndeliverable(m) ==
    /\ Arrives(m) /\ ~channelOn
    /\ mail' = Gone(m) /\ GivesUp(m)
    /\ UNCHANGED <<kind, channelOn, alert, slots, incident, ledger, texts, refused, doubtful, sendFaults>>
DropSuperseded(m) ==
    /\ Arrives(m) /\ channelOn /\ Superseded(Event(m))
    /\ mail' = Gone(m)
    /\ UNCHANGED <<kind, channelOn, alert, slots, incident, ledger, texts, refused, gaveUp, doubtful, sendFaults>>
\* Recipients the ledger does not show as reached.
AllRecipients(e) == Recipients
Unreached(e) == {p \in Recipients : <<e, p>> \notin ledger}

BeginSend(m) ==
    /\ Arrives(m) /\ channelOn /\ ~Superseded(Event(m))
    /\ mail' = [mail EXCEPT ![m] = [st |-> "sending", n |-> @.n + 1,
                                       to |-> IF kind = "sms" THEN Unreached(Event(m)) ELSE {}]]
    /\ UNCHANGED <<kind, channelOn, alert, slots, incident, ledger, texts, refused, gaveUp, doubtful, sendFaults>>

\* The pager by key: acknowledging or closing what it does not have is a no-op.
Paged(e, i) ==
    CASE e = "created" -> IF i \in {"none", "closed"} THEN "open" ELSE i
      [] e = "acknowledged" -> IF i = "open" THEN "acked" ELSE i
      [] e = "resolved" -> IF i \in {"open", "acked"} THEN "closed" ELSE i

\* A trigger delivered after the acknowledgement is acknowledged again.
AckForgotten(e) == FALSE
AckOvertaken(e) == e = "created" /\ alert = "acknowledged"

AttemptLeft(m) == mail[m].n < MaxAttempts
Retried(m) == IF AttemptLeft(m) THEN [mail EXCEPT ![m].st = "waiting", ![m].to = {}] ELSE Gone(m)
RetryOrGiveUp(m) ==
    mail' = Retried(m) /\ IF AttemptLeft(m) THEN UNCHANGED gaveUp ELSE GivesUp(m)

PageSent(m) ==
    /\ mail[m].st = "sending" /\ kind = "pager"
    /\ incident' = IF AckOvertaken(Event(m)) THEN Paged("acknowledged", Paged(Event(m), incident))
                   ELSE Paged(Event(m), incident)
    /\ mail' = Gone(m)
    /\ UNCHANGED <<kind, channelOn, alert, slots, ledger, texts, refused, gaveUp, doubtful, sendFaults>>
\* The trigger is taken, the acknowledgement after it is not: both are retried.
PageHalfSent(m) ==
    /\ mail[m].st = "sending" /\ kind = "pager" /\ AckOvertaken(Event(m)) /\ SendFault
    /\ incident' = Paged(Event(m), incident)
    /\ RetryOrGiveUp(m)
    /\ UNCHANGED <<kind, channelOn, alert, slots, ledger, texts, refused, doubtful>>
PageFails(m, accepted) ==
    /\ mail[m].st = "sending" /\ kind = "pager" /\ SendFault
    /\ incident' = IF accepted THEN Paged(Event(m), incident) ELSE incident
    /\ RetryOrGiveUp(m)
    /\ UNCHANGED <<kind, channelOn, alert, slots, ledger, texts, refused, doubtful>>
PageRefused(m) ==
    /\ mail[m].st = "sending" /\ kind = "pager" /\ SendFault
    /\ mail' = Gone(m) /\ GivesUp(m)
    /\ UNCHANGED <<kind, channelOn, alert, slots, incident, ledger, texts, refused, doubtful>>

Texted(e, ps) == [x \in DOMAIN texts |-> texts[x] + IF x[1] = e /\ x[2] \in ps THEN 1 ELSE 0]

\* The error of a send: permanent only when every failure is.
PermanentIfAny(transient, permanent) == permanent # {}
PermanentSend(transient, permanent) == transient = {} /\ permanent # {}

\* Every recipient that was unreached is texted at once.  Some answers are lost or are
\* errors, some accepted texts are not recorded.
TextsSent(m, transient, permanent, unrecorded) ==
    LET e == Event(m)
        accepted == mail[m].to \ (transient \cup permanent)
    IN  /\ mail[m].st = "sending" /\ kind = "sms"
        /\ transient \cup permanent \subseteq mail[m].to /\ transient \cap permanent = {}
        /\ unrecorded \subseteq accepted
        /\ texts' = Texted(e, accepted)
        /\ ledger' = ledger \cup ({e} \X (accepted \ unrecorded))
        /\ refused' = refused \cup ({e} \X permanent)
        /\ doubtful' = IF unrecorded # {} THEN doubtful \cup {e} ELSE doubtful
        /\ IF transient \cup permanent \cup unrecorded = {} THEN UNCHANGED sendFaults ELSE SendFault
        /\ IF transient \cup permanent = {} \/ PermanentSend(transient, permanent)
           THEN mail' = Gone(m) /\ UNCHANGED gaveUp
           ELSE RetryOrGiveUp(m)
        /\ UNCHANGED <<kind, channelOn, alert, slots, incident>>

\* The worker stops: its lock is gone, the message comes back; the provider may
\* have accepted anything that was on its way.
SenderLost(m) ==
    /\ mail[m].st = "sending" /\ SendFault
    /\ RetryOrGiveUp(m)
    /\ IF kind = "pager"
       THEN incident' \in {incident, Paged(Event(m), incident)} /\ UNCHANGED <<texts, doubtful>>
       ELSE /\ \E ps \in SUBSET mail[m].to : texts' = Texted(Event(m), ps)
            /\ doubtful' = doubtful \cup {Event(m)}
            /\ UNCHANGED incident
    /\ UNCHANGED <<kind, channelOn, alert, slots, ledger, refused>>

DeliveryNext ==
    \/ Acknowledge \/ Resolve \/ ChannelChanges
    \/ \E m \in Envelopes, commits \in BOOLEAN : Publish(Event(m), m, commits)
    \/ \E e \in Events : PublishDuplicate(e)
    \/ \E m \in Envelopes :
          \/ DropUndeliverable(m) \/ DropSuperseded(m) \/ BeginSend(m)
          \/ PageSent(m) \/ PageHalfSent(m) \/ PageRefused(m) \/ SenderLost(m)
          \/ \E accepted \in BOOLEAN : PageFails(m, accepted)
          \/ \E t, p, u \in SUBSET Recipients : TextsSent(m, t, p, u)

DeliverySpec == DeliveryInit /\ [][DeliveryNext]_deliveryVars

-----------------------------------------------------------------------------
(* Properties *)

\* An event is still on its way, or was dropped undelivered.
OnItsWay(e) ==
    \/ \E i \in {1, 2} : mail[<<e, i>>].st \in {"queued", "sending", "waiting"}
    \/ e \in gaveUp \/ Due(e)

\* The pager follows the alert.  A resolved alert leaves no incident open: no
\* retried, duplicated or late trigger opens one after the resolve was
\* delivered.  An acknowledged one does not go on paging: the acknowledgement
\* reaches the incident even when it overtook the trigger.  Excepted are an opening
\* whose claim never committed (it was published, but nobody resolves or acknowledges
\* what has no row: the incident stays open for good), a channel that was switched off,
\* and events whose deliveries were given up.
PagerFollowsAlert ==
    "created" \in slots /\ channelOn
    => /\ alert = "resolved" /\ incident \in {"open", "acked"} => OnItsWay("resolved")
       /\ alert = "acknowledged" /\ incident = "open"
             => OnItsWay("acknowledged") \/ OnItsWay("created")

\* Redeliveries to other workers, after restarts and partial failures, text no
\* recipient twice, unless a provider accepted what the ledger could not record
\* or the event was published twice.
TextedOnce ==
    \A e \in Events \ doubtful, p \in Recipients : texts[<<e, p>>] <= 1

\* A refused recipient does not cost the others their retry.
EveryRecipientTexted ==
    \A e \in Events, p \in Recipients :
        (/\ kind = "sms" /\ mail[<<e, 1>>].st = "gone" /\ mail[<<e, 2>>].st \in {"none", "gone"}
         /\ e \notin gaveUp /\ (alert # "resolved" \/ e = "resolved"))
        => texts[<<e, p>>] >= 1 \/ <<e, p>> \in refused
=============================================================================
