------------------------------- MODULE SipCall -------------------------------
(***************************************************************************)
(* One SIP test call: the candidate addresses it may dial, the INVITE and   *)
(* its authenticated retry, the dialogs the far end creates, teardown       *)
(* (CANCEL, BYE) and the linger that outlives the check.                    *)
(*                                                                          *)
(* Three actors share the state.  The dispatcher goroutine takes one message *)
(* of the far end at a time, updates the dialog table, sends the ACK and     *)
(* then emits an event into a bounded buffer.  The call's goroutine (drive,  *)
(* then teardown, then the linger) reads the events and blocks in its own    *)
(* CANCEL and BYE round trips meanwhile.  The far end answers, forks, hangs  *)
(* up or closes the connection when it likes, but sends no 2xx to an INVITE  *)
(* it has already rejected.                                                  *)
(***************************************************************************)
EXTENDS Naturals, Sequences, FiniteSets

CONSTANTS
    HostOf,       \* the candidates in order: the host each address belongs to
    Tags,         \* To tags of the far end's answers: one dialog each
    CallConfigs,  \* configurations of the check: [ring, auth, expects2xx, media]
    EventBuffer,  \* sipCallEventBuffer
    LingerSlots,  \* free slots of the linger pool: 0 or more
    ByeAnswers,   \* bound: what the far end may answer to a BYE
    MaxProvisionals, \* bound: provisionals the far end sends
    MaxPanics     \* bound: panics of the call's goroutine

ASSUME SipCallAssumption ==
    /\ Len(HostOf) \in Nat \ {0} /\ IsFiniteSet(Tags) /\ "none" \notin Tags
    /\ CallConfigs \subseteq [ring : BOOLEAN, auth : BOOLEAN, expects2xx : BOOLEAN, media : BOOLEAN]
    /\ ByeAnswers \subseteq {"bye_ok", "bye_481", "bye_other"}
    /\ EventBuffer \in Nat \ {0} /\ LingerSlots \in Nat
    /\ MaxProvisionals \in Nat /\ MaxPanics \in Nat

VARIABLES
    config,     \* the check's configuration
    pc,         \* where the call's goroutine is
    addr,       \* the candidate being tried
    budget,     \* while dialling: "left", "spent" (the check's timeout) or "shutdown"
    call,       \* sipCall: the goroutine's own state
    verdict,    \* the check result: [decided, status, interrupted]
    dialogs,    \* the dialog table, by tag
    events,     \* the event buffer
    emitting,   \* the event the dispatcher is about to emit
    flow,       \* "none", "open", "hungUp" (by the peer) or "closed"
    byeTag,     \* the dialog of the BYE round trip in progress
    media,      \* the media session: [held, stopped]
    lingered,   \* the pool had a slot for the call
    retrying,   \* the linger's list of dialogs to BYE once more
    outcome,    \* the linger's outcome
    peer,       \* the far end: [invite, said] for the INVITE in progress
    overlooked, \* the buffer was full for an answer when the linger no longer looked (for a property only)
    provs,      \* provisionals so far (for the bound only)
    panics      \* panics so far (for the bound only)

callVars == <<addr, budget, call, verdict, dialogs, byeTag, media, lingered, retrying, outcome>>
peerVars == <<flow, emitting, peer, overlooked, provs>>
sipVars == <<config, pc, callVars, peerVars, events, panics>>

NoTag == "none"
NoEvent == [kind |-> "none"]
Candidates == 1..Len(HostOf)

Provisionals == {"100", "180"}
Finals == {"401", "401stale", "503", "486"}
DialErrors == {"refused", "connect", "ssrf_blocked", "tls", "connect_timeout", "handshake_stall", "other"}
CallPhases == {"calling", "proceeding", "holding", "cancelling", "terminating", "done"}
Answers == {"bye_ok", "bye_481", "bye_other"}
Labels == {"none", "remote_bye", "cancelled", "answered_after_cancel", "cancel_unconfirmed",
           "no_provisional", "bye_ok", "bye_481", "bye_other", "bye_unconfirmed"}

\* The events: of a response to an INVITE, and of a BYE of the callee.
Event == [kind : {"provisional"}, txn : 1..3, code : Provisionals]
           \cup [kind : {"final"}, txn : 1..3, code : Finals]
           \cup [kind : {"answered"}, txn : 1..3, tag : Tags]
           \cup [kind : {"remoteBye"}, tag : Tags]

NewDialog == [confirmed |-> FALSE, remoteBye |-> FALSE, byeDone |-> FALSE, byeUnanswered |-> FALSE,
              byes |-> 0, last |-> "none"]
NewCall == [phase |-> "calling", txn |-> 1, proceeding |-> FALSE, anyProvisional |-> FALSE,
            ringing |-> FALSE, authRounds |-> 0, primary |-> NoTag, inviteFinal |-> FALSE,
            failover |-> FALSE, cancelSent |-> FALSE, label |-> "none"]
NoVerdict == [decided |-> FALSE, status |-> "none", interrupted |-> FALSE]
NewPeer == [invite |-> "pending", said |-> {}]

CallRecord == [phase : CallPhases, txn : 1..3, proceeding : BOOLEAN, anyProvisional : BOOLEAN,
               ringing : BOOLEAN, authRounds : 0..2, primary : Tags \cup {NoTag},
               inviteFinal : BOOLEAN, failover : BOOLEAN, cancelSent : BOOLEAN, label : Labels]
Verdict == [decided : BOOLEAN, status : {"none", "success", "failure", "error"}, interrupted : BOOLEAN]
Dialog == [confirmed : BOOLEAN, remoteBye : BOOLEAN, byeDone : BOOLEAN, byeUnanswered : BOOLEAN,
           byes : 0..2, last : Answers \cup {"none", "bye_unconfirmed"}]
Peer == [invite : {"pending", "answered", "rejected"},
         said : SUBSET [txn : 1..3, code : Provisionals \cup {"200"}]]

SipTypeOK ==
    /\ config \in CallConfigs
    /\ pc \in {"dial", "drive", "flowEnd", "settle", "settleEnd", "byeAll", "byeNext", "bye",
               "handOver", "retry", "retryBye", "late", "lateBye", "lateCancel", "ended"}
    /\ addr \in Candidates /\ budget \in {"left", "spent", "shutdown"}
    /\ call \in CallRecord /\ verdict \in Verdict
    /\ dialogs \in [Tags -> Dialog]
    /\ events \in Seq(Event) /\ Len(events) <= EventBuffer
    /\ emitting \in Event \cup {NoEvent} /\ peer \in Peer
    /\ flow \in {"none", "open", "hungUp", "closed"}
    /\ byeTag \in Tags \cup {NoTag}
    /\ media \in [held : BOOLEAN, stopped : BOOLEAN]
    /\ lingered \in BOOLEAN /\ retrying \subseteq Tags
    /\ outcome \in {"none", "quiet", "late_bye_ok", "late_bye_unconfirmed", "late_answer",
                    "late_cancel", "flow_closed", "aborted", "stopped"}
    /\ overlooked \in BOOLEAN /\ provs \in 0..MaxProvisionals /\ panics \in 0..MaxPanics

SipInit ==
    /\ config \in CallConfigs
    /\ pc = "dial" /\ addr = 1 /\ budget = "left"
    /\ call = NewCall /\ verdict = NoVerdict
    /\ dialogs = [t \in Tags |-> NewDialog]
    /\ events = <<>> /\ emitting = NoEvent /\ flow = "none" /\ byeTag = NoTag
    /\ media = [held |-> FALSE, stopped |-> FALSE]
    /\ lingered = FALSE /\ retrying = {} /\ outcome = "none"
    /\ peer = NewPeer /\ overlooked = FALSE /\ provs = 0 /\ panics = 0

-----------------------------------------------------------------------------
(* The far end and the dispatcher.                                         *)

\* The buffer never blocks the dispatcher: an event that does not fit is dropped.
emit(ev) == events' = IF Len(events) < EventBuffer THEN Append(events, ev) ELSE events

Dispatching == flow = "open" /\ emitting = NoEvent

\* A 1xx to the INVITE in progress.
ReceiveProvisional(code) ==
    /\ Dispatching /\ peer.invite = "pending" /\ provs < MaxProvisionals
    /\ provs' = provs + 1
    /\ peer' = [peer EXCEPT !.said = @ \cup {[txn |-> call.txn, code |-> code]}]
    /\ emit([kind |-> "provisional", txn |-> call.txn, code |-> code])
    /\ UNCHANGED <<config, pc, callVars, flow, emitting, overlooked, panics>>

\* A non-2xx final: acknowledged by the dispatcher, then reported.  Without
\* credentials a challenge is a rejection like any other.
ReceiveFinal(code) ==
    /\ Dispatching /\ peer.invite = "pending"
    /\ code \in {"503", "486"} \/ config.auth
    /\ peer' = [peer EXCEPT !.invite = "rejected"]
    /\ emit([kind |-> "final", txn |-> call.txn, code |-> code])
    /\ UNCHANGED <<config, pc, callVars, flow, emitting, overlooked, provs, panics>>

\* A 2xx with a new To tag: the dialog enters the table and is ACKed; the event
\* follows once the mutex is released.  (A repeated 2xx only repeats the ACK.)
ReceiveAnswer(t) ==
    /\ Dispatching /\ peer.invite \in {"pending", "answered"} /\ ~dialogs[t].confirmed
    /\ dialogs' = [dialogs EXCEPT ![t].confirmed = TRUE]
    /\ peer' = [peer EXCEPT !.invite = "answered", !.said = @ \cup {[txn |-> call.txn, code |-> "200"]}]
    /\ emitting' = [kind |-> "answered", txn |-> call.txn, tag |-> t]
    /\ UNCHANGED <<config, pc, addr, budget, call, verdict, byeTag, media, lingered, retrying, outcome,
                   flow, overlooked, provs, events, panics>>

\* The callee hangs up: matchDialog marks the dialog, then emits.
matchDialog(t) ==
    /\ Dispatching /\ dialogs[t].confirmed /\ ~dialogs[t].remoteBye
    /\ dialogs' = [dialogs EXCEPT ![t].remoteBye = TRUE]
    /\ emitting' = [kind |-> "remoteBye", tag |-> t]
    /\ UNCHANGED <<config, pc, addr, budget, call, verdict, byeTag, media, lingered, retrying, outcome,
                   flow, peer, overlooked, provs, events, panics>>

\* An answer dropped while the linger waits for an event that tells it of one.
Overlooks == /\ emitting.kind = "answered" /\ Len(events) = EventBuffer
             /\ pc \in {"late", "lateCancel", "ended"}

Emit ==
    /\ emitting # NoEvent
    /\ emit(emitting)
    /\ emitting' = NoEvent
    /\ overlooked' = (overlooked \/ Overlooks)
    /\ UNCHANGED <<config, pc, callVars, flow, peer, provs, panics>>

\* The connection ends; what the far end sent before it is dispatched first.
PeerCloses ==
    /\ Dispatching
    /\ flow' = "hungUp"
    /\ UNCHANGED <<config, pc, callVars, emitting, peer, overlooked, provs, events, panics>>

-----------------------------------------------------------------------------
(* The call's goroutine: what one event does to the call.                  *)

\* The first decision stands.
decide(v, status) ==
    IF v.decided THEN v ELSE [decided |-> TRUE, status |-> status, interrupted |-> FALSE]

Rings(code) == code = "180"

\* Ring mode is decided by ringing: success, then CANCEL.
onProvisional(c, v, code) ==
    LET seen == [c EXCEPT !.anyProvisional = TRUE, !.proceeding = TRUE,
                          !.phase = IF @ = "calling" THEN "proceeding" ELSE @]
        first == Rings(code) /\ ~c.ringing
        won == first /\ config.ring /\ seen.phase = "proceeding"
    IN  [c |-> [seen EXCEPT !.ringing = @ \/ first, !.phase = IF won THEN "cancelling" ELSE @],
         v |-> IF won THEN decide(v, "success") ELSE v]

Challenge(code) == code \in {"401", "401stale"}

\* Round 1 always; round 2 only when the server says the nonce went stale.
AnswersChallenge(c, v, code) ==
    /\ Challenge(code) /\ config.auth /\ ~v.decided
    /\ c.phase \in {"calling", "proceeding"}
    /\ c.authRounds = 0 \/ (c.authRounds = 1 /\ code = "401stale")

\* Any rejection moves on to the next address.
FailsOverAlways(c, code) == code = "503" /\ addr < Len(HostOf)

\* RFC 3263: a 503 before anything rang moves on to the next address.
FailsOver(c, code) == code = "503" /\ ~c.anyProvisional /\ addr < Len(HostOf)

onFinal(c, v, code) ==
    LET done == [c EXCEPT !.inviteFinal = TRUE, !.phase = "done"]
    IN  IF AnswersChallenge(c, v, code)
        THEN [c |-> [c EXCEPT !.authRounds = @ + 1, !.txn = @ + 1, !.phase = "calling",
                              !.proceeding = FALSE, !.inviteFinal = FALSE],
              v |-> v]
        ELSE IF c.phase = "cancelling" \/ v.decided
        THEN [c |-> [done EXCEPT !.label = IF c.cancelSent THEN "cancelled" ELSE @], v |-> v]
        ELSE IF FailsOver(c, code)
        THEN [c |-> [done EXCEPT !.failover = TRUE], v |-> v]
        ELSE [c |-> done, v |-> decide(v, "failure")]

\* Only the answer-mode call that got the status it expects is held.
onAnswered(c, v, t) ==
    LET won == [c EXCEPT !.primary = IF @ = NoTag THEN t ELSE @]
    IN  IF c.phase = "cancelling"
        THEN [c |-> [won EXCEPT !.phase = "terminating",
                                !.label = IF c.cancelSent THEN "answered_after_cancel" ELSE "none"],
              v |-> v]
        ELSE IF c.phase \in {"holding", "terminating", "done"}
        THEN [c |-> won, v |-> v]
        ELSE IF config.ring
        THEN [c |-> [won EXCEPT !.phase = "terminating"], v |-> decide(v, "success")]
        ELSE IF ~config.expects2xx
        THEN [c |-> [won EXCEPT !.phase = "terminating"], v |-> decide(v, "failure")]
        ELSE [c |-> [won EXCEPT !.phase = "holding"], v |-> decide(v, "success")]

\* The callee hung up the answered call first.
onRemoteBye(c, v, t) ==
    IF t # c.primary THEN [c |-> c, v |-> v]
    ELSE [c |-> [c EXCEPT !.label = IF @ = "none" THEN "remote_bye" ELSE @,
                          !.phase = IF @ = "holding" THEN "terminating" ELSE @],
          v |-> v]

\* Responses to an INVITE that is no longer the current one are ignored.
handle(c, v, ev) ==
    IF ev.kind = "answered" THEN onAnswered(c, v, ev.tag)
    ELSE IF ev.kind = "remoteBye" THEN onRemoteBye(c, v, ev.tag)
    ELSE IF ev.txn # c.txn THEN [c |-> c, v |-> v]
    ELSE IF ev.kind = "provisional" THEN onProvisional(c, v, ev.code)
    ELSE onFinal(c, v, ev.code)

\* Where every event already queued is applied, one after the other, before the
\* goroutine goes on; the dispatcher may queue another one meanwhile.
Draining == pc \in {"flowEnd", "settleEnd", "byeAll"} /\ events # <<>>

\* A challenge cannot be answered any more: the flow is down.
drainEvents ==
    LET r == handle(call, verdict, Head(events))
        fails == r.c.txn # call.txn
    IN  /\ Draining
        /\ events' = Tail(events)
        /\ call' = IF fails THEN [r.c EXCEPT !.phase = "done"] ELSE r.c
        /\ verdict' = IF fails THEN decide(r.v, "error") ELSE r.v
        /\ UNCHANGED <<config, pc, addr, budget, dialogs, byeTag, media, lingered, retrying, outcome,
                       peerVars, panics>>

\* The far end sees a new INVITE when the call has answered a challenge.
PeerSees(c) ==
    peer' = IF c.txn # call.txn THEN [peer EXCEPT !.invite = "pending"] ELSE peer

-----------------------------------------------------------------------------
(* Dialling.                                                               *)

\* The candidate to try after this one failed to connect; 0 to stop.
sipFailoverTarget(class) ==
    LET others == {j \in Candidates : j > addr /\ HostOf[j] # HostOf[addr]}
    IN  IF addr = Len(HostOf) \/ budget # "left" \/ class = "other" THEN 0
        ELSE IF class # "tls" THEN addr + 1
        ELSE IF others = {} THEN 0 ELSE CHOOSE j \in others : \A k \in others : j <= k

DialFails(class) ==
    /\ pc = "dial"
    /\ IF sipFailoverTarget(class) = 0
       THEN /\ pc' = "ended" /\ UNCHANGED addr
            /\ verdict' = [decided |-> TRUE, status |-> "error", interrupted |-> budget = "shutdown"]
       ELSE addr' = sipFailoverTarget(class) /\ UNCHANGED <<pc, verdict>>
    /\ UNCHANGED <<config, budget, call, dialogs, byeTag, media, lingered, retrying, outcome, peerVars,
                   events, panics>>

\* The check's context ends while it dials.
BudgetEnds(why) ==
    /\ budget = "left" /\ pc = "dial"
    /\ budget' = why
    /\ UNCHANGED <<config, pc, addr, call, verdict, dialogs, byeTag, media, lingered, retrying, outcome,
                   peerVars, events, panics>>

\* Connected: the INVITE leaves, of a call that nothing is decided about yet.
sendInvite ==
    /\ pc = "dial" /\ budget = "left"
    /\ pc' = "drive" /\ flow' = "open"
    /\ call' = NewCall /\ verdict' = NoVerdict /\ dialogs' = [t \in Tags |-> NewDialog]
    /\ events' = <<>> /\ emitting' = NoEvent /\ peer' = NewPeer
    /\ UNCHANGED <<config, addr, budget, byeTag, media, lingered, retrying, outcome, overlooked,
                   provs, panics>>

\* No RTP port pair is free: an error, and the connection is closed.
BindFails ==
    /\ pc = "dial" /\ budget = "left"
    /\ pc' = "ended" /\ flow' = "closed"
    /\ call' = NewCall /\ verdict' = decide(NoVerdict, "error")
    /\ UNCHANGED <<config, addr, budget, dialogs, byeTag, media, lingered, retrying, outcome, emitting,
                   peer, overlooked, provs, events, panics>>

-----------------------------------------------------------------------------
(* drive: until the call must be torn down.                                *)

Waiting == pc = "drive" /\ call.phase \in {"calling", "proceeding", "holding"} /\ ~call.failover

DriveEvent ==
    LET r == handle(call, verdict, Head(events))
    IN  /\ Waiting /\ events # <<>>
        /\ events' = Tail(events)
        /\ call' = r.c /\ verdict' = r.v
        /\ media' = [media EXCEPT !.held = @ \/ (config.media /\ r.c.phase = "holding")]
        /\ PeerSees(r.c)
        /\ UNCHANGED <<config, pc, addr, budget, dialogs, byeTag, lingered, retrying, outcome, flow,
                       emitting, overlooked, provs, panics>>

\* The answer budget ran out: CANCEL a ringing call, keep listening otherwise.
giveUp(v) ==
    /\ call' = [call EXCEPT !.phase = "cancelling"]
    /\ verdict' = decide(v, IF call.phase = "proceeding" THEN "failure" ELSE "error")

DriveKeeps == UNCHANGED <<config, pc, addr, budget, dialogs, events, byeTag, media, lingered,
                          retrying, outcome, peerVars, panics>>

AnswerTimeout ==
    /\ Waiting /\ call.phase # "holding"
    /\ giveUp(verdict)
    /\ DriveKeeps

HoldOver ==
    /\ Waiting /\ call.phase = "holding"
    /\ call' = [call EXCEPT !.phase = "terminating"]
    /\ UNCHANGED verdict
    /\ DriveKeeps

\* The check's budget is spent, or the worker shuts down: a verdict reached
\* before stands, an undecided check is marked so that it is not published.
BudgetOut(why) ==
    LET v == IF why = "shutdown" /\ ~verdict.decided
             THEN [decided |-> TRUE, status |-> "error", interrupted |-> TRUE] ELSE verdict
    IN  /\ Waiting
        /\ IF call.phase = "holding"
           THEN call' = [call EXCEPT !.phase = "terminating"] /\ verdict' = v
           ELSE giveUp(v)
        /\ DriveKeeps

\* The far end returned our own INVITE.
InviteLoops ==
    /\ Waiting /\ flow = "open"
    /\ call' = [call EXCEPT !.phase = "done"]
    /\ verdict' = decide(verdict, "error")
    /\ DriveKeeps

\* The connection closed: what was queued before counts first.
FlowEnds ==
    /\ Waiting /\ flow = "hungUp"
    /\ pc' = "flowEnd"
    /\ UNCHANGED <<config, callVars, peerVars, events, panics>>

FlowEnded ==
    /\ pc = "flowEnd" /\ events = <<>>
    /\ pc' = "drive"
    /\ call' = [call EXCEPT !.phase = IF call.primary # NoTag THEN "terminating" ELSE "done"]
    /\ verdict' = decide(verdict, "error")
    /\ UNCHANGED <<config, addr, budget, dialogs, byeTag, media, lingered, retrying, outcome,
                   peerVars, events, panics>>

\* A panic while an event is handled: the event is lost, the call is left in a
\* phase that teardown can finish.
DrivePanics ==
    /\ Waiting \/ pc = "flowEnd"
    /\ events # <<>> /\ panics < MaxPanics
    /\ panics' = panics + 1 /\ events' = Tail(events)
    /\ pc' = "drive"
    /\ verdict' = [decided |-> TRUE, status |-> "error", interrupted |-> FALSE]
    /\ call' = [call EXCEPT !.phase = IF call.primary # NoTag THEN "terminating"
                                      ELSE IF @ \in {"calling", "proceeding"} THEN "cancelling" ELSE @]
    /\ UNCHANGED <<config, addr, budget, dialogs, byeTag, media, lingered, retrying, outcome, peerVars>>

-----------------------------------------------------------------------------
(* Teardown: settle a pending INVITE, then BYE every dialog.               *)

StopsMedia(m) == [m EXCEPT !.stopped = m.held]

\* The CANCEL leaves even though nothing answered the INVITE yet.
CancelsAtOnce == TRUE

\* A CANCEL before any provisional may cross the INVITE.
CancelAllowed == call.proceeding

teardown ==
    /\ pc = "drive" /\ ~Waiting
    /\ media' = StopsMedia(media)
    /\ pc' = IF call.phase = "cancelling" THEN "settle" ELSE "byeAll"
    /\ call' = [call EXCEPT !.cancelSent = call.phase = "cancelling" /\ CancelAllowed]
    /\ UNCHANGED <<config, addr, budget, verdict, dialogs, byeTag, lingered, retrying, outcome, peerVars,
                   events, panics>>

\* The CANCEL alone is taken for the end of the call.
SettlesAsCancelled(c) ==
    [c EXCEPT !.label = IF c.cancelSent THEN "cancelled" ELSE "no_provisional"]

settleTeardownLabel(c) ==
    IF c.phase # "cancelling" THEN c
    ELSE [c EXCEPT !.label = IF c.cancelSent THEN "cancel_unconfirmed" ELSE "no_provisional"]

TeardownKeeps == UNCHANGED <<config, addr, budget, dialogs, byeTag, media, lingered, retrying, outcome,
                             peerVars, panics>>

\* A late provisional lets the CANCEL go.
settleInvite ==
    LET r == handle(call, verdict, Head(events))
        cancels == r.c.phase = "cancelling" /\ r.c.proceeding
    IN  /\ pc = "settle" /\ call.phase = "cancelling" /\ events # <<>>
        /\ events' = Tail(events)
        /\ call' = [r.c EXCEPT !.cancelSent = @ \/ cancels]
        /\ verdict' = r.v
        /\ pc' = IF r.c.phase = "cancelling" THEN "settle" ELSE "byeAll"
        /\ TeardownKeeps

\* The teardown budget ran out; or the connection closed, and what was queued
\* before still counts.
SettleEnds ==
    \/ /\ pc = "settle" /\ flow = "hungUp"
       /\ pc' = "settleEnd" /\ UNCHANGED <<call, verdict, events>>
       /\ TeardownKeeps
    \/ /\ pc = "settle" \/ (pc = "settleEnd" /\ events = <<>>)
       /\ call' = settleTeardownLabel(call)
       /\ pc' = "byeAll" /\ UNCHANGED <<verdict, events>>
       /\ TeardownKeeps

Unended == {t \in Tags : dialogs[t].confirmed /\ ~dialogs[t].byeDone /\ ~dialogs[t].remoteBye}

\* nextUnended marks the dialog before its BYE leaves.
SendBye(t) == dialogs' = [dialogs EXCEPT ![t].byeDone = TRUE, ![t].byes = @ + 1]

ByeKeeps == UNCHANGED <<config, addr, budget, call, verdict, media, lingered, retrying, outcome,
                        peerVars, events, panics>>

\* byeAll: what is queued is applied (drainEvents), then a dialog that is not yet
\* ended gets its BYE.
byeAll ==
    \/ /\ pc = "byeAll" /\ events = <<>>
       /\ pc' = "byeNext" /\ UNCHANGED <<dialogs, byeTag>>
       /\ ByeKeeps
    \/ /\ pc = "byeNext"
       /\ IF Unended = {}
          THEN pc' = "handOver" /\ UNCHANGED <<dialogs, byeTag>>
          ELSE \E t \in Unended : SendBye(t) /\ byeTag' = t /\ pc' = "bye"
       /\ ByeKeeps

\* What a BYE round trip may end in: nothing comes over a closed connection.
ByeOutcomes == {"bye_unconfirmed"} \cup (IF flow = "open" THEN ByeAnswers ELSE {})

ByeReturns(out) ==
    /\ pc = "bye" /\ out \in ByeOutcomes
    /\ dialogs' = [dialogs EXCEPT ![byeTag].byeUnanswered = out = "bye_unconfirmed", ![byeTag].last = out]
    /\ call' = [call EXCEPT !.label = IF byeTag = call.primary /\ @ = "none" THEN out ELSE @]
    /\ pc' = "byeAll" /\ byeTag' = NoTag
    /\ UNCHANGED <<config, addr, budget, verdict, media, lingered, retrying, outcome, peerVars, events, panics>>

\* A panic in teardown ends it; the linger still looks at the dialogs.
TeardownPanics ==
    /\ pc \in {"settle", "settleEnd", "byeAll"} /\ events # <<>> /\ panics < MaxPanics
    /\ panics' = panics + 1 /\ events' = Tail(events)
    /\ verdict' = [decided |-> TRUE, status |-> "error", interrupted |-> FALSE]
    /\ pc' = "handOver"
    /\ UNCHANGED <<config, addr, budget, call, dialogs, byeTag, media, lingered, retrying, outcome, peerVars>>

Unanswered == {t \in Tags : dialogs[t].byeUnanswered /\ ~dialogs[t].remoteBye}

\* Nothing answered so far.
ClosesUnanswered == call.primary = NoTag

\* Only an INVITE that was rejected with nothing answered needs no linger.
NeedsNoLinger == call.primary = NoTag /\ call.inviteFinal

\* Closing a connection the peer has closed changes nothing.
Close == flow' = IF flow = "hungUp" THEN flow ELSE "closed"

\* The check returns: the flow is closed or handed to a linger; a failover
\* goes on to the next address.
handOver ==
    LET closes == flow = "hungUp" \/ NeedsNoLinger \/ LingerSlots = 0
    IN  /\ pc = "handOver"
        /\ IF closes THEN Close ELSE UNCHANGED flow
        /\ pc' = IF call.failover /\ closes THEN "dial" ELSE IF closes THEN "ended" ELSE "retry"
        /\ addr' = IF call.failover /\ closes THEN addr + 1 ELSE addr
        /\ lingered' = ~closes /\ retrying' = IF closes THEN {} ELSE Unanswered
        /\ outcome' = IF closes THEN outcome ELSE "quiet"
        /\ verdict' = IF call.failover THEN verdict ELSE decide(verdict, "error")
        /\ UNCHANGED <<config, budget, call, dialogs, byeTag, media, emitting, peer, overlooked, provs, events, panics>>

-----------------------------------------------------------------------------
(* The linger.                                                             *)

LingerKeeps == UNCHANGED <<config, addr, budget, verdict, media, lingered, overlooked, provs, peer, panics>>

\* BYE the dialogs of the table that are not yet ended, one after the other.
byeNew ==
    IF Unended = {}
    THEN pc' = "late" /\ byeTag' = NoTag /\ UNCHANGED dialogs
    ELSE \E t \in Unended : SendBye(t) /\ byeTag' = t /\ pc' = "lateBye"

\* One more BYE, a new request, to each dialog whose BYE drew no response; then
\* anything that answered after teardown's last look.
retryUnansweredByes ==
    /\ pc = "retry"
    /\ IF retrying = {} THEN byeNew /\ UNCHANGED retrying
       ELSE \E t \in retrying :
              /\ dialogs' = [dialogs EXCEPT ![t].byeUnanswered = FALSE, ![t].byes = @ + 1]
              /\ byeTag' = t /\ pc' = "retryBye" /\ retrying' = retrying \ {t}
    /\ UNCHANGED <<call, outcome, flow, emitting, events>>
    /\ LingerKeeps

\* An unconfirmed second BYE outranks every other outcome of the linger.
RetryOutcome(out) ==
    IF out \notin {"bye_ok", "bye_481"} THEN "late_bye_unconfirmed"
    ELSE IF outcome = "quiet" THEN "late_bye_ok" ELSE outcome

RetryReturns(out) ==
    /\ pc = "retryBye" /\ out \in ByeOutcomes
    /\ dialogs' = [dialogs EXCEPT ![byeTag].last = out]
    /\ outcome' = RetryOutcome(out)
    /\ pc' = "retry" /\ byeTag' = NoTag
    /\ UNCHANGED <<call, retrying, flow, emitting, events>>
    /\ LingerKeeps

\* The linger looks at the table only for an "answered" event.
LingerEvent ==
    LET ev == Head(events)
        cancels == /\ ev.kind = "provisional" /\ ev.txn = call.txn
                   /\ ~call.inviteFinal /\ ~call.cancelSent
    IN  /\ pc = "late" /\ events # <<>>
        /\ events' = Tail(events)
        /\ call' = [call EXCEPT !.cancelSent = @ \/ cancels,
                                !.inviteFinal = @ \/ (ev.kind = "final" /\ ev.txn = call.txn)]
        /\ IF ev.kind = "answered" THEN byeNew
           ELSE pc' = (IF cancels THEN "lateCancel" ELSE "late") /\ UNCHANGED <<dialogs, byeTag>>
        /\ UNCHANGED <<outcome, retrying, flow, emitting>>
        /\ LingerKeeps

LateByeReturns(out) ==
    /\ pc = "lateBye" /\ out \in ByeOutcomes
    /\ IF Unended = {}
       THEN /\ dialogs' = [dialogs EXCEPT ![byeTag].last = out]
            /\ pc' = "late" /\ byeTag' = NoTag
       ELSE \E t \in Unended :
            /\ dialogs' = [dialogs EXCEPT ![byeTag].last = out, ![t].byeDone = TRUE, ![t].byes = @ + 1]
            /\ pc' = "lateBye" /\ byeTag' = t
    /\ outcome' = IF outcome = "late_bye_unconfirmed" THEN outcome ELSE "late_answer"
    /\ UNCHANGED <<call, retrying, flow, emitting, events>>
    /\ LingerKeeps

\* The CANCEL round trip ends; meanwhile only the dispatcher ran.
LateCancelReturns ==
    /\ pc = "lateCancel"
    /\ pc' = "late"
    /\ outcome' = IF outcome = "quiet" THEN "late_cancel" ELSE outcome
    /\ UNCHANGED <<call, dialogs, byeTag, retrying, flow, emitting, events>>
    /\ LingerKeeps

\* The deadline, or the end of the connection.
LingerEnds ==
    /\ pc = "late"
    /\ pc' = "ended"
    /\ outcome' = IF flow = "hungUp" /\ outcome = "quiet" THEN "flow_closed" ELSE outcome
    /\ Close
    /\ UNCHANGED <<call, dialogs, byeTag, retrying, emitting, events>>
    /\ LingerKeeps

\* The linger is cut short, wherever it is: the flow is closed without a BYE.
CutShort(how) ==
    /\ pc \in {"retry", "retryBye", "late", "lateBye", "lateCancel"}
    /\ pc' = "ended" /\ outcome' = how
    /\ retrying' = {} /\ byeTag' = NoTag
    /\ Close
    /\ UNCHANGED <<config, addr, budget, call, verdict, dialogs, media, lingered, emitting, peer,
                   overlooked, provs, events>>
\* Its panic is recovered; or the worker stops, and nobody waits for its lingers.
LingerPanics == CutShort("aborted") /\ panics < MaxPanics /\ panics' = panics + 1
WorkerStops == CutShort("stopped") /\ UNCHANGED panics

-----------------------------------------------------------------------------
FarEnd ==
    \/ \E code \in Provisionals : ReceiveProvisional(code)
    \/ \E code \in Finals : ReceiveFinal(code)
    \/ \E t \in Tags : ReceiveAnswer(t) \/ matchDialog(t)
    \/ Emit \/ PeerCloses

Goroutine ==
    \/ sendInvite \/ BindFails
    \/ \E class \in DialErrors : DialFails(class)
    \/ DriveEvent \/ FlowEnds \/ FlowEnded \/ DrivePanics \/ drainEvents
    \/ AnswerTimeout \/ HoldOver \/ InviteLoops
    \/ \E why \in {"spent", "shutdown"} : BudgetOut(why)
    \/ teardown \/ settleInvite \/ SettleEnds \/ byeAll \/ TeardownPanics
    \/ \E out \in ByeOutcomes : ByeReturns(out) \/ RetryReturns(out) \/ LateByeReturns(out)
    \/ handOver \/ retryUnansweredByes \/ LingerEvent \/ LateCancelReturns \/ LingerEnds
    \/ LingerPanics \/ WorkerStops

SipNext == FarEnd \/ Goroutine \/ \E why \in {"spent", "shutdown"} : BudgetEnds(why)

SipSpec == SipInit /\ [][SipNext]_sipVars

-----------------------------------------------------------------------------
(* Properties.                                                             *)

AnswerQueued == \/ emitting.kind = "answered"
                \/ \E i \in 1..Len(events) : events[i].kind = "answered"

\* Whatever the interleaving of answers, forks, CANCEL, panics of the drive and of
\* teardown, budgets and the shutdown of the check: when the linger has run to its
\* end, every dialog the dispatcher confirmed with an ACK was hung up, by a BYE of
\* ours or by the callee.  Only an answer still queued at the linger's deadline is
\* left, one that found the buffer full while the linger waited for something else,
\* or a connection that the peer closed under us.  A linger that panicked, or whose
\* worker stopped, closes the connection without looking: a call it had not hung up
\* stays up (sip_linger.go, linger).
RanToItsEnd == outcome \notin {"aborted", "stopped"}
EveryDialogHungUp ==
    pc = "ended" /\ flow = "closed" /\ LingerSlots > 0 /\ RanToItsEnd /\ ~AnswerQueued /\ ~overlooked
        => \A t \in Tags : dialogs[t].confirmed => dialogs[t].byes > 0 \/ dialogs[t].remoteBye

\* A second address is never tried once the first showed a sign of a call: a
\* failover after ringing would place a second call (checkInvite).
OneCallRings ==
    [][addr' # addr => peer.said = {} /\ \A t \in Tags : ~dialogs[t].confirmed]_sipVars

\* A CANCEL only follows a provisional to the very INVITE it cancels, also after
\* an authenticated retry started a new transaction (settleInvite, linger).
CancelFollowsProvisional ==
    call.cancelSent => \E p \in peer.said : p.txn = call.txn

\* The teardown label never claims more than the far end confirmed.
LabelTruthful ==
    LET d == dialogs[call.primary]
    IN  /\ call.label = "cancelled" => call.cancelSent /\ peer.invite = "rejected"
        /\ call.label = "bye_ok" => d.last = "bye_ok"
        /\ call.label = "remote_bye" => d.remoteBye
        /\ call.label = "answered_after_cancel" => call.cancelSent /\ d.confirmed
        /\ call.label = "bye_unconfirmed" => d.byes > 0

\* When the linger has run to its end, an INVITE that was given up on and drew a
\* provisional and nothing else has been CANCELled (linger).
RingingIsCancelled ==
    pc = "ended" /\ lingered /\ flow = "closed" /\ RanToItsEnd /\ call.phase = "cancelling"
      /\ peer.invite = "pending" /\ (\E p \in peer.said : p.txn = call.txn)
      /\ (\A i \in 1..Len(events) : events[i].kind # "provisional")
        => call.cancelSent
=============================================================================
