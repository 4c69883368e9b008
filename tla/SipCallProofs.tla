---------------------------- MODULE SipCallProofs ----------------------------
(***************************************************************************)
(* Theorems about SipCall for every list of candidate addresses, number of *)
(* forked answers, size of the event buffer and bound on provisionals and  *)
(* panics.                                                                 *)
(***************************************************************************)
EXTENDS SipCall, SequenceTheorems, WellFoundedInduction, TLAPS

-----------------------------------------------------------------------------
(* The inductive invariant.                                                *)

Over == {"cancelling", "terminating", "done"}
Lingering == {"retry", "retryBye", "late", "lateBye", "lateCancel"}
TearingDown == {"settle", "settleEnd", "byeAll", "byeNext", "bye", "handOver"} \cup Lingering

Responds(e) == e.kind = "provisional" \/ e.kind = "final"
OfDialog(e) == e.kind = "answered" \/ e.kind = "remoteBye"

\* What the far end did before the event e was queued.
Backed(e) ==
    /\ Responds(e) => e.txn = call.txn
    /\ e.kind = "provisional" => [txn |-> e.txn, code |-> e.code] \in peer.said
    /\ e.kind = "final" => peer.invite = "rejected"
    /\ OfDialog(e) => dialogs[e.tag].confirmed
    /\ e.kind = "remoteBye" => dialogs[e.tag].remoteBye

\* Nothing follows the final of a rejected INVITE but a new INVITE.
QueueInv ==
    /\ \A i \in 1..Len(events) : /\ Backed(events[i])
                                 /\ events[i].kind = "final" => i = Len(events) /\ emitting = NoEvent
    /\ emitting # NoEvent => OfDialog(emitting) /\ Backed(emitting)

\* What the call knows of the far end.
PeerInv ==
    /\ (\E t \in Tags : dialogs[t].confirmed) => peer.invite = "answered"
    /\ call.inviteFinal => peer.invite = "rejected"
    /\ call.proceeding => \E p \in peer.said : p.txn = call.txn
    /\ peer.said # {} => \/ call.anyProvisional \/ verdict.decided \/ peer.invite = "answered"
                         \/ events # <<>> /\ Head(events).kind = "provisional"

\* A call that fails over, or has not begun, has placed no call.
NoCallInv ==
    /\ call.failover => /\ peer.said = {} /\ peer.invite = "rejected"
                        /\ events = <<>> /\ emitting = NoEvent
                        /\ call.phase = "done" /\ call.primary = NoTag /\ call.inviteFinal
                        /\ ~call.cancelSent /\ pc \notin Lingering
                        /\ pc \notin {"dial", "ended"} => addr < Len(HostOf)
    /\ pc = "dial" => /\ peer.said = {} /\ peer.invite # "answered"
                      /\ events = <<>> /\ emitting = NoEvent
                      /\ ~call.cancelSent
    /\ flow = "open" => pc \notin {"dial", "ended"}

\* A call that is over, and fails over to no other address, has its verdict.
DecidedIn(c, v) == c.phase \in Over \cup {"holding"} /\ ~c.failover => v.decided

PhaseInv ==
    /\ DecidedIn(call, verdict)
    /\ pc \in TearingDown => call.phase \in Over
    /\ call.cancelSent => pc \in TearingDown \cup {"ended"}
    /\ call.txn = call.authRounds + 1
    /\ pc \in Lingering => verdict.decided

DialogInv ==
    /\ call.primary # NoTag => dialogs[call.primary].confirmed
    /\ \A t \in Tags : /\ ~dialogs[t].byeDone => dialogs[t].byes = 0 /\ dialogs[t].last = "none"
                       /\ dialogs[t].byeDone => dialogs[t].byes > 0
                       /\ dialogs[t].byeUnanswered => /\ dialogs[t].byeDone /\ dialogs[t].byes = 1
                                                      /\ dialogs[t].last = "bye_unconfirmed"
    /\ retrying # {} => pc \in {"retry", "retryBye"}
    /\ \A t \in retrying : dialogs[t].byeUnanswered

\* A BYE round trip is in progress.
ByeInv ==
    /\ pc \in {"bye", "lateBye"} => /\ byeTag \in Tags /\ dialogs[byeTag].byeDone
                                    /\ dialogs[byeTag].byes = 1 /\ dialogs[byeTag].last = "none"
    /\ pc = "retryBye" => /\ byeTag \in Tags /\ dialogs[byeTag].byeDone
                          /\ dialogs[byeTag].last = "bye_unconfirmed" /\ byeTag \notin retrying
                          /\ ~dialogs[byeTag].byeUnanswered

LabelInv ==
    /\ call.label \in {"bye_ok", "remote_bye", "answered_after_cancel", "bye_unconfirmed"} =>
          call.primary \in Tags
    /\ LabelTruthful

\* The linger looks again for every dialog that is still up.
LateInv ==
    pc \in {"late", "lateCancel"} \/ (pc = "ended" /\ flow = "closed" /\ LingerSlots > 0 /\ RanToItsEnd) =>
        Unended = {} \/ AnswerQueued \/ overlooked

SipInv == QueueInv /\ PeerInv /\ NoCallInv /\ PhaseInv /\ DialogInv /\ ByeInv /\ LabelInv
            /\ CancelFollowsProvisional /\ LateInv
-----------------------------------------------------------------------------
(* What one event does to the call.                                        *)

\* The INVITE answers a challenge.
Retries(c, v, e, d) ==
    /\ e.kind = "final" /\ d.txn = c.txn + 1
    /\ ~d.proceeding /\ ~d.inviteFinal /\ ~v.decided /\ c.phase \in {"calling", "proceeding"}

\* A rejection before any provisional, with an address left.
GivesUpAddress(c, v, e, d) ==
    /\ e.kind = "final" /\ ~c.anyProvisional /\ ~v.decided /\ addr < Len(HostOf)
    /\ d.phase = "done" /\ d.inviteFinal /\ d.txn = c.txn

Labelled(c, e, d) ==
    \/ d.label \in {c.label, "none"}
    \/ d.label = "cancelled" /\ c.cancelSent /\ e.kind = "final"
    \/ d.label = "answered_after_cancel" /\ c.cancelSent /\ d.primary # NoTag
    \/ d.label = "remote_bye" /\ e.kind = "remoteBye" /\ e.tag = d.primary

\* The call d with verdict w is what the event e leaves of the call c with verdict v.
Follows(c, v, e, d, w) ==
    /\ d \in CallRecord /\ w \in Verdict
    /\ v.decided => w.decided
    /\ DecidedIn(d, w)
    /\ c.anyProvisional \/ e.kind = "provisional" => d.anyProvisional
    /\ d.cancelSent = c.cancelSent
    /\ c.phase \in Over => d.phase \in Over
    /\ d.txn = d.authRounds + 1
    /\ d.txn = c.txn \/ Retries(c, v, e, d)
    /\ d.proceeding => c.proceeding \/ e.kind = "provisional"
    /\ d.inviteFinal => c.inviteFinal \/ e.kind = "final"
    /\ d.failover => GivesUpAddress(c, v, e, d)
    /\ \/ d.primary = c.primary
       \/ c.primary = NoTag /\ e.kind = "answered" /\ d.primary = e.tag
    /\ Labelled(c, e, d)

LEMMA EventShape ==
    ASSUME NEW e \in Event
    PROVE  /\ Responds(e) \/ OfDialog(e)
           /\ Responds(e) => e.txn \in 1..3
           /\ e.kind = "provisional" => e.code \in Provisionals
           /\ e.kind = "final" => e.code \in Finals
           /\ OfDialog(e) => e.tag \in Tags
           /\ e # NoEvent
BY DEF Event, Responds, OfDialog, NoEvent

LEMMA DecideType ==
    ASSUME NEW v \in Verdict, NEW s \in {"success", "failure", "error"}
    PROVE  decide(v, s) \in Verdict /\ decide(v, s).decided
BY DEF decide, Verdict

LEMMA ProvisionalFollows ==
    ASSUME NEW c \in CallRecord, NEW v \in Verdict, NEW e \in Event, e.kind = "provisional",
           ~c.failover, DecidedIn(c, v), c.txn = c.authRounds + 1,
           NEW r, r = onProvisional(c, v, e.code)
    PROVE  Follows(c, v, e, r.c, r.v)
<1> DEFINE seen == [c EXCEPT !.anyProvisional = TRUE, !.proceeding = TRUE,
                             !.phase = IF @ = "calling" THEN "proceeding" ELSE @]
           first == Rings(e.code) /\ ~c.ringing
           won == first /\ config.ring /\ seen.phase = "proceeding"
<1>1. /\ r.c = [seen EXCEPT !.ringing = @ \/ first, !.phase = IF won THEN "cancelling" ELSE @]
      /\ r.v = IF won THEN decide(v, "success") ELSE v
  BY DEF onProvisional
<1>2. seen \in CallRecord /\ first \in BOOLEAN /\ won \in BOOLEAN
  BY DEF CallRecord, CallPhases, Rings
<1>3. /\ r.c \in CallRecord
      /\ r.c.phase = IF won THEN "cancelling" ELSE seen.phase
      /\ r.c.anyProvisional /\ r.c.cancelSent = c.cancelSent /\ r.c.txn = c.txn
      /\ r.c.authRounds = c.authRounds /\ r.c.inviteFinal = c.inviteFinal
      /\ r.c.failover = c.failover /\ r.c.primary = c.primary /\ r.c.label = c.label
  <2> DEFINE ringing == seen.ringing \/ first
             phase == IF won THEN "cancelling" ELSE seen.phase
  <2>1. ringing \in BOOLEAN /\ phase \in CallPhases
    BY <1>2 DEF CallRecord, CallPhases
  <2>2. r.c = [seen EXCEPT !.ringing = ringing, !.phase = phase]
    BY <1>1
  <2>3. /\ seen.anyProvisional /\ seen.cancelSent = c.cancelSent /\ seen.txn = c.txn
        /\ seen.authRounds = c.authRounds /\ seen.inviteFinal = c.inviteFinal
        /\ seen.failover = c.failover /\ seen.primary = c.primary /\ seen.label = c.label
    BY DEF CallRecord
  <2> HIDE DEF seen, ringing, phase
  <2>4. /\ r.c \in CallRecord /\ r.c.phase = phase
        /\ r.c.anyProvisional = seen.anyProvisional
        /\ r.c.cancelSent = seen.cancelSent /\ r.c.txn = seen.txn
        /\ r.c.authRounds = seen.authRounds /\ r.c.inviteFinal = seen.inviteFinal
        /\ r.c.failover = seen.failover /\ r.c.primary = seen.primary /\ r.c.label = seen.label
    BY <1>2, <2>1, <2>2 DEF CallRecord
  <2> QED BY <2>3, <2>4 DEF phase
<1>4. seen.phase = IF c.phase = "calling" THEN "proceeding" ELSE c.phase
  BY DEF CallRecord
<1>5. r.v \in Verdict /\ (v.decided => r.v.decided) /\ (won => r.v.decided)
  BY <1>1, DecideType
<1> HIDE DEF seen, first, won
<1> QED BY <1>2, <1>3, <1>4, <1>5 DEF Follows, DecidedIn, Over, Labelled

LEMMA FinalFollows ==
    ASSUME NEW c \in CallRecord, NEW v \in Verdict, NEW e \in Event, e.kind = "final",
           ~c.failover, DecidedIn(c, v), c.txn = c.authRounds + 1,
           NEW r, r = onFinal(c, v, e.code)
    PROVE  Follows(c, v, e, r.c, r.v)
<1> DEFINE done == [c EXCEPT !.inviteFinal = TRUE, !.phase = "done"]
<1>1. CASE AnswersChallenge(c, v, e.code)
  <2>1. /\ r.c = [c EXCEPT !.authRounds = c.authRounds + 1, !.txn = c.txn + 1, !.phase = "calling",
                            !.proceeding = FALSE, !.inviteFinal = FALSE]
        /\ r.v = v
    BY <1>1 DEF onFinal, CallRecord
  <2>2. c.authRounds \in 0..1 /\ c.txn \in 1..2 /\ ~v.decided /\ c.phase \in {"calling", "proceeding"}
    BY <1>1 DEF AnswersChallenge, CallRecord
  <2>3. /\ r.c \in CallRecord /\ r.c.authRounds = c.authRounds + 1 /\ r.c.txn = c.txn + 1
        /\ r.c.phase = "calling" /\ ~r.c.proceeding /\ ~r.c.inviteFinal
    <3> DEFINE rounds == c.authRounds + 1
               next == c.txn + 1
    <3>1. rounds \in 0..2 /\ next \in 1..3
      BY <2>2
    <3>2. r.c = [c EXCEPT !.authRounds = rounds, !.txn = next, !.phase = "calling",
                          !.proceeding = FALSE, !.inviteFinal = FALSE]
      BY <2>1
    <3> HIDE DEF rounds, next
    <3>3. /\ r.c \in CallRecord /\ r.c.authRounds = rounds /\ r.c.txn = next
          /\ r.c.phase = "calling" /\ ~r.c.proceeding /\ ~r.c.inviteFinal
      BY <3>1, <3>2 DEF CallRecord, CallPhases
    <3> QED BY <3>3 DEF rounds, next
  <2>4. /\ r.c.anyProvisional = c.anyProvisional /\ r.c.cancelSent = c.cancelSent
        /\ r.c.failover = c.failover /\ r.c.primary = c.primary /\ r.c.label = c.label
    BY <2>1 DEF CallRecord
  <2> QED BY <2>1, <2>2, <2>3, <2>4 DEF Follows, Retries, DecidedIn, Over, Labelled, CallRecord
<1>2. CASE ~AnswersChallenge(c, v, e.code)
  <2>1. /\ done \in CallRecord /\ done.inviteFinal /\ done.phase = "done"
        /\ done.anyProvisional = c.anyProvisional /\ done.cancelSent = c.cancelSent
        /\ done.failover = c.failover /\ done.primary = c.primary /\ done.label = c.label
        /\ done.txn = c.txn /\ done.authRounds = c.authRounds /\ done.proceeding = c.proceeding
    BY DEF CallRecord, CallPhases
  <2>2. CASE c.phase = "cancelling" \/ v.decided
    <3>1. v.decided
      BY <2>2 DEF DecidedIn, Over
    <3>2. /\ r.c = [done EXCEPT !.label = IF c.cancelSent THEN "cancelled" ELSE c.label]
          /\ r.v = v
      BY <1>2, <2>1, <2>2 DEF onFinal
    <3> HIDE DEF done
    <3>3. /\ r.c \in CallRecord /\ r.c.phase = "done" /\ r.c.anyProvisional = c.anyProvisional
          /\ r.c.cancelSent = c.cancelSent /\ r.c.failover = c.failover /\ r.c.primary = c.primary
          /\ r.c.label = (IF c.cancelSent THEN "cancelled" ELSE c.label)
          /\ r.c.txn = c.txn /\ r.c.authRounds = c.authRounds /\ r.c.proceeding = c.proceeding
      BY <2>1, <3>2 DEF CallRecord, Labels
    <3> QED BY <3>1, <3>2, <3>3 DEF Follows, DecidedIn, Over, Labelled
  <2>3. CASE ~(c.phase = "cancelling" \/ v.decided) /\ FailsOver(c, e.code)
    <3>1. r.c = [done EXCEPT !.failover = TRUE] /\ r.v = v
      BY <1>2, <2>3 DEF onFinal
    <3> HIDE DEF done
    <3>2. /\ r.c \in CallRecord /\ r.c.phase = "done" /\ r.c.anyProvisional = c.anyProvisional
          /\ r.c.cancelSent = c.cancelSent /\ r.c.failover /\ r.c.primary = c.primary
          /\ r.c.label = c.label /\ r.c.inviteFinal
          /\ r.c.txn = c.txn /\ r.c.authRounds = c.authRounds /\ r.c.proceeding = c.proceeding
      BY <2>1, <3>1 DEF CallRecord
    <3> QED
      BY <2>3, <3>1, <3>2 DEF Follows, DecidedIn, Over, Labelled, GivesUpAddress, FailsOver
  <2>4. CASE ~(c.phase = "cancelling" \/ v.decided) /\ ~FailsOver(c, e.code)
    <3>1. r.c = done /\ r.v = decide(v, "failure")
      BY <1>2, <2>4 DEF onFinal
    <3> HIDE DEF done
    <3> QED BY <2>1, <2>4, <3>1, DecideType DEF Follows, DecidedIn, Over, Labelled
  <2> QED BY <2>2, <2>3, <2>4
<1> QED BY <1>1, <1>2

LEMMA AnsweredFollows ==
    ASSUME NEW c \in CallRecord, NEW v \in Verdict, NEW e \in Event, e.kind = "answered",
           ~c.failover, DecidedIn(c, v), c.txn = c.authRounds + 1,
           NEW r, r = onAnswered(c, v, e.tag)
    PROVE  Follows(c, v, e, r.c, r.v)
<1> DEFINE won == [c EXCEPT !.primary = IF c.primary = NoTag THEN e.tag ELSE c.primary]
<1>1. e.tag \in Tags
  BY EventShape DEF OfDialog
<1>2. /\ won \in CallRecord /\ won.phase = c.phase
      /\ won.primary = (IF c.primary = NoTag THEN e.tag ELSE c.primary)
      /\ won.anyProvisional = c.anyProvisional /\ won.cancelSent = c.cancelSent
      /\ won.failover = c.failover /\ won.label = c.label /\ won.inviteFinal = c.inviteFinal
      /\ won.txn = c.txn /\ won.authRounds = c.authRounds /\ won.proceeding = c.proceeding
  BY <1>1 DEF CallRecord
<1>3. won.primary # NoTag
  BY <1>1, <1>2, SipCallAssumption DEF NoTag, SipCallAssumption
<1>4. CASE c.phase = "cancelling"
  <2> DEFINE label == IF c.cancelSent THEN "answered_after_cancel" ELSE "none"
  <2>1. r.c = [won EXCEPT !.phase = "terminating", !.label = label] /\ r.v = v
    BY <1>4 DEF onAnswered
  <2>2. label \in Labels
    BY DEF Labels
  <2> HIDE DEF won, label
  <2>3. /\ r.c \in CallRecord /\ r.c.phase = "terminating" /\ r.c.label = label
        /\ r.c.primary = won.primary
        /\ r.c.anyProvisional = c.anyProvisional /\ r.c.cancelSent = c.cancelSent
        /\ r.c.failover = c.failover /\ r.c.inviteFinal = c.inviteFinal
        /\ r.c.txn = c.txn /\ r.c.authRounds = c.authRounds /\ r.c.proceeding = c.proceeding
    BY <1>2, <2>1, <2>2 DEF CallRecord, CallPhases
  <2> QED BY <1>2, <1>3, <1>4, <2>1, <2>3 DEF Follows, DecidedIn, Over, Labelled, label
<1>5. CASE c.phase \in {"holding", "terminating", "done"}
  <2>1. r.c = won /\ r.v = v
    BY <1>5 DEF onAnswered
  <2> HIDE DEF won
  <2> QED BY <1>2, <1>5, <2>1 DEF Follows, DecidedIn, Over, Labelled
<1>6. CASE c.phase \in {"calling", "proceeding"}
  <2>1. PICK p \in {"terminating", "holding"}, s \in {"success", "failure"} :
          r.c = [won EXCEPT !.phase = p] /\ r.v = decide(v, s)
    BY <1>6 DEF onAnswered
  <2> HIDE DEF won
  <2>2. /\ r.c \in CallRecord /\ r.c.phase = p /\ r.c.label = c.label
        /\ r.c.primary = won.primary
        /\ r.c.anyProvisional = c.anyProvisional /\ r.c.cancelSent = c.cancelSent
        /\ r.c.failover = c.failover /\ r.c.inviteFinal = c.inviteFinal
        /\ r.c.txn = c.txn /\ r.c.authRounds = c.authRounds /\ r.c.proceeding = c.proceeding
    BY <1>2, <2>1 DEF CallRecord, CallPhases
  <2> QED BY <1>2, <1>6, <2>1, <2>2, DecideType DEF Follows, DecidedIn, Over, Labelled
<1> QED BY <1>4, <1>5, <1>6 DEF CallRecord, CallPhases

LEMMA RemoteByeFollows ==
    ASSUME NEW c \in CallRecord, NEW v \in Verdict, NEW e \in Event, e.kind = "remoteBye",
           ~c.failover, DecidedIn(c, v), c.txn = c.authRounds + 1,
           NEW r, r = onRemoteBye(c, v, e.tag)
    PROVE  Follows(c, v, e, r.c, r.v)
<1>1. CASE e.tag # c.primary
  BY <1>1 DEF onRemoteBye, Follows, Labelled
<1>2. CASE e.tag = c.primary
  <2> DEFINE label == IF c.label = "none" THEN "remote_bye" ELSE c.label
             phase == IF c.phase = "holding" THEN "terminating" ELSE c.phase
  <2>1. r.c = [c EXCEPT !.label = label, !.phase = phase] /\ r.v = v
    BY <1>2 DEF onRemoteBye, CallRecord
  <2>2. label \in Labels /\ phase \in CallPhases
    BY DEF CallRecord, CallPhases, Labels
  <2> HIDE DEF label, phase
  <2>3. /\ r.c \in CallRecord /\ r.c.phase = phase /\ r.c.label = label /\ r.c.primary = c.primary
        /\ r.c.anyProvisional = c.anyProvisional /\ r.c.cancelSent = c.cancelSent
        /\ r.c.failover = c.failover /\ r.c.inviteFinal = c.inviteFinal
        /\ r.c.txn = c.txn /\ r.c.authRounds = c.authRounds /\ r.c.proceeding = c.proceeding
    BY <2>1, <2>2 DEF CallRecord
  <2> QED BY <1>2, <2>1, <2>3 DEF Follows, DecidedIn, Over, Labelled, label, phase
<1> QED BY <1>1, <1>2

\* What any event of the INVITE in progress does to the call.
LEMMA HandleFollows ==
    ASSUME NEW c \in CallRecord, NEW v \in Verdict, NEW e \in Event, Responds(e) => e.txn = c.txn,
           ~c.failover, DecidedIn(c, v), c.txn = c.authRounds + 1,
           NEW r, r = handle(c, v, e)
    PROVE  Follows(c, v, e, r.c, r.v)
<1>1. CASE e.kind = "provisional"
  <2>1. r = onProvisional(c, v, e.code)
    BY <1>1 DEF handle, Responds
  <2> QED BY <1>1, <2>1, ProvisionalFollows
<1>2. CASE e.kind = "final"
  <2>1. r = onFinal(c, v, e.code)
    BY <1>2 DEF handle, Responds
  <2> QED BY <1>2, <2>1, FinalFollows
<1>3. CASE e.kind = "answered"
  <2>1. r = onAnswered(c, v, e.tag)
    BY <1>3 DEF handle
  <2> QED BY <1>3, <2>1, AnsweredFollows
<1>4. CASE e.kind = "remoteBye"
  <2>1. r = onRemoteBye(c, v, e.tag)
    BY <1>4 DEF handle
  <2> QED BY <1>4, <2>1, RemoteByeFollows
<1> QED BY <1>1, <1>2, <1>3, <1>4, EventShape DEF Responds, OfDialog


-----------------------------------------------------------------------------
(* Frames.                                                                 *)

SipIInv == SipTypeOK /\ SipInv

Consumes == events # <<>> /\ events' = Tail(events)
Consumed(kind) == Consumes /\ Head(events).kind = kind

\* A step of the goroutine that starts no transaction: it reads at most one event.
GoroutineFrame ==
    /\ UNCHANGED <<peer, emitting, overlooked>>
    /\ UNCHANGED events \/ Consumes
    /\ \A t \in Tags : /\ dialogs'[t].confirmed = dialogs[t].confirmed
                       /\ dialogs'[t].remoteBye = dialogs[t].remoteBye
    /\ call'.txn = call.txn
    /\ call.anyProvisional => call'.anyProvisional
    /\ verdict.decided => verdict'.decided
    /\ call'.proceeding => call.proceeding \/ Consumed("provisional")
    /\ call'.inviteFinal => call.inviteFinal \/ Consumed("final")
    /\ Consumed("provisional") => call'.anyProvisional \/ verdict'.decided

LEMMA QueueShape ==
    ASSUME SipTypeOK, events # <<>>
    PROVE  /\ Len(events) \in Nat \ {0} /\ Head(events) = events[1] /\ events[1] \in Event
           /\ Tail(events) \in Seq(Event) /\ Len(Tail(events)) = Len(events) - 1
           /\ \A i \in 1..Len(Tail(events)) : Tail(events)[i] = events[i + 1] /\ i + 1 \in 1..Len(events)
<1> DEFINE n == Len(events)
           s == Tail(events)
<1>1. events \in Seq(Event) /\ n \in Nat \ {0}
  BY DEF SipTypeOK
<1>2. Head(events) = events[1] /\ events[1] \in Event
  BY <1>1
<1>3. s \in Seq(Event) /\ Len(s) = n - 1
  BY <1>1
<1>4. ASSUME NEW i \in 1..Len(s) PROVE s[i] = events[i + 1] /\ i + 1 \in 1..n
  BY <1>1, <1>3
<1> QED BY <1>1, <1>2, <1>3, <1>4

LEMMA HeadBacked ==
    ASSUME SipTypeOK, QueueInv, events # <<>>
    PROVE  /\ Backed(Head(events))
           /\ Head(events).kind = "final" => Tail(events) = <<>> /\ emitting = NoEvent
<1>1. 1 \in 1..Len(events)
  BY QueueShape
<1>2. Backed(events[1]) /\ (events[1].kind = "final" => 1 = Len(events) /\ emitting = NoEvent)
  BY <1>1 DEF QueueInv
<1>3. ASSUME 1 = Len(events) PROVE Tail(events) = <<>>
  <2> DEFINE s == Tail(events)
  <2>1. s \in Seq(Event) /\ Len(s) = 0
    BY <1>3, QueueShape
  <2> HIDE DEF s
  <2>2. s = <<>>
    BY <2>1, EmptySeq
  <2> QED BY <2>2 DEF s
<1> QED BY <1>2, <1>3, QueueShape

LEMMA FrameKeepsQueue ==
    ASSUME SipTypeOK, QueueInv, GoroutineFrame
    PROVE  QueueInv'
<1>1. ASSUME NEW e \in Event, Backed(e) PROVE Backed(e)'
  <2>1. /\ call'.txn = call.txn /\ peer' = peer
        /\ \A t \in Tags : /\ dialogs'[t].confirmed = dialogs[t].confirmed
                           /\ dialogs'[t].remoteBye = dialogs[t].remoteBye
    BY DEF GoroutineFrame
  <2>2. /\ OfDialog(e) => e.tag \in Tags
        /\ e.kind = "remoteBye" => OfDialog(e)
    BY EventShape DEF OfDialog
  <2> QED BY <1>1, <2>1, <2>2 DEF Backed
<1>2. emitting' # NoEvent => OfDialog(emitting') /\ Backed(emitting)'
  <2>1. CASE emitting = NoEvent
    BY <2>1 DEF GoroutineFrame
  <2>2. CASE emitting # NoEvent
    <3>1. PICK e \in Event : e = emitting
      BY <2>2 DEF SipTypeOK
    <3>2. Backed(e) /\ OfDialog(e) /\ e = emitting'
      BY <2>2, <3>1 DEF QueueInv, GoroutineFrame
    <3>3. Backed(e)'
      BY <1>1, <3>2
    <3> QED BY <3>2, <3>3
  <2> QED BY <2>1, <2>2
<1>3. ASSUME NEW i \in 1..Len(events')
      PROVE  Backed(events[i])' /\ (events'[i].kind = "final" => i = Len(events') /\ emitting' = NoEvent)
  <2>1. PICK j \in 1..Len(events) : events'[i] = events[j] /\ (j = Len(events) => i = Len(events'))
    <3>1. CASE UNCHANGED events
      BY <3>1
    <3>2. CASE Consumes
      <4>1. /\ i + 1 \in 1..Len(events) /\ events'[i] = events[i + 1]
            /\ Len(events') = Len(events) - 1 /\ Len(events) \in Nat
        BY <3>2, QueueShape DEF Consumes
      <4> QED BY <4>1
    <3> QED BY <3>1, <3>2 DEF GoroutineFrame
  <2>2. PICK e \in Event : e = events[j]
    BY DEF SipTypeOK
  <2>3. Backed(e) /\ (e.kind = "final" => j = Len(events) /\ emitting = NoEvent)
    BY <2>2 DEF QueueInv
  <2>4. Backed(e)' /\ e = events'[i]
    BY <1>1, <2>1, <2>2, <2>3
  <2> QED BY <2>1, <2>3, <2>4 DEF GoroutineFrame
<1> QED BY <1>2, <1>3 DEF QueueInv

LEMMA FrameKeepsPeer ==
    ASSUME SipTypeOK, QueueInv, PeerInv, GoroutineFrame
    PROVE  PeerInv'
<1>1. (\E t \in Tags : dialogs'[t].confirmed) => peer'.invite = "answered"
  BY DEF PeerInv, GoroutineFrame
<1>2. call'.inviteFinal => peer'.invite = "rejected"
  BY HeadBacked DEF PeerInv, GoroutineFrame, Consumed, Consumes, Backed
<1>3. call'.proceeding => \E p \in peer'.said : p.txn = call'.txn
  <2>1. ASSUME Consumed("provisional") PROVE \E p \in peer.said : p.txn = call.txn
    <3>1. Backed(Head(events)) /\ Head(events).kind = "provisional"
      BY <2>1, HeadBacked DEF Consumed, Consumes
    <3>2. /\ [txn |-> Head(events).txn, code |-> Head(events).code] \in peer.said
          /\ Head(events).txn = call.txn
      BY <3>1 DEF Backed, Responds
    <3> QED BY <3>2
  <2> QED BY <2>1 DEF PeerInv, GoroutineFrame
<1>4. peer'.said # {} => \/ call'.anyProvisional \/ verdict'.decided \/ peer'.invite = "answered"
                         \/ events' # <<>> /\ Head(events').kind = "provisional"
  BY DEF PeerInv, GoroutineFrame, Consumed
<1> QED BY <1>1, <1>2, <1>3, <1>4 DEF PeerInv


-----------------------------------------------------------------------------
(* Steps before the linger that leave the dialogs to the far end.          *)

Early == {"drive", "flowEnd", "settle", "settleEnd", "byeAll", "handOver"}

\* The goroutine may take a label, a CANCEL or the end of a call, and read one event.
CallStep ==
    /\ GoroutineFrame
    /\ UNCHANGED <<config, addr, budget, dialogs, byeTag, lingered, retrying, outcome, flow, provs>>
    /\ pc \in Early /\ pc' \in Early
    /\ call' \in CallRecord /\ verdict' \in Verdict
    /\ media' \in [held : BOOLEAN, stopped : BOOLEAN] /\ panics' \in 0..MaxPanics
    /\ DecidedIn(call', verdict')
    /\ call'.txn = call'.authRounds + 1
    /\ pc' \in TearingDown => call'.phase \in Over
    /\ call'.cancelSent => pc' \in TearingDown /\ (call.cancelSent \/ call'.proceeding)
    /\ call.cancelSent => call'.cancelSent
    /\ call'.failover => \/ /\ call.failover /\ call'.phase = "done" /\ call'.inviteFinal
                            /\ call'.primary = call.primary
                         \/ Consumes /\ GivesUpAddress(call, verdict, Head(events), call')
    /\ \/ call'.primary = call.primary
       \/ Consumed("answered") /\ call.primary = NoTag /\ call'.primary = Head(events).tag
    /\ \/ call'.label \in {call.label, "none", "cancel_unconfirmed", "no_provisional"}
       \/ Consumes /\ Labelled(call, Head(events), call')

LEMMA CallStepTypes ==
    ASSUME SipTypeOK, CallStep
    PROVE  SipTypeOK'
<1>1. /\ call' \in CallRecord /\ verdict' \in Verdict /\ pc' \in Early
      /\ media' \in [held : BOOLEAN, stopped : BOOLEAN] /\ panics' \in 0..MaxPanics
      /\ UNCHANGED <<config, addr, budget, dialogs, byeTag, lingered, retrying, outcome, flow, provs,
                     peer, emitting, overlooked>>
  BY DEF CallStep, GoroutineFrame
<1>2. events' \in Seq(Event) /\ Len(events') <= EventBuffer
  <2>1. CASE UNCHANGED events
    BY <2>1 DEF SipTypeOK
  <2>2. CASE Consumes
    BY <2>2, QueueShape, SipCallAssumption DEF SipTypeOK, Consumes, SipCallAssumption
  <2> QED BY <2>1, <2>2 DEF CallStep, GoroutineFrame
<1> QED BY <1>1, <1>2 DEF SipTypeOK, Early

LEMMA CallStepKeeps ==
    ASSUME SipIInv, CallStep
    PROVE  SipIInv'
<1>1. SipTypeOK /\ SipTypeOK'
  BY CallStepTypes DEF SipIInv
<1>2. QueueInv' /\ PeerInv'
  BY FrameKeepsQueue, FrameKeepsPeer DEF SipIInv, SipInv, CallStep
<1>3. /\ UNCHANGED <<addr, dialogs, byeTag, retrying, flow, peer, emitting>>
      /\ pc \in Early /\ pc' \in Early /\ call'.txn = call.txn
      /\ call \in CallRecord /\ call' \in CallRecord
  BY DEF CallStep, GoroutineFrame, SipIInv, SipTypeOK
<1>4. CancelFollowsProvisional'
  <2>1. CASE call.cancelSent
    BY <1>3, <2>1 DEF SipIInv, SipInv, CancelFollowsProvisional
  <2>2. CASE call'.proceeding
    BY <1>2, <2>2 DEF PeerInv, CancelFollowsProvisional
  <2> QED BY <2>1, <2>2 DEF CallStep, CancelFollowsProvisional
<1>5. call.primary # NoTag => dialogs[call.primary].confirmed /\ call.primary \in Tags
  BY <1>3 DEF SipIInv, SipInv, DialogInv, CallRecord
<1>6. call'.primary # NoTag => dialogs[call'.primary].confirmed /\ call'.primary \in Tags
  <2>1. ASSUME Consumed("answered") PROVE dialogs[Head(events).tag].confirmed /\ Head(events).tag \in Tags
    BY <2>1, HeadBacked, QueueShape, EventShape
    DEF Consumed, Consumes, Backed, OfDialog, SipIInv, SipInv
  <2> QED BY <1>5, <2>1 DEF CallStep
<1>7. NoCallInv'
  <2>1. ASSUME call'.failover
        PROVE  /\ peer.said = {} /\ peer.invite = "rejected" /\ events' = <<>> /\ emitting = NoEvent
               /\ call'.phase = "done" /\ call'.primary = NoTag /\ call'.inviteFinal
               /\ addr < Len(HostOf)
    <3>1. CASE call.failover /\ call'.phase = "done" /\ call'.inviteFinal /\ call'.primary = call.primary
      BY <1>3, <3>1 DEF SipIInv, SipInv, NoCallInv, CallStep, GoroutineFrame, Consumes, Early
    <3>2. CASE Consumes /\ GivesUpAddress(call, verdict, Head(events), call')
      <4>1. /\ Head(events).kind = "final" /\ peer.invite = "rejected"
            /\ Tail(events) = <<>> /\ emitting = NoEvent
        BY <3>2, HeadBacked DEF SipIInv, SipInv, GivesUpAddress, Consumes, Backed
      <4>2. peer.said = {} /\ \A t \in Tags : ~dialogs[t].confirmed
        BY <3>2, <4>1 DEF SipIInv, SipInv, PeerInv, GivesUpAddress
      <4> QED BY <1>6, <3>2, <4>1, <4>2 DEF GivesUpAddress, Consumes
    <3> QED BY <2>1, <3>1, <3>2 DEF CallStep
  <2>2. call'.failover => ~call'.cancelSent
    BY <1>3, <1>4, <2>1 DEF CancelFollowsProvisional
  <2>3. flow' = "open" => pc' \notin {"dial", "ended"}
    BY <1>3 DEF Early
  <2> QED BY <1>3, <2>1, <2>2, <2>3 DEF NoCallInv, Early, Lingering
<1>8. PhaseInv'
  BY <1>3 DEF CallStep, PhaseInv, Early, Lingering
<1>9. DialogInv' /\ ByeInv'
  BY <1>3, <1>6 DEF SipIInv, SipInv, DialogInv, ByeInv, Early
<1>10. LabelInv'
  <2>1. LabelInv
    BY DEF SipIInv, SipInv
  <2>2. CASE call'.label \in {"none", "cancel_unconfirmed", "no_provisional"}
    BY <2>2 DEF LabelInv, LabelTruthful
  <2>3. CASE call'.label = call.label
    <3>1. call.label = "cancelled" => call'.cancelSent /\ peer'.invite = "rejected"
      BY <1>3, <2>1 DEF LabelInv, LabelTruthful, CallStep
    <3>2. CASE call.label \in {"bye_ok", "remote_bye", "answered_after_cancel", "bye_unconfirmed"}
      <4>1. call.primary \in Tags /\ call.primary # NoTag
        BY <2>1, <3>2, SipCallAssumption DEF LabelInv, SipCallAssumption, NoTag
      <4>2. call'.primary = call.primary
        BY <4>1 DEF CallStep
      <4> QED BY <1>3, <2>1, <2>3, <3>1, <4>1, <4>2 DEF LabelInv, LabelTruthful, CallStep
    <3>3. CASE call.label \notin {"bye_ok", "remote_bye", "answered_after_cancel", "bye_unconfirmed"}
      BY <2>3, <3>1, <3>3 DEF LabelInv, LabelTruthful
    <3> QED BY <3>2, <3>3
  <2>4. CASE Consumes /\ call'.label = "cancelled" /\ call.cancelSent /\ Head(events).kind = "final"
    BY <1>3, <2>4, HeadBacked DEF LabelInv, LabelTruthful, Consumes, Backed, CallStep, SipIInv, SipInv
  <2>5. CASE call'.label = "answered_after_cancel" /\ call.cancelSent /\ call'.primary # NoTag
    BY <1>3, <1>6, <2>5 DEF LabelInv, LabelTruthful, CallStep
  <2>6. CASE /\ Consumes /\ call'.label = "remote_bye"
             /\ Head(events).kind = "remoteBye" /\ Head(events).tag = call'.primary
    <3>1. Backed(Head(events)) /\ Head(events).tag \in Tags
      BY <2>6, HeadBacked, QueueShape, EventShape DEF SipIInv, SipInv, Consumes, OfDialog
    <3> QED BY <1>3, <2>6, <3>1 DEF LabelInv, LabelTruthful, Backed
  <2> QED BY <2>2, <2>3, <2>4, <2>5, <2>6 DEF CallStep, Labelled
<1>11. LateInv'
  BY <1>3 DEF LateInv, Early
<1> QED BY <1>1, <1>2, <1>4, <1>7, <1>8, <1>9, <1>10, <1>11 DEF SipIInv, SipInv


\* A change of phase, of label or of the CANCEL alone.
LEMMA PhaseChange ==
    ASSUME call \in CallRecord, NEW p \in CallPhases, call' = [call EXCEPT !.phase = p]
    PROVE  /\ call' \in CallRecord /\ call'.phase = p
           /\ call'.txn = call.txn /\ call'.proceeding = call.proceeding
           /\ call'.anyProvisional = call.anyProvisional /\ call'.ringing = call.ringing
           /\ call'.authRounds = call.authRounds /\ call'.primary = call.primary
           /\ call'.inviteFinal = call.inviteFinal /\ call'.failover = call.failover
           /\ call'.cancelSent = call.cancelSent /\ call'.label = call.label
BY DEF CallRecord

LEMMA LabelChange ==
    ASSUME call \in CallRecord, NEW l \in Labels, call' = [call EXCEPT !.label = l]
    PROVE  /\ call' \in CallRecord /\ call'.label = l
           /\ call'.txn = call.txn /\ call'.proceeding = call.proceeding
           /\ call'.anyProvisional = call.anyProvisional /\ call'.ringing = call.ringing
           /\ call'.authRounds = call.authRounds /\ call'.primary = call.primary
           /\ call'.inviteFinal = call.inviteFinal /\ call'.failover = call.failover
           /\ call'.cancelSent = call.cancelSent /\ call'.phase = call.phase
BY DEF CallRecord

LEMMA CancelChange ==
    ASSUME call \in CallRecord, NEW b \in BOOLEAN, NEW f \in BOOLEAN,
           call' = [call EXCEPT !.cancelSent = b, !.inviteFinal = f]
    PROVE  /\ call' \in CallRecord /\ call'.cancelSent = b /\ call'.inviteFinal = f
           /\ call'.txn = call.txn /\ call'.proceeding = call.proceeding
           /\ call'.anyProvisional = call.anyProvisional /\ call'.ringing = call.ringing
           /\ call'.authRounds = call.authRounds /\ call'.primary = call.primary
           /\ call'.failover = call.failover /\ call'.label = call.label
           /\ call'.phase = call.phase
BY DEF CallRecord

\* A change of phase that ends the call with a verdict.
LEMMA EndingIsCallStep ==
    ASSUME SipIInv, pc \in {"drive", "flowEnd"}, pc' = "drive", UNCHANGED events \/ Consumes,
           verdict' \in Verdict, verdict'.decided,
           NEW p \in CallPhases, call.failover => p = "done", call' = [call EXCEPT !.phase = p], panics' \in 0..MaxPanics,
           UNCHANGED <<config, addr, budget, dialogs, byeTag, media, lingered, retrying, outcome, peerVars>>
    PROVE  CallStep
<1>1. /\ call' \in CallRecord /\ call'.phase = p
      /\ call'.txn = call.txn /\ call'.proceeding = call.proceeding
      /\ call'.anyProvisional = call.anyProvisional /\ call'.authRounds = call.authRounds
      /\ call'.primary = call.primary /\ call'.inviteFinal = call.inviteFinal
      /\ call'.failover = call.failover /\ call'.cancelSent = call.cancelSent /\ call'.label = call.label
  BY PhaseChange DEF SipIInv, SipTypeOK
<1>2. /\ ~call.cancelSent /\ call.txn = call.authRounds + 1
      /\ call.failover => call.inviteFinal
  BY DEF SipIInv, SipInv, PhaseInv, TearingDown, Lingering, NoCallInv
<1>3. GoroutineFrame
  BY <1>1 DEF GoroutineFrame, peerVars
<1>4. media' \in [held : BOOLEAN, stopped : BOOLEAN]
  BY DEF SipIInv, SipTypeOK
<1> QED
  BY <1>1, <1>2, <1>3, <1>4 DEF CallStep, Early, TearingDown, Lingering, DecidedIn, peerVars

LEMMA AnswerTimeoutKeeps ==
    ASSUME SipIInv, AnswerTimeout
    PROVE  SipIInv'
<1>1. verdict' \in Verdict /\ verdict'.decided
  BY DecideType DEF AnswerTimeout, giveUp, SipIInv, SipTypeOK
<1>2. pc = "drive" /\ ~call.failover /\ call' = [call EXCEPT !.phase = "cancelling"]
  BY DEF AnswerTimeout, giveUp, Waiting
<1>3. CallStep
  BY <1>1, <1>2, EndingIsCallStep DEF AnswerTimeout, DriveKeeps, CallPhases, SipIInv, SipTypeOK
<1> QED BY <1>3, CallStepKeeps

LEMMA HoldOverKeeps ==
    ASSUME SipIInv, HoldOver
    PROVE  SipIInv'
<1>1. verdict' \in Verdict /\ verdict'.decided
  BY DEF HoldOver, Waiting, SipIInv, SipTypeOK, SipInv, PhaseInv, DecidedIn
<1>2. pc = "drive" /\ ~call.failover /\ call' = [call EXCEPT !.phase = "terminating"]
  BY DEF HoldOver, Waiting
<1>3. CallStep
  BY <1>1, <1>2, EndingIsCallStep DEF HoldOver, DriveKeeps, CallPhases, SipIInv, SipTypeOK
<1> QED BY <1>3, CallStepKeeps

LEMMA BudgetOutKeeps ==
    ASSUME SipIInv, NEW why \in {"spent", "shutdown"}, BudgetOut(why)
    PROVE  SipIInv'
<1> DEFINE v == IF why = "shutdown" /\ ~verdict.decided
                THEN [decided |-> TRUE, status |-> "error", interrupted |-> TRUE] ELSE verdict
<1>1. v \in Verdict /\ (verdict.decided => v.decided)
  BY DEF SipIInv, SipTypeOK, Verdict
<1>2. pc = "drive" /\ ~call.failover
  BY DEF BudgetOut, Waiting
<1>3. PICK p \in CallPhases : call' = [call EXCEPT !.phase = p] /\ verdict' \in Verdict /\ verdict'.decided
  <2>1. CASE call.phase = "holding"
    <3>1. call' = [call EXCEPT !.phase = "terminating"] /\ verdict' = v
      BY <2>1 DEF BudgetOut
    <3>2. verdict.decided
      BY <1>2, <2>1 DEF SipIInv, SipInv, PhaseInv, DecidedIn
    <3> QED BY <1>1, <3>1, <3>2 DEF CallPhases
  <2>2. CASE call.phase # "holding"
    <3>1. giveUp(v)
      BY <2>2 DEF BudgetOut
    <3> HIDE DEF v
    <3>2. verdict' \in Verdict /\ verdict'.decided
      BY <1>1, <3>1, DecideType DEF giveUp
    <3> QED BY <3>1, <3>2 DEF giveUp, CallPhases
  <2> QED BY <2>1, <2>2
<1>4. CallStep
  BY <1>2, <1>3, EndingIsCallStep DEF BudgetOut, DriveKeeps, SipIInv, SipTypeOK
<1> QED BY <1>4, CallStepKeeps

LEMMA InviteLoopsKeeps ==
    ASSUME SipIInv, InviteLoops
    PROVE  SipIInv'
<1>1. verdict' \in Verdict /\ verdict'.decided
  BY DecideType DEF InviteLoops, SipIInv, SipTypeOK
<1>2. pc = "drive" /\ ~call.failover /\ call' = [call EXCEPT !.phase = "done"]
  BY DEF InviteLoops, Waiting
<1>3. CallStep
  BY <1>1, <1>2, EndingIsCallStep DEF InviteLoops, DriveKeeps, CallPhases, SipIInv, SipTypeOK
<1> QED BY <1>3, CallStepKeeps

LEMMA FlowEndsKeeps ==
    ASSUME SipIInv, FlowEnds
    PROVE  SipIInv'
<1>1. UNCHANGED <<config, callVars, peerVars, events, panics>> /\ pc = "drive" /\ pc' = "flowEnd"
  BY DEF FlowEnds, Waiting
<1>2. ~call.cancelSent
  BY <1>1 DEF SipIInv, SipInv, PhaseInv, TearingDown, Lingering
<1>3. GoroutineFrame
  BY <1>1, QueueShape DEF GoroutineFrame, callVars, peerVars, Consumed, Consumes, SipIInv
<1>4. ~call.failover
  BY DEF FlowEnds, Waiting
<1>5. CallStep
  BY <1>1, <1>2, <1>3, <1>4
  DEF CallStep, callVars, peerVars, Early, TearingDown, Lingering, SipIInv, SipTypeOK, SipInv, PhaseInv
<1> QED BY <1>5, CallStepKeeps


LEMMA FlowEndedKeeps ==
    ASSUME SipIInv, FlowEnded
    PROVE  SipIInv'
<1> DEFINE p == IF call.primary # NoTag THEN "terminating" ELSE "done"
<1>1. verdict' \in Verdict /\ verdict'.decided
  BY DecideType DEF FlowEnded, SipIInv, SipTypeOK
<1>2. /\ pc = "flowEnd" /\ pc' = "drive" /\ call' = [call EXCEPT !.phase = p]
      /\ UNCHANGED <<config, addr, budget, dialogs, byeTag, media, lingered, retrying, outcome,
                     peerVars, events, panics>>
  BY DEF FlowEnded, SipIInv, SipTypeOK
<1>3. p \in CallPhases /\ (call.failover => p = "done") /\ panics' \in 0..MaxPanics
  BY <1>2 DEF SipIInv, SipTypeOK, SipInv, NoCallInv, CallPhases
<1> HIDE DEF p
<1>4. CallStep
  BY <1>1, <1>2, <1>3, EndingIsCallStep
<1> QED BY <1>4, CallStepKeeps

LEMMA DrivePanicsKeeps ==
    ASSUME SipIInv, DrivePanics
    PROVE  SipIInv'
<1> DEFINE p == IF call.primary # NoTag THEN "terminating"
                ELSE IF call.phase \in {"calling", "proceeding"} THEN "cancelling" ELSE call.phase
<1>1. verdict' \in Verdict /\ verdict'.decided
  BY DEF DrivePanics, Verdict
<1>2. /\ pc \in {"drive", "flowEnd"} /\ pc' = "drive" /\ call' = [call EXCEPT !.phase = p]
      /\ UNCHANGED <<config, addr, budget, dialogs, byeTag, media, lingered, retrying, outcome, peerVars>>
      /\ Consumes /\ panics' = panics + 1 /\ panics < MaxPanics
  BY DEF DrivePanics, SipIInv, SipTypeOK, Consumes, Waiting
<1>3. /\ p \in CallPhases /\ (call.failover => p = "done") /\ panics' \in 0..MaxPanics
  BY <1>2, SipCallAssumption
  DEF SipIInv, SipTypeOK, SipInv, NoCallInv, CallPhases, CallRecord, Consumes, SipCallAssumption
<1> HIDE DEF p
<1>4. CallStep
  BY <1>1, <1>2, <1>3, EndingIsCallStep
<1> QED BY <1>4, CallStepKeeps

LEMMA teardownKeeps ==
    ASSUME SipIInv, teardown
    PROVE  SipIInv'
<1> DEFINE b == call.phase = "cancelling" /\ CancelAllowed
<1>1. /\ pc = "drive" /\ pc' \in {"settle", "byeAll"} /\ ~Waiting
      /\ call' = [call EXCEPT !.cancelSent = b]
      /\ UNCHANGED <<config, addr, budget, verdict, dialogs, byeTag, lingered, retrying, outcome, peerVars,
                     events, panics>>
  BY DEF teardown
<1>2. call \in CallRecord /\ b \in BOOLEAN /\ (b => call.proceeding)
  BY DEF SipIInv, SipTypeOK, CallRecord, CancelAllowed
<1>3. call.phase \in Over /\ ~call.cancelSent /\ (call.failover => call.phase = "done" /\ call.inviteFinal)
  BY <1>1, <1>2
  DEF SipIInv, SipInv, NoCallInv, PhaseInv, TearingDown, Lingering, Waiting, Over, CallRecord, CallPhases
<1> HIDE DEF b
<1>4. /\ call' \in CallRecord /\ call'.cancelSent = b
      /\ call'.txn = call.txn /\ call'.proceeding = call.proceeding /\ call'.phase = call.phase
      /\ call'.anyProvisional = call.anyProvisional /\ call'.authRounds = call.authRounds
      /\ call'.primary = call.primary /\ call'.inviteFinal = call.inviteFinal
      /\ call'.failover = call.failover /\ call'.label = call.label
  BY <1>1, <1>2 DEF CallRecord
<1>5. GoroutineFrame
  BY <1>1, <1>4, QueueShape DEF GoroutineFrame, peerVars, Consumed, Consumes, SipIInv
<1>6. media' \in [held : BOOLEAN, stopped : BOOLEAN]
  BY DEF teardown, StopsMedia, SipIInv, SipTypeOK
<1>7. CallStep
  BY <1>1, <1>2, <1>3, <1>4, <1>5, <1>6
  DEF CallStep, Early, TearingDown, peerVars, SipIInv, SipTypeOK, SipInv, PhaseInv, DecidedIn
<1> QED BY <1>7, CallStepKeeps

Relabels(l) == l \in {call.label, "cancel_unconfirmed", "no_provisional"} /\ call' = [call EXCEPT !.label = l]

\* A step of teardown that at most labels the call.
LEMMA LabellingIsCallStep ==
    ASSUME SipIInv, pc \in {"settle", "settleEnd", "byeAll"}, pc' \in {"settleEnd", "byeAll", "handOver"},
           UNCHANGED events \/ (Consumes /\ verdict'.decided),
           verdict' \in Verdict, verdict.decided => verdict'.decided,
           NEW l \in Labels, Relabels(l), panics' \in 0..MaxPanics,
           UNCHANGED <<config, addr, budget, dialogs, byeTag, media, lingered, retrying, outcome, peerVars>>
    PROVE  CallStep
<1>1. /\ call' \in CallRecord /\ call'.label = l
      /\ call'.txn = call.txn /\ call'.proceeding = call.proceeding /\ call'.phase = call.phase
      /\ call'.anyProvisional = call.anyProvisional /\ call'.authRounds = call.authRounds
      /\ call'.primary = call.primary /\ call'.inviteFinal = call.inviteFinal
      /\ call'.failover = call.failover /\ call'.cancelSent = call.cancelSent
  BY LabelChange DEF SipIInv, SipTypeOK, Relabels
<1>2. /\ call.txn = call.authRounds + 1 /\ call.phase \in Over /\ DecidedIn(call, verdict)
      /\ call.failover => call.phase = "done" /\ call.inviteFinal
  BY DEF SipIInv, SipInv, PhaseInv, TearingDown, NoCallInv
<1>3. GoroutineFrame
  BY <1>1, QueueShape DEF GoroutineFrame, peerVars, Consumed, Consumes, SipIInv
<1>4. media' \in [held : BOOLEAN, stopped : BOOLEAN]
  BY DEF SipIInv, SipTypeOK
<1> QED
  BY <1>1, <1>2, <1>3, <1>4 DEF CallStep, Early, TearingDown, DecidedIn, peerVars, Relabels

LEMMA SameLabel ==
    ASSUME call \in CallRecord, UNCHANGED call
    PROVE  Relabels(call.label) /\ call.label \in Labels
BY DEF CallRecord, Relabels

LEMMA SettleEndsKeeps ==
    ASSUME SipIInv, SettleEnds
    PROVE  SipIInv'
<1>1. /\ pc \in {"settle", "settleEnd"} /\ pc' \in {"settleEnd", "byeAll"}
      /\ UNCHANGED <<verdict, events, panics>>
  BY DEF SettleEnds, TeardownKeeps
<1>2. verdict' \in Verdict /\ (verdict.decided => verdict'.decided) /\ panics' \in 0..MaxPanics
  BY <1>1 DEF SipIInv, SipTypeOK
<1>3. UNCHANGED <<config, addr, budget, dialogs, byeTag, media, lingered, retrying, outcome, peerVars>>
  BY DEF SettleEnds, TeardownKeeps
<1>4. ASSUME NEW l \in Labels, Relabels(l) PROVE CallStep
  <2>1. /\ pc \in {"settle", "settleEnd", "byeAll"} /\ pc' \in {"settleEnd", "byeAll", "handOver"}
        /\ UNCHANGED events \/ (Consumes /\ verdict'.decided)
    BY <1>1
  <2> QED BY <1>2, <1>3, <1>4, <2>1, LabellingIsCallStep
<1>5. CASE UNCHANGED call
  BY <1>4, <1>5, SameLabel, CallStepKeeps DEF SipIInv, SipTypeOK
<1>6. CASE call' = settleTeardownLabel(call)
  <2>1. CASE call.phase # "cancelling"
    BY <1>5, <1>6, <2>1 DEF settleTeardownLabel
  <2>2. CASE call.phase = "cancelling"
    <3>1. PICK l \in {"cancel_unconfirmed", "no_provisional"} : call' = [call EXCEPT !.label = l]
      BY <1>6, <2>2 DEF settleTeardownLabel
    <3>2. l \in Labels /\ Relabels(l)
      BY <3>1 DEF Relabels, Labels
    <3> QED BY <1>4, <3>2, CallStepKeeps
  <2> QED BY <2>1, <2>2
<1>7. UNCHANGED call \/ call' = settleTeardownLabel(call)
  BY DEF SettleEnds
<1> QED BY <1>5, <1>6, <1>7, CallStepKeeps

LEMMA TeardownPanicsKeeps ==
    ASSUME SipIInv, TeardownPanics
    PROVE  SipIInv'
<1>1. /\ pc \in {"settle", "settleEnd", "byeAll"} /\ pc' = "handOver" /\ Consumes
      /\ panics < MaxPanics /\ panics' = panics + 1
      /\ UNCHANGED <<config, addr, budget, call, dialogs, byeTag, media, lingered, retrying, outcome, peerVars>>
  BY DEF TeardownPanics, Consumes
<1>2. verdict' \in Verdict /\ verdict'.decided
  BY DEF TeardownPanics, Verdict
<1>3. panics' \in 0..MaxPanics
  BY <1>1, SipCallAssumption DEF SipIInv, SipTypeOK, SipCallAssumption
<1>4. CallStep
  BY <1>1, <1>2, <1>3, SameLabel, LabellingIsCallStep DEF SipIInv, SipTypeOK
<1> QED BY <1>4, CallStepKeeps


-----------------------------------------------------------------------------
(* Steps that handle an event.                                             *)

LEMMA HandleStep ==
    ASSUME SipIInv, events # <<>>, NEW r, r = handle(call, verdict, Head(events))
    PROVE  /\ Follows(call, verdict, Head(events), r.c, r.v)
           /\ Head(events) \in Event /\ ~call.failover
<1>1. /\ Head(events) \in Event /\ Backed(Head(events)) /\ call \in CallRecord /\ verdict \in Verdict
      /\ DecidedIn(call, verdict) /\ call.txn = call.authRounds + 1
  BY HeadBacked, QueueShape DEF SipIInv, SipInv, SipTypeOK, PhaseInv
<1>2. ~call.failover
  BY DEF SipIInv, SipInv, NoCallInv
<1> QED BY <1>1, <1>2, HandleFollows DEF Backed

Recancels(d, b) == call' = [d EXCEPT !.cancelSent = b]

LEMMA SameCancel ==
    ASSUME NEW d \in CallRecord, call' = d
    PROVE  Recancels(d, d.cancelSent)
BY DEF Recancels, CallRecord

LEMMA HandlingIsCallStep ==
    ASSUME SipIInv, Consumes, pc \in Early, pc' \in Early, pc \in TearingDown => pc' \in TearingDown,
           NEW d, NEW w, Follows(call, verdict, Head(events), d, w), d.txn = call.txn,
           NEW b \in BOOLEAN, Recancels(d, b), call.cancelSent => b,
           b => call.cancelSent \/ (d.proceeding /\ pc' \in TearingDown),
           pc' \in TearingDown => d.phase \in Over, verdict' = w,
           media' \in [held : BOOLEAN, stopped : BOOLEAN],
           UNCHANGED <<config, addr, budget, dialogs, byeTag, lingered, retrying, outcome, flow, provs,
                       peer, emitting, overlooked, panics>>
    PROVE  CallStep
<1>1. d \in CallRecord /\ w \in Verdict
  BY DEF Follows
<1>2. /\ call' \in CallRecord /\ call'.cancelSent = b
      /\ call'.txn = d.txn /\ call'.proceeding = d.proceeding /\ call'.phase = d.phase
      /\ call'.anyProvisional = d.anyProvisional /\ call'.authRounds = d.authRounds
      /\ call'.primary = d.primary /\ call'.inviteFinal = d.inviteFinal
      /\ call'.failover = d.failover /\ call'.label = d.label
  BY <1>1 DEF Recancels, CallRecord
<1>3. Labelled(call, Head(events), d) => Labelled(call, Head(events), call')
  BY <1>2 DEF Labelled
<1>4. GivesUpAddress(call, verdict, Head(events), d) => GivesUpAddress(call, verdict, Head(events), call')
  BY <1>2 DEF GivesUpAddress
<1>5. DecidedIn(call', verdict')
  BY <1>2 DEF DecidedIn, Follows
<1>6. GoroutineFrame
  BY <1>2 DEF GoroutineFrame, Follows, Consumed
<1>7. call'.cancelSent => pc' \in TearingDown /\ (call.cancelSent \/ call'.proceeding)
  <2>1. call.cancelSent => pc \in TearingDown
    BY DEF SipIInv, SipInv, PhaseInv, Early
  <2> QED BY <1>2, <2>1
<1>8. panics' \in 0..MaxPanics
  BY DEF SipIInv, SipTypeOK
<1>9. /\ call'.failover => Consumes /\ GivesUpAddress(call, verdict, Head(events), call')
      /\ \/ call'.primary = call.primary
         \/ Consumed("answered") /\ call.primary = NoTag /\ call'.primary = Head(events).tag
      /\ Labelled(call, Head(events), call') /\ call'.txn = call'.authRounds + 1
  BY <1>2, <1>3, <1>4 DEF Follows, Consumed
<1> QED BY <1>1, <1>2, <1>5, <1>6, <1>7, <1>8, <1>9 DEF CallStep

LEMMA settleInviteKeeps ==
    ASSUME SipIInv, settleInvite
    PROVE  SipIInv'
<1> DEFINE r == handle(call, verdict, Head(events))
           cancels == r.c.phase = "cancelling" /\ r.c.proceeding
           b == r.c.cancelSent \/ cancels
<1>1. /\ pc = "settle" /\ pc' \in {"settle", "byeAll"} /\ Consumes /\ call.phase = "cancelling"
      /\ verdict' = r.v
  BY DEF settleInvite, Consumes
<1>2. Follows(call, verdict, Head(events), r.c, r.v)
  BY <1>1, HandleStep DEF Consumes
<1>3. r.c \in CallRecord /\ r.c.cancelSent = call.cancelSent /\ r.c.phase \in Over
  BY <1>1, <1>2 DEF Follows, Over
<1>4. r.c.txn = call.txn
  BY <1>1, <1>2 DEF Follows, Retries
<1>5. b \in BOOLEAN
  BY <1>3 DEF CallRecord
<1>6. Recancels(r.c, b)
  BY <1>3 DEF settleInvite, Recancels, CallRecord
<1>7. UNCHANGED <<config, addr, budget, dialogs, byeTag, media, lingered, retrying, outcome, flow, provs,
                  peer, emitting, overlooked, panics>>
  BY DEF settleInvite, TeardownKeeps, peerVars
<1>8. (call.cancelSent => b) /\ (b => call.cancelSent \/ r.c.proceeding)
  BY <1>3
<1>9. media' \in [held : BOOLEAN, stopped : BOOLEAN]
  BY <1>7 DEF SipIInv, SipTypeOK
<1>10. pc \in Early /\ pc' \in Early /\ pc' \in TearingDown
  BY <1>1 DEF Early, TearingDown
<1> HIDE DEF r, b, cancels
<1>11. CallStep
  BY <1>1, <1>2, <1>3, <1>4, <1>5, <1>6, <1>7, <1>8, <1>9, <1>10, HandlingIsCallStep
<1> QED BY <1>11, CallStepKeeps

\* The call answers a challenge: the next transaction begins with no event queued.
LEMMA NextTransactionKeeps ==
    ASSUME SipIInv, Consumes, pc \in {"drive", "flowEnd"}, pc' = pc,
           NEW d, NEW w, Follows(call, verdict, Head(events), d, w), d.txn # call.txn,
           NEW p \in CallPhases, call' = [d EXCEPT !.phase = p],
           verdict' \in Verdict, verdict.decided => verdict'.decided, DecidedIn(call', verdict'),
           media' \in [held : BOOLEAN, stopped : BOOLEAN],
           peer' \in {peer, [peer EXCEPT !.invite = "pending"]},
           UNCHANGED <<config, addr, budget, dialogs, byeTag, lingered, retrying, outcome, flow, provs,
                       emitting, overlooked, panics>>
    PROVE  SipIInv'
<1>1. d \in CallRecord /\ Retries(call, verdict, Head(events), d) /\ ~d.failover
  BY DEF Follows, GivesUpAddress
<1>2. /\ call' \in CallRecord /\ call'.txn = d.txn /\ call'.authRounds = d.authRounds
      /\ call'.proceeding = d.proceeding /\ call'.inviteFinal = d.inviteFinal
      /\ call'.anyProvisional = d.anyProvisional /\ call'.primary = d.primary
      /\ call'.failover = d.failover /\ call'.cancelSent = d.cancelSent /\ call'.label = d.label
  BY <1>1 DEF CallRecord
<1>3. ~call'.proceeding /\ ~call'.inviteFinal /\ ~call'.failover /\ call'.txn = call'.authRounds + 1
  BY <1>1, <1>2 DEF Retries, Follows
<1>4. Head(events).kind = "final" /\ events' = <<>> /\ emitting = NoEvent /\ peer.invite = "rejected"
  BY <1>1, HeadBacked DEF Retries, SipIInv, SipInv, Consumes, Backed
<1>5. \A t \in Tags : ~dialogs[t].confirmed
  BY <1>4 DEF SipIInv, SipInv, PeerInv
<1>6. call.primary \notin Tags /\ call'.primary = call.primary
  <2>1. call'.primary = call.primary
    BY <1>2, <1>4 DEF Follows
  <2>2. call.primary \notin Tags
    BY <1>5, SipCallAssumption DEF SipIInv, SipInv, DialogInv, SipCallAssumption, NoTag
  <2> QED BY <2>1, <2>2
<1>7. ~call.cancelSent /\ ~call'.cancelSent
  BY <1>2 DEF SipIInv, SipInv, PhaseInv, TearingDown, Lingering, Follows
<1>8. call'.label \notin {"cancelled", "bye_ok", "remote_bye", "answered_after_cancel", "bye_unconfirmed"}
  <2>1. call.label \notin {"cancelled", "bye_ok", "remote_bye", "answered_after_cancel", "bye_unconfirmed"}
    BY <1>6, <1>7 DEF SipIInv, SipInv, LabelInv, LabelTruthful
  <2>2. call'.label \in {call.label, "none"}
    BY <1>2, <1>4, <1>7 DEF Follows, Labelled
  <2> QED BY <2>1, <2>2
<1>9. peer' \in Peer /\ peer'.said = peer.said
  BY DEF SipIInv, SipTypeOK, Peer
<1>10. SipTypeOK'
  <2>1. events' \in Seq(Event) /\ Len(events') <= EventBuffer
    BY <1>4, EmptySeq, SipCallAssumption DEF SipCallAssumption
  <2> QED BY <1>2, <1>9, <2>1 DEF SipIInv, SipTypeOK
<1>11. QueueInv'
  <2>1. Len(events') = 0 /\ emitting' = NoEvent
    BY <1>4
  <2> QED BY <2>1 DEF QueueInv
<1>12. PeerInv'
  <2>1. peer'.said # {} => call.anyProvisional \/ verdict.decided
    BY <1>4, <1>9 DEF SipIInv, SipInv, PeerInv
  <2>2. call.anyProvisional => call'.anyProvisional
    BY <1>2 DEF Follows
  <2> QED BY <1>3, <1>5, <2>1, <2>2 DEF PeerInv
<1>13. NoCallInv' /\ PhaseInv'
  BY <1>3, <1>7 DEF SipIInv, SipInv, NoCallInv, PhaseInv, TearingDown, Lingering
<1>14. DialogInv' /\ ByeInv'
  BY <1>2, <1>6 DEF SipIInv, SipInv, DialogInv, ByeInv, CallRecord
<1>15. LabelInv' /\ CancelFollowsProvisional' /\ LateInv'
  BY <1>7, <1>8 DEF LabelInv, LabelTruthful, CancelFollowsProvisional, LateInv
<1> QED BY <1>10, <1>11, <1>12, <1>13, <1>14, <1>15 DEF SipIInv, SipInv

LEMMA DriveEventKeeps ==
    ASSUME SipIInv, DriveEvent
    PROVE  SipIInv'
<1> DEFINE r == handle(call, verdict, Head(events))
<1>1. /\ pc = "drive" /\ pc' = pc /\ Consumes /\ call' = r.c /\ verdict' = r.v /\ PeerSees(r.c)
      /\ UNCHANGED <<config, addr, budget, dialogs, byeTag, lingered, retrying, outcome, flow, provs,
                     emitting, overlooked, panics>>
  BY DEF DriveEvent, Consumes, Waiting
<1>2. Follows(call, verdict, Head(events), r.c, r.v)
  BY <1>1, HandleStep DEF Consumes
<1>3. r.c \in CallRecord /\ r.v \in Verdict /\ r.c.cancelSent = call.cancelSent
  BY <1>2 DEF Follows
<1>4. media' \in [held : BOOLEAN, stopped : BOOLEAN]
  BY SipCallAssumption DEF DriveEvent, SipIInv, SipTypeOK, SipCallAssumption
<1>5. pc \in Early /\ pc' \in Early /\ pc' \notin TearingDown /\ r.c.cancelSent \in BOOLEAN
  BY <1>1, <1>3 DEF Early, TearingDown, Lingering, CallRecord
<1> HIDE DEF r
<1>6. CASE r.c.txn = call.txn
  <2>1. UNCHANGED <<config, addr, budget, dialogs, byeTag, lingered, retrying, outcome, flow, provs,
                    peer, emitting, overlooked, panics>>
    BY <1>1, <1>6 DEF PeerSees
  <2>2. Recancels(r.c, r.c.cancelSent)
    BY <1>1, <1>3, SameCancel
  <2>3. CallStep
    BY <1>1, <1>2, <1>3, <1>4, <1>5, <1>6, <2>1, <2>2, HandlingIsCallStep
  <2> QED BY <2>3, CallStepKeeps
<1>7. CASE r.c.txn # call.txn
  <2>1. /\ call' = [r.c EXCEPT !.phase = r.c.phase] /\ r.c.phase \in CallPhases
        /\ peer' \in {peer, [peer EXCEPT !.invite = "pending"]}
    BY <1>1, <1>3, <1>7 DEF PeerSees, CallRecord
  <2>2. (verdict.decided => verdict'.decided) /\ DecidedIn(call', verdict')
    BY <1>1, <1>2 DEF Follows
  <2> QED BY <1>1, <1>2, <1>3, <1>4, <1>7, <2>1, <2>2, NextTransactionKeeps
<1> QED BY <1>6, <1>7

LEMMA drainEventsKeeps ==
    ASSUME SipIInv, drainEvents
    PROVE  SipIInv'
<1> DEFINE r == handle(call, verdict, Head(events))
<1>1. /\ pc \in {"flowEnd", "settleEnd", "byeAll"} /\ pc' = pc /\ Consumes
      /\ UNCHANGED <<config, addr, budget, dialogs, byeTag, media, lingered, retrying, outcome, flow, provs,
                     peer, emitting, overlooked, panics>>
  BY DEF drainEvents, Draining, Consumes, peerVars
<1>2. Follows(call, verdict, Head(events), r.c, r.v)
  BY <1>1, HandleStep DEF Consumes
<1>3. r.c \in CallRecord /\ r.v \in Verdict /\ r.c.cancelSent = call.cancelSent
  BY <1>2 DEF Follows
<1>4. media' \in [held : BOOLEAN, stopped : BOOLEAN]
  BY <1>1 DEF SipIInv, SipTypeOK
<1>5. pc \in Early /\ pc' \in Early /\ r.c.cancelSent \in BOOLEAN
  BY <1>1, <1>3 DEF Early, CallRecord
<1>6. pc \in TearingDown => call.phase \in Over
  BY DEF SipIInv, SipInv, PhaseInv
<1>7. CASE r.c.txn = call.txn
  <2>1. call' = r.c /\ verdict' = r.v
    BY <1>7 DEF drainEvents
  <2>2. pc' \in TearingDown => r.c.phase \in Over
    BY <1>1, <1>2, <1>6 DEF Follows
  <2> HIDE DEF r
  <2>3. Recancels(r.c, r.c.cancelSent)
    BY <1>3, <2>1, SameCancel
  <2>4. CallStep
    BY <1>1, <1>2, <1>3, <1>4, <1>5, <1>7, <2>1, <2>2, <2>3, HandlingIsCallStep
  <2> QED BY <2>4, CallStepKeeps
<1>8. CASE r.c.txn # call.txn
  <2>1. call' = [r.c EXCEPT !.phase = "done"] /\ verdict' = decide(r.v, "error")
    BY <1>8 DEF drainEvents
  <2>2. pc = "flowEnd"
    BY <1>1, <1>2, <1>6, <1>8 DEF Follows, Retries, Over, TearingDown
  <2> HIDE DEF r
  <2>3. verdict' \in Verdict /\ verdict'.decided
    BY <1>3, <2>1, DecideType
  <2>4. "done" \in CallPhases /\ DecidedIn(call', verdict')
    BY <2>3 DEF CallPhases, DecidedIn
  <2>5. peer' \in {peer, [peer EXCEPT !.invite = "pending"]}
    BY <1>1
  <2> QED BY <1>1, <1>2, <1>4, <1>8, <2>1, <2>2, <2>3, <2>4, <2>5, NextTransactionKeeps
<1> QED BY <1>7, <1>8


-----------------------------------------------------------------------------
(* The far end and the dispatcher.                                         *)

LEMMA EmitShape ==
    ASSUME SipTypeOK, NEW ev \in Event, emit(ev)
    PROVE  /\ events' \in Seq(Event) /\ Len(events') <= EventBuffer /\ events' # <<>>
           /\ \A i \in 1..Len(events) : i \in 1..Len(events') /\ events'[i] = events[i]
           /\ \A i \in 1..Len(events') : \/ i \in 1..Len(events) /\ events'[i] = events[i]
                                         \/ i = Len(events') /\ events'[i] = ev
           /\ Head(events') = IF events = <<>> THEN ev ELSE Head(events)
           /\ Len(events) = EventBuffer \/ events'[Len(events')] = ev
<1> DEFINE n == Len(events)
           s == Append(events, ev)
<1>1. events \in Seq(Event) /\ n \in Nat /\ n <= EventBuffer /\ EventBuffer \in Nat \ {0}
  BY SipCallAssumption DEF SipTypeOK, SipCallAssumption
<1>2. s \in Seq(Event) /\ Len(s) = n + 1 /\ s[n + 1] = ev /\ \A i \in 1..n : s[i] = events[i]
  BY <1>1, AppendProperties
<1>3. CASE n < EventBuffer
  <2>1. events' = s
    BY <1>3 DEF emit
  <2> HIDE DEF s
  <2>2. /\ events' \in Seq(Event) /\ Len(events') = n + 1 /\ events'[n + 1] = ev
        /\ \A i \in 1..n : events'[i] = events[i]
    BY <1>2, <2>1
  <2>3. events' # <<>> /\ Head(events') = events'[1]
    BY <1>1, <2>2, EmptySeq, HeadTailProperties
  <2>4. events # <<>> => Head(events) = events[1] /\ 1 \in 1..n
    BY <1>1, EmptySeq
  <2>5. events = <<>> => n = 0
    BY EmptySeq
  <2> QED BY <1>1, <1>3, <2>2, <2>3, <2>4, <2>5
<1>4. CASE ~(n < EventBuffer)
  <2>1. events' = events /\ n = EventBuffer
    BY <1>1, <1>4 DEF emit
  <2>2. events # <<>>
    BY <1>1, <2>1, EmptySeq
  <2> QED BY <1>1, <2>1, <2>2
<1> QED BY <1>3, <1>4

\* No final is queued while the INVITE is not rejected.
LEMMA NoFinalQueued ==
    ASSUME SipTypeOK, QueueInv, peer.invite # "rejected"
    PROVE  \A i \in 1..Len(events) : events[i].kind # "final"
BY DEF QueueInv, Backed

\* What was backed stays so when the far end says more.
LEMMA SaysMore ==
    ASSUME NEW e \in Event, Backed(e), UNCHANGED call,
           peer.said \subseteq peer'.said, peer.invite = "rejected" => peer'.invite = "rejected",
           \A t \in Tags : /\ dialogs[t].confirmed => dialogs'[t].confirmed
                           /\ dialogs[t].remoteBye => dialogs'[t].remoteBye
    PROVE  Backed(e)'
<1>1. (OfDialog(e) => e.tag \in Tags) /\ (e.kind = "remoteBye" => OfDialog(e))
  BY EventShape DEF OfDialog
<1> QED BY <1>1 DEF Backed

LEMMA EmitKeepsQueue ==
    ASSUME SipTypeOK, QueueInv, NEW ev \in Event, emit(ev), Backed(ev)', UNCHANGED call,
           peer.invite # "rejected", emitting' = NoEvent,
           peer.said \subseteq peer'.said, UNCHANGED dialogs
    PROVE  QueueInv'
<1>1. ASSUME NEW i \in 1..Len(events')
      PROVE  Backed(events[i])' /\ (events'[i].kind = "final" => i = Len(events') /\ emitting' = NoEvent)
  <2>1. CASE i \in 1..Len(events) /\ events'[i] = events[i]
    <3>1. PICK e \in Event : e = events[i]
      BY <2>1 DEF SipTypeOK
    <3>2. Backed(e) /\ e.kind # "final"
      BY <2>1, <3>1, NoFinalQueued DEF QueueInv
    <3>3. Backed(e)' /\ e = events'[i]
      BY <2>1, <3>1, <3>2, SaysMore
    <3> QED BY <3>2, <3>3
  <2>2. CASE i = Len(events') /\ events'[i] = ev
    BY <2>2
  <2> QED BY <2>1, <2>2, EmitShape
<1> QED BY <1>1 DEF QueueInv

LEMMA AnswerStaysQueued ==
    ASSUME SipTypeOK, NEW ev \in Event, emit(ev), emitting.kind # "answered"
    PROVE  AnswerQueued => AnswerQueued'
BY EmitShape DEF AnswerQueued

LEMMA NoEventKind == NoEvent.kind \notin {"answered", "provisional", "final", "remoteBye"}
BY DEF NoEvent

LEMMA ReceiveProvisionalKeeps ==
    ASSUME SipIInv, NEW code \in Provisionals, ReceiveProvisional(code)
    PROVE  SipIInv'
<1> DEFINE ev == [kind |-> "provisional", txn |-> call.txn, code |-> code]
           said == [txn |-> call.txn, code |-> code]
<1>1. /\ flow = "open" /\ emitting = NoEvent /\ peer.invite = "pending" /\ provs < MaxProvisionals
      /\ provs' = provs + 1 /\ emit(ev)
      /\ peer' = [peer EXCEPT !.said = peer.said \cup {said}]
      /\ UNCHANGED <<config, pc, addr, budget, call, verdict, dialogs, byeTag, media, lingered, retrying,
                     outcome, flow, emitting, overlooked, panics>>
  BY DEF ReceiveProvisional, Dispatching, callVars
<1>2. call.txn \in 1..3 /\ ev \in Event /\ said \in [txn : 1..3, code : Provisionals \cup {"200"}]
  BY DEF SipIInv, SipTypeOK, CallRecord, Event
<1>3. /\ peer' \in Peer /\ peer'.said = peer.said \cup {said} /\ peer'.invite = "pending"
      /\ said \in peer'.said
  BY <1>1, <1>2 DEF SipIInv, SipTypeOK, Peer
<1>4. Backed(ev)'
  BY <1>1, <1>3 DEF Backed, Responds, OfDialog
<1>5. QueueInv'
  <2>1. PICK e \in Event : e = ev
    BY <1>2
  <2>2. Backed(e)' /\ emit(e)
    BY <1>1, <1>4, <2>1
  <2> HIDE DEF ev
  <2> QED BY <1>1, <1>3, <2>2, EmitKeepsQueue DEF SipIInv, SipInv
<1> HIDE DEF ev
<1>6. SipTypeOK'
  BY <1>1, <1>2, <1>3, EmitShape, SipCallAssumption DEF SipIInv, SipTypeOK, SipCallAssumption
<1>7. PeerInv'
  <2>1. \A t \in Tags : ~dialogs[t].confirmed
    BY <1>1 DEF SipIInv, SipInv, PeerInv
  <2>2. ~call.inviteFinal
    BY <1>1 DEF SipIInv, SipInv, PeerInv
  <2>3. call.proceeding => \E p \in peer'.said : p.txn = call.txn
    BY <1>3 DEF SipIInv, SipInv, PeerInv
  <2>4. events' # <<>> /\ Head(events').kind = "provisional"
    <3>1. CASE events = <<>>
      BY <1>1, <1>2, <3>1, EmitShape DEF ev, SipIInv
    <3>2. CASE events # <<>>
      <4>1. Backed(Head(events)) /\ Head(events) \in Event
        BY <3>2, HeadBacked, QueueShape DEF SipIInv, SipInv
      <4>2. Head(events).kind = "provisional"
        BY <1>1, <2>1, <4>1, EventShape DEF Backed, Responds
      <4> QED BY <1>1, <1>2, <3>2, <4>2, EmitShape DEF SipIInv
    <3> QED BY <3>1, <3>2
  <2> QED BY <1>1, <2>1, <2>2, <2>3, <2>4 DEF PeerInv
<1>8. NoCallInv' /\ PhaseInv' /\ DialogInv' /\ ByeInv'
  BY <1>1, <1>3 DEF SipIInv, SipInv, NoCallInv, PhaseInv, DialogInv, ByeInv
<1>9. LabelInv' /\ CancelFollowsProvisional'
  BY <1>1, <1>3 DEF SipIInv, SipInv, LabelInv, LabelTruthful, CancelFollowsProvisional
<1>10. LateInv'
  BY <1>1, <1>2, AnswerStaysQueued, NoEventKind DEF SipIInv, SipInv, LateInv, RanToItsEnd, Unended
<1> QED BY <1>5, <1>6, <1>7, <1>8, <1>9, <1>10 DEF SipIInv, SipInv

LEMMA ReceiveFinalKeeps ==
    ASSUME SipIInv, NEW code \in Finals, ReceiveFinal(code)
    PROVE  SipIInv'
<1> DEFINE ev == [kind |-> "final", txn |-> call.txn, code |-> code]
<1>1. /\ flow = "open" /\ emitting = NoEvent /\ peer.invite = "pending" /\ emit(ev)
      /\ peer' = [peer EXCEPT !.invite = "rejected"]
      /\ UNCHANGED <<config, pc, addr, budget, call, verdict, dialogs, byeTag, media, lingered, retrying,
                     outcome, flow, emitting, overlooked, provs, panics>>
  BY DEF ReceiveFinal, Dispatching, callVars
<1>2. call.txn \in 1..3 /\ ev \in Event
  BY DEF SipIInv, SipTypeOK, CallRecord, Event
<1>3. peer' \in Peer /\ peer'.said = peer.said /\ peer'.invite = "rejected"
  BY <1>1 DEF SipIInv, SipTypeOK, Peer
<1>4. Backed(ev)'
  BY <1>1, <1>3 DEF Backed, Responds, OfDialog
<1>5. QueueInv'
  <2>1. PICK e \in Event : e = ev
    BY <1>2
  <2>2. Backed(e)' /\ emit(e)
    BY <1>1, <1>4, <2>1
  <2> HIDE DEF ev
  <2> QED BY <1>1, <1>3, <2>2, EmitKeepsQueue DEF SipIInv, SipInv
<1> HIDE DEF ev
<1>6. SipTypeOK'
  BY <1>1, <1>2, <1>3, EmitShape DEF SipIInv, SipTypeOK
<1>7. PeerInv'
  <2>1. \A t \in Tags : ~dialogs[t].confirmed
    BY <1>1 DEF SipIInv, SipInv, PeerInv
  <2>2. peer.said # {} => \/ call.anyProvisional \/ verdict.decided
                          \/ events' # <<>> /\ Head(events').kind = "provisional"
    BY <1>1, <1>2, EmitShape DEF SipIInv, SipInv, PeerInv
  <2> QED BY <1>1, <1>3, <2>1, <2>2 DEF SipIInv, SipInv, PeerInv
<1>8. NoCallInv' /\ PhaseInv' /\ DialogInv' /\ ByeInv'
  BY <1>1, <1>3 DEF SipIInv, SipInv, NoCallInv, PhaseInv, DialogInv, ByeInv
<1>9. LabelInv' /\ CancelFollowsProvisional'
  BY <1>1, <1>3 DEF SipIInv, SipInv, LabelInv, LabelTruthful, CancelFollowsProvisional
<1>10. LateInv'
  BY <1>1, <1>2, AnswerStaysQueued, NoEventKind DEF SipIInv, SipInv, LateInv, RanToItsEnd, Unended
<1> QED BY <1>5, <1>6, <1>7, <1>8, <1>9, <1>10 DEF SipIInv, SipInv


\* The dispatcher marks a dialog and has the event at hand.
LEMMA EmittingKeepsQueue ==
    ASSUME SipTypeOK, QueueInv, peer.invite # "rejected", peer'.invite # "rejected",
           UNCHANGED <<call, events>>, peer.said \subseteq peer'.said,
           \A t \in Tags : /\ dialogs[t].confirmed => dialogs'[t].confirmed
                           /\ dialogs[t].remoteBye => dialogs'[t].remoteBye,
           NEW ev \in Event, emitting' = ev, OfDialog(ev), Backed(ev)'
    PROVE  QueueInv'
<1>1. ASSUME NEW i \in 1..Len(events)
      PROVE  Backed(events[i])' /\ events[i].kind # "final"
  <2>1. PICK e \in Event : e = events[i]
    BY DEF SipTypeOK
  <2>2. Backed(e) /\ e.kind # "final"
    BY <2>1, NoFinalQueued DEF QueueInv
  <2>3. Backed(e)' /\ e = events'[i]
    BY <2>1, <2>2, SaysMore
  <2> QED BY <2>2, <2>3
<1> QED BY <1>1 DEF QueueInv, OfDialog

LEMMA ReceiveAnswerKeeps ==
    ASSUME SipIInv, NEW t \in Tags, ReceiveAnswer(t)
    PROVE  SipIInv'
<1> DEFINE ev == [kind |-> "answered", txn |-> call.txn, tag |-> t]
           said == [txn |-> call.txn, code |-> "200"]
<1>1. /\ flow = "open" /\ emitting = NoEvent /\ peer.invite # "rejected" /\ ~dialogs[t].confirmed
      /\ dialogs' = [dialogs EXCEPT ![t].confirmed = TRUE]
      /\ peer' = [peer EXCEPT !.invite = "answered", !.said = peer.said \cup {said}]
      /\ emitting' = ev
      /\ UNCHANGED <<config, pc, addr, budget, call, verdict, byeTag, media, lingered, retrying, outcome,
                     flow, overlooked, provs, events, panics>>
  BY DEF ReceiveAnswer, Dispatching
<1>2. call.txn \in 1..3 /\ ev \in Event /\ said \in [txn : 1..3, code : Provisionals \cup {"200"}]
  BY DEF SipIInv, SipTypeOK, CallRecord, Event
<1>3. peer' \in Peer /\ peer'.said = peer.said \cup {said} /\ peer'.invite = "answered"
  BY <1>1, <1>2 DEF SipIInv, SipTypeOK, Peer
<1>4. /\ dialogs' \in [Tags -> Dialog] /\ dialogs'[t].confirmed
      /\ \A u \in Tags : /\ dialogs[u].confirmed => dialogs'[u].confirmed
                         /\ dialogs'[u].remoteBye = dialogs[u].remoteBye
                         /\ dialogs'[u].byeDone = dialogs[u].byeDone
                         /\ dialogs'[u].byeUnanswered = dialogs[u].byeUnanswered
                         /\ dialogs'[u].byes = dialogs[u].byes /\ dialogs'[u].last = dialogs[u].last
  BY <1>1 DEF SipIInv, SipTypeOK, Dialog
<1>5. QueueInv'
  <2>1. PICK e \in Event : e = ev
    BY <1>2
  <2>2. e.kind = "answered" /\ e.tag = t /\ emitting' = e
    BY <1>1, <2>1
  <2>3. Backed(e)' /\ OfDialog(e)
    BY <1>4, <2>2 DEF Backed, Responds, OfDialog
  <2> HIDE DEF ev, said
  <2> QED BY <1>1, <1>3, <1>4, <2>2, <2>3, EmittingKeepsQueue DEF SipIInv, SipInv
<1>6. SipTypeOK'
  BY <1>1, <1>2, <1>3, <1>4 DEF SipIInv, SipTypeOK
<1>7. PeerInv' /\ NoCallInv' /\ PhaseInv'
  BY <1>1, <1>3 DEF SipIInv, SipInv, PeerInv, NoCallInv, PhaseInv
<1>8. call.primary # NoTag => call.primary \in Tags
  BY DEF SipIInv, SipTypeOK, CallRecord
<1>9. DialogInv' /\ ByeInv'
  BY <1>1, <1>4, <1>8 DEF SipIInv, SipTypeOK, SipInv, DialogInv, ByeInv
<1>10. LabelInv'
  BY <1>1, <1>4 DEF SipIInv, SipInv, LabelInv, LabelTruthful
<1>11. CancelFollowsProvisional'
  BY <1>1, <1>3 DEF SipIInv, SipInv, CancelFollowsProvisional
<1>12. LateInv'
  <2>1. emitting'.kind = "answered"
    BY <1>1
  <2> QED BY <2>1 DEF LateInv, AnswerQueued
<1> QED BY <1>5, <1>6, <1>7, <1>9, <1>10, <1>11, <1>12 DEF SipIInv, SipInv

LEMMA matchDialogKeeps ==
    ASSUME SipIInv, NEW t \in Tags, matchDialog(t)
    PROVE  SipIInv'
<1> DEFINE ev == [kind |-> "remoteBye", tag |-> t]
<1>1. /\ flow = "open" /\ emitting = NoEvent /\ dialogs[t].confirmed
      /\ dialogs' = [dialogs EXCEPT ![t].remoteBye = TRUE]
      /\ emitting' = ev
      /\ UNCHANGED <<config, pc, addr, budget, call, verdict, byeTag, media, lingered, retrying, outcome,
                     flow, peer, overlooked, provs, events, panics>>
  BY DEF matchDialog, Dispatching
<1>2. ev \in Event /\ peer.invite = "answered"
  BY <1>1 DEF Event, SipIInv, SipInv, PeerInv
<1>3. /\ dialogs' \in [Tags -> Dialog] /\ dialogs'[t].remoteBye
      /\ \A u \in Tags : /\ dialogs[u].remoteBye => dialogs'[u].remoteBye
                         /\ dialogs'[u].confirmed = dialogs[u].confirmed
                         /\ dialogs'[u].byeDone = dialogs[u].byeDone
                         /\ dialogs'[u].byeUnanswered = dialogs[u].byeUnanswered
                         /\ dialogs'[u].byes = dialogs[u].byes /\ dialogs'[u].last = dialogs[u].last
  BY <1>1 DEF SipIInv, SipTypeOK, Dialog
<1>4. QueueInv'
  <2>1. PICK e \in Event : e = ev
    BY <1>2
  <2>2. e.kind = "remoteBye" /\ e.tag = t /\ emitting' = e
    BY <1>1, <2>1
  <2>3. Backed(e)' /\ OfDialog(e)
    BY <1>1, <1>3, <2>2 DEF Backed, Responds, OfDialog
  <2> HIDE DEF ev
  <2> QED BY <1>1, <1>2, <1>3, <2>2, <2>3, EmittingKeepsQueue DEF SipIInv, SipInv
<1>5. SipTypeOK'
  BY <1>1, <1>2, <1>3 DEF SipIInv, SipTypeOK
<1>6. PeerInv' /\ NoCallInv' /\ PhaseInv'
  BY <1>1, <1>2, <1>3 DEF SipIInv, SipInv, PeerInv, NoCallInv, PhaseInv
<1>7. call.primary # NoTag => call.primary \in Tags
  BY DEF SipIInv, SipTypeOK, CallRecord
<1>8. DialogInv' /\ ByeInv'
  BY <1>1, <1>3, <1>7 DEF SipIInv, SipTypeOK, SipInv, DialogInv, ByeInv
<1>9. LabelInv'
  BY <1>1, <1>3 DEF SipIInv, SipInv, LabelInv, LabelTruthful
<1>10. CancelFollowsProvisional'
  BY <1>1 DEF SipIInv, SipInv, CancelFollowsProvisional
<1>11. LateInv'
  <2>1. Unended = {} => Unended' = {}
    BY <1>3 DEF Unended
  <2>2. AnswerQueued => AnswerQueued'
    BY <1>1, NoEventKind DEF AnswerQueued
  <2> QED BY <1>1, <2>1, <2>2 DEF SipIInv, SipInv, LateInv
<1> QED BY <1>4, <1>5, <1>6, <1>8, <1>9, <1>10, <1>11 DEF SipIInv, SipInv

LEMMA EmitKeeps ==
    ASSUME SipIInv, Emit
    PROVE  SipIInv'
<1>1. /\ emitting # NoEvent /\ emit(emitting) /\ emitting' = NoEvent
      /\ overlooked' = (overlooked \/ Overlooks)
      /\ UNCHANGED <<config, pc, addr, budget, call, verdict, dialogs, byeTag, media, lingered, retrying,
                     outcome, flow, peer, provs, panics>>
  BY DEF Emit, callVars
<1>2. PICK e \in Event : e = emitting
  BY <1>1 DEF SipIInv, SipTypeOK
<1>3. OfDialog(e) /\ Backed(e) /\ e.tag \in Tags /\ emit(e)
  BY <1>1, <1>2, EventShape DEF SipIInv, SipInv, QueueInv
<1>4. peer.invite = "answered"
  BY <1>3 DEF Backed, SipIInv, SipInv, PeerInv
<1>5. Backed(e)'
  BY <1>1, <1>3, SaysMore
<1>6. QueueInv'
  BY <1>1, <1>3, <1>4, <1>5, EmitKeepsQueue DEF SipIInv, SipInv
<1>7. SipTypeOK'
  BY <1>1, <1>3, EmitShape DEF SipIInv, SipTypeOK, Overlooks
<1>8. PeerInv' /\ NoCallInv' /\ PhaseInv' /\ DialogInv' /\ ByeInv'
  BY <1>1, <1>4 DEF SipIInv, SipInv, PeerInv, NoCallInv, PhaseInv, DialogInv, ByeInv
<1>9. LabelInv' /\ CancelFollowsProvisional'
  BY <1>1 DEF SipIInv, SipInv, LabelInv, LabelTruthful, CancelFollowsProvisional
<1>10. LateInv'
  <2>1. CASE e.kind # "answered"
    BY <1>1, <1>2, <1>3, <2>1, AnswerStaysQueued DEF SipIInv, SipInv, LateInv, RanToItsEnd, Unended
  <2>2. CASE e.kind = "answered" /\ Len(events) = EventBuffer
    BY <1>1, <1>2, <2>2 DEF LateInv, Overlooks
  <2>3. CASE e.kind = "answered" /\ events'[Len(events')] = e
    <3>1. Len(events') \in 1..Len(events')
      BY <1>3, EmitShape, EmptySeq DEF SipIInv
    <3> QED BY <2>3, <3>1 DEF LateInv, AnswerQueued
  <2> QED BY <1>3, <2>1, <2>2, <2>3, EmitShape DEF SipIInv
<1> QED BY <1>6, <1>7, <1>8, <1>9, <1>10 DEF SipIInv, SipInv

LEMMA PeerClosesKeeps ==
    ASSUME SipIInv, PeerCloses
    PROVE  SipIInv'
<1>1. /\ flow = "open" /\ flow' = "hungUp"
      /\ UNCHANGED <<config, pc, addr, budget, call, verdict, dialogs, byeTag, media, lingered, retrying,
                     outcome, emitting, peer, overlooked, provs, events, panics>>
  BY DEF PeerCloses, Dispatching, callVars
<1>2. SipTypeOK'
  BY <1>1 DEF SipIInv, SipTypeOK
<1>3. QueueInv'
  BY <1>1 DEF SipIInv, SipInv, QueueInv, Backed
<1>4. PeerInv' /\ NoCallInv' /\ PhaseInv' /\ DialogInv' /\ ByeInv'
  BY <1>1 DEF SipIInv, SipInv, PeerInv, NoCallInv, PhaseInv, DialogInv, ByeInv
<1>5. LabelInv' /\ CancelFollowsProvisional' /\ LateInv'
  BY <1>1 DEF SipIInv, SipInv, LabelInv, LabelTruthful, CancelFollowsProvisional, LateInv, RanToItsEnd, Unended, AnswerQueued
<1> QED BY <1>2, <1>3, <1>4, <1>5 DEF SipIInv, SipInv


-----------------------------------------------------------------------------
(* Dialling.                                                               *)

\* The next address is one of the candidates, and one that was not yet tried.
LEMMA FailoverTarget ==
    ASSUME addr \in Candidates, NEW class, sipFailoverTarget(class) # 0
    PROVE  sipFailoverTarget(class) \in Candidates /\ sipFailoverTarget(class) > addr
<1> DEFINE others == {j \in Candidates : j > addr /\ HostOf[j] # HostOf[addr]}
<1>1. Len(HostOf) \in Nat /\ addr \in 1..Len(HostOf) /\ addr # Len(HostOf)
  BY SipCallAssumption DEF SipCallAssumption, Candidates, sipFailoverTarget
<1>2. CASE class # "tls"
  BY <1>1, <1>2 DEF sipFailoverTarget, Candidates
<1>3. CASE class = "tls"
  <2>1. /\ others # {}
        /\ sipFailoverTarget(class) = CHOOSE j \in others : \A k \in others : j <= k
    BY <1>3 DEF sipFailoverTarget
  <2>2. others \subseteq Nat
    BY <1>1 DEF Candidates
  <2>3. \E j \in others : \A k \in others : j <= k
    <3> HIDE DEF others
    <3>1. PICK j \in others : \A k \in others : ~(<<k, j>> \in OpToRel(<, Nat))
      BY <2>1, <2>2, NatLessThanWellFounded, WFMin
    <3>2. ASSUME NEW k \in others PROVE j <= k
      <4>1. OpToRel(<, Nat) = {p \in Nat \X Nat : p[1] < p[2]}
        BY DEF OpToRel
      <4>2. k \in Nat /\ j \in Nat
        BY <2>2, <3>2
      <4>3. ~(k < j)
        BY <3>1, <3>2, <4>1, <4>2
      <4> QED BY <4>2, <4>3
    <3> QED BY <3>2
  <2>4. sipFailoverTarget(class) \in others
    <3> HIDE DEF others
    <3> QED BY <2>1, <2>3
  <2> QED BY <2>4
<1> QED BY <1>2, <1>3

\* Nothing has been placed while the check dials.
LEMMA Dialling ==
    ASSUME SipIInv, pc = "dial"
    PROVE  /\ peer.said = {} /\ peer.invite # "answered" /\ events = <<>> /\ emitting = NoEvent
           /\ ~call.cancelSent /\ flow # "open" /\ retrying = {}
           /\ \A t \in Tags : ~dialogs[t].confirmed
           /\ call.primary \notin Tags
BY SipCallAssumption
DEF SipIInv, SipInv, NoCallInv, PeerInv, DialogInv, SipCallAssumption, NoTag

LEMMA DialFailsKeeps ==
    ASSUME SipIInv, NEW class, DialFails(class)
    PROVE  SipIInv'
<1>1. /\ pc = "dial" /\ pc' \in {"dial", "ended"} /\ addr' \in Candidates
      /\ verdict' \in Verdict /\ (verdict.decided => verdict'.decided)
      /\ UNCHANGED <<config, budget, call, dialogs, byeTag, media, lingered, retrying, outcome,
                     flow, emitting, peer, overlooked, provs, events, panics>>
  <2>1. CASE sipFailoverTarget(class) = 0
    <3> DEFINE b == budget = "shutdown"
    <3>1. verdict' = [decided |-> TRUE, status |-> "error", interrupted |-> b] /\ b \in BOOLEAN
      BY <2>1 DEF DialFails
    <3> HIDE DEF b
    <3>2. verdict' \in Verdict /\ verdict'.decided
      BY <3>1 DEF Verdict
    <3> QED BY <2>1, <3>2 DEF DialFails, SipIInv, SipTypeOK, peerVars
  <2>2. CASE sipFailoverTarget(class) # 0
    BY <2>2, FailoverTarget DEF DialFails, SipIInv, SipTypeOK, peerVars
  <2> QED BY <2>1, <2>2
<1>2. SipTypeOK'
  BY <1>1 DEF SipIInv, SipTypeOK
<1>3. QueueInv'
  <2>1. Len(events') = 0 /\ emitting' = NoEvent
    BY <1>1, Dialling
  <2> QED BY <2>1 DEF QueueInv
<1>4. PeerInv' /\ NoCallInv' /\ PhaseInv' /\ DialogInv' /\ ByeInv'
  BY <1>1, Dialling
  DEF SipIInv, SipInv, PeerInv, NoCallInv, PhaseInv, DecidedIn, DialogInv, ByeInv, TearingDown, Lingering
<1>5. LabelInv' /\ CancelFollowsProvisional' /\ LateInv'
  BY <1>1, Dialling
  DEF SipIInv, SipInv, LabelInv, LabelTruthful, CancelFollowsProvisional, LateInv, RanToItsEnd, Unended
<1> QED BY <1>2, <1>3, <1>4, <1>5 DEF SipIInv, SipInv

LEMMA BudgetEndsKeeps ==
    ASSUME SipIInv, NEW why \in {"spent", "shutdown"}, BudgetEnds(why)
    PROVE  SipIInv'
<1>1. /\ budget' \in {"left", "spent", "shutdown"}
      /\ UNCHANGED <<config, pc, addr, call, verdict, dialogs, byeTag, media, lingered, retrying, outcome,
                     flow, emitting, peer, overlooked, provs, events, panics>>
  BY DEF BudgetEnds, peerVars
<1>2. SipTypeOK'
  BY <1>1 DEF SipIInv, SipTypeOK
<1>3. QueueInv'
  BY <1>1 DEF SipIInv, SipInv, QueueInv, Backed
<1>4. PeerInv' /\ NoCallInv' /\ PhaseInv' /\ DialogInv' /\ ByeInv'
  BY <1>1 DEF SipIInv, SipInv, PeerInv, NoCallInv, PhaseInv, DialogInv, ByeInv
<1>5. LabelInv' /\ CancelFollowsProvisional' /\ LateInv'
  BY <1>1 DEF SipIInv, SipInv, LabelInv, LabelTruthful, CancelFollowsProvisional, LateInv, RanToItsEnd, Unended, AnswerQueued
<1> QED BY <1>2, <1>3, <1>4, <1>5 DEF SipIInv, SipInv

LEMMA NewCallType == NewCall \in CallRecord /\ NewDialog \in Dialog /\ NewPeer \in Peer
                       /\ NoVerdict \in Verdict
BY DEF NewCall, CallRecord, CallPhases, Labels, NewDialog, Dialog, NewPeer, Peer, NoVerdict, Verdict

LEMMA sendInviteKeeps ==
    ASSUME SipIInv, sendInvite
    PROVE  SipIInv'
<1>1. /\ pc = "dial" /\ pc' = "drive" /\ flow' = "open"
      /\ call' = NewCall /\ verdict' = NoVerdict /\ dialogs' = [t \in Tags |-> NewDialog]
      /\ events' = <<>> /\ emitting' = NoEvent /\ peer' = NewPeer
      /\ UNCHANGED <<config, addr, budget, byeTag, media, lingered, retrying, outcome, overlooked,
                     provs, panics>>
  BY DEF sendInvite
<1>2. SipTypeOK'
  <2>1. events' \in Seq(Event) /\ Len(events') <= EventBuffer
    BY <1>1, EmptySeq, SipCallAssumption DEF SipCallAssumption
  <2>2. dialogs' \in [Tags -> Dialog]
    BY <1>1, NewCallType
  <2> QED BY <1>1, <2>1, <2>2, NewCallType DEF SipIInv, SipTypeOK
<1>3. QueueInv'
  <2>1. Len(events') = 0 /\ emitting' = NoEvent
    BY <1>1
  <2> QED BY <2>1 DEF QueueInv
<1>4. PeerInv' /\ NoCallInv' /\ PhaseInv'
  BY <1>1
  DEF PeerInv, NoCallInv, PhaseInv, DecidedIn, Over, TearingDown, Lingering, NewCall, NewPeer, NewDialog
<1>5. DialogInv' /\ ByeInv'
  BY <1>1, Dialling DEF DialogInv, ByeInv, NewCall, NewDialog
<1>6. LabelInv' /\ CancelFollowsProvisional' /\ LateInv'
  BY <1>1 DEF LabelInv, LabelTruthful, CancelFollowsProvisional, LateInv, RanToItsEnd, NewCall
<1> QED BY <1>2, <1>3, <1>4, <1>5, <1>6 DEF SipIInv, SipInv

LEMMA BindFailsKeeps ==
    ASSUME SipIInv, BindFails
    PROVE  SipIInv'
<1>1. /\ pc = "dial" /\ pc' = "ended" /\ flow' = "closed" /\ call' = NewCall
      /\ verdict' = decide(NoVerdict, "error")
      /\ UNCHANGED <<config, addr, budget, dialogs, byeTag, media, lingered, retrying, outcome, emitting,
                     peer, overlooked, provs, events, panics>>
  BY DEF BindFails
<1>2. verdict' \in Verdict /\ verdict'.decided
  BY <1>1, NewCallType, DecideType
<1>3. SipTypeOK'
  BY <1>1, <1>2, NewCallType DEF SipIInv, SipTypeOK
<1>4. QueueInv'
  <2>1. Len(events') = 0 /\ emitting' = NoEvent
    BY <1>1, Dialling
  <2> QED BY <2>1 DEF QueueInv
<1>5. PeerInv' /\ NoCallInv' /\ PhaseInv'
  BY <1>1, <1>2, Dialling
  DEF PeerInv, NoCallInv, PhaseInv, DecidedIn, Over, TearingDown, Lingering, NewCall
<1>6. DialogInv' /\ ByeInv'
  BY <1>1, Dialling DEF SipIInv, SipInv, DialogInv, ByeInv, NewCall
<1>7. LabelInv' /\ CancelFollowsProvisional' /\ LateInv'
  BY <1>1, Dialling DEF LabelInv, LabelTruthful, CancelFollowsProvisional, LateInv, RanToItsEnd, NewCall, Unended
<1> QED BY <1>3, <1>4, <1>5, <1>6, <1>7 DEF SipIInv, SipInv


-----------------------------------------------------------------------------
(* BYE and the linger.                                                     *)

\* A step that leaves the course of the call alone: it deals with the dialogs, and
\* in the linger with a late provisional or final.
ByeFrame ==
    /\ GoroutineFrame
    /\ UNCHANGED <<addr, flow, verdict>>
    /\ pc \in TearingDown /\ pc' \in TearingDown /\ (pc' \in Lingering => pc \in Lingering)
    /\ call'.phase = call.phase /\ call'.failover = call.failover
    /\ call'.authRounds = call.authRounds /\ call'.primary = call.primary
    /\ call.inviteFinal => call'.inviteFinal
    /\ call.cancelSent => call'.cancelSent
    /\ call'.cancelSent => call.cancelSent \/ (pc \in Lingering /\ Consumed("provisional"))

LEMMA ByeFrameKeeps ==
    ASSUME SipIInv, ByeFrame
    PROVE  QueueInv' /\ PeerInv' /\ NoCallInv' /\ PhaseInv' /\ CancelFollowsProvisional'
<1>1. QueueInv' /\ PeerInv'
  BY FrameKeepsQueue, FrameKeepsPeer DEF SipIInv, SipInv, ByeFrame
<1>2. UNCHANGED <<addr, flow, verdict, peer, emitting>> /\ call'.txn = call.txn
  BY DEF ByeFrame, GoroutineFrame
<1>3. CancelFollowsProvisional'
  <2>1. CASE call.cancelSent
    BY <1>2, <2>1 DEF SipIInv, SipInv, CancelFollowsProvisional
  <2>2. CASE Consumed("provisional")
    <3>1. Backed(Head(events)) /\ Head(events).kind = "provisional"
      BY <2>2, HeadBacked DEF SipIInv, SipInv, Consumed, Consumes
    <3>2. /\ [txn |-> Head(events).txn, code |-> Head(events).code] \in peer.said
          /\ Head(events).txn = call.txn
      BY <3>1 DEF Backed, Responds
    <3> QED BY <1>2, <3>2 DEF CancelFollowsProvisional
  <2> QED BY <2>1, <2>2 DEF ByeFrame, CancelFollowsProvisional
<1>4. NoCallInv'
  <2>1. call'.failover => events' = <<>>
    BY DEF SipIInv, SipInv, NoCallInv, ByeFrame, GoroutineFrame, Consumes
  <2>2. pc' \notin {"dial", "ended"} /\ pc \notin {"dial", "ended"}
    BY DEF ByeFrame, TearingDown, Lingering
  <2> QED BY <1>2, <2>1, <2>2 DEF SipIInv, SipInv, NoCallInv, ByeFrame
<1>5. PhaseInv'
  BY <1>2 DEF SipIInv, SipInv, PhaseInv, DecidedIn, ByeFrame
<1> QED BY <1>1, <1>3, <1>4, <1>5

\* A label stays true while the BYE of the dialog it speaks of is not asked again.
LEMMA LabelStays ==
    ASSUME SipIInv, UNCHANGED peer, call'.label = call.label, call'.primary = call.primary,
           call.cancelSent => call'.cancelSent,
           \A u \in Tags : /\ dialogs'[u].confirmed = dialogs[u].confirmed
                           /\ dialogs'[u].remoteBye = dialogs[u].remoteBye
                           /\ dialogs[u].byes > 0 => dialogs'[u].byes > 0
                           /\ dialogs[u].last = "bye_ok" => dialogs'[u].last = "bye_ok"
    PROVE  LabelInv'
<1>1. LabelInv
  BY DEF SipIInv, SipInv
<1>2. CASE call.label \in {"bye_ok", "remote_bye", "answered_after_cancel", "bye_unconfirmed"}
  <2>1. call.primary \in Tags
    BY <1>1, <1>2 DEF LabelInv
  <2> QED BY <1>1, <1>2, <2>1 DEF LabelInv, LabelTruthful
<1>3. CASE call.label \notin {"bye_ok", "remote_bye", "answered_after_cancel", "bye_unconfirmed"}
  BY <1>1, <1>3 DEF LabelInv, LabelTruthful
<1> QED BY <1>2, <1>3

LEMMA SendByeShape ==
    ASSUME SipIInv, NEW t \in Unended, SendBye(t)
    PROVE  /\ t \in Tags /\ dialogs' \in [Tags -> Dialog]
           /\ \A u \in Tags : /\ dialogs'[u].confirmed = dialogs[u].confirmed
                              /\ dialogs'[u].remoteBye = dialogs[u].remoteBye
                              /\ dialogs'[u].last = dialogs[u].last
                              /\ dialogs'[u].byeUnanswered = dialogs[u].byeUnanswered
                              /\ u # t => dialogs'[u] = dialogs[u]
           /\ dialogs'[t].byeDone /\ dialogs'[t].byes = 1 /\ dialogs'[t].last = "none"
           /\ ~dialogs'[t].byeUnanswered
<1>1. t \in Tags /\ ~dialogs[t].byeDone /\ dialogs \in [Tags -> Dialog]
  BY DEF Unended, SipIInv, SipTypeOK
<1>2. dialogs[t].byes = 0 /\ dialogs[t].last = "none" /\ ~dialogs[t].byeUnanswered
  BY <1>1 DEF SipIInv, SipInv, DialogInv
<1>3. dialogs' = [dialogs EXCEPT ![t].byeDone = TRUE, ![t].byes = 1]
  BY <1>2 DEF SendBye
<1>4. [dialogs[t] EXCEPT !.byeDone = TRUE, !.byes = 1] \in Dialog
  <2>1. PICK d \in Dialog : d = dialogs[t]
    BY <1>1
  <2>2. ASSUME NEW b \in BOOLEAN, NEW n \in 0..2
        PROVE  [d EXCEPT !.byeDone = b, !.byes = n] \in Dialog
    BY DEF Dialog
  <2>3. TRUE \in BOOLEAN /\ 1 \in 0..2
    OBVIOUS
  <2>4. [d EXCEPT !.byeDone = TRUE, !.byes = 1] \in Dialog
    BY <2>2, <2>3, Zenon
  <2> QED BY <2>1, <2>4
<1>5. /\ dialogs' \in [Tags -> Dialog] /\ dialogs'[t] = [dialogs[t] EXCEPT !.byeDone = TRUE, !.byes = 1]
      /\ \A u \in Tags : u # t => dialogs'[u] = dialogs[u]
  BY <1>1, <1>3, <1>4
<1>6. /\ dialogs'[t].confirmed = dialogs[t].confirmed /\ dialogs'[t].remoteBye = dialogs[t].remoteBye
      /\ dialogs'[t].last = dialogs[t].last /\ dialogs'[t].byeUnanswered = dialogs[t].byeUnanswered
      /\ dialogs'[t].byeDone /\ dialogs'[t].byes = 1
  BY <1>1, <1>5 DEF Dialog
<1> QED BY <1>1, <1>2, <1>5, <1>6

\* One BYE leaves; its dialog is the one the goroutine waits for.
LEMMA SendByeKeeps ==
    ASSUME SipIInv, NEW t \in Unended, SendBye(t), byeTag' = t, pc' \in {"bye", "lateBye"},
           call'.primary = call.primary, call'.label = call.label,
           call.cancelSent => call'.cancelSent, UNCHANGED <<retrying, peer>>, retrying = {}
    PROVE  DialogInv' /\ ByeInv' /\ LabelInv' /\ LateInv' /\ dialogs' \in [Tags -> Dialog] /\ t \in Tags
<1>1. call.primary # NoTag => call.primary \in Tags
  BY DEF SipIInv, SipTypeOK, CallRecord
<1>2. DialogInv'
  BY <1>1, SendByeShape DEF SipIInv, SipInv, DialogInv
<1>3. ByeInv'
  BY SendByeShape DEF ByeInv
<1>4. LabelInv'
  <2>1. \A u \in Tags : dialogs[u].byes > 0 => dialogs'[u].byes > 0
    BY SendByeShape
  <2> QED BY <2>1, SendByeShape, LabelStays
<1>5. LateInv'
  BY DEF LateInv
<1> QED BY <1>2, <1>3, <1>4, <1>5, SendByeShape

LEMMA byeAllKeeps ==
    ASSUME SipIInv, byeAll
    PROVE  SipIInv'
<1>1. UNCHANGED <<config, addr, budget, call, verdict, media, lingered, retrying, outcome,
                  flow, emitting, peer, overlooked, provs, events, panics>>
  BY DEF byeAll, ByeKeeps, peerVars
<1>2. pc \in {"byeAll", "byeNext"} /\ retrying = {}
  BY DEF byeAll, SipIInv, SipInv, DialogInv
<1>3. CASE UNCHANGED <<dialogs, byeTag>> /\ pc' \in {"byeNext", "handOver"}
  <2>1. ByeFrame
    BY <1>1, <1>2, <1>3, QueueShape
    DEF ByeFrame, GoroutineFrame, Consumed, Consumes, TearingDown, Lingering, SipIInv
  <2>2. SipTypeOK'
    BY <1>1, <1>3 DEF SipIInv, SipTypeOK
  <2>3. DialogInv' /\ ByeInv' /\ LabelInv' /\ LateInv'
    BY <1>1, <1>2, <1>3
    DEF SipIInv, SipInv, DialogInv, ByeInv, LabelInv, LabelTruthful, LateInv
  <2> QED BY <2>1, <2>2, <2>3, ByeFrameKeeps DEF SipIInv, SipInv
<1>4. ASSUME NEW t \in Unended, SendBye(t), byeTag' = t, pc' = "bye" PROVE SipIInv'
  <2>1. ByeFrame
    BY <1>1, <1>2, <1>4, SendByeShape, QueueShape
    DEF ByeFrame, GoroutineFrame, Consumed, Consumes, TearingDown, Lingering, SipIInv
  <2>2. DialogInv' /\ ByeInv' /\ LabelInv' /\ LateInv' /\ dialogs' \in [Tags -> Dialog] /\ t \in Tags
    BY <1>1, <1>2, <1>4, SendByeKeeps
  <2>3. SipTypeOK'
    BY <1>1, <1>4, <2>2 DEF SipIInv, SipTypeOK
  <2> QED BY <2>1, <2>2, <2>3, ByeFrameKeeps DEF SipIInv, SipInv
<1> QED BY <1>3, <1>4 DEF byeAll


LEMMA OutcomeType ==
    ASSUME NEW out \in ByeOutcomes
    PROVE  out \in Answers \cup {"bye_unconfirmed"}
BY SipCallAssumption DEF ByeOutcomes, SipCallAssumption, Answers

LEMMA ByeReturnsKeeps ==
    ASSUME SipIInv, NEW out \in ByeOutcomes, ByeReturns(out)
    PROVE  SipIInv'
<1> DEFINE b == out = "bye_unconfirmed"
           l == IF byeTag = call.primary /\ call.label = "none" THEN out ELSE call.label
<1>1. /\ pc = "bye" /\ pc' = "byeAll" /\ byeTag' = NoTag
      /\ dialogs' = [dialogs EXCEPT ![byeTag].byeUnanswered = b, ![byeTag].last = out]
      /\ call' = [call EXCEPT !.label = l]
      /\ UNCHANGED <<config, addr, budget, verdict, media, lingered, retrying, outcome,
                     flow, emitting, peer, overlooked, provs, events, panics>>
  BY DEF ByeReturns, peerVars, SipIInv, SipTypeOK
<1>2. /\ byeTag \in Tags /\ dialogs[byeTag].byeDone /\ dialogs[byeTag].byes = 1
      /\ dialogs[byeTag].last = "none" /\ dialogs[byeTag] \in Dialog /\ retrying = {}
  BY <1>1 DEF SipIInv, SipTypeOK, SipInv, ByeInv, DialogInv
<1>3. out \in Answers \cup {"bye_unconfirmed"} /\ l \in Labels
  BY OutcomeType DEF Answers, Labels, SipIInv, SipTypeOK, CallRecord
<1>4. /\ call' \in CallRecord /\ call'.label = l
      /\ call'.txn = call.txn /\ call'.proceeding = call.proceeding
      /\ call'.anyProvisional = call.anyProvisional
      /\ call'.authRounds = call.authRounds /\ call'.primary = call.primary
      /\ call'.inviteFinal = call.inviteFinal /\ call'.failover = call.failover
      /\ call'.cancelSent = call.cancelSent /\ call'.phase = call.phase
  <2> HIDE DEF l
  <2> QED BY <1>1, <1>3, LabelChange DEF SipIInv, SipTypeOK
<1>5. dialogs'[byeTag] = [dialogs[byeTag] EXCEPT !.byeUnanswered = b, !.last = out]
  BY <1>1, <1>2 DEF SipIInv, SipTypeOK
<1>6. b \in BOOLEAN
  OBVIOUS
<1>7. /\ dialogs'[byeTag] \in Dialog /\ dialogs'[byeTag].byeUnanswered = b /\ dialogs'[byeTag].last = out
      /\ dialogs'[byeTag].confirmed = dialogs[byeTag].confirmed
      /\ dialogs'[byeTag].remoteBye = dialogs[byeTag].remoteBye
      /\ dialogs'[byeTag].byeDone = dialogs[byeTag].byeDone
      /\ dialogs'[byeTag].byes = dialogs[byeTag].byes
  <2> HIDE DEF b
  <2>1. PICK d \in Dialog : d = dialogs[byeTag]
    BY <1>2
  <2>2. PICK e : e = dialogs'[byeTag]
    OBVIOUS
  <2>3. e = [d EXCEPT !.byeUnanswered = b, !.last = out]
    BY <1>5, <2>1, <2>2
  <2>4. /\ e \in Dialog /\ e.byeUnanswered = b /\ e.last = out
        /\ e.confirmed = d.confirmed /\ e.remoteBye = d.remoteBye
        /\ e.byeDone = d.byeDone /\ e.byes = d.byes
    BY <1>3, <1>6, <2>3 DEF Dialog
  <2> QED BY <2>1, <2>2, <2>4
<1>8. dialogs' \in [Tags -> Dialog] /\ \A u \in Tags : u # byeTag => dialogs'[u] = dialogs[u]
  <2> HIDE DEF b
  <2>1. /\ dialogs' = [dialogs EXCEPT ![byeTag] = dialogs'[byeTag]]
    BY <1>1, <1>2, <1>5 DEF SipIInv, SipTypeOK
  <2> QED BY <1>2, <1>7, <2>1 DEF SipIInv, SipTypeOK
<1>9. ByeFrame
  BY <1>1, <1>4, <1>7, <1>8, QueueShape
  DEF ByeFrame, GoroutineFrame, Consumed, Consumes, TearingDown, Lingering, SipIInv
<1>10. SipTypeOK'
  BY <1>1, <1>4, <1>8 DEF SipIInv, SipTypeOK
<1>11. DialogInv' /\ ByeInv'
  <2>1. call'.primary # NoTag => dialogs'[call'.primary].confirmed
    BY <1>4, <1>7, <1>8 DEF SipIInv, SipTypeOK, CallRecord, SipInv, DialogInv
  <2>2. \A t \in Tags : /\ ~dialogs'[t].byeDone => dialogs'[t].byes = 0 /\ dialogs'[t].last = "none"
                        /\ dialogs'[t].byeDone => dialogs'[t].byes > 0
                        /\ dialogs'[t].byeUnanswered => /\ dialogs'[t].byeDone /\ dialogs'[t].byes = 1
                                                        /\ dialogs'[t].last = "bye_unconfirmed"
    BY <1>2, <1>7, <1>8 DEF SipIInv, SipInv, DialogInv
  <2> QED BY <1>1, <1>2, <2>1, <2>2 DEF DialogInv, ByeInv
<1>12. LabelInv'
  <2>1. LabelInv
    BY DEF SipIInv, SipInv
  <2>2. CASE byeTag = call.primary /\ call.label = "none"
    <3>1. call'.label = out
      BY <1>4, <2>2
    <3> QED BY <1>2, <1>3, <1>4, <1>7, <2>2, <3>1 DEF LabelInv, LabelTruthful, Answers
  <2>3. CASE ~(byeTag = call.primary /\ call.label = "none")
    <3>1. call'.label = call.label
      BY <1>4, <2>3
    <3>2. UNCHANGED peer /\ (call.cancelSent => call'.cancelSent)
      BY <1>1, <1>4
    <3>3. \A u \in Tags : /\ dialogs'[u].confirmed = dialogs[u].confirmed
                          /\ dialogs'[u].remoteBye = dialogs[u].remoteBye
                          /\ dialogs[u].byes > 0 => dialogs'[u].byes > 0
                          /\ dialogs[u].last = "bye_ok" => dialogs'[u].last = "bye_ok"
      BY <1>2, <1>7, <1>8
    <3> QED BY <1>4, <3>1, <3>2, <3>3, LabelStays
  <2> QED BY <2>2, <2>3
<1>13. LateInv'
  BY <1>1 DEF LateInv
<1> QED BY <1>9, <1>10, <1>11, <1>12, <1>13, ByeFrameKeeps DEF SipIInv, SipInv

\* The linger looks at the table: BYE what is still up, or wait.
LEMMA byeNewKeeps ==
    ASSUME SipIInv, byeNew, call'.primary = call.primary, call'.label = call.label,
           call.cancelSent => call'.cancelSent, UNCHANGED <<retrying, peer>>, retrying = {}
    PROVE  /\ DialogInv' /\ ByeInv' /\ LabelInv' /\ LateInv'
           /\ dialogs' \in [Tags -> Dialog] /\ byeTag' \in Tags \cup {NoTag} /\ pc' \in {"late", "lateBye"}
           /\ \A u \in Tags : /\ dialogs'[u].confirmed = dialogs[u].confirmed
                              /\ dialogs'[u].remoteBye = dialogs[u].remoteBye
<1>1. CASE Unended = {}
  <2>1. UNCHANGED dialogs /\ pc' = "late" /\ byeTag' = NoTag
    BY <1>1 DEF byeNew
  <2>2. DialogInv' /\ ByeInv' /\ LateInv'
    BY <1>1, <2>1 DEF SipIInv, SipInv, DialogInv, ByeInv, LateInv, RanToItsEnd, Unended
  <2>3. LabelInv'
    BY <2>1, LabelStays
  <2> QED BY <2>1, <2>2, <2>3 DEF SipIInv, SipTypeOK
<1>2. CASE Unended # {}
  <2>1. PICK t \in Unended : SendBye(t) /\ byeTag' = t /\ pc' = "lateBye"
    BY <1>2 DEF byeNew
  <2>2. DialogInv' /\ ByeInv' /\ LabelInv' /\ LateInv' /\ dialogs' \in [Tags -> Dialog] /\ t \in Tags
    BY <2>1, SendByeKeeps
  <2> QED BY <2>1, <2>2, SendByeShape
<1> QED BY <1>1, <1>2


LEMMA retryUnansweredByesKeeps ==
    ASSUME SipIInv, retryUnansweredByes
    PROVE  SipIInv'
<1>1. /\ pc = "retry"
      /\ UNCHANGED <<config, addr, budget, call, verdict, media, lingered, outcome,
                     flow, emitting, peer, overlooked, provs, events, panics>>
  BY DEF retryUnansweredByes, LingerKeeps
<1>2. CASE retrying = {}
  <2>1. byeNew /\ UNCHANGED retrying
    BY <1>2 DEF retryUnansweredByes
  <2>2. /\ DialogInv' /\ ByeInv' /\ LabelInv' /\ LateInv'
        /\ dialogs' \in [Tags -> Dialog] /\ byeTag' \in Tags \cup {NoTag} /\ pc' \in {"late", "lateBye"}
        /\ \A u \in Tags : /\ dialogs'[u].confirmed = dialogs[u].confirmed
                           /\ dialogs'[u].remoteBye = dialogs[u].remoteBye
    BY <1>1, <1>2, <2>1, byeNewKeeps
  <2>3. ByeFrame
    BY <1>1, <2>2, QueueShape
    DEF ByeFrame, GoroutineFrame, Consumed, Consumes, TearingDown, Lingering, SipIInv
  <2>4. SipTypeOK'
    BY <1>1, <2>1, <2>2 DEF SipIInv, SipTypeOK
  <2> QED BY <2>2, <2>3, <2>4, ByeFrameKeeps DEF SipIInv, SipInv
<1>3. CASE retrying # {}
  <2>1. PICK t \in retrying :
          /\ dialogs' = [dialogs EXCEPT ![t].byeUnanswered = FALSE, ![t].byes = @ + 1]
          /\ byeTag' = t /\ pc' = "retryBye" /\ retrying' = retrying \ {t}
    BY <1>3 DEF retryUnansweredByes
  <2>2. /\ t \in Tags /\ dialogs \in [Tags -> Dialog] /\ dialogs[t].byeUnanswered
        /\ dialogs[t].byeDone /\ dialogs[t].byes = 1 /\ dialogs[t].last = "bye_unconfirmed"
    BY DEF SipIInv, SipTypeOK, SipInv, DialogInv
  <2>3. PICK d \in Dialog : d = dialogs[t]
    BY <2>2
  <2>4. PICK e : e = [d EXCEPT !.byeUnanswered = FALSE, !.byes = 2]
    OBVIOUS
  <2>5. /\ e \in Dialog /\ ~e.byeUnanswered /\ e.byes = 2 /\ e.last = d.last /\ e.byeDone = d.byeDone
        /\ e.confirmed = d.confirmed /\ e.remoteBye = d.remoteBye
    <3>1. ASSUME NEW b \in BOOLEAN, NEW n \in 0..2
          PROVE  [d EXCEPT !.byeUnanswered = b, !.byes = n] \in Dialog
      BY DEF Dialog
    <3>2. FALSE \in BOOLEAN /\ 2 \in 0..2
      OBVIOUS
    <3>3. [d EXCEPT !.byeUnanswered = FALSE, !.byes = 2] \in Dialog
      BY <3>1, <3>2, Zenon
    <3> QED BY <2>4, <3>3 DEF Dialog
  <2>6. dialogs' = [dialogs EXCEPT ![t].byeUnanswered = FALSE, ![t].byes = 2]
    BY <2>1, <2>2 DEF Dialog
  <2>7. dialogs' \in [Tags -> Dialog] /\ dialogs'[t] = e /\ \A u \in Tags : u # t => dialogs'[u] = dialogs[u]
    <3>1. dialogs'[t] = e
      BY <2>2, <2>3, <2>4, <2>6
    <3>2. [d EXCEPT !.byeUnanswered = FALSE, !.byes = 2] \in Dialog
      BY <2>4, <2>5
    <3> QED BY <2>2, <2>3, <2>6, <3>1, <3>2
  <2>8. ByeFrame
    BY <1>1, <2>1, <2>3, <2>5, <2>7, QueueShape
    DEF ByeFrame, GoroutineFrame, Consumed, Consumes, TearingDown, Lingering, SipIInv
  <2>9. SipTypeOK'
    BY <1>1, <2>1, <2>2, <2>7 DEF SipIInv, SipTypeOK
  <2>10. DialogInv' /\ ByeInv'
    <3>1. call'.primary # NoTag => dialogs'[call'.primary].confirmed
      BY <1>1, <2>3, <2>5, <2>7 DEF SipIInv, SipTypeOK, CallRecord, SipInv, DialogInv
    <3>2. \A u \in Tags : /\ ~dialogs'[u].byeDone => dialogs'[u].byes = 0 /\ dialogs'[u].last = "none"
                          /\ dialogs'[u].byeDone => dialogs'[u].byes > 0
                          /\ dialogs'[u].byeUnanswered => /\ dialogs'[u].byeDone /\ dialogs'[u].byes = 1
                                                          /\ dialogs'[u].last = "bye_unconfirmed"
      BY <2>2, <2>3, <2>5, <2>7 DEF SipIInv, SipInv, DialogInv
    <3>3. \A u \in retrying' : u \in Tags /\ u # t /\ dialogs'[u].byeUnanswered
      BY <2>1, <2>7 DEF SipIInv, SipTypeOK, SipInv, DialogInv
    <3> QED BY <2>1, <2>2, <2>3, <2>5, <2>7, <3>1, <3>2, <3>3 DEF DialogInv, ByeInv
  <2>11. LabelInv'
    <3>1. \A u \in Tags : /\ dialogs'[u].confirmed = dialogs[u].confirmed
                          /\ dialogs'[u].remoteBye = dialogs[u].remoteBye
                          /\ dialogs[u].byes > 0 => dialogs'[u].byes > 0
                          /\ dialogs[u].last = "bye_ok" => dialogs'[u].last = "bye_ok"
      BY <2>2, <2>3, <2>5, <2>7
    <3> QED BY <1>1, <3>1, LabelStays
  <2>12. LateInv'
    BY <2>1 DEF LateInv
  <2> QED BY <2>8, <2>9, <2>10, <2>11, <2>12, ByeFrameKeeps DEF SipIInv, SipInv
<1> QED BY <1>2, <1>3

Returned(out) == [dialogs EXCEPT ![byeTag].last = out]

\* The answer to a BYE of the linger changes what was last heard of its dialog.
LEMMA LateReturnShape ==
    ASSUME SipIInv, pc \in {"retryBye", "lateBye"}, NEW out \in ByeOutcomes, NEW f,
           f = Returned(out)
    PROVE  /\ byeTag \in Tags /\ f \in [Tags -> Dialog] /\ dialogs[byeTag].byeDone
           /\ dialogs[byeTag].last # "bye_ok" /\ ~dialogs[byeTag].byeUnanswered
           /\ \A u \in Tags : /\ f[u].confirmed = dialogs[u].confirmed
                              /\ f[u].remoteBye = dialogs[u].remoteBye
                              /\ f[u].byeDone = dialogs[u].byeDone /\ f[u].byes = dialogs[u].byes
                              /\ f[u].byeUnanswered = dialogs[u].byeUnanswered
                              /\ u # byeTag => f[u] = dialogs[u]
<1>1. /\ byeTag \in Tags /\ dialogs \in [Tags -> Dialog] /\ dialogs[byeTag].byeDone
      /\ dialogs[byeTag].last # "bye_ok" /\ ~dialogs[byeTag].byeUnanswered
  BY DEF SipIInv, SipTypeOK, SipInv, ByeInv, DialogInv
<1>2. PICK d \in Dialog : d = dialogs[byeTag]
  BY <1>1
<1>3. PICK e : e = [d EXCEPT !.last = out]
  OBVIOUS
<1>4. /\ e \in Dialog /\ e.byeUnanswered = d.byeUnanswered /\ e.byes = d.byes /\ e.byeDone = d.byeDone
      /\ e.confirmed = d.confirmed /\ e.remoteBye = d.remoteBye
  BY <1>3, OutcomeType DEF Dialog
<1>5. f = [dialogs EXCEPT ![byeTag] = e]
  BY <1>1, <1>2, <1>3 DEF Returned
<1>6. f \in [Tags -> Dialog] /\ f[byeTag] = e /\ \A u \in Tags : u # byeTag => f[u] = dialogs[u]
  BY <1>1, <1>4, <1>5
<1> QED BY <1>1, <1>2, <1>4, <1>6


LEMMA RetryReturnsKeeps ==
    ASSUME SipIInv, NEW out \in ByeOutcomes, RetryReturns(out)
    PROVE  SipIInv'
<1>1. /\ pc = "retryBye" /\ pc' = "retry" /\ byeTag' = NoTag
      /\ dialogs' = Returned(out)
      /\ outcome' = RetryOutcome(out)
      /\ UNCHANGED <<config, addr, budget, call, verdict, media, lingered, retrying,
                     flow, emitting, peer, overlooked, provs, events, panics>>
  BY DEF RetryReturns, LingerKeeps, Returned
<1>2. /\ byeTag \in Tags /\ dialogs' \in [Tags -> Dialog] /\ dialogs[byeTag].byeDone
      /\ dialogs[byeTag].last # "bye_ok" /\ ~dialogs[byeTag].byeUnanswered
      /\ \A u \in Tags : /\ dialogs'[u].confirmed = dialogs[u].confirmed
                         /\ dialogs'[u].remoteBye = dialogs[u].remoteBye
                         /\ dialogs'[u].byeDone = dialogs[u].byeDone /\ dialogs'[u].byes = dialogs[u].byes
                         /\ dialogs'[u].byeUnanswered = dialogs[u].byeUnanswered
                         /\ u # byeTag => dialogs'[u] = dialogs[u]
  BY <1>1, LateReturnShape
<1>3. ByeFrame
  BY <1>1, <1>2, QueueShape
  DEF ByeFrame, GoroutineFrame, Consumed, Consumes, TearingDown, Lingering, SipIInv
<1>4. SipTypeOK'
  BY <1>1, <1>2 DEF SipIInv, SipTypeOK, RetryOutcome
<1>5. DialogInv' /\ ByeInv'
  <2>1. call'.primary # NoTag => dialogs'[call'.primary].confirmed
    BY <1>1, <1>2 DEF SipIInv, SipTypeOK, CallRecord, SipInv, DialogInv
  <2>2. \A u \in Tags : /\ ~dialogs'[u].byeDone => dialogs'[u].byes = 0 /\ dialogs'[u].last = "none"
                        /\ dialogs'[u].byeDone => dialogs'[u].byes > 0
                        /\ dialogs'[u].byeUnanswered => /\ dialogs'[u].byeDone /\ dialogs'[u].byes = 1
                                                        /\ dialogs'[u].last = "bye_unconfirmed"
    BY <1>2 DEF SipIInv, SipInv, DialogInv
  <2>3. retrying \subseteq Tags /\ \A u \in retrying : dialogs[u].byeUnanswered
    BY DEF SipIInv, SipTypeOK, SipInv, DialogInv
  <2> QED BY <1>1, <1>2, <2>1, <2>2, <2>3 DEF DialogInv, ByeInv
<1>6. LabelInv'
  <2>1. \A u \in Tags : /\ dialogs[u].byes > 0 => dialogs'[u].byes > 0
                        /\ dialogs[u].last = "bye_ok" => dialogs'[u].last = "bye_ok"
    BY <1>2
  <2> QED BY <1>1, <1>2, <2>1, LabelStays
<1>7. LateInv'
  BY <1>1 DEF LateInv
<1> QED BY <1>3, <1>4, <1>5, <1>6, <1>7, ByeFrameKeeps DEF SipIInv, SipInv

LEMMA LateByeReturnsKeeps ==
    ASSUME SipIInv, NEW out \in ByeOutcomes, LateByeReturns(out)
    PROVE  SipIInv'
<1>1. /\ pc = "lateBye" /\ retrying = {}
      /\ UNCHANGED <<config, addr, budget, call, verdict, media, lingered, retrying,
                     flow, emitting, peer, overlooked, provs, events, panics>>
      /\ outcome' \in {"late_answer", "late_bye_unconfirmed"}
  BY DEF LateByeReturns, LingerKeeps, SipIInv, SipInv, DialogInv
<1>2. PICK f : f = Returned(out)
  OBVIOUS
<1>3. /\ byeTag \in Tags /\ f \in [Tags -> Dialog] /\ dialogs[byeTag].byeDone
      /\ dialogs[byeTag].last # "bye_ok" /\ ~dialogs[byeTag].byeUnanswered
      /\ \A u \in Tags : /\ f[u].confirmed = dialogs[u].confirmed
                         /\ f[u].remoteBye = dialogs[u].remoteBye
                         /\ f[u].byeDone = dialogs[u].byeDone /\ f[u].byes = dialogs[u].byes
                         /\ f[u].byeUnanswered = dialogs[u].byeUnanswered
                         /\ u # byeTag => f[u] = dialogs[u]
  BY <1>1, <1>2, LateReturnShape
<1>4. \A u \in Tags : /\ ~f[u].byeDone => f[u].byes = 0 /\ f[u].last = "none"
                      /\ f[u].byeDone => f[u].byes > 0
                      /\ f[u].byeUnanswered => /\ f[u].byeDone /\ f[u].byes = 1
                                               /\ f[u].last = "bye_unconfirmed"
                      /\ dialogs[u].last = "bye_ok" => f[u].last = "bye_ok"
  BY <1>3 DEF SipIInv, SipInv, DialogInv
<1>5. call.primary # NoTag => call.primary \in Tags /\ f[call.primary].confirmed
  BY <1>3 DEF SipIInv, SipTypeOK, CallRecord, SipInv, DialogInv
<1>6. CASE Unended = {}
  <2>1. dialogs' = f /\ pc' = "late" /\ byeTag' = NoTag
    BY <1>2, <1>6 DEF LateByeReturns, Returned
  <2>2. ByeFrame
    BY <1>1, <1>3, <2>1, QueueShape
    DEF ByeFrame, GoroutineFrame, Consumed, Consumes, TearingDown, Lingering, SipIInv
  <2>3. SipTypeOK'
    BY <1>1, <1>3, <2>1 DEF SipIInv, SipTypeOK
  <2>4. DialogInv' /\ ByeInv'
    BY <1>1, <1>4, <1>5, <2>1 DEF DialogInv, ByeInv
  <2>5. LabelInv'
    BY <1>1, <1>3, <1>4, <2>1, LabelStays
  <2>6. LateInv'
    BY <1>3, <1>6, <2>1 DEF LateInv, RanToItsEnd, Unended
  <2> QED BY <2>2, <2>3, <2>4, <2>5, <2>6, ByeFrameKeeps DEF SipIInv, SipInv
<1>7. CASE Unended # {}
  <2>1. PICK t \in Unended :
          /\ dialogs' = [dialogs EXCEPT ![byeTag].last = out, ![t].byeDone = TRUE, ![t].byes = @ + 1]
          /\ pc' = "lateBye" /\ byeTag' = t
    BY <1>7 DEF LateByeReturns
  <2>2. /\ t \in Tags /\ t # byeTag /\ f[t].byes = 0 /\ f[t].last = "none" /\ ~f[t].byeUnanswered
    BY <1>3, <1>4 DEF Unended
  <2>3. dialogs' = [f EXCEPT ![t].byeDone = TRUE, ![t].byes = @ + 1]
    BY <1>2, <2>1 DEF Returned
  <2>4. dialogs' = [f EXCEPT ![t].byeDone = TRUE, ![t].byes = 1]
    BY <1>3, <2>2, <2>3 DEF Dialog
  <2>5. PICK d \in Dialog : d = f[t]
    BY <1>3, <2>2
  <2>6. PICK e : e = [d EXCEPT !.byeDone = TRUE, !.byes = 1]
    OBVIOUS
  <2>7. /\ e \in Dialog /\ e.byeDone /\ e.byes = 1 /\ e.last = d.last
        /\ e.byeUnanswered = d.byeUnanswered
        /\ e.confirmed = d.confirmed /\ e.remoteBye = d.remoteBye
    <3>1. ASSUME NEW b \in BOOLEAN, NEW n \in 0..2
          PROVE  [d EXCEPT !.byeDone = b, !.byes = n] \in Dialog
      BY DEF Dialog
    <3>2. TRUE \in BOOLEAN /\ 1 \in 0..2
      OBVIOUS
    <3>3. [d EXCEPT !.byeDone = TRUE, !.byes = 1] \in Dialog
      BY <3>1, <3>2, Zenon
    <3> QED BY <2>6, <3>3 DEF Dialog
  <2>8. dialogs' \in [Tags -> Dialog] /\ dialogs'[t] = e /\ \A u \in Tags : u # t => dialogs'[u] = f[u]
    <3>1. dialogs'[t] = e
      BY <1>3, <2>2, <2>4, <2>5, <2>6
    <3>2. [d EXCEPT !.byeDone = TRUE, !.byes = 1] \in Dialog
      BY <2>6, <2>7
    <3> QED BY <1>3, <2>2, <2>4, <2>5, <3>1, <3>2
  <2>9. ByeFrame
    BY <1>1, <1>3, <2>1, <2>5, <2>7, <2>8, QueueShape
    DEF ByeFrame, GoroutineFrame, Consumed, Consumes, TearingDown, Lingering, SipIInv
  <2>10. SipTypeOK'
    BY <1>1, <2>1, <2>2, <2>8 DEF SipIInv, SipTypeOK
  <2>11. DialogInv' /\ ByeInv'
    <3>1. call'.primary # NoTag => dialogs'[call'.primary].confirmed
      BY <1>1, <1>5, <2>5, <2>7, <2>8
    <3>2. \A u \in Tags : /\ ~dialogs'[u].byeDone => dialogs'[u].byes = 0 /\ dialogs'[u].last = "none"
                          /\ dialogs'[u].byeDone => dialogs'[u].byes > 0
                          /\ dialogs'[u].byeUnanswered => /\ dialogs'[u].byeDone /\ dialogs'[u].byes = 1
                                                          /\ dialogs'[u].last = "bye_unconfirmed"
      BY <1>4, <2>2, <2>5, <2>7, <2>8
    <3> QED BY <1>1, <2>1, <2>2, <2>5, <2>7, <2>8, <3>1, <3>2 DEF DialogInv, ByeInv
  <2>12. LabelInv'
    <3>1. \A u \in Tags : /\ dialogs'[u].confirmed = dialogs[u].confirmed
                          /\ dialogs'[u].remoteBye = dialogs[u].remoteBye
                          /\ dialogs[u].byes > 0 => dialogs'[u].byes > 0
                          /\ dialogs[u].last = "bye_ok" => dialogs'[u].last = "bye_ok"
      BY <1>3, <1>4, <2>2, <2>5, <2>7, <2>8
    <3> QED BY <1>1, <3>1, LabelStays
  <2>13. LateInv'
    BY <2>1 DEF LateInv
  <2> QED BY <2>9, <2>10, <2>11, <2>12, <2>13, ByeFrameKeeps DEF SipIInv, SipInv
<1> QED BY <1>6, <1>7


LEMMA LingerEventKeeps ==
    ASSUME SipIInv, LingerEvent
    PROVE  SipIInv'
<1> DEFINE ev == Head(events)
           cancels == /\ ev.kind = "provisional" /\ ev.txn = call.txn
                      /\ ~call.inviteFinal /\ ~call.cancelSent
           b == call.cancelSent \/ cancels
           f == call.inviteFinal \/ (ev.kind = "final" /\ ev.txn = call.txn)
<1>1. /\ pc = "late" /\ Consumes /\ call' = [call EXCEPT !.cancelSent = b, !.inviteFinal = f]
      /\ \/ ev.kind = "answered" /\ byeNew
         \/ ev.kind # "answered" /\ pc' \in {"late", "lateCancel"} /\ UNCHANGED <<dialogs, byeTag>>
      /\ UNCHANGED <<config, addr, budget, verdict, media, lingered, retrying, outcome,
                     flow, emitting, peer, overlooked, provs, panics>>
  BY DEF LingerEvent, LingerKeeps, Consumes, SipIInv, SipTypeOK
<1>2. call \in CallRecord /\ b \in BOOLEAN /\ f \in BOOLEAN /\ retrying = {} /\ verdict.decided
  BY <1>1 DEF SipIInv, SipTypeOK, CallRecord, SipInv, DialogInv, PhaseInv, Lingering
<1>3. /\ call.cancelSent => b
      /\ b => call.cancelSent \/ Consumed("provisional")
      /\ call.inviteFinal => f
      /\ f => call.inviteFinal \/ Consumed("final")
  BY <1>1 DEF Consumed
<1>4. events' \in Seq(Event) /\ Len(events') <= EventBuffer
  BY <1>1, QueueShape, SipCallAssumption DEF SipIInv, SipTypeOK, Consumes, SipCallAssumption
<1>5. ev.kind # "answered" /\ AnswerQueued => AnswerQueued'
  <2> SUFFICES ASSUME ev.kind # "answered", AnswerQueued PROVE AnswerQueued'
    OBVIOUS
  <2>1. CASE emitting.kind = "answered"
    BY <1>1, <2>1 DEF AnswerQueued
  <2>2. CASE emitting.kind # "answered"
    <3>1. PICK i \in 1..Len(events) : events[i].kind = "answered"
      BY <2>2 DEF AnswerQueued
    <3>2. i # 1 /\ Len(events) \in Nat /\ events' = Tail(events)
      BY <1>1, <3>1, QueueShape DEF Consumes, SipIInv
    <3>3. i - 1 \in 1..Len(Tail(events)) /\ Tail(events)[i - 1] = events[i]
      BY <1>1, <3>1, <3>2, QueueShape DEF Consumes, SipIInv
    <3> QED BY <3>1, <3>2, <3>3 DEF AnswerQueued
  <2> QED BY <2>1, <2>2
<1> HIDE DEF ev, cancels, b, f
<1>6. /\ call' \in CallRecord /\ call'.cancelSent = b /\ call'.inviteFinal = f
      /\ call'.txn = call.txn /\ call'.proceeding = call.proceeding
      /\ call'.anyProvisional = call.anyProvisional
      /\ call'.authRounds = call.authRounds /\ call'.primary = call.primary
      /\ call'.failover = call.failover /\ call'.label = call.label /\ call'.phase = call.phase
  BY <1>1, <1>2, CancelChange
<1>7. CASE ev.kind = "answered" /\ byeNew
  <2>1. call'.primary = call.primary /\ call'.label = call.label /\ (call.cancelSent => call'.cancelSent)
    BY <1>3, <1>6
  <2>2. /\ DialogInv' /\ ByeInv' /\ LabelInv' /\ LateInv'
        /\ dialogs' \in [Tags -> Dialog] /\ byeTag' \in Tags \cup {NoTag} /\ pc' \in {"late", "lateBye"}
        /\ \A u \in Tags : /\ dialogs'[u].confirmed = dialogs[u].confirmed
                           /\ dialogs'[u].remoteBye = dialogs[u].remoteBye
    BY <1>1, <1>2, <1>7, <2>1, byeNewKeeps
  <2>3. ByeFrame
    BY <1>1, <1>2, <1>3, <1>6, <2>2 DEF ByeFrame, GoroutineFrame, TearingDown, Lingering
  <2>4. SipTypeOK'
    BY <1>1, <1>4, <1>6, <2>2 DEF SipIInv, SipTypeOK
  <2> QED BY <2>2, <2>3, <2>4, ByeFrameKeeps DEF SipIInv, SipInv
<1>8. CASE ev.kind # "answered" /\ pc' \in {"late", "lateCancel"} /\ UNCHANGED <<dialogs, byeTag>>
  <2>1. ByeFrame
    BY <1>1, <1>2, <1>3, <1>6, <1>8 DEF ByeFrame, GoroutineFrame, TearingDown, Lingering
  <2>2. SipTypeOK'
    BY <1>1, <1>4, <1>6, <1>8 DEF SipIInv, SipTypeOK
  <2>3. DialogInv' /\ ByeInv'
    BY <1>1, <1>2, <1>6, <1>8 DEF SipIInv, SipInv, DialogInv, ByeInv
  <2>4. LabelInv'
    BY <1>1, <1>3, <1>6, <1>8, LabelStays
  <2>5. LateInv'
    BY <1>1, <1>5, <1>8 DEF SipIInv, SipInv, LateInv, RanToItsEnd, Unended
  <2> QED BY <2>1, <2>2, <2>3, <2>4, <2>5, ByeFrameKeeps DEF SipIInv, SipInv
<1> QED BY <1>1, <1>7, <1>8

LEMMA LateCancelReturnsKeeps ==
    ASSUME SipIInv, LateCancelReturns
    PROVE  SipIInv'
<1>1. /\ pc = "lateCancel" /\ pc' = "late"
      /\ outcome' \in {"late_cancel", outcome}
      /\ UNCHANGED <<config, addr, budget, call, verdict, dialogs, byeTag, media, lingered, retrying,
                     flow, emitting, peer, overlooked, provs, events, panics>>
  BY DEF LateCancelReturns, LingerKeeps
<1>2. ByeFrame
  BY <1>1, QueueShape DEF ByeFrame, GoroutineFrame, Consumed, Consumes, TearingDown, Lingering, SipIInv
<1>3. SipTypeOK'
  BY <1>1 DEF SipIInv, SipTypeOK
<1>4. DialogInv' /\ ByeInv' /\ LabelInv' /\ LateInv'
  BY <1>1
  DEF SipIInv, SipInv, DialogInv, ByeInv, LabelInv, LabelTruthful, LateInv, RanToItsEnd, Unended, AnswerQueued
<1> QED BY <1>2, <1>3, <1>4, ByeFrameKeeps DEF SipIInv, SipInv

LEMMA LingerEndsKeeps ==
    ASSUME SipIInv, LingerEnds
    PROVE  SipIInv'
<1>1. /\ pc = "late" /\ pc' = "ended" /\ flow' \in {"hungUp", "closed"}
      /\ outcome' \in {"flow_closed", outcome}
      /\ UNCHANGED <<config, addr, budget, call, verdict, dialogs, byeTag, media, lingered, retrying,
                     emitting, peer, overlooked, provs, events, panics>>
  BY DEF LingerEnds, LingerKeeps, Close
<1>2. QueueInv' /\ PeerInv'
  <2>1. GoroutineFrame
    BY <1>1, QueueShape DEF GoroutineFrame, Consumed, Consumes, SipIInv
  <2> QED BY <2>1, FrameKeepsQueue, FrameKeepsPeer DEF SipIInv, SipInv
<1>3. SipTypeOK'
  BY <1>1 DEF SipIInv, SipTypeOK
<1>4. NoCallInv' /\ PhaseInv' /\ DialogInv' /\ ByeInv'
  BY <1>1
  DEF SipIInv, SipInv, NoCallInv, PhaseInv, DecidedIn, DialogInv, ByeInv, TearingDown, Lingering
<1>5. LabelInv' /\ CancelFollowsProvisional' /\ LateInv'
  BY <1>1
  DEF SipIInv, SipInv, LabelInv, LabelTruthful, CancelFollowsProvisional, LateInv, RanToItsEnd, Unended, AnswerQueued
<1> QED BY <1>2, <1>3, <1>4, <1>5 DEF SipIInv, SipInv

LEMMA CutShortKeeps ==
    ASSUME SipIInv, LingerPanics \/ WorkerStops
    PROVE  SipIInv'
<1>1. /\ pc \in {"retry", "retryBye", "late", "lateBye", "lateCancel"}
      /\ pc' = "ended" /\ flow' \in {"hungUp", "closed"}
      /\ outcome' \in {"aborted", "stopped"} /\ retrying' = {} /\ byeTag' = NoTag
      /\ UNCHANGED <<config, addr, budget, call, verdict, dialogs, media, lingered,
                     emitting, peer, overlooked, provs, events>>
  BY DEF LingerPanics, WorkerStops, CutShort, Close
<1>2. QueueInv' /\ PeerInv'
  <2>1. GoroutineFrame
    BY <1>1, QueueShape DEF GoroutineFrame, Consumed, Consumes, SipIInv
  <2> QED BY <2>1, FrameKeepsQueue, FrameKeepsPeer DEF SipIInv, SipInv
<1>3. panics' \in 0..MaxPanics
  BY SipCallAssumption DEF LingerPanics, WorkerStops, SipIInv, SipTypeOK, SipCallAssumption
<1>4. SipTypeOK'
  BY <1>1, <1>3 DEF SipIInv, SipTypeOK
<1>5. NoCallInv' /\ PhaseInv' /\ DialogInv' /\ ByeInv'
  BY <1>1
  DEF SipIInv, SipInv, NoCallInv, PhaseInv, DecidedIn, DialogInv, ByeInv, TearingDown, Lingering
<1>6. LabelInv' /\ CancelFollowsProvisional' /\ LateInv'
  BY <1>1
  DEF SipIInv, SipInv, LabelInv, LabelTruthful, CancelFollowsProvisional, LateInv, RanToItsEnd
<1> QED BY <1>2, <1>4, <1>5, <1>6 DEF SipIInv, SipInv

LEMMA handOverKeeps ==
    ASSUME SipIInv, handOver
    PROVE  SipIInv'
<1> DEFINE closes == flow = "hungUp" \/ NeedsNoLinger \/ LingerSlots = 0
<1>1. /\ pc = "handOver"
      /\ IF closes THEN Close ELSE UNCHANGED flow
      /\ pc' = IF call.failover /\ closes THEN "dial" ELSE IF closes THEN "ended" ELSE "retry"
      /\ addr' = IF call.failover /\ closes THEN addr + 1 ELSE addr
      /\ lingered' = ~closes /\ retrying' = IF closes THEN {} ELSE Unanswered
      /\ outcome' = IF closes THEN outcome ELSE "quiet"
      /\ verdict' = IF call.failover THEN verdict ELSE decide(verdict, "error")
      /\ UNCHANGED <<config, budget, call, dialogs, byeTag, media, emitting, peer, overlooked, provs,
                     events, panics>>
  BY DEF handOver
<1>2. call.failover => closes /\ addr < Len(HostOf)
  BY <1>1 DEF SipIInv, SipInv, NoCallInv, NeedsNoLinger
<1>3. verdict' \in Verdict /\ (verdict.decided => verdict'.decided) /\ (~call.failover => verdict'.decided)
  <2>1. verdict \in Verdict
    BY DEF SipIInv, SipTypeOK
  <2>2. CASE call.failover
    BY <1>1, <2>1, <2>2
  <2>3. CASE ~call.failover
    <3>1. verdict' = decide(verdict, "error")
      BY <1>1, <2>3
    <3> QED BY <2>1, <3>1, DecideType
  <2> QED BY <2>2, <2>3
<1>4. closes => flow' \in {"hungUp", "closed"}
  BY <1>1 DEF Close
<1>5. closes \in BOOLEAN
  BY DEF NeedsNoLinger
<1>6. flow' = "closed" /\ closes /\ LingerSlots > 0 => \A t \in Tags : ~dialogs[t].confirmed
  BY <1>1 DEF Close, NeedsNoLinger, SipIInv, SipInv, PeerInv
<1> HIDE DEF closes
<1>7. pc' \in {"dial", "ended", "retry"} /\ (pc' = "retry" <=> ~closes) /\ (pc' = "dial" => call.failover)
  BY <1>1
<1>8. QueueInv' /\ PeerInv'
  <2>1. GoroutineFrame
    BY <1>1, <1>3, QueueShape DEF GoroutineFrame, Consumed, Consumes, SipIInv
  <2> QED BY <2>1, FrameKeepsQueue, FrameKeepsPeer DEF SipIInv, SipInv
<1>9. retrying' \subseteq Tags /\ (retrying' # {} => pc' = "retry") /\ \A t \in retrying' : dialogs[t].byeUnanswered
  BY <1>1, <1>7 DEF Unanswered
<1>10. SipTypeOK'
  <2>1. addr' \in Candidates
    BY <1>1, <1>2, SipCallAssumption DEF SipIInv, SipTypeOK, Candidates, SipCallAssumption
  <2>2. flow' \in {"none", "open", "hungUp", "closed"} /\ lingered' \in BOOLEAN
    BY <1>1, <1>4, <1>5 DEF SipIInv, SipTypeOK
  <2> QED BY <1>1, <1>3, <1>7, <1>9, <2>1, <2>2 DEF SipIInv, SipTypeOK
<1>11. NoCallInv'
  <2>1. flow' = "open" => pc' \notin {"dial", "ended"}
    BY <1>4, <1>7
  <2>2. call'.failover => pc' \in {"dial", "ended"}
    BY <1>1, <1>2
  <2> QED BY <1>1, <1>7, <2>1, <2>2 DEF SipIInv, SipInv, NoCallInv, Lingering
<1>12. PhaseInv'
  <2>1. call.phase \in Over /\ (pc' = "dial" => ~call.cancelSent)
    BY <1>1, <1>7 DEF SipIInv, SipInv, PhaseInv, NoCallInv, TearingDown
  <2> QED BY <1>1, <1>2, <1>3, <1>7, <2>1
          DEF SipIInv, SipInv, PhaseInv, DecidedIn, TearingDown, Lingering
<1>13. DialogInv' /\ ByeInv'
  BY <1>1, <1>7, <1>9 DEF SipIInv, SipInv, DialogInv, ByeInv
<1>14. LabelInv' /\ CancelFollowsProvisional'
  BY <1>1 DEF SipIInv, SipInv, LabelInv, LabelTruthful, CancelFollowsProvisional
<1>15. LateInv'
  BY <1>1, <1>6, <1>7 DEF LateInv, RanToItsEnd, Unended
<1> QED BY <1>8, <1>10, <1>11, <1>12, <1>13, <1>14, <1>15 DEF SipIInv, SipInv


-----------------------------------------------------------------------------
(* The theorems.                                                           *)

LEMMA InitSipInv == SipInit => SipIInv
<1> SUFFICES ASSUME SipInit PROVE SipIInv
  OBVIOUS
<1>1. Len(events) = 0 /\ events \in Seq(Event)
  BY EmptySeq DEF SipInit
<1>2. dialogs \in [Tags -> Dialog] /\ addr \in Candidates
  BY NewCallType, SipCallAssumption DEF SipInit, SipCallAssumption, Candidates
<1>3. SipTypeOK
  <2>1. media \in [held : BOOLEAN, stopped : BOOLEAN]
    BY DEF SipInit
  <2>2. Len(events) <= EventBuffer /\ provs \in 0..MaxProvisionals /\ panics \in 0..MaxPanics
    BY <1>1, SipCallAssumption DEF SipInit, SipCallAssumption
  <2>3. call \in CallRecord /\ verdict \in Verdict /\ peer \in Peer
    BY NewCallType DEF SipInit
  <2>4. /\ config \in CallConfigs /\ budget = "left" /\ pc = "dial" /\ emitting = NoEvent
        /\ flow = "none" /\ byeTag = NoTag /\ lingered = FALSE /\ retrying = {} /\ outcome = "none"
        /\ overlooked = FALSE
    BY DEF SipInit
  <2> QED BY <1>1, <1>2, <2>1, <2>2, <2>3, <2>4 DEF SipTypeOK
<1>4. QueueInv
  BY <1>1 DEF SipInit, QueueInv
<1>5. PeerInv /\ NoCallInv /\ PhaseInv
  BY DEF SipInit, PeerInv, NoCallInv, PhaseInv, DecidedIn, Over, TearingDown, Lingering,
         NewCall, NewPeer, NewDialog
<1>6. DialogInv /\ ByeInv
  BY DEF SipInit, DialogInv, ByeInv, NewCall, NewDialog
<1>7. LabelInv /\ CancelFollowsProvisional /\ LateInv
  BY DEF SipInit, LabelInv, LabelTruthful, CancelFollowsProvisional, LateInv, RanToItsEnd, NewCall
<1> QED BY <1>3, <1>4, <1>5, <1>6, <1>7 DEF SipIInv, SipInv

LEMMA StutterKeepsSipInv ==
    ASSUME SipIInv, UNCHANGED sipVars
    PROVE  SipIInv'
<1>1. UNCHANGED <<config, pc, addr, budget, call, verdict, dialogs, byeTag, media, lingered, retrying,
                  outcome, flow, emitting, peer, overlooked, provs, events, panics>>
  BY DEF sipVars, callVars, peerVars
<1>2. SipTypeOK' /\ QueueInv'
  BY <1>1 DEF SipIInv, SipTypeOK, SipInv, QueueInv, Backed
<1>3. PeerInv' /\ NoCallInv' /\ PhaseInv' /\ DialogInv' /\ ByeInv'
  BY <1>1 DEF SipIInv, SipInv, PeerInv, NoCallInv, PhaseInv, DialogInv, ByeInv
<1>4. LabelInv' /\ CancelFollowsProvisional' /\ LateInv'
  BY <1>1
  DEF SipIInv, SipInv, LabelInv, LabelTruthful, CancelFollowsProvisional, LateInv, RanToItsEnd, Unended, AnswerQueued
<1> QED BY <1>2, <1>3, <1>4 DEF SipIInv, SipInv

LEMMA NextKeepsSipInv == SipIInv /\ [SipNext]_sipVars => SipIInv'
<1> SUFFICES ASSUME SipIInv, [SipNext]_sipVars PROVE SipIInv'
  OBVIOUS
<1>1. CASE FarEnd
  BY <1>1, ReceiveProvisionalKeeps, ReceiveFinalKeeps, ReceiveAnswerKeeps, matchDialogKeeps, EmitKeeps,
     PeerClosesKeeps
  DEF FarEnd
<1>2. CASE Goroutine
  <2>1. CASE sendInvite \/ BindFails \/ \E class \in DialErrors : DialFails(class)
    BY <2>1, sendInviteKeeps, BindFailsKeeps, DialFailsKeeps
  <2>2. CASE DriveEvent \/ FlowEnds \/ FlowEnded \/ DrivePanics \/ drainEvents
    BY <2>2, DriveEventKeeps, FlowEndsKeeps, FlowEndedKeeps, DrivePanicsKeeps, drainEventsKeeps
  <2>3. CASE \/ AnswerTimeout \/ HoldOver \/ InviteLoops
             \/ \E why \in {"spent", "shutdown"} : BudgetOut(why)
    BY <2>3, AnswerTimeoutKeeps, HoldOverKeeps, InviteLoopsKeeps, BudgetOutKeeps
  <2>4. CASE teardown \/ settleInvite \/ SettleEnds \/ byeAll \/ TeardownPanics
    BY <2>4, teardownKeeps, settleInviteKeeps, SettleEndsKeeps, byeAllKeeps, TeardownPanicsKeeps
  <2>5. CASE \E out \in ByeOutcomes : ByeReturns(out) \/ RetryReturns(out) \/ LateByeReturns(out)
    BY <2>5, ByeReturnsKeeps, RetryReturnsKeeps, LateByeReturnsKeeps
  <2>6. CASE handOver \/ retryUnansweredByes \/ LingerEvent \/ LateCancelReturns \/ LingerEnds
    BY <2>6, handOverKeeps, retryUnansweredByesKeeps, LingerEventKeeps, LateCancelReturnsKeeps,
       LingerEndsKeeps
  <2>7. CASE LingerPanics \/ WorkerStops
    BY <2>7, CutShortKeeps
  <2> QED BY <1>2, <2>1, <2>2, <2>3, <2>4, <2>5, <2>6, <2>7 DEF Goroutine
<1>3. CASE \E why \in {"spent", "shutdown"} : BudgetEnds(why)
  BY <1>3, BudgetEndsKeeps
<1>4. CASE UNCHANGED sipVars
  BY <1>4, StutterKeepsSipInv
<1> QED BY <1>1, <1>2, <1>3, <1>4 DEF SipNext

LEMMA SipInvariant == SipSpec => []SipIInv
BY InitSipInv, NextKeepsSipInv, PTL DEF SipSpec

\* The state of a call is of the types its fields are declared with, the buffer holds
\* at most sipCallEventBuffer events, and no dialog gets more than two BYEs: one of
\* teardown or of the linger, and one retry of it.
THEOREM SipTypes == SipSpec => []SipTypeOK
<1>1. SipIInv => SipTypeOK
  BY DEF SipIInv
<1> QED BY <1>1, SipInvariant, PTL

\* Every dialog that was ACKed is hung up when the linger has run to its end, whatever
\* the order of forks, CANCEL, budgets, hang-ups and panics before the linger; one that
\* panics itself, or whose worker stops, promises nothing (sip_linger.go, linger).
THEOREM DialogsHungUp == SipSpec => []EveryDialogHungUp
<1>1. SipIInv => EveryDialogHungUp
  BY DEF SipIInv, SipInv, LateInv, DialogInv, EveryDialogHungUp, RanToItsEnd, Unended
<1> QED BY <1>1, SipInvariant, PTL

\* A CANCEL never leaves before a provisional of the very transaction it cancels
\* (sip_invite.go, settleInvite; sip_linger.go, linger).
THEOREM CancelsAfterProvisional == SipSpec => []CancelFollowsProvisional
<1>1. SipIInv => CancelFollowsProvisional
  BY DEF SipIInv, SipInv
<1> QED BY <1>1, SipInvariant, PTL

\* The teardown label claims nothing the far end did not confirm: a label kept from
\* before is not overtaken by a fork, a retried BYE or the linger.
THEOREM LabelsTruthful == SipSpec => []LabelTruthful
<1>1. SipIInv => LabelTruthful
  BY DEF SipIInv, SipInv, LabelInv
<1> QED BY <1>1, SipInvariant, PTL

LEMMA AddressKept ==
    ASSUME SipIInv, [SipNext]_sipVars, addr' # addr
    PROVE  pc = "dial" \/ (pc = "handOver" /\ call.failover)
<1>1. CASE FarEnd
  BY <1>1 DEF FarEnd, ReceiveProvisional, ReceiveFinal, ReceiveAnswer, matchDialog, Emit, PeerCloses, callVars
<1>2. CASE Goroutine
  <2>1. CASE sendInvite \/ BindFails \/ \E class \in DialErrors : DialFails(class)
    BY <2>1 DEF sendInvite, BindFails, DialFails
  <2>2. CASE DriveEvent \/ FlowEnds \/ FlowEnded \/ DrivePanics \/ drainEvents
    BY <2>2 DEF DriveEvent, FlowEnds, FlowEnded, DrivePanics, drainEvents, callVars
  <2>3. CASE \/ AnswerTimeout \/ HoldOver \/ InviteLoops
             \/ \E why \in {"spent", "shutdown"} : BudgetOut(why)
    BY <2>3 DEF AnswerTimeout, HoldOver, InviteLoops, BudgetOut, DriveKeeps
  <2>4. CASE teardown \/ settleInvite \/ SettleEnds \/ byeAll \/ TeardownPanics
    BY <2>4 DEF teardown, settleInvite, SettleEnds, TeardownKeeps, byeAll, ByeKeeps, TeardownPanics
  <2>5. CASE \E out \in ByeOutcomes : ByeReturns(out) \/ RetryReturns(out) \/ LateByeReturns(out)
    BY <2>5 DEF ByeReturns, RetryReturns, LateByeReturns, LingerKeeps
  <2>6. CASE retryUnansweredByes \/ LingerEvent \/ LateCancelReturns \/ LingerEnds
    BY <2>6 DEF retryUnansweredByes, LingerEvent, LateCancelReturns, LingerEnds, LingerKeeps
  <2>7. CASE handOver
    BY <2>7 DEF handOver
  <2>8. CASE LingerPanics \/ WorkerStops
    BY <2>8 DEF LingerPanics, WorkerStops, CutShort
  <2> QED BY <1>2, <2>1, <2>2, <2>3, <2>4, <2>5, <2>6, <2>7, <2>8 DEF Goroutine
<1>3. CASE \E why \in {"spent", "shutdown"} : BudgetEnds(why)
  BY <1>3 DEF BudgetEnds
<1> QED BY <1>1, <1>2, <1>3 DEF SipNext, sipVars, callVars

\* The check goes on to another address only while the one before showed no sign of
\* a call: no provisional, no answer (sip_invite.go, checkInvite).
THEOREM OneCall == SipSpec => OneCallRings
<1>1. SipIInv /\ [SipNext]_sipVars =>
        [addr' # addr => peer.said = {} /\ \A t \in Tags : ~dialogs[t].confirmed]_sipVars
  <2> SUFFICES ASSUME SipIInv, [SipNext]_sipVars, addr' # addr
               PROVE  peer.said = {} /\ \A t \in Tags : ~dialogs[t].confirmed
    OBVIOUS
  <2>1. CASE pc = "dial"
    BY <2>1, Dialling
  <2>2. CASE call.failover
    BY <2>2 DEF SipIInv, SipInv, NoCallInv, PeerInv
  <2> QED BY <2>1, <2>2, AddressKept
<1> QED BY <1>1, SipInvariant, PTL DEF SipSpec, OneCallRings

=============================================================================
