---------------------------- MODULE MCAlertsPage ----------------------------
(***************************************************************************)
(* Three components that share no state: the alerts of one monitor, and of *)
(* the public status pages their cache and their push notifications, each  *)
(* with two replicas or two browsers.  `part` says which of them moves in  *)
(* a behaviour.                                                            *)
(***************************************************************************)
EXTENDS AlertLifecycle, StatusPageCache, StatusPush, TLC

VARIABLE part

\* Every channel fires at once.
NoDelay == [c \in Channels |-> 0]

Symmetry == Permutations(Alerters) \cup Permutations(Viewers) \cup Permutations(PushReplicas)

\* The page and the senders rest once their inputs are used up; the alerters poll
\* for ever, so a deadlock would be one of theirs.
PageMoves ==
    \/ PageNext
    \/ pageChanges = MaxPageChanges /\ UNCHANGED pageVars

PushMoves ==
    \/ PushNext
    \/ pushTime = MaxPushTime /\ UNCHANGED pushVars

InitParts ==
    /\ part \in {"alerts", "page", "push"} /\ Init /\ PageInit /\ PushInit
    /\ part # "alerts" => mon.state = "down"

NextPart ==
    /\ UNCHANGED part
    /\ IF part = "alerts" THEN Next ELSE UNCHANGED vars
    /\ IF part = "page" THEN PageMoves ELSE UNCHANGED pageVars
    /\ IF part = "push" THEN PushMoves ELSE UNCHANGED pushVars

PartsSpec == InitParts /\ [][NextPart]_<<part, vars, pageVars, pushVars>>
=============================================================================
