------------------------------ MODULE MCServices ------------------------------
(***************************************************************************)
(* Components that share no state with one another, checked side by side:  *)
(* `part` says which of them moves in a behaviour, the others stay in an   *)
(* initial state.                                                          *)
(***************************************************************************)
EXTENDS Incidents, DowntimeProjection, MetricStore, NotificationDelivery, TLC

VARIABLE part

MCIncs == 1..2
MCAlts == 1..3

\* Transactions and alert kinds are interchangeable.
Symmetry == Permutations(Txs) \cup Permutations(Kinds)

InitParts ==
    /\ part \in {"incidents", "downtime", "metrics", "delivery"}
    /\ IncidentsInit /\ DowntimeInit /\ MetricInit /\ DeliveryInit
    /\ part # "delivery" => kind = "pager"

NextPart ==
    /\ UNCHANGED part
    /\ IF part = "incidents" THEN IncidentsNext ELSE UNCHANGED incidentVars
    /\ IF part = "downtime" THEN DowntimeNext ELSE UNCHANGED downtimeVars
    /\ IF part = "metrics" THEN MetricNext ELSE UNCHANGED metricVars
    /\ IF part = "delivery" THEN DeliveryNext ELSE UNCHANGED deliveryVars

PartsSpec == InitParts /\ [][NextPart]_<<part, incidentVars, downtimeVars, metricVars, deliveryVars>>
===============================================================================
