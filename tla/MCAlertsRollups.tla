--------------------------- MODULE MCAlertsRollups ---------------------------
(***************************************************************************)
(* What must eventually be sent and counted: the alert lifecycle and       *)
(* rollup maintenance.  They share no state; `part` says which of them     *)
(* moves in a behaviour, the other stays in an initial state.              *)
(***************************************************************************)
EXTENDS AlertLifecycle, RollupLedger

VARIABLE part

\* Every channel fires at once.
NoDelay == [c \in Channels |-> 0]

InitParts ==
    /\ part \in {"alerts", "rollups"}
    /\ Init /\ RollupInit
    /\ part # "alerts" => mon.state = "unknown"

NextPart ==
    \/ part = "alerts" /\ Next /\ UNCHANGED <<part, rollupVars>>
    \/ part = "rollups" /\ RollupNext /\ UNCHANGED <<part, vars>>

\* Fairness and RollupFairness, of the part that moves.
FairAlerts ==
    /\ WF_vars(part = "alerts" /\ Tick)
    /\ \A r \in Alerters : WF_vars(part = "alerts" /\ runLifecycle(r))
FairRollups ==
    /\ WF_rollupVars(part = "rollups" /\ runRollupMaintenance)
    /\ WF_rollupVars(part = "rollups" /\ (purgeRollups \/ purgeRaw \/ purgeMonitor))
    /\ \A r \in Rows :
          WF_rollupVars(part = "rollups" /\ (insertRow(r) \/ CommitRecord(r) \/ AbortRecord(r)))

PartsSpec ==
    /\ InitParts /\ [][NextPart]_<<part, vars, rollupVars>>
    /\ FairAlerts /\ FairRollups
===============================================================================
