--------------------------- MODULE MCDispatchAiJobs ---------------------------
(***************************************************************************)
(* Two producers of queue jobs that must not starve any of their rows: the *)
(* scheduler's batches and the AI jobs.  They share no state; `part` says  *)
(* which of them moves in a behaviour, the other stays in an initial state.*)
(***************************************************************************)
EXTENDS CheckDispatch, AiJobs

VARIABLE part

\* Three monitors run by the fleet.
ThreeTargets == [m \in {1, 2, 3} |-> {"fleet"}]

\* All of them enabled; none, where the scheduler does not move.
AllOrNone == {{1, 2, 3}, {}}

InitParts ==
    /\ part \in {"dispatch", "triage", "analysis"}
    /\ Init /\ AiJobsInit
    /\ (part = "dispatch") = (enabled # {})
    /\ part # "dispatch" => nextRun = [m \in Monitors |-> 0]

\* A behaviour is about triages or about analyses: neither reads the other's rows.
OneKindOfJob ==
    /\ part = "triage" => \A j \in Analyses : jobRow'[j] = jobRow[j]
    /\ part = "analysis" => \A r \in Relays : relay'[r].jobs = {}

NextPart ==
    \/ part = "dispatch" /\ Next /\ UNCHANGED <<part, jobVars>>
    \/ /\ part \in {"triage", "analysis"}
       /\ AiJobsNext /\ OneKindOfJob
       /\ UNCHANGED <<part, vars>>

\* Fairness and AiJobsFairness, of the part that moves.
FairDispatch ==
    /\ WF_vars(part = "dispatch" /\ Tick)
    /\ \A s \in Schedulers : /\ WF_vars(part = "dispatch" /\ fetchDueMonitors(s))
                              /\ WF_vars(part = "dispatch" /\ Dispatch(s))
                              /\ WF_vars(part = "dispatch" /\ Commit(s))
                              /\ WF_vars(part = "dispatch" /\ CommitAborted(s))
FairJobs ==
    /\ WF_jobVars(part \in {"triage", "analysis"} /\ RelayStep)
    /\ WF_jobVars(part = "analysis" /\ SweepStale)
    /\ WF_jobVars(part \in {"triage", "analysis"} /\ (DeliverJob \/ EndRun))
    /\ WF_jobVars(part \in {"triage", "analysis"} /\ PassTime)

PartsSpec ==
    /\ InitParts /\ [][NextPart]_<<part, vars, jobVars>>
    /\ FairDispatch /\ FairJobs
===============================================================================
