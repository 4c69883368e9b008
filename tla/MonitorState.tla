---------------------------- MODULE MonitorState ----------------------------
(***************************************************************************)
(* The pure layer of shared/monitorstate: the temporal machine that one    *)
(* evidence stream runs (Apply), the spatial rule that folds the states of *)
(* a monitor's locations into one (AggregateLocations), and the freshness  *)
(* window of a check interval.  Time is counted in ticks.                  *)
(***************************************************************************)
EXTENDS Integers

CONSTANTS
    StaleMultiplier,  \* intervals a result stays fresh (3 in the code)
    MinFreshness      \* floor of the freshness window (90 s in the code)

ASSUME FreshnessAssumption ==
    /\ StaleMultiplier \in Nat \ {0}
    /\ MinFreshness \in Nat

MonitorStates == {"unknown", "up", "suspect", "down", "degraded"}

\* Per-location states: the schema has no "degraded" row (migration 000064).
StreamStates == MonitorStates \ {"degraded"}

Snapshot == [state : MonitorStates, cf : Nat]

\* A threshold below 1 behaves as 1.
ClampLow(n) == IF n < 1 THEN 1 ELSE n

\* A passing result takes one failure back instead of clearing the count.
FailuresTakenBack(current, resultIsFailure) ==
    IF resultIsFailure THEN current.cf + 1 ELSE current.cf - 1

\* The failure count survives a passing result.
FailuresKept(current, resultIsFailure) ==
    IF resultIsFailure THEN current.cf + 1 ELSE current.cf

ConsecutiveFailures(current, resultIsFailure) ==
    IF resultIsFailure THEN current.cf + 1 ELSE 0

\* One check result advances the machine: a pass is "up" at once, a failure is
\* "suspect" until it is confirmed by threshold consecutive failures.
Apply(current, resultIsFailure, threshold) ==
    LET cf == ConsecutiveFailures(current, resultIsFailure)
        to == IF ~resultIsFailure THEN "up"
              ELSE IF current.state = "down" \/ cf >= ClampLow(threshold) THEN "down"
              ELSE "suspect"
    IN  [to |-> to, cf |-> cf]

IsFailureStatus(status) == status \in {"failure", "error"}

\* The quorum that really applies, between 1 and the number of locations.
EffectiveQuorum(counts, quorum) ==
    LET q == ClampLow(quorum)
    IN  IF q > counts.selected /\ counts.selected > 0 THEN counts.selected ELSE q

\* Any location that is down takes the monitor down.
AggregateAnyDown(counts, quorum) ==
    IF counts.down > 0 THEN "down"
    ELSE IF counts.suspect > 0 THEN "suspect"
    ELSE IF counts.up > 0 THEN "up" ELSE "unknown"

\* Too few fresh locations to make a quorum count as no evidence.
AggregateQuorumOrNothing(counts, quorum) ==
    IF counts.down >= EffectiveQuorum(counts, quorum) THEN "down"
    ELSE IF counts.down + counts.suspect + counts.up < EffectiveQuorum(counts, quorum) THEN "unknown"
    ELSE IF counts.down > 0 THEN "degraded"
    ELSE IF counts.suspect > 0 THEN "suspect" ELSE "up"

\* counts = [down, suspect, up, selected] over the selected live locations;
\* the order of the tests is the order of the switch in the code.
AggregateLocations(counts, quorum) ==
    IF counts.down >= EffectiveQuorum(counts, quorum) THEN "down"
    ELSE IF counts.down > 0 THEN "degraded"
    ELSE IF counts.suspect > 0 THEN "suspect"
    ELSE IF counts.up > 0 THEN "up" ELSE "unknown"

FreshnessHorizonSeconds(interval) ==
    IF interval * StaleMultiplier < MinFreshness
    THEN MinFreshness ELSE interval * StaleMultiplier
=============================================================================
