\* A monitor without locations: checked by the fleet, or an agent.
SPECIFICATION Spec
CONSTANTS
    MonitorTypes = {"active", "agent"}
    Locations = {}
    InitialLocations = {}
    InitialQuorum = 1
    Fleet = Fleet
    Thresholds = {1, 2}
    Intervals = {0}
    Grace = 0
    StaleMultiplier = 3
    MinFreshness = 1
    Observations = {"success", "failure", "expired"}
    LockWait = 1
    MaxEdits = 1
    MaxResults = 3
    LastInput = 2
    MaxNow = 3
\* The clock and the inputs are bounded: a run ends.
CHECK_DEADLOCK FALSE
INVARIANTS
    TypeOK
    ConfirmedState
    EvidenceBacked
PROPERTIES
    TimelineMonotonic
