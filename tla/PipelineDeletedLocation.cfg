\* A location deleted while SetLocations is adding it.
SPECIFICATION Spec
CONSTANTS
    MonitorTypes = {"active"}
    Locations = {l1}
    InitialLocations = {}
    InitialQuorum = 1
    Fleet = Fleet
    Thresholds = {2}
    Intervals = {0}
    Grace = 0
    StaleMultiplier = 3
    MinFreshness = 0
    Observations = {"success", "failure"}
    LockWait = 0
    MaxEdits = 2
    MaxResults = 2
    LastInput = 2
    MaxNow = 2
INVARIANTS
    BoundToLiveLocations
\* The clock and the inputs are bounded: a run ends.
CHECK_DEADLOCK FALSE
