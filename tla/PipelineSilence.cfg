\* An active monitor, with or without a location, a push or an agent monitor, whose
\* results stop.
SPECIFICATION FairSpec
CONSTANTS
    MonitorTypes = {"active", "push", "agent"}
    Locations = {l1}
    InitialLocations = {}
    InitialQuorum = 1
    Fleet = Fleet
    Thresholds = {2}
    Intervals = {1, 2}
    Grace = 0
    StaleMultiplier = 2
    MinFreshness = 0
    Observations = {"success", "failure"}
    LockWait = 0
    MaxEdits = 1
    MaxResults = 2
    LastInput = 1
    MaxNow = 13
\* The clock and the inputs are bounded: a run ends.
CHECK_DEADLOCK FALSE
PROPERTIES
    SilenceIsNoticed
