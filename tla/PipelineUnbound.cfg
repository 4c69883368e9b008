\* A monitor loses its last location while the watchdog holds it as a candidate of
\* its quorum pass, and the fleet checks it before the pass comes to it.
SPECIFICATION Spec
CONSTANTS
    MonitorTypes = {"active"}
    Locations = {l1}
    InitialLocations = {l1}
    InitialQuorum = 1
    Fleet = Fleet
    Thresholds = {1}
    Intervals = {0}
    Grace = 0
    StaleMultiplier = 3
    MinFreshness = 0
    Observations = {"success", "failure"}
    LockWait = 0
    MaxEdits = 1
    MaxResults = 2
    LastInput = 1
    MaxNow = 1
\* The clock and the inputs are bounded: a run ends.
CHECK_DEADLOCK FALSE
PROPERTIES
    UnknownOnlyFromAbsence
