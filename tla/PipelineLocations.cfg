\* Two locations that must both confirm; their set, the quorum, the pause flag and
\* the locations themselves change while results are in flight.
SPECIFICATION Spec
CONSTANTS
    MonitorTypes = {"active"}
    Locations = {l1, l2}
    InitialLocations = {l1, l2}
    InitialQuorum = 2
    Fleet = Fleet
    Thresholds = {1, 2}
    Intervals = {0}
    Grace = 0
    StaleMultiplier = 3
    MinFreshness = 0
    Observations = {"success", "failure"}
    LockWait = 0
    MaxEdits = 2
    MaxResults = 2
    LastInput = 1
    MaxNow = 1
SYMMETRY Symmetry
\* The clock and the inputs are bounded: a run ends.
CHECK_DEADLOCK FALSE
INVARIANTS
    TimelineAgrees
    NoResurrectedRow
PROPERTIES
    QuorumRespected
    LateResultNeverApplied
    AbsenceOnlyWhenStale
