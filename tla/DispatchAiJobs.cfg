\* Batches smaller than the backlog, and AI jobs: two alerts, two relay replicas,
\* one analysis request.
SPECIFICATION PartsSpec
CONSTANTS
  Monitors = {1, 2, 3}
  Targets <- ThreeTargets
  InitialEnabled <- AllOrNone
  SideEffecting = {3}
  Broken = {1}
  Unreadable = {}
  Unrunnable = {}
  Unroutable = {}
  Schedulers = {s1, s2}
  Workers = {}
  BatchSize = 2
  Interval = 2
  Recheck = 1
  JobLife = 1
  Window = 1
  MaxDeliver = 0
  MaxFaults = 1
  MaxEdits = 1
  MaxNow = 1
  Triages = {1, 2}
  Analyses = {3}
  Relays = {r1, r2}
  MaxTriageAttempts = 2
  TriageRepublishAfter = 0
  TriageMaxAge = 2
  TriageDuplicatesWindow = 1
  TriageNotStartedAfter = 3
  TriageFailAfter = 4
  StaleAfter = 2
  LockCeiling = 4
  HourlyWindow = 4
  TriageMaxPerHour = 1
  RelayMaxPending = 1
  MaxDeliveries = 2
  RunTime = 1
  RetryDelay = 1
  MaxRows = 2
  MaxJobFaults = 1
\* The clocks and the inputs are bounded: a behaviour ends.
CHECK_DEADLOCK FALSE
INVARIANTS
    CapsAreExact
PROPERTIES
    NoSlotSkipped
    NoHealthyMonitorStarves
    TimeoutComesLast
    SweepSparesRuns
    PendingIsSettled
