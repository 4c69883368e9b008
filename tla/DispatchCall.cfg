\* Two schedulers and a worker; a call with up to two forked answers.
SPECIFICATION PartsSpec
CONSTANTS
    Monitors = {1, 2, 3, 4}
    Targets <- FleetTargets
    InitialEnabled <- OneOrNone
    SideEffecting = {1}
    Broken = {}
    Unreadable = {}
    Unrunnable = {3}
    Unroutable = {4}
    Schedulers = {1, 2}
    Workers = {w1}
    BatchSize = 2
    Interval = 2
    Recheck = 2
    JobLife = 0
    Window = 1
    MaxDeliver = 2
    MaxFaults = 1
    MaxEdits = 1
    MaxNow = 1
    HostOf <- TwoAddresses
    Tags = {t1, t2}
    CallConfigs <- Configs
    EventBuffer = 2
    ByeAnswers = {"bye_ok"}
    LingerSlots = 1
    MaxProvisionals = 1
    MaxPanics = 1
SYMMETRY Symmetry
CHECK_DEADLOCK FALSE
INVARIANTS
    OneCallPerSlot
    AckedHasResult
    EveryDialogHungUp
    CancelFollowsProvisional
    LabelTruthful
PROPERTIES
    OneCallRings
