\* Two replicas work on the same monitor, two browsers look at the same page, and
\* two replicas send its notifications.
SPECIFICATION PartsSpec
CONSTANTS
    Alerters = {r1, r2}
    Channels = {c1}
    Paging = {c1}
    Delay <- NoDelay
    Reminder = 1
    Alerts = {1, 2}
    RecoveryBatch = 1
    MaxFaults = 1
    MaxChanges = 1
    MaxNow = 1
    Viewers = {v1, v2}
    StreamBuffer = 1
    MaxPageChanges = 2
    MaxPageFaults = 1
    PushReplicas = {q1, q2}
    Browsers = {b1}
    FlapDebounce = 1
    PushHorizon = 4
    ClaimStaleAfter = 2
    DeliveryRetention = 4
    FailureCap = 1
    SubscriptionCap = 2
    MaxTransitions = 2
    MaxPushEdits = 1
    MaxPushFaults = 1
    MaxPushTime = 6
SYMMETRY Symmetry
INVARIANTS
    OneOpenAlert
    OncePerEvent
    RefetchIsFresh
    ToldOnce
PROPERTIES
    NoStalePage
