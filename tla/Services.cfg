SPECIFICATION PartsSpec
CONSTANTS
  Incs <- MCIncs
  Alts <- MCAlts
  Mons = {m1}
  Kinds = {availability, latency_anomaly}
  Pages = {p1}
  Txs = {t1, t2}
  MaxResolves = 2
  MaxEdits = 2
  SyncOverlap = 3
  MaxMinute = 5
  MaxChangesDown = 3
  Exports = {1, 2}
  SeriesKeys = {k1}
  LastDay = 2
  MetricRetention = 1
  MaxSeries = 1
  MaxIngestFaults = 1
  Recipients = {n1, n2}
  MaxAttempts = 2
  MaxSendFaults = 2
SYMMETRY Symmetry
CHECK_DEADLOCK FALSE
INVARIANTS
    OneOpenAutoIncident
    RecoveryIsNotedOnce
    SingleResolvesNeverDeadlock
    SampleFoldedOrMarked
    PagerFollowsAlert
    TextedOnce
    EveryRecipientTexted
PROPERTIES
    ProjectionTrailsOneRun
