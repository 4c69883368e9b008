\* Alerts opened and resolved in turn, and two results recorded while
\* maintenance, retention and the purge run.
SPECIFICATION PartsSpec
CONSTANTS
  Alerters = {r1}
  Channels = {c1}
  Paging = {c1}
  Delay <- NoDelay
  Reminder = 1
  Alerts = {1, 2, 3}
  RecoveryBatch = 1
  MaxFaults = 1
  MaxChanges = 2
  MaxNow = 0
  MaxRow = 2
  RolledMons = {1}
  MaxHour = 3
  RawRetention = 0
  RollupRetention = 2
  DayLen = 2
  BatchSize = 1
  MaxFails = 1
\* The clocks and the inputs are bounded: a behaviour ends.
CHECK_DEADLOCK FALSE
INVARIANTS
    FoldedOrMarked
    DailyIsSumOfHourly
PROPERTIES
    PagedChannelsHearRecovery
    OutageIsPaged
    RollupsShowEveryResult
