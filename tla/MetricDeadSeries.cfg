\* One export whose day has no partition yet.
SPECIFICATION MetricSpec
CONSTANTS
  Exports = {1}
  SeriesKeys = {k1}
  LastDay = 1
  MetricRetention = 1
  MaxSeries = 1
  MaxIngestFaults = 1
INVARIANTS AcceptedSampleIsReadable
CHECK_DEADLOCK FALSE
