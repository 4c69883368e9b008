---------------------------- MODULE MCMetricStore ----------------------------
(* MetricStore alone, for the run that follows one export.                 *)
EXTENDS MetricStore
===============================================================================
