-------------------------- MODULE MCMonitorPipeline --------------------------
(* Model-checking instance of MonitorPipeline.                             *)
EXTENDS MonitorPipeline, TLC

\* Locations are interchangeable: no action and no safety property names one.
Symmetry == Permutations(Locations)
=============================================================================
