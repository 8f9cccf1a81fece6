------------------------------ MODULE MCMetrics ------------------------------
(* Metrics for TLC, on the workflows of MCDurableRun. *)
EXTENDS MCDurableRun, Metrics
=============================================================================
