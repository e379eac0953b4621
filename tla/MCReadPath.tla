------------------------------- MODULE MCReadPath -------------------------------
(* Small instances of ReadPath for TLC. *)
EXTENDS ReadPath

CONSTANTS m1, m2
TwoMetrics == {m1, m2}
OneTimestamp == {1}
OneMetric == {m1}
================================================================================
