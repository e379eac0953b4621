----------------------------- MODULE MCMetricCache -----------------------------
(* Small instances of MetricCache for TLC. *)
EXTENDS MetricCache

CONSTANTS m1, m2, v1

TwoMetrics == {m1, m2}
TwoTimestamps == {1, 2}
OneValue == {v1}
SnapshotOrMax == {"sorted", "max"}
OnlySorted == {"sorted"}
ThreePoints == {<<m1, 1>>, <<m1, 2>>, <<m2, 1>>}
TwoPoints == {<<m1, 1>>, <<m2, 1>>}
================================================================================
