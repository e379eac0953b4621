--------------------------- MODULE MCDashboardGraphs ---------------------------
(* One metric, up to three targets and calls in all the graphs: enough for merges, and
   for keys that differ from the targets. *)
EXTENDS DashboardGraphs

CONSTANT m1

MCMetrics == {m1}
MCIds == 1 .. 3
================================================================================
