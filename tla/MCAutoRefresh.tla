----------------------------- MODULE MCAutoRefresh -----------------------------
(* The images of a graph do not depend on other graphs: one is enough. *)
EXTENDS AutoRefresh

CONSTANT g1

MCGraphs == {g1}
================================================================================
