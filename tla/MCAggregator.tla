------------------------------ MODULE MCAggregator ------------------------------
(* Small instances of Aggregator for TLC. *)
EXTENDS Aggregator

CONSTANTS a1, a2

TwoAggregates == {a1, a2}
================================================================================
