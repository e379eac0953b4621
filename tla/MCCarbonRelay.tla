----------------------------- MODULE MCCarbonRelay -----------------------------
(* Small instances of CarbonRelay for TLC: two metrics, whose hash rings start at
   different destinations; the rule of the second has one destination only. *)
EXTENDS CarbonRelay

CONSTANTS d1, d2, m1, m2

TwoDestinations == {d1, d2}
TwoMetrics == {m1, m2}
AllMethods == {"consistent-hashing", "fast-hashing", "rules"}
Around(walk) == [up \in SUBSET TwoDestinations |-> SelectSeq(walk, LAMBDA d : d \in up)]
TwoRings == (m1 :> Around(<<d1, d2>>)) @@ (m2 :> Around(<<d2, d1>>))
TwoRules == (m1 :> <<d1, d2>>) @@ (m2 :> <<d2>>)
================================================================================
