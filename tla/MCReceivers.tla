------------------------------ MODULE MCReceivers ------------------------------
(* Small instances of Receivers for TLC. *)
EXTENDS Receivers, TLC

CONSTANTS c1, c2, c3
ThreeConnections == {c1, c2, c3}
Symmetry == Permutations(ThreeConnections)
================================================================================
