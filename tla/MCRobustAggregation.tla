------------------------- MODULE MCRobustAggregation -------------------------
(* Instances of RobustAggregation for TLC. *)
EXTENDS RobustAggregation

MCValues == {-9, 0, 2, 9}

================================================================================
