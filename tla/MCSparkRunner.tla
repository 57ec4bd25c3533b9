---------------------------- MODULE MCSparkRunner ----------------------------
(* Instances of SparkRunner for TLC: three agents in two districts. *)
EXTENDS SparkRunner

CONSTANTS a1, a2, a3

MCTrainings == {<<3, 2>>}
MCManifest == <<a1, a2, a3>>
MCConfigs ==
  {[f |-> 0, resume |-> 1, dp |-> FALSE],
   [f |-> 1, resume |-> 0, dp |-> FALSE], [f |-> 0, resume |-> 0, dp |-> TRUE]}

================================================================================
