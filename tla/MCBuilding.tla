------------------------------ MODULE MCBuilding ------------------------------
(* Instances of Building for TLC: the constants get their values in the .cfg *)
EXTENDS Building

================================================================================
