--------------------------- MODULE MCDistrictUplink ---------------------------
(* Instances of DistrictUplink for TLC: the constants get their values in    *)
(* the .cfg.                                                                 *)
EXTENDS DistrictUplink

===============================================================================
