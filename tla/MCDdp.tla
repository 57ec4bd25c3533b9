-------------------------------- MODULE MCDdp --------------------------------
(* Instances of Ddp for TLC. *)
EXTENDS Ddp

===============================================================================
