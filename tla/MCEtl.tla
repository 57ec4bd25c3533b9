-------------------------------- MODULE MCEtl --------------------------------
(* Instances of Etl for TLC. *)
EXTENDS Etl

MCReadings == {<<>>, <<None>>, <<0>>, <<12>>, <<12, 24>>, <<12, NaN>>}

===============================================================================
