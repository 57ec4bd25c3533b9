------------------------------- MODULE MCAgent -------------------------------
(* Instances of Agent for TLC. *)
EXTENDS Agent

\* Below nothing, just above the capacity, to be shed, with a capacity of 500
\* just so, and beyond shedding.
MCForecasts == {-100, 1209, 4997, 14000}

==============================================================================
