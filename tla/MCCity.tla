-------------------------------- MODULE MCCity --------------------------------
(* Instances of City for TLC: the constants get their values in the .cfg.    *)
EXTENDS City, TLC

\* Threads and payloads are interchangeable.
Symmetry == Permutations(Threads) \cup Permutations(Payloads)

NoFaults == {}
AllFaults == {"candidate", "cohort", "raise", "journal", "commit"}

================================================================================
