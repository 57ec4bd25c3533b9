------------------------------ MODULE MCDistrict ------------------------------
(* Instances of District for TLC: the constants get their values in the .cfg *)
EXTENDS District, TLC

\* Threads and payloads are interchangeable.
Symmetry == Permutations(Threads) \cup Permutations(Payloads)

================================================================================
