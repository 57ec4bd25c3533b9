--------------------------------- MODULE Sums ---------------------------------
(***************************************************************************)
(* Sums and orders, as the programs take them over lists and columns       *)
(* (sum, numpy.sum, argsort, sorted): the sum of a sequence, a sum under a *)
(* mask, and the members of a set in an order.                             *)
(***************************************************************************)
EXTENDS Integers, Sequences, FiniteSets

Total(s) ==
  LET sum[i \in 0 .. Len(s)] == IF i = 0 THEN 0 ELSE sum[i - 1] + s[i]
  IN sum[Len(s)]

\* A sequence of numbers under a mask: zero where an index is not in S.
Within(S, s) == [i \in DOMAIN s |-> IF i \in S THEN s[i] ELSE 0]

Lesser(x, y) == IF x < y THEN x ELSE y

\* How many of D come before x, when before is a strict order of D.
RankIn(D, before, x) == Cardinality({y \in D : <<y, x>> \in before})

\* The members of D in that order.
Listed(D, before) ==
  [i \in 1 .. Cardinality(D) |-> CHOOSE x \in D : RankIn(D, before, x) = i - 1]

===============================================================================
