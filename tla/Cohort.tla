------------------------------- MODULE Cohort -------------------------------
(***************************************************************************)
(* Which households are selected, and which of them train, validate and    *)
(* test: the arithmetic of stratified_select and                           *)
(* cluster_stratified_household_split                                      *)
(* (src/data/representative_sampling.py) and the time cuts of the dataset  *)
(* without a manifest (src/data/dataset.py).                               *)
(*                                                                         *)
(* A cluster is a number, and its households are numbered in the order of  *)
(* its shuffle: households of a cluster are alike, so counts say it all.   *)
(***************************************************************************)
EXTENDS Sums

\* The first n turns when the members of order take turns.
Turns(order, n) == [i \in 1 .. n |-> order[((i - 1) % Len(order)) + 1]]

\* One more for a cluster with room, until there are n.
OneMore(quota, c, room, n) ==
  IF Total(quota) < n /\ quota[c] < room[c] THEN [quota EXCEPT ![c] = @ + 1] ELSE quota

Deal(quota, room, n, turns) ==
  LET dealt[i \in 0 .. Len(turns)] ==
        IF i = 0 THEN quota ELSE OneMore(dealt[i - 1], turns[i], room, n)
  IN dealt[Len(turns)]

\* Mutant of FirstShare: shares in proportion to the cluster.
FirstShareProportional(size, n) == [c \in DOMAIN size |-> (size[c] * n) \div Total(size)]

\* An equal share, and one more for the first few.
FirstShare(size, n) ==
  LET k == Len(size) IN
    [c \in DOMAIN size |-> Lesser(n \div k + (IF c <= n % k THEN 1 ELSE 0), size[c])]

\* stratified_select: what is over goes to clusters with room, largest first.
Selected(size, target) ==
  LET n       == Lesser(target, Total(size))
      larger  == {cd \in (DOMAIN size) \X (DOMAIN size) :
                    \/ size[cd[1]] > size[cd[2]]
                    \/ size[cd[1]] = size[cd[2]] /\ cd[1] < cd[2]}
  IN Deal(FirstShare(size, n), size, n, Turns(Listed(DOMAIN size, larger), n * Len(size)))

\* _quotas: largest remainder, for validation and again for testing; the loop
\* gives up after four rounds.
Quotas(room, n) ==
  LET all       == Total(room)
      base      == [c \in DOMAIN room |-> IF all = 0 THEN 0 ELSE (room[c] * n) \div all]
      left(c)   == IF all = 0 THEN 0 ELSE (room[c] * n) % all
      before  == {cd \in (DOMAIN room) \X (DOMAIN room) :
                    LET c == cd[1]
                        d == cd[2]
                    IN \/ left(c) > left(d)
                       \/ left(c) = left(d) /\ room[c] > room[d]
                       \/ left(c) = left(d) /\ room[c] = room[d] /\ c < d}
  IN Deal(base, room, n, Turns(Listed(DOMAIN room, before), 4 * Len(room) + 1))

\* What is left of each cluster.
Without(room, quota) == [c \in DOMAIN room |-> room[c] - quota[c]]

(***************************************************************************)
(* cluster_stratified_household_split: validation first, then testing, and *)
(* training takes what it needs of the rest, cluster by cluster.           *)
(***************************************************************************)
HouseholdSplit(selected, trainN, valN, testN) ==
  LET val  == Quotas(selected, valN)
      test == Quotas(Without(selected, val), testN)
      rest == Without(Without(selected, val), test)
      upTo(c)  == Total([d \in 1 .. c |-> rest[d]])
      train(c) == IF upTo(c) <= trainN THEN rest[c]
                  ELSE IF upTo(c) - rest[c] < trainN THEN trainN - (upTo(c) - rest[c]) ELSE 0
      slice(c, from, n) == {<<c, i>> : i \in from + 1 .. from + n}
  IN [val   |-> UNION {slice(c, 0, val[c]) : c \in DOMAIN selected},
      test  |-> UNION {slice(c, val[c], test[c]) : c \in DOMAIN selected},
      train |-> UNION {slice(c, val[c] + test[c], train(c)) : c \in DOMAIN selected}]

\* Mutant of TimeCut: a window of testing may begin too early.
TimeCutEarly(split, n, seqLen) ==
  LET early(p) == IF p > seqLen + 1 THEN p - seqLen - 1 ELSE 0 IN
  CASE split = "train" -> [from |-> 0, to |-> (8 * n) \div 10]
    [] split = "val"   -> [from |-> early((8 * n) \div 10), to |-> (9 * n) \div 10]
    [] split = "test"  -> [from |-> early((9 * n) \div 10), to |-> n]

\* The readings after from, up to to, that a split has of n readings; those
\* before its cut are only ever input.
TimeCut(split, n, seqLen) ==
  LET early(p) == IF p > seqLen THEN p - seqLen ELSE 0 IN
  CASE split = "train" -> [from |-> 0, to |-> (8 * n) \div 10]
    [] split = "val"   -> [from |-> early((8 * n) \div 10), to |-> (9 * n) \div 10]
    [] split = "test"  -> [from |-> early((9 * n) \div 10), to |-> n]

\* The readings that are the target of some window of the cut.
TargetsOf(cut, seqLen, predLen) ==
  IF cut.to - cut.from < seqLen + predLen THEN {} ELSE cut.from + seqLen + 1 .. cut.to

==============================================================================
