-------------------------- MODULE RobustAggregation --------------------------
(***************************************************************************)
(* What a round does with the updates it has got.  The District's Spark    *)
(* job run_spark_byzantine_round (src/federated/spark_byzantine.py): clip, *)
(* Multi-Krum (krum.py), masked trimmed mean (aggregation.py), then the    *)
(* audit rows.  The City's mean, masked_weighted_fedavg.                   *)
(*                                                                         *)
(* A model has one weight here, an update moves it by an integer or leaves *)
(* it out (Top-K: the value is 0 and the mask false).  A mean is the pair  *)
(* of its sum and its count or weight.  What an update is worth depends on *)
(* no order, so a cohort is an ascending sequence; equal Krum scores are   *)
(* ranked in any way.                                                      *)
(***************************************************************************)
EXTENDS Sums, FiniteSetsExt

CONSTANTS
  None,           \* no result
  Values,         \* the values an update may have
  Threshold,      \* clip_threshold
  Fs,             \* the values of f_byzantine
  Trims,          \* the values of trim_ratio, in tenths
  MaxAgents,      \* bound: the size of a cohort
  MaxAttempts     \* bound: how often a round is tried

ASSUME AggregationAssumption ==
  /\ 0 \in Values /\ Values \subseteq Int /\ Threshold \in Nat \ {0}
  /\ Fs \subseteq Nat /\ Trims \subseteq 0 .. 4
  /\ MaxAgents \in Nat /\ MaxAttempts \in Nat \ {0}

VARIABLES
  tier,           \* "district" or "city"
  cohort,         \* the updates: [value, present, weight]
  f, trim,        \* f_byzantine and trim_ratio
  pc,             \* how far the job is
  scores,         \* the Krum scores
  accepted,       \* accepted_idx
  result,         \* the mean, as [sum, count], or None
  summaries,      \* rows of this round in district_round_summary
  agentRows,      \* how often its rows are in agent_round_audit
  attempts, repeated  \* the tries; did one fail that had written audit rows?

input == <<tier, cohort, f, trim>>
vars  == <<input, pc, scores, accepted, result, summaries, agentRows, attempts, repeated>>

Sent == [value : Values, present : {TRUE}] \cup {[value |-> 0, present |-> FALSE]}

\* The order in which a cohort is listed.
Sorted(s) ==
  \A i \in 1 .. Len(s) - 1 :
    \/ s[i].value < s[i + 1].value
    \/ s[i].value = s[i + 1].value /\ (s[i].present => s[i + 1].present)

Cohorts == UNION {{s \in [1 .. n -> Sent] : Sorted(s)} : n \in 0 .. MaxAgents}

Init ==
  /\ tier \in {"district", "city"} /\ cohort \in Cohorts
  /\ f \in Fs /\ trim \in Trims
  /\ tier = "city" => f = Min(Fs) /\ trim = Min(Trims)
  /\ pc = "start" /\ scores = <<>> /\ accepted = {} /\ result = None
  /\ summaries = 0 /\ agentRows = 0 /\ attempts = 1 /\ repeated = FALSE

Indices == DOMAIN cohort
N       == Len(cohort)

-------------------------------------------------------------------------------
\* clip_state_dict: the vector keeps its direction.
Clipped(i) == Max({-Threshold, Min({Threshold, cohort[i].value})})

Distance(i, j) == (Clipped(i) - Clipped(j)) * (Clipped(i) - Clipped(j))

\* Does j come before k among the neighbours of i?
Nearer(i, j, k) == Distance(i, j) < Distance(i, k) \/ (Distance(i, j) = Distance(i, k) /\ j < k)

\* Mutant of Neighbours: one attacker fewer than there may be is outvoted.
NeighboursFew == N - 2 * f - 2

Neighbours == N - f - 2

Nearest(i) ==
  LET others == Indices \ {i}
      nearer == {kj \in others \X others : Nearer(i, kj[1], kj[2])}
  IN {j \in others : RankIn(others, nearer, j) < Neighbours}

\* krum_scores: the sum over the nearest neighbours; too few agents, no score.
Score(i) ==
  IF f = 0 /\ N < 3 THEN 0
  ELSE Total(Within(Nearest(i), [j \in Indices |-> Distance(i, j)]))

KrumRaises == f > 0 /\ N > 0 /\ N < 2 * f + 3

\* multi_krum_select keeps the n - f best (n > f, or Krum has raised); with
\* f = 0 it is not asked.
Selections ==
  IF f = 0 THEN {Indices}
  ELSE {S \in kSubset(N - f, Indices) :
          \A i \in S, j \in Indices \ S : scores[i] <= scores[j]}

\* What the survivors have sent for the coordinate, and the rank of a value.
Contributors == {i \in accepted : cohort[i].present}
Less == {ji \in Contributors \X Contributors :
           \/ Clipped(ji[1]) < Clipped(ji[2])
           \/ Clipped(ji[1]) = Clipped(ji[2]) /\ ji[1] < ji[2]}
Rank(i) == RankIn(Contributors, Less, i)

Cut ==
  LET count == Cardinality(Contributors)
      cut   == (trim * count) \div 10
  IN IF count - 2 * cut < 1 THEN 0 ELSE cut

\* Mutant of Kept: twice the cut from one end.
KeptLow == {i \in Contributors : Rank(i) < Cardinality(Contributors) - 2 * Cut}

Kept == {i \in Contributors : Cut <= Rank(i) /\ Rank(i) < Cardinality(Contributors) - Cut}

\* masked_trimmed_mean: zero, and a mask that is false, if nobody sent it.
TrimmedMean ==
  [sum   |-> Total(Within(Kept, [i \in Indices |-> Clipped(i)])),
   count |-> Cardinality(Kept)]

\* The weight of a district: its samples, here by its place; one has none.
Weight(i) == i - 1

\* Mutant of Effective: the weight of those that did not send the coordinate
\* is in the denominator.
EffectiveOfAll == Indices

Effective == {i \in Indices : cohort[i].present}

\* masked_weighted_fedavg.
WeightedMean ==
  [sum   |-> Total(Within(Effective, [i \in Indices |-> Weight(i) * cohort[i].value])),
   count |-> Total(Within(Effective, [i \in Indices |-> Weight(i)]))]

-------------------------------------------------------------------------------
\* Nothing came in: no result, and no audit.
NothingIn ==
  /\ pc = "start" /\ tier = "district" /\ cohort = <<>>
  /\ pc' = "done"
  /\ UNCHANGED <<input, scores, accepted, result, summaries, agentRows, attempts, repeated>>

ScoreAll ==
  /\ pc = "start" /\ tier = "district" /\ cohort # <<>> /\ ~KrumRaises
  /\ scores' = [i \in Indices |-> Score(i)]
  /\ pc' = "scored"
  /\ UNCHANGED <<input, accepted, result, summaries, agentRows, attempts, repeated>>

Select(S) ==
  /\ pc = "scored"
  /\ accepted' = S
  /\ scores' = <<>>
  /\ pc' = "selected"
  /\ UNCHANGED <<input, result, summaries, agentRows, attempts, repeated>>

Aggregate ==
  /\ pc = "selected"
  /\ result' = TrimmedMean
  /\ pc' = "aggregated"
  /\ UNCHANGED <<input, scores, accepted, summaries, agentRows, attempts, repeated>>

\* Two appends to Parquet, the summary first.
WriteSummary ==
  /\ pc = "aggregated"
  /\ summaries' = summaries + 1
  /\ pc' = "summarised"
  /\ UNCHANGED <<input, scores, accepted, result, agentRows, attempts, repeated>>

\* Mutant of RowsMayGo: the other way round.
RowsMayGoFirst == pc \in {"aggregated", "summarised"}

RowsMayGo == pc = "summarised"

WriteAgentRows ==
  /\ RowsMayGo
  /\ agentRows' = agentRows + 1
  /\ pc' = "audited"
  /\ UNCHANGED <<input, scores, accepted, result, summaries, attempts, repeated>>

\* The District finalizes the round.
Finalize ==
  /\ pc = "audited"
  /\ pc' = "done"
  /\ UNCHANGED <<input, scores, accepted, result, summaries, agentRows, attempts, repeated>>

\* Krum refuses the cohort, Spark fails, finalize_round fails, the District
\* dies: nothing of this try is kept but the rows that are written.
JobFails ==
  /\ tier = "district" /\ pc \notin {"done", "failed"}
  /\ pc' = "failed"
  /\ scores' = <<>> /\ accepted' = {} /\ result' = None
  /\ repeated' = (repeated \/ pc \in {"summarised", "audited"})
  /\ UNCHANGED <<input, summaries, agentRows, attempts>>

\* The next upload of an agent tries again, with the same cohort.
Retry ==
  /\ pc = "failed" /\ attempts < MaxAttempts
  /\ pc' = "start" /\ attempts' = attempts + 1
  /\ UNCHANGED <<input, scores, accepted, result, summaries, agentRows, repeated>>

CityAverages ==
  /\ pc = "start" /\ tier = "city" /\ cohort # <<>>
  /\ result' = WeightedMean
  /\ pc' = "done"
  /\ UNCHANGED <<input, scores, accepted, summaries, agentRows, attempts, repeated>>

Next ==
  \/ NothingIn
  \/ ScoreAll
  \/ pc = "scored" /\ \E S \in Selections : Select(S)
  \/ Aggregate
  \/ WriteSummary \/ WriteAgentRows
  \/ Finalize
  \/ JobFails \/ Retry
  \/ CityAverages

Spec == Init /\ [][Next]_vars

-------------------------------------------------------------------------------
(***************************************************************************)
(* Properties                                                              *)
(***************************************************************************)

(***************************************************************************)
(* Krum's promise, for f attackers that may agree on what they send: if    *)
(* they are far from all others, compared with how far those are from each *)
(* other, none of them is accepted.                                        *)
(***************************************************************************)
Far(A) ==
  LET H    == Indices \ A
      near == Max({Distance(i, j) : i, j \in H})
      far  == Min({Distance(i, j) : i \in A, j \in H})
  IN (N - 2 * f - 1) * far > (N - f - 2) * near

ColludersAreRejected ==
  pc = "selected" /\ f > 0 =>
    \A n \in 1 .. f : \A A \in kSubset(n, Indices) : Far(A) => A \cap accepted = {}

(***************************************************************************)
(* As many survivors as are cut from either end cannot move a coordinate   *)
(* beyond what the other survivors have sent for it.                       *)
(***************************************************************************)
OutliersCannotMoveMean ==
  pc = "aggregated" =>
    /\ result.count = 0 <=> Contributors = {}
    /\ \A A \in SUBSET Contributors :
         Cardinality(A) <= Cut /\ A # Contributors =>
           LET honest == {Clipped(i) : i \in Contributors \ A} IN
             /\ Min(honest) * result.count <= result.sum
             /\ result.sum <= Max(honest) * result.count

(***************************************************************************)
(* The City's mean lies between what the districts that sent the coordinate*)
(* have sent: a missing coordinate is not a zero, and a district without   *)
(* samples does not count.                                                 *)
(***************************************************************************)
CityMeanIsBetween ==
  LET sent == {cohort[i].value : i \in {j \in Indices : cohort[j].present /\ Weight(j) > 0}} IN
    tier = "city" /\ result # None =>
      /\ result.count = 0 <=> sent = {}
      /\ sent # {} => /\ Min(sent) * result.count <= result.sum
                      /\ result.sum <= Max(sent) * result.count

(***************************************************************************)
(* The audit has the agents' rows only with their summary, and a round     *)
(* that was closed once, unless a try failed that had written rows: the    *)
(* append is not undone, so the round is then in the audit twice.          *)
(***************************************************************************)
AuditedOnce ==
  /\ agentRows <= summaries
  /\ tier = "district" /\ pc = "done" /\ cohort # <<>> /\ ~repeated =>
       summaries = 1 /\ agentRows = 1

================================================================================
