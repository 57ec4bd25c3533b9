--------------------------------- MODULE Etl ---------------------------------
(***************************************************************************)
(* What run_etl (src/data/spark_etl.py) makes of the file of one           *)
(* household: sums of 15 minutes on a grid without holes, the weather of   *)
(* the hour, flags for what is missing, values for it, clipped extremes,   *)
(* lags and rolling features.  How a run is published is in module         *)
(* Pipeline.                                                               *)
(*                                                                         *)
(* Time is counted in slots of the grid.  A reading is a number, null      *)
(* (None: it cannot be parsed) or not finite (NaN); energy is in a unit in *)
(* which the means are whole.                                              *)
(***************************************************************************)
EXTENDS Sums, Missing, FiniteSetsExt

CONSTANTS
  Readings,       \* the rows the file may have in one slot, as sequences
  SlotsPerHour,
  Lag, Roll,      \* a lag and the width of the rolling window
  PerMille,       \* the share of extremes clipped at either end
  LastSlot        \* bound: the length of the timeline

ASSUME EtlAssumption ==
  /\ {SlotsPerHour, Lag, Roll, LastSlot} \subseteq Nat \ {0}
  /\ PerMille \in 0 .. 499
  /\ \A rows \in Readings : rows \in Seq(Nat \cup {None, NaN})

Slots  == 1 .. LastSlot
Hour(s) == (s - 1) \div SlotsPerHour

VARIABLES
  meter,          \* the household's file
  weather,        \* the hours its weather station has data for; None: no weather at all
  known,          \* does households.csv have the household, and so its station?
  pc,             \* the step that is next
  table           \* the rows, in the order of time

etlVars == <<meter, weather, known, pc, table>>

EtlInit ==
  /\ meter \in [Slots -> Readings]
  /\ weather \in {None} \cup SUBSET {Hour(s) : s \in Slots}
  /\ known \in BOOLEAN
  /\ pc = "resample" /\ table = <<>>

-------------------------------------------------------------------------------
\* SUM of a slot: null readings do not count, and not finite spoils it.
SumOf(rows) ==
  LET there == {i \in DOMAIN rows : rows[i] # None} IN
  IF there = {} THEN None
  ELSE IF \E i \in there : rows[i] = NaN THEN NaN
  ELSE Total(Within(there, rows))

Aggregated(m) == {s \in Slots : m[s] # <<>>}

\* Mutant of Grid: a groupBy makes no rows of what is not there.
GridObserved(m) == Aggregated(m)

\* From the first to the last slot with a row.
Grid(m) == IF Aggregated(m) = {} THEN {} ELSE Min(Aggregated(m)) .. Max(Aggregated(m))

Before == {p \in Slots \X Slots : p[1] < p[2]}

\* The join is on the station too, and null equals nothing: without metadata
\* no row of the grid finds its sum.
Resampled(m) ==
  LET slots == Listed(Grid(m), Before) IN
    [i \in DOMAIN slots |->
       [slot |-> slots[i], kwh |-> IF known /\ m[slots[i]] # <<>> THEN SumOf(m[slots[i]]) ELSE None]]

\* Without a weather directory the columns are zero, which is no null.
HasWeather(s) == weather = None \/ (known /\ Hour(s) \in weather)

Joined(t) ==
  [i \in DOMAIN t |->
     [slot |-> t[i].slot, kwh |-> t[i].kwh, weather |-> HasWeather(t[i].slot)]]

\* What is not finite becomes null; the flags are taken before values are put
\* in.  Null weather is zero from now on, and the flag says it all.
Flagged(t) ==
  [i \in DOMAIN t |->
     [slot |-> t[i].slot, kwh |-> IF t[i].kwh = NaN THEN None ELSE t[i].kwh,
      loadMissing |-> t[i].kwh \in {None, NaN}, weatherMissing |-> ~t[i].weather]]

\* Mutant of Filling: two rows to either side, as an older comment has it.
FillingCentred(t, i) == {j \in DOMAIN t : i - 2 <= j /\ j <= i + 2}

\* The rows whose mean fills row i: all before it.
Filling(t, i) == {j \in DOMAIN t : j < i}

\* avg() leaves nulls out; a mean of nothing is zero.
Mean(t, i) ==
  LET past == {j \in Filling(t, i) : t[j].kwh # None} IN
  IF past = {} THEN 0
  ELSE Total(Within(past, [j \in DOMAIN t |-> t[j].kwh])) \div Cardinality(past)

Imputed(t) ==
  [i \in DOMAIN t |-> [t[i] EXCEPT !.kwh = IF @ = None THEN Mean(t, i) ELSE @]]

\* percentile_approx, exact for timelines of this length: the least value
\* that has at least permille of the rows at or below it.
Percentile(t, permille) ==
  Min({t[i].kwh : i \in {j \in DOMAIN t :
         1000 * Cardinality({l \in DOMAIN t : t[l].kwh <= t[j].kwh}) >= permille * Len(t)}})

\* The limits of a household's values, from its whole timeline.
Limits(t) == [lo |-> Percentile(t, PerMille), hi |-> Percentile(t, 1000 - PerMille)]

ClippedTo(t, limits) ==
  IF limits.hi <= limits.lo THEN t
  ELSE [i \in DOMAIN t |-> [t[i] EXCEPT !.kwh = Max({limits.lo, Min({@, limits.hi})})]]

Winsorized(t) == IF t = <<>> THEN t ELSE ClippedTo(t, Limits(t))

\* Lags and windows go by rows: the value Lag rows up, and at the start of the
\* series its own; the largest of the last Roll rows.
Featured(t) ==
  [i \in DOMAIN t |->
     [slot |-> t[i].slot, kwh |-> t[i].kwh,
      loadMissing |-> t[i].loadMissing, weatherMissing |-> t[i].weatherMissing,
      lag |-> IF i > Lag THEN t[i - Lag].kwh ELSE t[i].kwh,
      rollMax |-> Max({t[j].kwh : j \in Max({1, i - Roll + 1}) .. i})]]

-------------------------------------------------------------------------------
Becomes(step, next, t) ==
  /\ pc = step
  /\ table' = t
  /\ pc' = next
  /\ UNCHANGED <<meter, weather, known>>

Resample    == Becomes("resample", "join", Resampled(meter))
JoinWeather == Becomes("join", "flag", Joined(table))
Flag        == Becomes("flag", "impute", Flagged(table))
Impute      == Becomes("impute", "winsorize", Imputed(table))
Winsorize   == Becomes("winsorize", "features", Winsorized(table))
AddFeatures == Becomes("features", "written", Featured(table))

EtlNext == Resample \/ JoinWeather \/ Flag \/ Impute \/ Winsorize \/ AddFeatures

EtlSpec == EtlInit /\ [][EtlNext]_etlVars

-------------------------------------------------------------------------------
(***************************************************************************)
(* Properties                                                              *)
(***************************************************************************)

(***************************************************************************)
(* "Causal imputation: only observations strictly before t may fill t":    *)
(* every feature of a row is what the ETL would have made of the file cut  *)
(* off at that row.  Excepted are the limits of winsorizing: they are of   *)
(* the whole timeline, and know the future.                                *)
(***************************************************************************)
CutOff(m, s) == [x \in Slots |-> IF x <= s THEN m[x] ELSE <<>>]

FeaturesAreCausal ==
  pc = "written" /\ table # <<>> =>
    LET unclipped(m) == Imputed(Flagged(Joined(Resampled(m))))
        limits       == Limits(unclipped(meter))
    IN \A s \in Slots :
         Range(Featured(ClippedTo(unclipped(CutOff(meter, s)), limits))) \subseteq Range(table)

(***************************************************************************)
(* The rows of the store are the timeline of the household, hole or no     *)
(* hole: one per slot, in order, a lag is elapsed time and not a number of *)
(* rows, and what was metered is there, not flagged, and only an extreme   *)
(* is another value.  Excepted is a household without metadata, of which   *)
(* every reading is lost.                                                  *)
(***************************************************************************)
StoreIsTheTimeline ==
  pc = "written" =>
    LET first == Min(Aggregated(meter))
        at(s) == table[s - first + 1]
        sum(s) == SumOf(meter[s])
    IN
      /\ Len(table) = IF Aggregated(meter) = {} THEN 0 ELSE Max(Aggregated(meter)) - first + 1
      /\ \A i \in DOMAIN table :
           LET s == first + i - 1 IN
             /\ at(s).slot = s
             /\ at(s).lag = at(IF s - Lag >= first THEN s - Lag ELSE s).kwh
             /\ at(s).rollMax = Max({at(x).kwh : x \in Max({first, s - Roll + 1}) .. s})
      /\ \A s \in Aggregated(meter) :
           known /\ sum(s) \notin {None, NaN} =>
             /\ ~at(s).loadMissing
             /\ \/ at(s).kwh = sum(s)
                \/ sum(s) > at(s).kwh /\ \A i \in DOMAIN table : table[i].kwh <= at(s).kwh
                \/ sum(s) < at(s).kwh /\ \A i \in DOMAIN table : table[i].kwh >= at(s).kwh

===============================================================================
