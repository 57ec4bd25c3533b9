-------------------------------- MODULE Agent --------------------------------
(***************************************************************************)
(* The process of a building agent, tick by tick: BuildingAgent.step       *)
(* (src/tiers/building.py), AgentCore.tick (src/ismcc/agent_core.py), the  *)
(* short-term, long-term and episodic memories, capacity and load shedding *)
(* (src/ismcc/computation.py), the recommender's thread                    *)
(* (src/llm/recommender.py) and the privacy accountant                     *)
(* (src/federated/dp.py).  What the uploads carry is in module Building.   *)
(*                                                                         *)
(* A reading stands for its position in the household's file, which a new  *)
(* process reads again from the top.  The model is left out: a forecast    *)
(* may come to anything.  Energy is in Wh.                                 *)
(***************************************************************************)
EXTENDS Integers, Sequences, FiniteSets, SequencesExt

CONSTANTS
  None,
  Readings,         \* what the meter may show
  Forecasts,        \* what the next step may be forecast to be
  SeqLen,           \* seq_len of training and forecasting
  StmCapacity, PoolBlock, PoolCapacity, EpisodeCapacity,
  AdaptAfter,       \* forecasts before the capacity adapts
  AdaptWindow,      \* readings it then looks at
  FederateEvery,    \* federation_interval
  RecommendEvery,   \* recommend_every
  Budget,           \* the uploads that DP_MAX_EPSILON allows
  MaxTicks,         \* bound: the length of the file
  MaxLaunches       \* bound: how often the agent is started

ASSUME AgentAssumption ==
  /\ Readings \subseteq Nat /\ Forecasts \subseteq Int
  /\ {SeqLen, StmCapacity, PoolBlock, PoolCapacity, EpisodeCapacity, AdaptAfter,
      AdaptWindow, FederateEvery, RecommendEvery} \subseteq Nat \ {0}
  /\ Budget \in Nat /\ MaxTicks \in Nat \ {0} /\ MaxLaunches \in Nat
  /\ StmCapacity > SeqLen

VARIABLES
  csv,            \* the household's file
  pc,             \* "off", or what the step does next
  tick            \* the ticks this process has done

\* What the process remembers.
VARIABLES
  stm, block, pool,   \* readings; the blocks of readings whose means are the keys
  history, capacity,  \* _kwh_history and _capacity_limit
  episodes,           \* the replay buffer
  trainedOn,          \* what the last training step had for input and target
  forecastFrom,       \* the window the last forecast was made from
  decision,           \* the last decision
  job,                \* _recommendation_future
  events              \* the accountant's events

\* What is on disk.
VARIABLES
  rows,           \* rows[p]: the rows of reading p in SQLite
  journal,        \* the readings whose episodes are on disk
  accounted       \* the accountant's file

\* For the properties and bounds.
VARIABLES
  handed,         \* the ticks whose advice this process has handed out
  released,       \* the noisy uploads that have left the agent, ever
  launches

coreVars   == <<stm, block, pool, history, capacity, episodes, trainedOn, forecastFrom, decision>>
diskVars   == <<rows, journal, accounted>>
ghostVars  == <<handed, released, launches>>
vars == <<csv, pc, tick, coreVars, job, events, diskVars, ghostVars>>

Latest(s, n) == SubSeq(s, Len(s) - n + 1, Len(s))

\* A deque of that capacity.
Push(s, x, n) == IF Len(s) < n THEN Append(s, x) ELSE Latest(Append(s, x), n)

Init ==
  /\ csv \in [1 .. MaxTicks -> Readings]
  /\ pc = "off" /\ tick = 0
  /\ stm = <<>> /\ block = <<>> /\ pool = <<>>
  /\ history = <<>> /\ capacity = 1200 /\ episodes = <<>>
  /\ trainedOn = None /\ forecastFrom = None /\ decision = None
  /\ job = None /\ events = 0
  /\ rows = [p \in 1 .. MaxTicks |-> 0] /\ journal = {} /\ accounted = 0
  /\ handed = <<>> /\ released = 0 /\ launches = 0

\* A new process: the memories are empty, the accountant is loaded.
Launch ==
  /\ pc = "off" /\ launches < MaxLaunches
  /\ pc' = "idle"
  /\ events' = accounted
  /\ launches' = launches + 1
  /\ UNCHANGED <<csv, tick, coreVars, job, diskVars, handed, released>>

-------------------------------------------------------------------------------
\* The stream has a reading; first the agent federates.
Uploads == tick > 0 /\ tick % FederateEvery = 0

NoUpload ==
  /\ pc = "idle" /\ tick < MaxTicks
  /\ pc' = "sense"
  /\ UNCHANGED <<csv, tick, coreVars, job, events, diskVars, ghostVars>>

\* The noise is added and recorded.
Record ==
  /\ pc = "idle" /\ tick < MaxTicks /\ Uploads
  /\ events < Budget
  /\ events' = events + 1
  /\ pc' = "recorded"
  /\ UNCHANGED <<csv, tick, coreVars, job, diskVars, ghostVars>>

\* The budget is exhausted: the event is taken back, the upload blocked.
Blocked ==
  /\ pc = "idle" /\ tick < MaxTicks /\ Uploads
  /\ events >= Budget
  /\ pc' = "sense"
  /\ UNCHANGED <<csv, tick, coreVars, job, events, diskVars, ghostVars>>

\* os.replace puts the new file in place.
Save ==
  /\ pc = "recorded"
  /\ accounted' = events
  /\ pc' = "saved"
  /\ UNCHANGED <<csv, tick, coreVars, job, events, rows, journal, ghostVars>>

\* Mutant of MaySend: the file is written after the call.
MaySendFirst == pc \in {"recorded", "saved"}

MaySend == pc = "saved"

\* The call goes out, whatever its answer.
Release ==
  /\ MaySend
  /\ released' = released + 1
  /\ pc' = "sense"
  /\ UNCHANGED <<csv, tick, coreVars, job, events, diskVars, handed, launches>>

-------------------------------------------------------------------------------
\* Mutant of NewPool: a full pool keeps its oldest blocks.
NewPoolOld(b) == IF Len(pool) < PoolCapacity THEN Append(pool, b) ELSE pool

NewPool(b) == Push(pool, b, PoolCapacity)

\* A reading that is read again has another row.
Stored(p) == [rows EXCEPT ![p] = @ + 1]

(***************************************************************************)
(* The reading goes into the short-term memory and, in a transaction of    *)
(* its own, into SQLite; then into the block, and a full one to the pool.  *)
(***************************************************************************)
Sense ==
  /\ pc = "sense"
  /\ LET p == tick + 1 IN
       /\ stm' = Push(stm, p, StmCapacity)
       /\ rows' = Stored(p)
       /\ IF Len(block) + 1 < PoolBlock
            THEN block' = Append(block, p) /\ pool' = pool
            ELSE block' = <<>> /\ pool' = NewPool(Append(block, p))
  /\ pc' = "act"
  /\ UNCHANGED <<csv, tick, history, capacity, episodes, trainedOn, forecastFrom, decision,
                 job, events, journal, accounted, ghostVars>>

\* The first reading sets the mean and cannot drift from it.
Drifts == IF tick = 0 THEN {FALSE} ELSE BOOLEAN

\* The k-th smallest of s, and numpy's 95th percentile.
Kth(s, k) ==
  CHOOSE v \in Range(s) :
    /\ Cardinality({i \in DOMAIN s : s[i] < v}) < k
    /\ k <= Cardinality({i \in DOMAIN s : s[i] <= v})

Percentile95(s) ==
  LET at == 95 * (Len(s) - 1)
      lo == Kth(s, at \div 100 + 1)
      hi == IF at % 100 = 0 THEN lo ELSE Kth(s, at \div 100 + 2)
  IN lo + ((at % 100) * (hi - lo)) \div 100

Capacity(h) ==
  IF Len(h) < AdaptAfter THEN capacity
  ELSE LET v == Percentile95(IF Len(h) > AdaptWindow THEN Latest(h, AdaptWindow) ELSE h)
       IN IF v > 500 THEN v ELSE 500

Least(m, n) == IF m < n THEN m ELSE n

\* Mutant of Feasible: the solver is not asked.
FeasibleAlways(next, required) == TRUE

\* All loads together can shed nine tenths.
Feasible(next, required) == 10 * required <= 9 * next

\* The cheapest plan, in tenths of a Wh: EV charging, then HVAC, then lighting.
Plan(next, required) ==
  LET ev    == Least(3 * next, 10 * required)
      hvac  == Least(4 * next, 10 * required - ev)
      light == 10 * required - ev - hvac
  IN [SHED_EV |-> ev, CURTAIL_HVAC |-> hvac, DIM_LIGHTING |-> light]

\* optimise_action; sheds of ten Wh or less are not worth an action.  Without
\* a solver (OR-Tools is optional, and CreateSolver may not find one) every
\* excess is an emergency.
Optimise(next, limit, solver) ==
  LET required == next - limit
      plan     == Plan(next, required)
      worth    == {a \in DOMAIN plan : plan[a] > 100}
  IN CASE required <= 0 -> [next |-> next, shed |-> <<>>, is |-> "MAINTAIN"]
       [] required > 0 /\ ~(solver /\ Feasible(next, required))
            -> [next |-> next, shed |-> <<>>, is |-> "CRITICAL_SHED", solver |-> solver]
       [] required > 0 /\ solver /\ Feasible(next, required)
            -> [next |-> next, shed |-> [a \in worth |-> plan[a]],
                is |-> IF worth = {} THEN "MAINTAIN" ELSE "SHED", solver |-> solver]

\* Mutant of TrainWindow: the oldest readings of the memory.
TrainWindowOldest == SubSeq(stm, 1, SeqLen + 1)

\* The window of train_step: SeqLen readings and the one to be predicted.
TrainWindow == Latest(stm, SeqLen + 1)

\* The window of forecast.
ForecastWindow == Latest(stm, SeqLen)

\* optimise_schedule refuses forecasts with a negative step, of which next is
\* the first.
Schedules(next) == IF next < 0 THEN {FALSE} ELSE BOOLEAN

\* Episodes with an error of more than half a kWh are kept on disk.
Journaled(p, reward) == IF reward > 500 THEN journal \cup {p} ELSE journal

Distance(m, n) == IF m > n THEN m - n ELSE n - m

\* Mutant of Collected: the result stays in the future.
CollectedAgain == job

\* A result that is there is collected, or its exception logged.
Collected == IF job # None /\ job.is # "running" THEN None ELSE job

(***************************************************************************)
(* The rest of the tick: train, forecast, decide, remember the episode,    *)
(* collect advice and, every so often, ask for new advice unless there is  *)
(* some to come.  A forecast with a negative step makes optimise_schedule  *)
(* raise, and no advice is asked for.                                      *)
(***************************************************************************)
Act(next, scheduled, drifting, solver) ==
  /\ pc = "act"
  /\ trainedOn' = IF Len(stm) <= SeqLen THEN None
                  ELSE [input |-> Front(TrainWindow), target |-> TrainWindow[SeqLen + 1]]
  /\ LET now    == csv[tick + 1]
         warm   == Len(stm) >= SeqLen
         reward == IF warm THEN Distance(now, next) ELSE 0
     IN
       /\ forecastFrom' = IF warm THEN ForecastWindow ELSE None
       /\ history' = IF warm THEN Append(history, now) ELSE history
       /\ capacity' = IF warm THEN Capacity(history') ELSE capacity
       /\ decision' = IF warm THEN Optimise(next, capacity', solver)
                    ELSE [next |-> None, is |-> "MONITOR"]
       /\ IF drifting \/ decision'.is \in {"SHED", "CRITICAL_SHED"}
            THEN /\ episodes' = Push(episodes, tick + 1, EpisodeCapacity)
                 /\ journal' = Journaled(tick + 1, reward)
            ELSE UNCHANGED <<episodes, journal>>
       /\ job' = IF /\ warm /\ scheduled
                    /\ (tick + 1) % RecommendEvery = 0
                    /\ Collected = None
                   THEN [for |-> tick + 1, is |-> "running"] ELSE Collected
  /\ handed' = IF job # None /\ job.is = "done" THEN Append(handed, job.for) ELSE handed
  /\ tick' = tick + 1
  /\ pc' = "idle"
  /\ UNCHANGED <<csv, stm, block, pool, events, rows, accounted, released, launches>>

\* The recommender's thread ends: with the model's text or the template, or
\* with an exception it does not expect.
WorkerEnds(outcome) ==
  /\ pc # "off" /\ job # None /\ job.is = "running"
  /\ job' = [job EXCEPT !.is = outcome]
  /\ UNCHANGED <<csv, pc, tick, coreVars, events, diskVars, ghostVars>>

\* The file is at its end, or the process dies, with its memories and the
\* advice to come.
Stop ==
  /\ pc # "off"
  /\ pc' = "off" /\ tick' = 0
  /\ stm' = <<>> /\ block' = <<>> /\ pool' = <<>>
  /\ history' = <<>> /\ capacity' = 1200 /\ episodes' = <<>>
  /\ trainedOn' = None /\ forecastFrom' = None /\ decision' = None
  /\ job' = None /\ events' = 0 /\ handed' = <<>>
  /\ UNCHANGED <<csv, diskVars, released, launches>>

Next ==
  \/ Launch
  \/ NoUpload \/ Record \/ Blocked \/ Save \/ Release
  \/ Sense
  \/ \E next \in Forecasts, solver \in BOOLEAN :
       \E scheduled \in Schedules(next), drifting \in Drifts :
         Act(next, scheduled, drifting, solver)
  \/ \E outcome \in {"done", "raised"} : WorkerEnds(outcome)
  \/ Stop

Spec == Init /\ [][Next]_vars

-------------------------------------------------------------------------------
(***************************************************************************)
(* Properties                                                              *)
(***************************************************************************)

(***************************************************************************)
(* The open block has the newest readings, the blocks of the pool the ones *)
(* before them without a gap (down to the first, until the pool is full),  *)
(* the short-term memory the newest again.  Each of them is in SQLite, and *)
(* none there more often than the agent was started; so is the reading of  *)
(* every episode, in the buffer or on disk.                                *)
(***************************************************************************)
Newest == IF pc = "act" THEN tick + 1 ELSE tick

\* The n readings up to that one.
Run(n, last) == [i \in 1 .. n |-> last - n + i]

MemoryIsBacked ==
  LET pooled == Newest - Len(block) IN
    /\ block = Run(Len(block), Newest)
    /\ \A b \in DOMAIN pool : pool[b] = Run(PoolBlock, pooled - (Len(pool) - b) * PoolBlock)
    /\ Len(pool) < PoolCapacity => pooled = Len(pool) * PoolBlock
    /\ stm = Run(Least(Newest, StmCapacity), Newest)
    /\ \A p \in 1 .. MaxTicks : (p <= Newest => rows[p] >= 1) /\ rows[p] <= launches
    /\ \A p \in Range(episodes) \cup journal : rows[p] >= 1

(***************************************************************************)
(* The model is trained on what it had to forecast: the input of a step is *)
(* the window of the forecast one tick ago, the target what came then.     *)
(***************************************************************************)
TrainsWhatItForecast ==
  [][tick' = tick + 1 /\ forecastFrom # None =>
       trainedOn' = [input |-> forecastFrom, target |-> tick']]_vars

(***************************************************************************)
(* Measured by the capacity of its own tick a decision is enough: what it  *)
(* sheds leaves at most ten Wh too much and takes from no load more than   *)
(* it carries.  The emergency is called only above the capacity and, where *)
(* there is a solver to ask, only if nothing less would do; without one,   *)
(* it is called for every excess.                                          *)
(***************************************************************************)
Share == [SHED_EV |-> 3, CURTAIL_HVAC |-> 4, DIM_LIGHTING |-> 2]

\* In tenths of a Wh.
Shed(load) == IF load \in DOMAIN decision.shed THEN decision.shed[load] ELSE 0

ShedIsEnough ==
  decision # None /\ decision.next # None =>
    LET over == decision.next - capacity IN
      IF decision.is = "CRITICAL_SHED"
        THEN over > 0 /\ (decision.solver => 10 * over > 9 * decision.next)
      ELSE /\ 10 * over - Shed("SHED_EV") - Shed("CURTAIL_HVAC") - Shed("DIM_LIGHTING") <= 100
           /\ \A load \in DOMAIN decision.shed : Shed(load) <= Share[load] * decision.next
           /\ over <= 0 \/ decision.solver

(***************************************************************************)
(* Advice is handed out once, in the order it was asked for, and by a      *)
(* later tick than the one it is about; the tick never waits for it.       *)
(***************************************************************************)
AdviceInTurn ==
  /\ \A i \in DOMAIN handed : handed[i] % RecommendEvery = 0 /\ handed[i] < tick
  /\ \A i, j \in DOMAIN handed : i < j => handed[i] < handed[j]
  /\ job # None /\ job.is = "running" => \A i \in DOMAIN handed : handed[i] < job.for

(***************************************************************************)
(* "Persist before attempting the RPC": every noisy upload that has left   *)
(* the agent is in the accountant's file, and they are within the budget,  *)
(* however often the agent dies.                                           *)
(***************************************************************************)
BudgetHolds == released <= accounted /\ accounted <= Budget

================================================================================
