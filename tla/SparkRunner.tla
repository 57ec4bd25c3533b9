------------------------------ MODULE SparkRunner ------------------------------
(***************************************************************************)
(* Federated rounds as a Spark batch: the driver run_spark_fl and          *)
(* _run_one_round (src/simulation/spark_fl_runner.py), and the task of one *)
(* agent, local_train_one_agent (src/federated/spark_local_train.py).      *)
(*                                                                         *)
(* Driver and tasks meet in the files of the run's directory: the input of *)
(* each round, the agents' deltas and residuals, two audits per round, and *)
(* the round metrics, which the driver keeps in memory until the last      *)
(* round.  Spark repeats a task that fails, a driver that dies is launched *)
(* again by hand, and nothing but the files outlives either.               *)
(*                                                                         *)
(* Weights are left out: a training moves each coordinate of the agent by  *)
(* some size, and a model says how much of that, agent by agent, is in it. *)
(* What clipping and trimming take from a delta is any part of it.         *)
(***************************************************************************)
EXTENDS Integers, Sequences, FiniteSets

CONSTANTS
  None,           \* no file, no previous model
  Manifest,       \* the agents, in the order of their ranks
  NoData,         \* agents with too few rows for a single window
  NumDistricts,
  MaxRounds,      \* cfg.rounds
  Configs,        \* [f, resume, dp]: f_byzantine, resume_from_round, dp_sigma > 0
  Trainings,      \* by how much a local training may move the coordinates
  Keep,           \* the coordinates Top-K keeps
  Cuts,           \* what clipping and trimming may take from a coordinate
  Patience,       \* convergence_patience
  MaxFailures,    \* spark.task.maxFailures
  MaxLaunches,    \* bound: how often the run is launched
  MaxShared       \* bound: the rounds a run does in the second it was launched in

Agents == {Manifest[i] : i \in DOMAIN Manifest}
Rounds == 0 .. MaxRounds - 1
Coords == 1 .. 2
Update == [Coords -> Nat]

RankOf(a)   == (CHOOSE i \in DOMAIN Manifest : Manifest[i] = a) - 1
District(d) == {a \in Agents : RankOf(a) % NumDistricts = d}
Districts   == {d \in 0 .. NumDistricts - 1 : District(d) # {}}

ASSUME SparkAssumption ==
  /\ Manifest \in Seq(Agents) /\ Manifest # <<>> /\ NoData \subseteq Agents
  /\ NumDistricts \in Nat \ {0} /\ MaxRounds \in Nat \ {0} /\ Patience \in Nat \ {0}
  /\ Configs \subseteq [f : Nat, resume : Nat, dp : BOOLEAN]
  /\ Trainings \subseteq Update /\ Keep \in Nat \ {0} /\ Cuts \subseteq Nat
  /\ MaxFailures \in Nat \ {0} /\ MaxLaunches \in Nat /\ MaxShared \in Nat
  /\ None \notin Update /\ None \notin [Agents -> Update] /\ None \notin [Agents -> BOOLEAN]
  /\ None \notin [Districts -> Nat]

\* The driver.
VARIABLES
  pc,             \* "off", "ready" for a round, "tasks" under way, "aggregated",
                  \* "half audited", "audited"; "closing", "measured"
  cfg,
  round,          \* round_id
  w,              \* w_global
  prev,           \* prev_w
  calm,           \* the monitor's _stable_rounds
  outcome,        \* what the round comes to: new_w, n_accepted, candidate_rejected
  history         \* round_history

\* The tasks of the round.
VARIABLES
  step,           \* step[a]: "todo", "trained", "carried", "done"
  failures,       \* failures[a]: how often the task of a has failed
  training        \* training[a]: what the seed of the round lets it come to

\* The files of the run's directory.
VARIABLES
  input,          \* input[r]: W_global/round=r/W.pt
  delta,          \* delta[a]: deltas/round=r/agent=a/delta.pt of the open round
  residual,       \* residual[a]: deltas/_compression_residuals/a.pt
  agentAudit,     \* agent_round_audit/round=r: whether an agent's row has samples
  districtAudit,  \* district_round_summary/round=r: n_accepted of each district
  metrics,        \* round_metrics.parquet
  final           \* W_final.pt

\* For the properties and bounds.
VARIABLES
  trained,        \* trained[a]: what the run has trained
  lost,           \* lost[a]: what aggregations have taken from its deltas
  mark,           \* what has happened to this run's feedback
  launches        \* how often it was launched

driverVars == <<pc, cfg, round, w, prev, calm, outcome, history>>
taskVars   == <<step, failures, training>>
auditVars  == <<agentAudit, districtAudit, metrics, final>>
fileVars   == <<input, delta, residual, auditVars>>
ghostVars  == <<trained, lost, mark, launches>>
vars == <<driverVars, taskVars, fileVars, ghostVars>>

Zero   == [k \in Coords |-> 0]
Model  == [Agents -> Update]
Start  == [a \in Agents |-> Zero]

u (+) v == [k \in Coords |-> u[k] + v[k]]
u (-) v == [k \in Coords |-> u[k] - v[k]]

NoOutcome ==
  [model |-> Start, accepted |-> [d \in Districts |-> 0], rejected |-> FALSE]
NoRounds == [r \in Rounds |-> None]

Init ==
  /\ pc = "off" /\ cfg = [f |-> 0, resume |-> 0, dp |-> FALSE]
  /\ round = 0 /\ w = Start /\ prev = None /\ calm = 0
  /\ outcome = NoOutcome /\ history = NoRounds
  /\ step = [a \in Agents |-> "done"]
  /\ failures = [a \in Agents |-> 0] /\ training = Start
  /\ input = NoRounds /\ delta = [a \in Agents |-> None] /\ residual = Start
  /\ agentAudit = NoRounds /\ districtAudit = NoRounds /\ metrics = None /\ final = None
  /\ trained = Start /\ lost = Start /\ mark = {} /\ launches = 0

-------------------------------------------------------------------------------
\* The directory is named after the second of the launch and is new, or that
\* of the launch before when both are in the same second.
Directory(same) ==
  /\ IF same
       THEN UNCHANGED <<input, residual, auditVars>>
       ELSE /\ input' = NoRounds /\ residual' = Start
            /\ agentAudit' = NoRounds /\ districtAudit' = NoRounds
            /\ metrics' = None /\ final' = None
  /\ delta' = [a \in Agents |-> None]

\* prior_w: the input of the round before, looked up in the new directory.
Prior(c) == IF c.resume \in 1 .. MaxRounds THEN input'[c.resume - 1] ELSE None

Launch(c, same) ==
  /\ pc = "off" /\ launches < MaxLaunches
  /\ same => launches > 0 /\ round <= MaxShared
  /\ Directory(same)
  /\ cfg' = c
  /\ round' = IF Prior(c) = None THEN 0 ELSE c.resume
  /\ w' = IF Prior(c) = None THEN Start ELSE Prior(c)
  /\ prev' = None /\ calm' = 0 /\ outcome' = NoOutcome /\ history' = NoRounds
  /\ pc' = IF round' < MaxRounds THEN "ready" ELSE "closing"
  /\ trained' = Start /\ lost' = Start
  /\ mark' = IF same THEN {"shared"} ELSE {}
  /\ launches' = launches + 1
  /\ step' = [a \in Agents |-> "done"]
  /\ failures' = [a \in Agents |-> 0] /\ training' = Start

\* The input of the round is saved and the manifest distributed.
StartRound(trainings) ==
  /\ pc = "ready"
  /\ input' = [input EXCEPT ![round] = w]
  /\ delta' = [a \in Agents |-> None]
  /\ step' = [a \in Agents |-> "todo"]
  /\ failures' = [a \in Agents |-> 0]
  /\ training' = [a \in Agents |-> IF a \in NoData THEN Zero ELSE trainings[a]]
  /\ pc' = "tasks"
  /\ UNCHANGED <<cfg, round, w, prev, calm, outcome, history, residual, auditVars, ghostVars>>

-------------------------------------------------------------------------------
\* topk_sparsify: the Keep largest coordinates; equal ones go by position.
TopK(u) ==
  [k \in Coords |->
     IF Cardinality({j \in Coords : u[j] > u[k] \/ (u[j] = u[k] /\ j < k)}) < Keep
       THEN u[k] ELSE 0]

\* Mutant of Payload: the residual is left out.
PayloadBare(a) == training[a]

\* What Top-K is applied to: with privacy, error feedback is off.
Payload(a) == IF cfg.dp THEN training[a] ELSE training[a] (+) residual[a]

\* The task reads the input and the residual, trains, and writes its delta.
\* The residual to come is in the task's memory: it is Payload - delta.
Train(a) ==
  /\ pc = "tasks" /\ step[a] = "todo" /\ a \notin NoData
  /\ delta' = [delta EXCEPT ![a] = TopK(Payload(a))]
  /\ trained' = [trained EXCEPT ![a] = IF delta[a] = None THEN @ (+) training[a] ELSE @]
  /\ step' = [step EXCEPT ![a] = "trained"]
  /\ UNCHANGED <<driverVars, failures, training, input, residual, auditVars,
                 lost, mark, launches>>

NextResidual(a) == IF cfg.dp THEN residual[a] ELSE Payload(a) (-) delta[a]

\* os.replace puts the next residual in place.
Carry(a) ==
  /\ pc = "tasks" /\ step[a] = "trained"
  /\ residual' = [residual EXCEPT ![a] = NextResidual(a)]
  /\ step' = [step EXCEPT ![a] = "carried"]
  /\ UNCHANGED <<driverVars, failures, training, input, delta, auditVars, ghostVars>>

\* The metrics are written, the task is over; without data nothing else is.
Report(a) ==
  /\ pc = "tasks"
  /\ step[a] = "carried" \/ (step[a] = "todo" /\ a \in NoData)
  /\ step' = [step EXCEPT ![a] = "done"]
  /\ UNCHANGED <<driverVars, failures, training, fileVars, ghostVars>>

\* The task dies; Spark starts it again from the beginning.
TaskFails(a) ==
  /\ pc = "tasks" /\ step[a] # "done"
  /\ failures[a] + 1 < MaxFailures
  /\ failures' = [failures EXCEPT ![a] = @ + 1]
  /\ step' = [step EXCEPT ![a] = "todo"]
  /\ mark' = IF step[a] = "carried" /\ ~cfg.dp THEN mark \cup {"repeated"} ELSE mark
  /\ UNCHANGED <<driverVars, training, fileVars, trained, lost, launches>>

\* Once too often: collect() raises and the run ends.  So does a driver that
\* is killed.  What it had in memory is gone.
Dies ==
  /\ pc' = "off"
  /\ w' = Start /\ prev' = None /\ calm' = 0 /\ outcome' = NoOutcome /\ history' = NoRounds
  /\ step' = [a \in Agents |-> "done"]
  /\ failures' = [a \in Agents |-> 0] /\ training' = Start
  /\ UNCHANGED <<cfg, round, fileVars, ghostVars>>

RunFails ==
  /\ pc # "off"
  /\ Dies

-------------------------------------------------------------------------------
Present(d)    == {a \in District(d) : delta[a] # None}
KrumRaises(d) == cfg.f > 0 /\ Present(d) # {} /\ Cardinality(Present(d)) < 2 * cfg.f + 3

(***************************************************************************)
(* Whom a district may accept: Multi-Krum drops f of the deltas, module    *)
(* RobustAggregation says which.  No delta, no candidate.                  *)
(***************************************************************************)
Selections(d) ==
  IF Present(d) = {} THEN {{}}
  ELSE {S \in SUBSET Present(d) : Cardinality(S) = Cardinality(Present(d)) - cfg.f}

\* multi_krum_select raises, the exception ends the run.
AggregationRaises ==
  /\ pc = "tasks" /\ \A a \in Agents : step[a] = "done"
  /\ \E d \in Districts : KrumRaises(d)
  /\ Dies

\* W + the mean of the districts' means; cut[a] is what clip_state_dict and
\* masked_trimmed_mean take from the delta of a.
Candidate(accepted, cut) ==
  [a \in Agents |-> IF a \in accepted THEN w[a] (+) (delta[a] (-) cut[a]) ELSE w[a]]

\* Mutant of Outcome: the candidate is taken although it is reported rejected.
OutcomeAnyway(accepted, cut, rejected) == Candidate(accepted, cut)

\* A candidate that moves the model too far is dropped.
Outcome(accepted, cut, rejected) == IF rejected THEN w ELSE Candidate(accepted, cut)

\* What of a delta does not get into the model.
Loss(a, accepted, cut, rejected) ==
  CASE delta[a] = None             -> Zero
    [] a \in accepted /\ ~rejected -> cut[a]
    [] OTHER                       -> delta[a]

\* The deltas are clipped, selected and averaged, in the driver's memory.
Aggregate(accepted, cut, rejected) ==
  /\ pc = "tasks" /\ \A a \in Agents : step[a] = "done"
  /\ \A d \in Districts : ~KrumRaises(d) /\ accepted \cap District(d) \in Selections(d)
  /\ \A a \in accepted, k \in Coords : cut[a][k] <= delta[a][k]
  /\ rejected => accepted # {}
  /\ outcome' = [model    |-> Outcome(accepted, cut, rejected),
                 accepted |-> [d \in Districts |-> Cardinality(accepted \cap District(d))],
                 rejected |-> rejected]
  /\ lost' = [a \in Agents |-> lost[a] (+) Loss(a, accepted, cut, rejected)]
  /\ pc' = "aggregated"
  /\ UNCHANGED <<cfg, round, w, prev, calm, history, taskVars, fileVars, trained, mark, launches>>

\* The first file of the round's audit: the metrics of the tasks.
AuditAgents ==
  /\ pc = "aggregated"
  /\ agentAudit' = [agentAudit EXCEPT ![round] = [a \in Agents |-> a \notin NoData]]
  /\ pc' = "half audited"
  /\ UNCHANGED <<cfg, round, w, prev, calm, outcome, history, taskVars, input, delta, residual,
                 districtAudit, metrics, final, ghostVars>>

\* The second: a row per district, from which accepted_idx has been popped.
AuditDistricts ==
  /\ pc = "half audited"
  /\ districtAudit' = [districtAudit EXCEPT ![round] = outcome.accepted]
  /\ pc' = "audited"
  /\ UNCHANGED <<cfg, round, w, prev, calm, outcome, history, taskVars, input, delta, residual,
                 agentAudit, metrics, final, ghostVars>>

\* ConvergenceMonitor.update(prev_w, new_w); prev_w is the input of the round
\* before, so the distance is that of two rounds.
Calm(small, new) ==
  CASE prev = None -> 0
    [] prev = new  -> calm + 1
    [] OTHER       -> IF small THEN calm + 1 ELSE 0

\* The round's metrics join round_history, with the hash of the round's input.
Adopt(small) ==
  /\ pc = "audited"
  /\ history' = [history EXCEPT ![round] = [input |-> input[round], rejected |-> outcome.rejected]]
  /\ calm' = Calm(small, outcome.model)
  /\ prev' = w
  /\ w' = outcome.model
  /\ round' = round + 1
  /\ outcome' = NoOutcome
  /\ pc' = IF calm' >= Patience \/ round' = MaxRounds THEN "closing" ELSE "ready"
  /\ UNCHANGED <<cfg, taskVars, fileVars, ghostVars>>

\* round_metrics.parquet.
Measure ==
  /\ pc = "closing"
  /\ metrics' = history
  /\ pc' = "measured"
  /\ UNCHANGED <<cfg, round, w, prev, calm, outcome, history, taskVars, input, delta, residual,
                 agentAudit, districtAudit, final, ghostVars>>

\* W_final.pt and the summaries.
Finish ==
  /\ pc = "measured"
  /\ final' = w
  /\ pc' = "off"
  /\ UNCHANGED <<cfg, round, w, prev, calm, outcome, history, taskVars, input, delta, residual,
                 agentAudit, districtAudit, metrics, ghostVars>>

Next ==
  \/ \E c \in Configs, same \in BOOLEAN : Launch(c, same)
  \/ \E trainings \in [Agents \ NoData -> Trainings] : StartRound(trainings)
  \/ \E a \in Agents : Train(a) \/ Carry(a) \/ Report(a) \/ TaskFails(a)
  \/ RunFails
  \/ AggregationRaises
  \/ \E accepted \in SUBSET Agents, rejected \in BOOLEAN :
       \E cut \in [accepted -> [Coords -> Cuts]] : Aggregate(accepted, cut, rejected)
  \/ AuditAgents
  \/ AuditDistricts
  \/ \E small \in BOOLEAN : Adopt(small)
  \/ Measure
  \/ Finish

Spec == Init /\ [][Next]_vars

-------------------------------------------------------------------------------
(***************************************************************************)
(* Properties                                                              *)
(***************************************************************************)

(***************************************************************************)
(* What a task trains is in the model, in its residual, or was taken from  *)
(* its delta by an aggregation (clipped, trimmed, not selected, rejected:  *)
(* that part is gone, no residual has it), and in one of these only, round *)
(* after round, however tasks fail and drivers die: Top-K delays and does  *)
(* not lose.  With privacy, where what Top-K leaves out is lost as well,   *)
(* no training counts twice.  Excepted are a task that is repeated after   *)
(* it has carried its residual, and a directory two launches share.        *)
(***************************************************************************)
FeedbackIsExact ==
  mark = {} =>
    \A a \in Agents, k \in Coords :
      /\ w[a][k] + lost[a][k] <= trained[a][k]
      /\ pc \in {"ready", "closing"} /\ ~cfg.dp =>
           w[a][k] + residual[a][k] + lost[a][k] = trained[a][k]

\* The model that came out of round r, as far as it is on disk.
CameOut(r) ==
  IF r + 1 \in Rounds /\ input[r + 1] # None THEN input[r + 1]
  ELSE IF r + 1 = round THEN final ELSE None

(***************************************************************************)
(* "Every round records the input global checkpoint and output metrics":   *)
(* wherever the driver dies, a model on disk has behind it the input and   *)
(* both audit files of the round it came out of, and they account for it:  *)
(* nobody's part has changed whose row has no samples, and in no district  *)
(* more of them than its row says were accepted.  Once round_metrics is    *)
(* there, after the last round, a round that it calls rejected has changed *)
(* nothing, and the hash it gives is that of the round's input.            *)
(* A directory two launches share is excepted.                             *)
(***************************************************************************)
AuditExplainsModel ==
  "shared" \notin mark =>
    \A r \in Rounds :
      CameOut(r) # None =>
        /\ input[r] # None /\ agentAudit[r] # None /\ districtAudit[r] # None
        /\ LET changed == {a \in Agents : CameOut(r)[a] # input[r][a]} IN
             /\ \A a \in changed : agentAudit[r][a]
             /\ \A d \in Districts : Cardinality(changed \cap District(d)) <= districtAudit[r][d]
             /\ metrics # None => /\ metrics[r].input = input[r]
                                  /\ metrics[r].rejected => changed = {}

(***************************************************************************)
(* "Any failed round can resume from disk via --resume_from_round": a run  *)
(* that is launched to resume at a round the launch before it had reached  *)
(* starts at that round, with the model that round started from.  Not so:  *)
(* the directory is a new one (README, section 5).                         *)
(***************************************************************************)
ResumeContinues ==
  [][\A c \in Configs, same \in BOOLEAN :
       Launch(c, same) /\ c.resume \in Rounds \ {0} /\ input[c.resume] # None
         => round' = c.resume /\ w' = input[c.resume]]_vars

================================================================================
