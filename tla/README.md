# A verification project for NeuroGrid

NeuroGrid is a three-tier federated-learning system: *building* agents train on
their own meter stream and upload sparse updates to their *district*; a district
collects one update per building, aggregates them robustly and sends a summary to
the *city*; the city folds the summaries of all districts into a global model and
publishes it, versioned by round, back down through the districts. The same rounds can
run as a Spark batch, and around both is a pipeline that selects households, builds a
dataset, and trains and evaluates the model to start from. This directory
holds TLA+ models of all of these, TLC configurations that check them on small
instances, and TLAPS proofs, for instances of any size, of every safety property that
these checks confirm.

All paths below are relative to the repository's `src/` package.

## 1. Inventory

### Components

| Component | State | Operations | What makes it correct |
|---|---|---|---|
| City (`tiers/city.py`, `tiers/city_store.py`) | open round, global model, pending uploads, rounds being aggregated, convergence count; SQLite copy of all but the marks | `SendGradient`, `PollDistillation`, start with recovery | one aggregation at a time; an upload with a receipt is folded in its round, across crashes; a version names one model |
| Convergence monitor (`federated/convergence.py`) | number of calm rounds, last drift | `update`, `restore` | announces convergence only after `patience` calm rounds in a row |
| District (`tiers/district.py`, `tiers/pending_store.py`) | SQLite journal: open round, uploads, closed rounds, outbox of summaries; a lock; the model it serves | `SendGradient`, `_flush_uplink`, `PollDistillation`, start with recovery | a receipt is durable; a full round is aggregated exactly once and somebody does it; summaries reach the City once, in their round |
| gRPC client (`ismcc/communication.py`) | round, model version, last applied round, compression residual, privacy accountant | `upload_delta`, `pull_global` | retries are idempotent; error feedback is exact |
| Building (`tiers/building.py`) | baseline, pending delta, uploaded round | `_maybe_federate`, `step`, `run` | every step of training counts at most once; an agent with a model takes part |
| Robust aggregation (`federated/krum.py`, `aggregation.py`, `clipping.py`, `spark_byzantine.py`, `audit.py`) | audit files | clip, Multi-Krum, masked trimmed mean, masked weighted mean, two appends | colluders are rejected; bounded influence; masks decide the denominator; a round is audited once |
| Top-K (`federated/sparsification.py`) | none | `topk_sparsify_with_masks` | what is sent plus the residual is what was there |
| Privacy accountant (`federated/dp.py`) | list of events on disk | `record`, `epsilon`, `save`, `load` | never less than what was sent |
| Agent core and memories (`ismcc/agent_core.py`, `computation.py`, `sensing.py`, `memory/*`) | readings in deque, block, pool, SQLite; replay buffer and journal; capacity; one future | `tick`, `persist`, `write`, `train_step`, `forecast`, `optimise_action`, `close` | the memories agree; training matches forecasting; a decision sheds enough; advice once and in turn |
| Recommender (`llm/recommender.py`) | none; runs on a thread of its own | `recommend` | the tick never waits for it |
| Spark runner (`simulation/spark_fl_runner.py`, `federated/spark_local_train.py`) | a directory per run: inputs, deltas, residuals, audit | launch and resume, rounds, tasks that are repeated | what Top-K leaves out is not lost and nothing counts twice; the audit accounts for the model |
| Sampling (`data/representative_sampling.py`), dataset (`data/dataset.py`) | a manifest | cluster, select, split, cut | quotas add up; test data are unseen |
| ETL and publication (`data/spark_etl.py`, `data/publication.py`) | a directory per run, `CURRENT` | six steps on a table; write, stage, publish; resolve | features are causal; the store is the timeline; a reader sees one complete run |
| Training and artifacts (`training/*`, `models/artifacts.py`) | a bundle of four files per stage | stages, epochs, save, load, evaluate; collectives of distributed training | the best epoch is kept; what is evaluated is what is described; ranks wait in the same collective |
| Shared memory, transport security, payload codec, simulation runner, reports, command line | — | — | not modelled, see section 8 |

### How they interact

A building calls its District over gRPC, and a District calls the City: uploads go
up (`SendGradient`), models are pulled down (`PollDistillation`). Nothing is pushed.
Each server runs its handlers on a pool of ten threads. The City guards its memory
with one lock but gives it up twice inside `SendGradient`; the District keeps its
state in SQLite and takes a lock only around the aggregation; the District's handler
threads share one `CommunicationModule` without any lock. A District uploads its
outbox from inside the handlers of its buildings' calls.

An agent's tick runs in one thread; only the recommender has another, and the tick
looks at its future without waiting. The Spark driver and its tasks share files and
nothing else; so do sampling, ETL, training and evaluation, which are separate
processes that find each other's results through `CURRENT`, a manifest and a bundle.

### What is hard

* **Interleaving.** Handlers look at the round, let go, and act on it later.
* **Shared client.** Round and version of an upload pass through fields that every
  handler of the District writes.
* **Crashes.** Each tier has a journal; what is not in it is lost, and what starts an
  aggregation is a call, not the journal.
* **Delivery.** Calls have a deadline of ten seconds; a call that timed out still runs
  on the server, and the call that completes a round runs a Spark job.
* **Files.** A residual, a bundle, an audit, a dataset is several files; each is written
  when the one before is there, and any process may die in between or read meanwhile.
* **Repetition.** Spark repeats tasks, the District repeats jobs, people launch runs
  again: what was written the first time is still there.
* **Time.** Windows, lags, cuts and imputation decide by positions in a series; an error
  by one leaks the future or trains on the answer.
* **Numbers at their edge.** Quotas that must add up, cuts that round, neighbours counted
  for an attacker too few, masks that change a denominator, a loss that is NaN.
* **Versions.** Three labels of "the round" exist: the City's version, the District's
  round and the building's idea of it.

`PROJECT.json` lists the hazards one by one, at their lines, with the properties
that cover them.

## 2. Modules

| Module | Models | Composes |
|---|---|---|
| `RoundLedger` | what a tier that owns rounds promises to the tier below (abstract) | |
| `City` | `SendGradient`, `PollDistillation`, restart of the City with journal and monitor | implements `RoundLedger` |
| `CityProofs` | invariants and refinement of `City` | `City`, `RoundLedger` |
| `District` | `SendGradient` of the District over its journal | implements `RoundLedger` |
| `DistrictProofs` | invariants and refinement of `District` | `District`, `RoundLedger` |
| `DistrictUplink` | flush and poll over the shared client, against a coarse City and a coarse building | |
| `DistrictUplinkProofs` | types, the order of the outbox and delivery, for any overlap of handlers | `DistrictUplink` |
| `Building` | `_maybe_federate` over its client with Top-K and residual, against a coarse District | |
| `BuildingProofs` | receipts, retries and error feedback | `Building` |
| `Agent` | the process of a building, tick by tick: memories, training and forecast windows, decision, recommender thread, privacy accountant, restarts | |
| `AgentProofs` | the privacy budget, the order of advice, training windows, memories, decisions | `Agent` |
| `Sums` | the sum of a list, a sum under a mask, and a set's members in an order, as pure operators | |
| `RobustAggregation` | the District's Spark job on a cohort and the City's mean | `Sums` |
| `RoundProofs` | what a round promises: the ledger's receipts, Krum, both means, the audit | `RobustAggregation`, `RoundLedger` |
| `SparkRunner` | the driver and the tasks of a Spark run, over their files | |
| `SparkRunnerProofs` | error feedback and the audit of the Spark runner | `SparkRunner` |
| `Missing` | the constants for what stands where a value is missing | |
| `Cohort` | quotas, splits and cuts as pure operators | `Sums` |
| `Pipeline` | sampling, ETL runs, training and evaluation as processes over files | `Cohort`, `Missing` |
| `Etl` | what the ETL makes of the file of one household | `Sums`, `Missing` |
| `PipelineProofs` | publication, bundles, the cohort and unseen tests; the causality and completeness of the store | `Pipeline`, `Cohort`, `Etl` |
| `Ddp` | the collectives of distributed training | |
| `MC…` | instances for TLC: sets of readings, forecasts and configurations, symmetry, fault sets | |

### RoundLedger

The state is `history` (the cohort folded in each round), `offered` (what reached the
authority) and `acked` (what a member believes accepted). `Fold(c)` closes the open
round with a cohort that has a quorum, contains only payloads offered for that round
and leaves out no acknowledged member. `Receive` lets offers and acknowledgements in,
for the open round or as repetition of something folded.

### City

A section under the servicer's lock is one action: everybody who touches this memory
holds the lock, and a crash in the middle of a section is a crash before or after it.

| Action | Code |
|---|---|
| `Receive`, `ReceiveStale` | section A, `city.py` 111–149 |
| `JournalStale`, `Journal`, `JournalLast`, `JournalFails` | section B, 151–196, with `append_pending` |
| `AggregateFails` | averaging outside the lock, 198–215 |
| `Reject`, `CandidateRaises`, `Commit`, `CommitFails` | section C, 217–305, with `commit_round` |
| `PollDistillation` | 307–322 |
| `Restart(teacher)` | `__init__` 76–108 with `recover`, `save_baseline`, `restore` |

Tensors are left out: a global model is the sequence of cohorts folded into the teacher, so
two models are equal exactly when the same updates went in in the same order. The acceptance
tests are a nondeterministic verdict. The `Faults` constant says which of the error paths a
run explores, and `escaped` remembers which exceptions of section C have left a handler, so
that a property can say what holds until then. `acked` is what a *district* knows: an answer
may be lost, so `Acknowledge` may or may not add to it. `served` and `calm` record polls and
drifts for the properties.

### District

The variables `storeRound`, `uploads`, `completed`, `outbox` are the four tables of
`PendingStore`; each access is one transaction and one action, as any other thread may
run between two of them. `pc` follows `SendGradient`:

```
idle --Receive--> append --AppendUpload--> recheck --Received--> idle
                                             |
                                             +-Contend--> lock --Superseded--> idle
                                                            |
                                     AggregationFails       +-TakeSnapshot--> aggregate
                               idle <------------------------------------------+
                                                            Finalize           |
                               idle <--Aggregated-- flush <--------------------+
```

The branch "Last-minute uploads slipped between the count check and the snapshot"
(`district.py` 193–199) has no action: theorem `SnapshotNeverShort` shows that its
condition cannot hold. Likewise the error `lost a race` of `finalize_round`: theorem
`AggregationIsLocked`.

### DistrictUplink

Here the shared client is the subject, so the accesses to `current_round`,
`model_version`, `_last_applied_round` and `global_state` are actions of their own:
`ReadRow`, `StampClient`, `Encode`, `Send`, then the answer (`Refused`, `Succeeded`,
`TimesOut`), `CompleteUplink`; `CityAnswersPoll`, `OldNews` or `ApplyRound`,
`ApplyVersion`, `Adopt`, `Serve`. The City is reduced to what `City` shows of it for
one district: the open round, the row it holds and the rows it folded. The buildings
are one building that polls and whose update closes the round.

The District's server has ten workers and no lock around the client, so handlers overlap
freely. A stamp may then be changed by another handler before the upload has read it:
`mixed`, which exists for the properties only, collects the rows this happened to (`Mixes`).
A row in `mixed` can be sent under another round and be dropped, or fold in a round that is
not its own; the properties say that this is the only way to lose or misplace a summary.
That it does happen is the finding `uplink_dropped`; that overlapping polls let the District
serve an older model is in section 5.

### Building

The agent is a single thread, so its own steps interleave only with the District and
the wire. An update is a function from training steps to amounts: each step moves a
coordinate of its own, `TopK` keeps the `Keep` largest, `residual` is the rest. This
keeps what error feedback and double counting depend on and nothing else. Retries of
the same upload are one element of the set `wire`, which `RetryIsSame` justifies.
`CallFails` is a call the District never handles, `AnswerIsLost` one it handles
without the agent knowing: a deadline, a broken connection, or a failing aggregation.
Two variables exist for the properties only: `share`, how much of each step the closed
rounds contain, and `offered`, how much the uploads of those rounds were made from; both
grow when `DistrictCloses`.

### Agent

One tick is the upload (`NoUpload`; `Blocked`; or `Record`, `Save`, `Release`), then
`Sense`, then `Act`: the accesses a crash can separate are actions of their own. What an
upload carries is the business of `Building`. A reading stands for its position in the
file, so a window is a sequence of positions and can be compared with another; its
value, which the decision needs, is in `csv`. The model's forecast is any element of
`Forecasts`. `WorkerEnds` is the recommender's thread, which ends whenever it likes, with
a result or an exception. `Stop` is the end of the stream or the death of the process,
and the next `Launch` reads the file from the top, as the code does.

The network, the solvers and the noise are left out: `Plan` counts in tenths of a Wh, in
which the code's shares of the forecast are whole; `Optimise` says which plan is the
cheapest under the code's costs and limits per load, or that the answer is an emergency,
as it is for any excess when OR-Tools is not installed or has no solver (`computation.py`
161–168), which each tick may find; and `Budget` is the number of
uploads at which a monotone epsilon passes its limit.

### RobustAggregation

One coordinate of the model, in integers. A cohort is the list of what agents sent for
it, where a missing value has its mask false. `ScoreAll`, `Select`, `Aggregate`,
`WriteSummary`, `WriteAgentRows`, `Finalize` are the steps of the job; `JobFails` may come
at any of them and `Retry` finds the same cohort in the journal. Means are kept as sum
and count, so nothing is rounded. Equal scores are ranked in any way: the code's order
is that of its input, which no property may depend on.

### SparkRunner

Actions of the driver and of a task (`Train`, `Carry`, `Report`, `TaskFails`) meet in the
variables for files. A training moves two coordinates by given sizes, Top-K keeps one, and
a model counts how much of each agent's training is in it: this is what "lost" and "twice"
mean. After the tasks the driver goes through a file at a time, and may die (`RunFails`)
before and after each:

```
StartRound     W.pt of the round
(tasks)        deltas, residuals, metrics of the tasks
Aggregate      in memory: clip, select, trim, average, accept or reject
AuditAgents    agent_round_audit: whose row has samples
AuditDistricts district_round_summary: how many each district accepted
Adopt          in memory: the model, the monitor, round_history
(next round)   W.pt, or at the end
Measure        round_metrics.parquet: with candidate_rejected and the hash of the input
Finish         W_final.pt
```

Clipping and trimming take any part, from `Cuts`, of each coordinate of a delta; which
agents Krum drops is any choice of the right size (`RobustAggregation` says which). What of
a delta does not get into the model this way (`Loss`) is in no residual either, as the task
has carried its residual before; `lost` adds it up for the properties. The audits hold what the
files hold: `accepted_idx` is popped before the district's row is written, so the row is a
number. `mark` remembers what the properties except: a task repeated after its residual was
carried, and a directory that two launches share. One file is written in one step.

### Cohort and Pipeline

`Cohort` has the arithmetic of `stratified_select`, `cluster_stratified_household_split` and
the time cuts. As households of one cluster are interchangeable, a selection is a count per
cluster. `Pipeline` has a process each for the sampling, every ETL run, the training and the
evaluation. A file that is being written is `Torn`; a model file's content is its training's
`recipe` and the loss it was saved at, that of metadata the contents it has checksums of.
Trainings are seeded (`trainer.py` 126, 154–158), so one that has the settings and data of
an earlier one writes the same bytes: `recipe[t]` is the first training that training `t`
repeats, itself or any before it. The evaluator loads a file in one step (`ReadFile`) and
reads each again, later and one by one, for its checksum (`Check`). `CURRENT.tmp` is emptied
by `Open` and written by `Stage`, into the file that was opened, wherever another run has
moved it meanwhile. `View` is what `resolve_current_dataset` gives a reader at that moment,
and training looks twice, for its two loaders.

### Etl

The table of one household after each of six steps, from a file with several rows, none,
nulls and NaN in a slot. Energy is in a unit in which means divide; weather is there or not,
or there is no weather directory at all (`None`), and then every row has the zeros that the
code puts there. `known` says whether `households.csv` has the household, on which two joins
depend.

### Ddp

Ranks with their number of collectives done; `Call` is the collective a rank comes to
next, from the windows of its own shard, and `Meet` needs all ranks in the same one.

## 3. Properties

**City.** `SingleFlight` (one aggregation, of the open, marked round; it makes two
branches of section B and C dead code); `MarkHasWorker` (a mark is never left behind,
as long as nothing raises); `AckedIsOwned` (a receipt survives crashes);
`CommittedVersionNamesOneModel` (a version was only ever served with one model, until a
commit fails); `ConvergenceIsEarned`; `ImplementsLedger`; `RoundsComplete`.

**District.** `LockedRound`; `AckedIsOwned`; `FullRoundIsOwed` (a full
round always has an agent without receipt, so somebody will call again);
`SummariesInOrder`; `ImplementsLedger`; `RoundsComplete`. `SnapshotIsFull` is proved and
not repeated by a run.

**DistrictUplink.** `SummaryInItsRound` and `OnlyMixedDropped` (a summary goes to its round,
and leaves the outbox only when the City has it, unless its stamp was changed by another
handler); `NothingDropped`, what the code says (refuted);
`OutboxShrinksInOrder`; `SummariesArrive`.

**Building.** `ReceiptIsOwned` (a receipt is backed, and the agent never ahead of its
District) and `RoundsGoOn` hold always; `RetryIsSame` and `UntroubledFeedbackIsExact` (error
feedback is exact and no step counts twice) until the first lost answer or restart.

**Agent.** `MemoryIsBacked` (deque, block and pool are one unbroken run of readings, each in
SQLite, at most once per launch); `TrainsWhatItForecast`; `ShedIsEnough` (measured by the
capacity the tick has itself adapted; an emergency with a solver means that no plan would
do, one without a solver only that there is an excess); `AdviceInTurn`; `BudgetHolds`.

**RobustAggregation.** `ColludersAreRejected` is Krum's promise stated by distances: up to f
attackers that agree with each other, and are far enough from everybody else, are not
selected. `OutliersCannotMoveMean`: as many survivors as are cut cannot move the mean out
of the range of the others. `CityMeanIsBetween`: no missing value is a zero. `AuditedOnce`.

**SparkRunner.** `FeedbackIsExact` (what was trained is in the model, in the residual or was
taken from a delta by an aggregation, and in one of these only); `AuditExplainsModel` (a model
on disk has its round's input and audit files behind it, and they account for it).

**Pipeline.** `CohortIsSound`; `ReadsOneRun`; `BestIsKept`;
`EvaluatesDescribedModel`, unless a training beside the evaluation repeats an earlier one byte
for byte (section 5); `TestIsUnseen`.

**Etl.** `FeaturesAreCausal` compares the table with the one made of the file cut off at each
slot; `StoreIsTheTimeline`.

**Ddp.** `CollectivesMatch` (refuted).

`ServesFreshest` (`DistrictUplink`), `PointerNamesARun` (`Pipeline`), `ErrorFeedbackIsExact`
and `TaughtTakesPart` (`Building`), `VersionNamesOneModel` (`City`) and `ResumeContinues`
(`SparkRunner`) state what the code or its documents say and no run claims: section 5 says
how each fails.

## 4. Runs, bounds and fairness

| Run | Instance | Shows |
|---|---|---|
| `city` | 2 districts, 3 threads, 2 rounds, 1 crash, all faults | the invariants of the City, and that it implements the ledger |
| `city_live` | 2 districts, 2 threads, 3 rounds, 1 crash, one call per district, no faults | rounds complete, convergence is earned |
| `district` | 2 agents, 2 threads that overlap freely, 2 rounds, 1 crash, Spark failures | the invariants of the District, the ledger, and that rounds complete |
| `uplink` | 2 threads that overlap freely, 2 rounds, 1 timeout or crash | delivery is exact, in order, and arrives, but for rows whose stamp was changed |
| `uplink_dropped` | 2 threads, no timeout, no crash | **violation**: a summary is deleted that no round has |
| `building` | 2 steps, 2 rounds; polls and calls fail, 1 lost answer, 1 crash | retries, counting, error feedback, receipts, taking part |
| `spark` | 3 agents (one without data) in 2 districts, 3 rounds, 2 launches, each task may fail once; with and without privacy, resume and Krum; an aggregation takes 0 or 1 from a coordinate | error feedback and the audit, whatever fails |
| `aggregation` | all cohorts of up to 7 agents over 4 values and a missing one, f ≤ 2, 2 trim ratios, 2 tries | the promises of Krum, of both means and of the audit |
| `agent` | files of 4 readings, 2 launches, 4 forecasts, each with and without a solver, all buffers of 1 to 3 | memories, windows, decisions, advice, budget |
| `pipeline` | 7 households in up to 3 clusters, 2 ETL runs, 2 trainings of 2 epochs that may be the same, 1 evaluation | cohorts, publication, bundles, unseen tests |
| `etl` | all files of 5 slots with 6 kinds of content, all weather and none, with and without metadata | causality and the timeline |
| `ddp_uneven` | 2 ranks, 3 households of 2, 5 or 7 readings | **violation**: ranks wait in different collectives |

**Why the bounds are enough.** Two members are the smallest cohort in which one can be
missing. In the City three threads let a repeated call, the completing call and one call of
the other member be in progress together; in the District two do, as the lock is the only
thing threads wait for. Every race in the tiers is on one round or on two consecutive
rounds, which two rounds cover. One crash separates "before" from "after" at every point.
`Patience = 2` is the smallest count that can be interrupted, and takes three rounds to be
interrupted and wrongly reached. Training steps in `Building` have two sizes, so that Top-K
can prefer an older or a newer one. In `DistrictUplink` two threads show every overlap of
one access with another, and two rounds are the fewest in which a stamp can be of another
round. A timeout and a crash each leave an upload on the wire, to be handled later or never;
one of them (`MaxFaults`) is enough to repeat an upload that the City has. The theorems
remove all of these bounds for what they state, those about the batch processes included.

Seven agents are the smallest cohort Krum accepts with f = 2, where two attackers can agree;
the clip threshold of 8 lies between the values 2 and 9, so that clipping matters. In
`agent` every buffer is smaller than the file, so each overflows, and the file is read
twice; the four forecasts are below zero, nine Wh above the first capacity (not worth an
action), to be shed with a plan that is no whole number of Wh, and beyond shedding. Three
rounds let a residual of the first round come in a later one and be part of the next input;
with three agents, a configuration with f = 1 shows the refusal only, so a drop by Krum
appears in `spark` as that of the acceptance test. A training moves the coordinates by 3 and
2, so a cut of 1 takes a part of what is sent, and a rejection all of it. Seven households
in three clusters, of which six are selected, include clusters with less than their share,
and clusterings that are refused. Two trainings let a bundle be replaced while it is read;
the losses 1, 2 and NaN, in two epochs, come in every order. In `etl` the lag, the window
and the hour are shorter than the timeline and of different length, and PerMille = 300 clips
at both ends of five rows.

**Named bounds.** `MaxRound`, `MaxCrashes`, `MaxFaults`, `MaxSteps`, `MaxLost`,
`MaxLaunches`, `MaxShared`, `MaxAgents`, `MaxAttempts`, `MaxTicks`, `MaxTrainings`,
`LastSlot` cap what is unbounded in the code. `Threads` and `Payloads` are symmetric in run
`city`, `Runs` in `pipeline`; neither uses fairness. Deadlock is checked for the tiers; the
batch processes (`agent`, `aggregation`, `etl`, `pipeline`, `spark`, `ddp_uneven`) end, and
so may stop. `MaxShared = 0`: launches share a directory only within a second, before a
round is done.

**Fairness.** A handler that can run does (`WF` per thread; gRPC's executor runs a call it
has accepted). A client repeats its call at every federation tick until it sees
success, so a call it can make infinitely often is made (`SF` on `Resend`, on polls).
A Spark job that may succeed does when it is run again and again (`SF` on the
District's `Finalize`). Nothing is assumed about crashes (bounded) or about answers:
they may be lost. Liveness of the City additionally assumes a district has one call in
progress; section 5 says what happens otherwise. The District needs no
such assumption. The household stream is finite in reality: `Building`'s liveness is
about an agent whose stream lasts. The modules of the batch processes state no fairness:
their properties are safety.

## 5. What the code does otherwise than it says

Two runs are findings, with the quoted sentence in `PROJECT.json`: the unlocked client
(`uplink_dropped`) and the collectives of uneven ranks (`ddp_uneven`).

The models have more behaviours that contradict a sentence of the repository. They can
be reproduced with the configuration named and the changes in brackets.

* **City stall** (`CityLive.cfg` [`SerialOutbox = FALSE`, three threads, `MaxRound = 1`],
  `RoundsComplete`). The README promises transactional recovery; an aggregation starts only
  in a call that completes the cohort (`tiers/city.py` 171–191), and `__init__` never looks
  whether a recovered cohort is already full. When calls of one district overlap and the
  process dies after the last receipt, no call is left to aggregate the round.
* **City commit fault** (`City.cfg` [`VersionNamesOneModel`]). `global_state` is assigned before
  `commit_round` (`city.py` 269–276); when that raises, one version is served with two models.
* **Rejected for good** (`City.cfg`). A candidate rejected for its content leaves cohort and
  round as they are, and every repetition meets the same test.
* **Krum stall** (`District.cfg` [three agents, `Byzantine = 1`], `RoundsComplete`). The
  walkthrough's `simulate --num_agents 9 --num_districts 3` has three agents per district
  with the default f = 1, and Krum refuses fewer than five. The default of eight agents in two
  districts of the Spark runner, f = 1, raises in round 0 for the same reason.
* **Older model served** (`Uplink.cfg` [`ServesFreshest`]). The District "polls the City for the
  latest global model [...], then serves that freshest state" (`tiers/district.py` 19–20). A
  poll that pulled the model of round r may store it (241–243) after another has stored that of
  r + 1; `_last_applied_round` of the shared client is r + 1 by then (`communication.py`
  205–209), so the newer one is not pulled again until the City has a later one.
* **Empty pointer** (`Pipeline.cfg` [`PointerNamesARun`]). "ETL publishes atomically through a
  `CURRENT` pointer, so an incomplete run cannot replace the last valid dataset" (README 83).
  All runs write to the same `CURRENT.tmp`: `write_text` (`spark_etl.py` 442) empties it first,
  and the `os.replace` (443) of a run that ends at the same time moves the empty file into the
  place of `CURRENT`, which readers then refuse (`publication.py` 14–15), for good if the first
  run dies there.
* **Residual after a lost answer** (`Building.cfg` [`ErrorFeedbackIsExact`]). "Compression
  residuals use error feedback and survive until a successful round" (README 66). The
  residual moves only when the answer is seen; then a new checkpoint drops the pending
  delta.
* **Bootstrap** (`Building.cfg` [`TaughtTakesPart`]). Only the poll of tick 0 sets
  `_has_global_baseline`: if it fails the agent is taught ever after and never uploads.
* **Resume** (`Spark.cfg` [`ResumeContinues`]). "Any failed round can resume from disk via
  `--resume_from_round`" (`spark_fl_runner.py` 28–30): the directory is named after the second
  of the launch, so the input of the round before is not in it, a warning is logged and
  the run starts at round 0.
* **Idempotent tasks** (`Spark.cfg` [`FeedbackIsExact` with "repeated" allowed in `mark`]).
  "Idempotent (rerunning produces the same files)" (`spark_local_train.py` 176): a task
  repeated after `os.replace` reads the advanced residual. (With `local[*]`, the default,
  Spark does not repeat tasks.)
* **Clipped for good** (`Spark.cfg` [`FeedbackIsExact` without `lost`]). "Compression
  residuals use error feedback and survive until a successful round" (README 66), but a task
  replaces its residual before the driver aggregates: what clipping (`spark_fl_runner.py`
  336), trimming (358), Krum (345) or the acceptance test (515) take from a delta is in
  neither the model nor the residual.
* **Audit of acceptance** (read in the source; the files of `SparkRunner` have no more).
  "Per-agent decisions" are to be in Parquet (`docs/guides/spark-federation.md` 84–85), but
  `accepted_idx` is popped before the district's row is written (571), so no file says whom
  Krum accepted; and `candidate_rejected` is in `round_metrics.parquet` only, which is
  written after the last round (667–669): a run that dies leaves no record of its
  rejections.
* **Equal bytes** (`Pipeline.cfg` [`EvaluatesDescribedModel` without `RunsAgain`]). The
  checksum is of the file as it is after the model was loaded (`artifacts.py` 108–113). A
  seeded training that repeats an earlier one beside the evaluation puts each of its models
  there again, so the file loaded can be one epoch's, and the file hashed that of the epoch
  which the metadata describe.
* **Unseen test data** (`Pipeline.cfg` [`TestIsUnseen` without its exception]). "Data the model
  never saw" (`dataset.py` 87–90): without a manifest and with two households or more,
  training has whole timelines and the test is the end of all of them.

Further observations, read in the source or met as behaviours of the models, that no
property is spent on:

* An upload appended after its round was closed stays in the District's journal and
  `recover()` reports it as in flight. With more agents than `expected_agents` a receipt may
  have no owner, which is why the theorems about receipts assume `ExactMembership`. After a
  "stale round" answer and a failing poll a building uploads the same training twice.
* A failed try of the District's Spark job that had appended its rows leaves the round in
  the audit twice.
* The Spark driver's monitor compares the new model with the one before the last
  (`prev_w` is the input of the round before), and a rejected candidate counts as no drift.
* A restarted agent reads its file again: SQLite has the readings twice, the pool is empty.
* `optimise_schedule` raises on a negative forecast, which the network may give; the tick
  then asks for no advice. The reward compares a reading with the forecast for the *next* one.
* The docstring of the split says each cluster has a member in validation and test when
  feasible, and that unused households train; neither is so (clusters of 14, 14 and 2,
  `val_n = 3`).
* Winsorizing takes its limits from a household's whole timeline, although the comment
  above forbids what "leaks future information"; a comment still tells of a centred window
  (`spark_etl.py` 334–337). A household without metadata loses all its readings, as its null
  station joins nothing. The stream imputes missing readings as 0 and fills no gaps,
  although its docstring says it exposes the same schema as the store.
* "Versioned checkpoints prevent stale model updates from silently winning" (README), but the
  District stamps `city-round-r` whatever checkpoint its buildings' deltas were computed against
  (`district.py` 126–127), and the City compares nothing else. The model leaves out what a delta
  is relative to.
* Without a weather directory the ETL stores zeros as weather, and `weather_missing` says 0.
* Of two ETL runs that share `CURRENT.tmp` one can publish the other's name. The names
  have the resolution of a second, and are of the same length, so one written over another
  leaves nothing of it.
* A bundle without metadata is loaded without checks; scaler and config are read before
  the metadata and may be of the training before; a crash in a save destroys the best bundle.
* In distributed training no model is written when rank 0 has no windows.

## 6. What is proved

All theorems hold for every value of the constants that satisfies the named assumption of
the module: `CityAssumption`, `DistrictAssumption`, `UplinkAssumption`,
`BuildingAssumption`, `AgentAssumption`, `SparkAssumption`, `PipelineAssumption`,
`AggregationAssumption`, `EtlAssumption`. They say what a constant is: a positive size, a
set of numbers, a `None` that is not one of the values it stands beside. Four theorems
assume more, and say so: `AcceptedIsNotLost`, `CityIsLedger`, `ReceiptIsDurable` and
`DistrictIsLedger` assume `ExactMembership`, as many members as expected. Without it the
property is false: an agent in excess is told "received" or "superseded" although its upload
is in no cohort.

Most theorems state a property that a run checks on a small instance. The others state what
no run repeats: `LedgerKeepsPromise` about the abstract module, `SnapshotNeverShort`, and the
types (`TypeCorrect`, `ShapeHolds`), which the proofs check.

### The tiers

* **The ledger** (`RoundProofs`): `Spec => []AckedIsFolded`, by an invariant that
  adds types and that an acknowledged member of the open round has offered something.
* **City** (`CityProofs`): `TypeCorrect`; `OneAggregation`, from an invariant that ties a
  thread in section "aggregate" to a marked open round; `AcceptedIsNotLost`, from the
  journal invariant below; `CityIsLedger`, the refinement: section B's actions map to
  `Receive`, `Commit` to `Fold` of the snapshot, everything else to a stutter.
  `NoMarkIsLeftBehind` turns the tie round: a marked round has a thread in "aggregate",
  until an exception escapes. `VersionsAreUnique` and `ConvergenceIsTrue` share
  `ServedInv`: as long as no commit failed the model in memory is the stored one, the
  drift of every committed round is on record, and whatever was served is a beginning of
  both. Models only grow at the end, so two beginnings of one length are equal.
* **District** (`DistrictProofs`), in three layers, each using the one before: `LockInv`
  (who holds the lock, and that its round is open; gives `AggregationIsLocked`), `RowInv`
  (rows leave the open round only when it closes, so a count once read is never too high;
  gives `SnapshotNeverShort`, `FullRoundHasCaller`), `DurableInv` (journal, snapshot and
  cohort agree on who is in; gives `ReceiptIsDurable` and `DistrictIsLedger`).
  `OutboxInOrder` needs only the types.
* **Uplink** (`DistrictUplinkProofs`): `TypeCorrect`, by `TypeInv`, which adds to the
  types that an upload on the wire with a caller is the only one of that caller, who waits
  for it: otherwise an answer could reach a handler at any label. `OldestFirst`, by
  `OrderInv`: a thread with a row has one that is older than all in the outbox but itself,
  and stays so, as only newer rows are added. `EverySummaryInItsRound` and
  `OnlyMixedIsDropped`, by `DeliveryInv`: a thread that has stamped the client and whose row is
  not in `mixed` still finds its stamp there (`Stamped`); what is on the wire, late uploads
  included, is then labelled with its own row (`Labelled`); a row answered "accepted" or
  "stale" has arrived (`Settled`), and a closed round's summary is in the outbox or has
  (`Accounted`). All of this holds for any overlap of handlers.
* **Building** (`BuildingProofs`): `ShapeHolds`, the types, and which fields are set at
  which place; `ReceiptMeansOwned`, by `ReceiptInv`: rounds of agent and wire are never
  ahead of the District's, and an answer only exists for an upload that has arrived.
  `RetriesAreSame`, by `CalmInv`: until something is lost the agent is either in the open
  round, which has nothing of it yet and whose pending delta is what it sent, or its
  upload is in and it knows, or is about to. `FeedbackIsExact`, by `BooksInv`, is a
  balance for each step of training: what the District has got and what the agent holds
  back, now or when the answer is in, make up what was offered (`Balanced`); what was
  offered and what is still to be is no more than was trained (`Spent`); a step not yet
  trained is in nothing (`Untrained`). The running totals `share` and `offered` make this
  a statement on single amounts.

### Agents and batch processes

* **Agent** (`AgentProofs`): `BudgetIsKept`, by `BudgetInv`, which says for each place
  between record, save and call how far memory, file and what was sent are apart;
  `AdviceComesInTurn`, by `AdviceInv`: the job is about a tick that has passed and is
  newer than all that was handed out. `TrainsOnForecast`, by `WindowInv`: the deque is the
  run of positions that ends at the newest reading, and the last forecast's window is the
  run that ends at the last tick done. `MemoriesAreBacked`, by four invariants: deque,
  open block and each block of the pool are runs of positions whose ends are known from
  the tick and the place in it; a reading that this process has sensed, or that an episode
  is about, has a row, and one not sensed yet has fewer rows than there were launches.
  `DecisionsAreEnough`, by `ShedInv`: the capacity is an integer that no adaptation brings
  under 500, which needs that the k-th smallest reading of a window exists; then it is a
  case for each answer of `Optimise`, with and without a solver.
* **Spark runner** (`SparkRunnerProofs`): `FeedbackAlwaysExact`, by `Account`: model,
  residual and what is `Due` make up what was trained, where a task that has not carried
  its residual owes all it has trained, also if it has failed since, and one that has owes
  its delta, until the aggregation divides that between the outcome and `lost`. With privacy
  the residual is not part of the account. `AuditAlwaysExplains`, by `ChainInv`: until the
  round's files are complete the input file of the round is the model in the driver's memory,
  and the outcome is explained by what is, or is about to be, in the two audits; each file that
  is written keeps the part of the chain that it ends.
* **Pipeline** (`PipelineProofs`): `ReadersGetOneRun`, by `DataInv`: `CURRENT` and
  `CURRENT.tmp` only name runs with all their files, and files of such a run are not
  written again. `BestModelIsKept`, by `Best`: what the training remembers as best is the
  lowest loss, and once a model is saved the stage's model file is that one.
  `EvaluatedModelIsDescribed`, by `EvalInv`: a training's best loss only falls, so it never
  puts the same model into a stage twice. A model that was there, was replaced and is there
  again has come back by another training of the same recipe, beside the evaluation
  (`Beside`): so a checksum found equal is of the model loaded, or the exception holds.
  `CohortIsDealtOut` and `TestDataAreUnseen`, by `SamplingInv`: a clustering has all the
  households, test and other households are disjoint, and the cohort is sound; without a
  manifest, the cuts of a household's series are in order. What is behind the cohort is an
  argument on `Deal`, visit by visit: a quota never exceeds the cluster, a visit changes it
  by at most one, and after a number of whole rounds of turns each cluster has got one per
  round or is full (`stratified_select` goes on until the target is met, so two clusters
  that are not full are at most two apart). A quota of the split starts at its share rounded
  down and after one round of turns is one more, or the cluster full: either is no less than
  the share, so one round, of the four the code allows, is enough (`QuotasAre`). Slices of a
  cluster follow each other, so they are disjoint, and there are as many members as their
  lengths add up to.
* **Aggregation** (`RoundProofs`), by three invariants: `AuditInv` (which of the two files
  have this try's row, at each step), `CohortInv` (types) and `RoundInv` (what each step
  leaves for the next). `RoundIsAuditedOnce` needs the first only. `KrumRejectsColluders`:
  an attacker has at most f - 1 friends, so at least N - 2f - 1 of its N - f - 2 neighbours
  are honest and far; an honest agent has N - f - 1 honest others, which are near, and its
  nearest are no further than those. So every attacker's score is above that of every honest
  agent, and as there are enough honest ones, no attacker is among the N - f best, however
  ties fall. `TrimmedMeanIsRobust`: what is kept has at least `Cut` contributors below and
  above it, so on either side of each value kept, itself included, is one of the others.
  `CityMeanOfSenders`: a weighted sum of values between two bounds.
* **ETL** (`PipelineProofs`): `FeaturesDoNotLookAhead` and `TimelineIsStored`, by `TableInv`,
  which says what the table is before each step. Then it is an argument on the operators:
  the rows are the slots from the first to the last reading, in order (`IntervalIsListed`);
  every step up to `Imputed` takes a file that is cut off to the beginning of what it makes
  of the whole file (`ImputedBegins`, `FeaturedBegins`); a percentile is one of the values
  (`PercentileIs`), and clipping changes a value only into the largest or smallest of the table
  (`ClippedValue`, `WinsorizedIs`).

### Why strengthenings are needed

`AckedIsOwned` alone is not inductive: nothing in it says that the snapshot a thread folds
contains every agent that was acknowledged meanwhile. The strengthening says that a
snapshot is full, hence (exact membership) has everybody. `FullRoundIsOwed` alone is not
inductive either: when a call is answered "received" one must know that it was not the
last one; the strengthening keeps, for a full round, a thread that has counted enough rows
or an agent that has not been told. `SummaryInItsRound` is about what the City has, and is
decided four steps earlier, when a thread stamps the client; every state in between needs
its part of `DeliveryInv`. `EvaluatesDescribedModel` compares files that were read at
different moments; its invariant must say which models a stage has had since, and by whom.

### Proofs about data

Sums, quotas, ranks and windows are about lists of any length.
The library's induction theorems take an operator as a parameter, which the provers here
cannot instantiate. Where a theorem depends on such data it is proved from a least
counterexample instead: the set of the indices where a fact fails has a smallest element
(`WFMin`), and that element contradicts itself (lemmas `UpTo` of `PipelineProofs` and
`Minimum` of `AgentProofs`). Sums are recursive functions (`Sums`) because of this, where
a fold would hide its steps from the provers. `RoundProofs` and `PipelineProofs` each begin
its part about data with the lemmas that the rest uses: sums are monotone and linear, and a
sum of ones is a cardinality; a strict total order of a finite set ranks its members from 0
to n - 1, once each (`RanksAre`, `FirstRanks`); finite sets of integers have extremes.

### What the proofs changed

* `ShedIsEnough` was false in an earlier model that rounded a plan to whole Wh, for a
  forecast of 4997, a value no run had. The plan is kept in tenths now, as exact as the
  code's floats are here, and the run has that forecast.
* `MemoryIsBacked` is stated block by block (`Run`): flattening the pool into one sequence
  hid where a block ends from the provers and from the reader.
* The properties of `Building` were sums over the closed rounds. They are equations on
  running totals now, which the provers can follow.
* `RobustAggregation`, `Cohort` and `Etl` had sums and orders as folds over sets and
  `SetToSortSeq`, of which the provers see nothing. They share `Sums` now, whose operators
  have lemmas; `Nearest` and `Mean` got names of their own.

### Only model-checked

* **Liveness** (`RoundsComplete`, `SummariesArrive`, `RoundsGoOn`): the prover does not
  handle fairness.
* **What is refuted** (`NothingDropped`, `CollectivesMatch`, and what section 5 names), as a
  counterexample needs no proof.

## 7. Plan

Every invariant and action property of a passing run is stated by a theorem. What would say
more about the system:

1. A composition of City, Districts and buildings at the level of their ledgers, for what
   no tier shows alone: a building's update folded in the City.
2. A refinement of `RobustAggregation` by the outcomes that `District` and `SparkRunner`
   allow for it, which take any selection of the right size.
3. Several coordinates in `RobustAggregation`: Krum judges whole vectors, the mean one
   coordinate, and clipping couples them by the norm.

## 8. Not modelled

* **Numbers**: the network, losses, optimisers, distillation, scalers, calendar features,
  noise and the formula of epsilon, the linear program of the schedule. What depends on
  their outcome takes any outcome. The drift value, acceptance tests and the outcome of
  Spark jobs are such inputs as well.
* **Attacks** that the Spark runner injects for experiments: `RobustAggregation` takes any
  value from anybody.
* **Shared memory** (`ismcc/memory/shared.py`): exported, but nothing constructs it, so there
  is no system around it.
* **Transport security, payload codec**: what they refuse changes no state; the handlers'
  reaction is in `City` and `District`. The byte format is pure encoding.
* **Simulation runner, command line, reports, generated stubs**: they start processes,
  parse arguments and format output.

## 9. Running

```
tlc -workers 2 -config City.cfg MCCity.tla     # and so on, see PROJECT.json
tlapm DistrictProofs.tla
```
