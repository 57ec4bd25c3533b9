------------------------------ MODULE Pipeline ------------------------------
(***************************************************************************)
(* From meter files to an evaluated model, with every process on its own   *)
(* and only files between them: run_sampling                               *)
(* (src/data/representative_sampling.py) selects a cohort, run_etl         *)
(* (src/data/spark_etl.py) publishes runs of the dataset, run_curriculum   *)
(* and train_stage (src/training) read it and save bundles                 *)
(* (src/models/artifacts.py), evaluate_run loads one while the others go   *)
(* on.  All but the sampling may die at any point.                         *)
(***************************************************************************)
EXTENDS Cohort, Missing

CONSTANTS
  Torn,             \* a file that was begun, empty or half written; None is no file,
                    \* NaN a loss
  Modes,            \* of "manifest", "single" household, "many" households
  Households, KClusters, TargetN, TrainN, ValN, TestN,
  Lengths,          \* how many readings the households may have
  SeqLen, PredLen,
  Runs,             \* the ETL runs
  Losses,           \* the finite losses of an epoch
  Stages, Epochs, Patience,
  MaxTrainings      \* bound: how often the training is started

ASSUME PipelineAssumption ==
  /\ Modes \subseteq {"manifest", "single", "many"}
  /\ {Households, KClusters, TargetN, SeqLen, PredLen, Stages, Epochs, Patience}
       \subseteq Nat \ {0}
  /\ {TrainN, ValN, TestN, MaxTrainings} \subseteq Nat
  /\ Lengths \subseteq Nat /\ Losses \subseteq Nat /\ NaN \notin Losses
  /\ None \notin Losses /\ Torn \notin Nat \X Losses

VARIABLES
  mode, length, hashed,    \* chosen once: hashed are the households the hash validates on;
                           \* it makes a difference if they are none or all
  recipe,                  \* recipe[t]: the first training with the seed, data and settings
                           \* of training t, which writes the same bytes as that one
  k, size, selected,       \* the sampling: clusters asked for or found, their sizes, the manifest
  split,                   \* what every reader of that manifest splits it into
  etl, files,              \* of each run: what it does next, and what is written
  staged, current,         \* CURRENT.tmp and CURRENT
  disk,                    \* disk[s]: the bundle of stage s
  training, trainer,       \* how many trainings there were, and the process of the last
  evaluator

vars == <<mode, length, hashed, recipe, k, size, selected, split, etl, files, staged, current, disk,
          training, trainer, evaluator>>

chosen    == <<mode, length, hashed, recipe>>
sampling  == <<k, size, selected, split>>
dataset   == <<etl, files, staged, current>>

Files == {"model", "scaler", "config", "metadata"}

NoTrainer == [is |-> "off", stage |-> 0, epoch |-> 0, best |-> None, lowest |-> None,
              bad |-> 0, views |-> {}]

\* first is the first training that goes on while the evaluation does.
NoEvaluator == [is |-> "off", stage |-> 0, got |-> [f \in Files |-> None], views |-> {},
                first |-> 0]

Init ==
  /\ mode \in Modes /\ length \in Lengths
  /\ hashed \in IF mode = "many" THEN {{}, {1}, 1 .. Households} ELSE {{}}
  /\ recipe \in {c \in [1 .. MaxTrainings -> 1 .. MaxTrainings] :
                   \A t \in DOMAIN c : c[t] <= t /\ c[c[t]] = c[t]}
  /\ k = Lesser(KClusters, Households) /\ size = None /\ selected = None /\ split = None
  /\ etl = [r \in Runs |-> "new"] /\ files = [r \in Runs |-> "none"]
  /\ staged = None /\ current = None
  /\ disk = [s \in 1 .. Stages |-> [f \in Files |-> None]]
  /\ training = 0 /\ trainer = NoTrainer /\ evaluator = NoEvaluator

-------------------------------------------------------------------------------
(***************************************************************************)
(* Sampling                                                                *)
(***************************************************************************)

\* KMeans may leave clusters empty.
Clusterings ==
  {s \in UNION {[1 .. j -> 1 .. Households] : j \in 1 .. k} : Total(s) = Households}

Recluster ==
  /\ mode = "manifest" /\ size = None
  /\ \E s \in Clusterings :
       IF k > 1 /\ \E c \in DOMAIN s : s[c] < 2
         THEN k' = k - 1 /\ size' = size
         ELSE k' = Len(s) /\ size' = s
  /\ UNCHANGED <<chosen, selected, split, dataset, disk, training, trainer, evaluator>>

WriteManifest ==
  /\ size # None /\ selected = None
  /\ selected' = Selected(size, TargetN)
  /\ split' = IF TrainN + ValN + TestN <= Total(selected')
                THEN HouseholdSplit(selected', TrainN, ValN, TestN) ELSE None
  /\ UNCHANGED <<chosen, k, size, dataset, disk, training, trainer, evaluator>>

\* The manifest is at hand where one is used.
Ready == mode = "manifest" => selected # None

-------------------------------------------------------------------------------
(***************************************************************************)
(* ETL: the files of a run, then its name in CURRENT.tmp, then CURRENT.    *)
(* The runs share CURRENT.tmp: one may empty it under the other's name, or *)
(* put it into the place of CURRENT while the other is about to write it.  *)
(***************************************************************************)

WriteSome(r) ==
  /\ Ready /\ etl[r] = "new"
  /\ etl' = [etl EXCEPT ![r] = "writing"]
  /\ files' = [files EXCEPT ![r] = "part"]
  /\ UNCHANGED <<chosen, sampling, staged, current, disk, training, trainer, evaluator>>

WriteRest(r) ==
  /\ etl[r] = "writing"
  /\ etl' = [etl EXCEPT ![r] = "written"]
  /\ files' = [files EXCEPT ![r] = "whole"]
  /\ UNCHANGED <<chosen, sampling, staged, current, disk, training, trainer, evaluator>>

\* Mutant of MayStage: the name is known before the files are there.
MayStageEarly(r) == etl[r] \in {"writing", "written"}

MayStage(r) == etl[r] = "written"

\* write_text opens the file, which empties it, and then writes.
Open(r) ==
  /\ MayStage(r)
  /\ etl' = [etl EXCEPT ![r] = "opened"]
  /\ staged' = Torn
  /\ UNCHANGED <<chosen, sampling, files, current, disk, training, trainer, evaluator>>

\* The name goes into the file that was opened, whatever it is called by now:
\* one that was moved is CURRENT, one that is lost has no name any more.
Stage(r) ==
  /\ etl[r] \in {"opened", "moved", "lost"}
  /\ etl' = [etl EXCEPT ![r] = "staged"]
  /\ staged' = IF etl[r] = "opened" THEN r ELSE staged
  /\ current' = IF etl[r] = "moved" THEN r ELSE current
  /\ UNCHANGED <<chosen, sampling, files, disk, training, trainer, evaluator>>

\* What others have open is moved along, or was CURRENT and is replaced.
Publish(r) ==
  /\ etl[r] = "staged" /\ staged # None
  /\ etl' = [q \in Runs |-> IF q = r THEN "over"
                            ELSE IF etl[q] = "opened" THEN "moved"
                            ELSE IF etl[q] = "moved" THEN "lost" ELSE etl[q]]
  /\ current' = staged
  /\ staged' = None
  /\ UNCHANGED <<chosen, sampling, files, disk, training, trainer, evaluator>>

\* The process dies, or finds CURRENT.tmp gone and raises.
EtlDies(r) ==
  /\ etl[r] \notin {"new", "over"}
  /\ etl' = [etl EXCEPT ![r] = "over"]
  /\ UNCHANGED <<chosen, sampling, files, staged, current, disk, training, trainer, evaluator>>

\* resolve_current_dataset: without a pointer, whatever is below the root.  An
\* empty pointer is refused.
View ==
  IF current = None
    THEN [published |-> FALSE, runs |-> {r \in Runs : files[r] # "none"}]
    ELSE [published |-> TRUE, runs |-> {current}]

-------------------------------------------------------------------------------
(***************************************************************************)
(* The dataset: the targets a split has, as pairs of household and reading *)
(***************************************************************************)

Whole == [from |-> 0, to |-> length]

Targets(part) ==
  LET of(hs, cut) == hs \X TargetsOf(cut, SeqLen, PredLen) IN
  CASE mode = "manifest" ->
         IF split = None THEN {} ELSE of(split[part], Whole)
    [] mode = "many" /\ part = "train" -> of((1 .. Households) \ hashed, Whole)
    [] mode = "many" /\ part = "val"   -> of(hashed, Whole)
    [] mode = "many" /\ part = "test"  -> of(1 .. Households, TimeCut(part, length, SeqLen))
    [] mode = "single" -> of({1}, TimeCut(part, length, SeqLen))

\* The constructor raises if there is no file or no window.
Readable(part) == current # Torn /\ View.runs # {} /\ Targets(part) # {}

-------------------------------------------------------------------------------
(***************************************************************************)
(* Training                                                                *)
(***************************************************************************)

StartTraining ==
  /\ Ready /\ trainer.is = "off" /\ training < MaxTrainings
  /\ training' = training + 1
  /\ trainer' = [NoTrainer EXCEPT !.is = "train", !.stage = 1]
  /\ UNCHANGED <<chosen, sampling, dataset, disk, evaluator>>

\* _build_loaders resolves the pointer for training and again for validation.
ReadSplit(part) ==
  /\ trainer.is = part /\ Readable(part)
  /\ trainer' = [trainer EXCEPT !.is = IF part = "train" THEN "val" ELSE "warm",
                                !.views = @ \cup {View}]
  /\ UNCHANGED <<chosen, sampling, dataset, disk, training, evaluator>>

\* The weights of the stage before, if there is a file; half a file raises.
WarmStart ==
  /\ trainer.is = "warm"
  /\ trainer.stage > 1 => disk[trainer.stage - 1]["model"] # Torn
  /\ trainer' = [trainer EXCEPT !.is = "epoch", !.views = {}]
  /\ UNCHANGED <<chosen, sampling, dataset, disk, training, evaluator>>

\* Mutant of Improved: not worse, which NaN is not either.
ImprovedUnlessWorse(loss) ==
  trainer.best = None \/ loss = NaN \/ trainer.best = NaN \/ loss < trainer.best

Improved(loss) == loss # NaN /\ (trainer.best = None \/ loss < trainer.best)

Lowest(loss) == IF loss # NaN /\ (trainer.lowest = None \/ loss < trainer.lowest)
                  THEN loss ELSE trainer.lowest

\* An epoch; save_artifact_bundle begins with the model.
Epoch(loss) ==
  /\ trainer.is = "epoch"
  /\ LET t == [trainer EXCEPT !.epoch = @ + 1, !.lowest = Lowest(loss)] IN
       IF Improved(loss)
         THEN /\ trainer' = [t EXCEPT !.is = "model", !.best = loss, !.bad = 0]
              /\ disk' = [disk EXCEPT ![t.stage]["model"] = Torn]
         ELSE /\ trainer' = [t EXCEPT !.is = "next", !.bad = @ + 1]
              /\ disk' = disk
  /\ UNCHANGED <<chosen, sampling, dataset, training, evaluator>>

NextFile == [model |-> "scaler", scaler |-> "config", config |-> "metadata"]

\* A file is complete and the next one begun, over the old one.
SaveFile(f) ==
  /\ trainer.is = f
  /\ LET s       == trainer.stage
         content == IF f = "model" THEN <<recipe[training], trainer.best>>
                    ELSE IF f = "metadata" THEN [g \in Files \ {f} |-> disk[s][g]]
                    ELSE recipe[training]
     IN IF f = "metadata"
          THEN /\ disk' = [disk EXCEPT ![s][f] = content]
               /\ trainer' = [trainer EXCEPT !.is = "next"]
          ELSE /\ disk' = [disk EXCEPT ![s][f] = content, ![s][NextFile[f]] = Torn]
               /\ trainer' = [trainer EXCEPT !.is = NextFile[f]]
  /\ UNCHANGED <<chosen, sampling, dataset, training, evaluator>>

\* The next epoch, the next stage or the end.
Continue ==
  /\ trainer.is = "next"
  /\ trainer' = IF trainer.epoch < Epochs /\ trainer.bad < Patience
                  THEN [trainer EXCEPT !.is = "epoch"]
                  ELSE IF trainer.stage < Stages
                    THEN [NoTrainer EXCEPT !.is = "train", !.stage = trainer.stage + 1]
                    ELSE NoTrainer
  /\ UNCHANGED <<chosen, sampling, dataset, disk, training, evaluator>>

\* The process dies, or something raises.
TrainingDies ==
  /\ trainer.is # "off"
  /\ trainer' = NoTrainer
  /\ UNCHANGED <<chosen, sampling, dataset, disk, training, evaluator>>

-------------------------------------------------------------------------------
(***************************************************************************)
(* Evaluation                                                              *)
(***************************************************************************)

StartEvaluation(s) ==
  /\ Ready /\ evaluator.is = "off"
  /\ evaluator' = [NoEvaluator EXCEPT !.is = "config", !.stage = s,
                     !.first = IF trainer.is = "off" THEN training + 1 ELSE training]
  /\ UNCHANGED <<chosen, sampling, dataset, disk, training, trainer>>

NextRead == [config |-> "scaler", scaler |-> "metadata", metadata |-> "model",
             model |-> "hash_model"]

\* A file that is half written, or missing unless it is the metadata, raises.
ReadFile(f) ==
  /\ evaluator.is = f
  /\ LET found == disk[evaluator.stage][f] IN
       /\ found # Torn
       /\ found = None => f = "metadata"
       /\ evaluator' = [evaluator EXCEPT !.is = NextRead[f], !.got[f] = found]
  /\ UNCHANGED <<chosen, sampling, dataset, disk, training, trainer>>

\* Mutant of ChecksumMatches: a bundle with metadata is taken as it is.
ChecksumMatchesAnyway(f, meta) == TRUE

\* The checksum in the metadata, against the file as it is now.
ChecksumMatches(f, meta) == meta = None \/ disk[evaluator.stage][f] = meta[f]

Hashing == [model |-> "hash_model", scaler |-> "hash_scaler", config |-> "hash_config"]
NextHash == [model |-> "hash_scaler", scaler |-> "hash_config", config |-> "test"]

\* What was loaded is not hashed: the file is read again for that.
Check(f) ==
  /\ evaluator.is = Hashing[f]
  /\ ChecksumMatches(f, evaluator.got["metadata"])
  /\ evaluator' = [evaluator EXCEPT !.is = NextHash[f]]
  /\ UNCHANGED <<chosen, sampling, dataset, disk, training, trainer>>

ReadTest ==
  /\ evaluator.is = "test" /\ Readable("test")
  /\ evaluator' = [evaluator EXCEPT !.is = "report", !.views = {View}]
  /\ UNCHANGED <<chosen, sampling, dataset, disk, training, trainer>>

\* The report is written, the process dies, or something raises.
EvaluationEnds ==
  /\ evaluator.is # "off"
  /\ evaluator' = NoEvaluator
  /\ UNCHANGED <<chosen, sampling, dataset, disk, training, trainer>>

Next ==
  \/ Recluster \/ WriteManifest
  \/ \E r \in Runs : WriteSome(r) \/ WriteRest(r) \/ Open(r) \/ Stage(r) \/ Publish(r) \/ EtlDies(r)
  \/ StartTraining \/ WarmStart \/ Continue \/ TrainingDies
  \/ \E part \in {"train", "val"} : ReadSplit(part)
  \/ \E loss \in Losses \cup {NaN} : Epoch(loss)
  \/ \E f \in Files : SaveFile(f) \/ ReadFile(f)
  \/ \E s \in 1 .. Stages : StartEvaluation(s)
  \/ \E f \in Files \ {"metadata"} : Check(f)
  \/ ReadTest \/ EvaluationEnds

Spec == Init /\ [][Next]_vars

-------------------------------------------------------------------------------
(***************************************************************************)
(* Properties                                                              *)
(***************************************************************************)

(***************************************************************************)
(* The cohort has the size asked for, and a cluster is more than two       *)
(* behind another only if all of it is selected; the split hands out what  *)
(* it was asked to and no household twice.                                 *)
(***************************************************************************)
CohortIsSound ==
  selected # None =>
    /\ Total(selected) = Lesser(TargetN, Households)
    /\ \A c, d \in DOMAIN size :
         /\ selected[c] <= size[c]
         /\ selected[d] > selected[c] + 2 => selected[c] = size[c]
    /\ split # None =>
         /\ Cardinality(split.val) = ValN
         /\ Cardinality(split.test) = TestN
         /\ Cardinality(split.train) = TrainN
         /\ Cardinality(split.val \cup split.test \cup split.train) = TrainN + ValN + TestN
         /\ \A part \in DOMAIN split : \A h \in split[part] : h[2] <= selected[h[1]]

(***************************************************************************)
(* "An incomplete run cannot replace the last valid dataset": once one run *)
(* is published, whoever resolves the pointer gets one run, complete.      *)
(***************************************************************************)
ReadsOneRun ==
  \A view \in trainer.views \cup evaluator.views :
    view.published => \E r \in Runs : view.runs = {r} /\ files[r] = "whole"

(***************************************************************************)
(* After each epoch the bundle of the stage is complete and that of the    *)
(* lowest loss so far, whatever NaN there was before or after.             *)
(***************************************************************************)
BestIsKept ==
  trainer.is = "next" /\ trainer.lowest # None =>
    LET bundle == disk[trainer.stage] IN
      /\ bundle["model"] = <<recipe[training], trainer.lowest>>
      /\ bundle["metadata"] = [f \in Files \ {"metadata"} |-> bundle[f]]

(***************************************************************************)
(* A bundle that passes its checksums has the model its metadata describe, *)
(* although files were replaced while it was read, or left half done by a  *)
(* training that died.  The exception is a training that goes on beside    *)
(* the evaluation and writes again, byte for byte, what one before it      *)
(* wrote: the file that is hashed may then be the described one, and the   *)
(* one that was loaded another epoch's.                                    *)
(***************************************************************************)
RunsAgain(r, first) ==
  \E t, u \in 1 .. training : t < u /\ first <= u /\ recipe[t] = r /\ recipe[u] = r

EvaluatesDescribedModel ==
  LET described == evaluator.got["metadata"] IN
  evaluator.is \in {"test", "report"} /\ described # None =>
    \/ evaluator.got["model"] = described["model"]
    \/ RunsAgain(described["model"][1], evaluator.first)

(***************************************************************************)
(* "ETL publishes atomically through a CURRENT pointer": once a run is     *)
(* published the pointer names one, and a reader can resolve it.           *)
(***************************************************************************)
PointerNamesARun == current # None => current \in Runs

(***************************************************************************)
(* "A model-quality number on data the model never saw": no reading is a   *)
(* target both of the evaluation and of training or validation.  Not so    *)
(* without a manifest for two households or more: there the hash hands out *)
(* whole timelines, and testing takes the end of all of them.              *)
(***************************************************************************)
TestIsUnseen ==
  evaluator.is = "report" /\ mode # "many" =>
    Targets("test") \cap (Targets("train") \cup Targets("val")) = {}

==============================================================================
