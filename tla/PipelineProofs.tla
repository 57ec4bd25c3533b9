---------------------------- MODULE PipelineProofs ----------------------------
(***************************************************************************)
(* Theorems about Pipeline, for any runs of the ETL, any stages, epochs and *)
(* losses: processes that meet only in files, die and are started again;   *)
(* for any households, clusters and quotas: how a cohort is dealt out, and *)
(* whom the test data are of.  At the end, theorems about Etl: what run_etl *)
(* makes of a household's file, for any file and any length.               *)
(***************************************************************************)
EXTENDS Pipeline, Etl, SequenceTheorems, FunctionTheorems, FiniteSetTheorems,
        WellFoundedInduction, TLAPS

Parts   == Files \ {"metadata"}
Models  == Nat \X Losses
Content == {None, Torn} \cup Nat \cup Models
Metas   == [Parts -> Content]
Views   == [published : BOOLEAN, runs : SUBSET Runs]

TrainerType ==
  [is : {"off", "train", "val", "warm", "epoch", "next"} \cup Files, stage : Nat, epoch : Nat,
   best : Losses \cup {None}, lowest : Losses \cup {None}, bad : Nat, views : SUBSET Views]

EvaluatorType ==
  [is : {"off", "hash_model", "hash_scaler", "hash_config", "test", "report"} \cup Files,
   stage : Nat, got : [Files -> Content \cup Metas], views : SUBSET Views, first : Nat]

Doing == {"new", "writing", "written", "opened", "moved", "lost", "staged", "over"}

TypeOK ==
  /\ etl \in [Runs -> Doing]
  /\ files \in [Runs -> {"none", "part", "whole"}]
  /\ training \in Nat
  /\ trainer \in TrainerType
  /\ evaluator \in EvaluatorType
  /\ trainer.is # "off" => trainer.stage \in 1 .. Stages
  /\ trainer.is = "model" => trainer.best \in Losses
  /\ evaluator.is # "off" => evaluator.stage \in 1 .. Stages
  /\ disk \in [1 .. Stages -> [Files -> Content \cup Metas]]
  /\ \A s \in 1 .. Stages, f \in Parts : disk[s][f] \in Content

(***************************************************************************)
(* A run's name is in CURRENT or CURRENT.tmp only when its files are       *)
(* complete, and they stay so: nobody begins the same run again.  It is    *)
(* the same with a name that has not been written yet, wherever it will go *)
(***************************************************************************)
Published ==
  /\ \A r \in Runs : etl[r] = "new" => files[r] = "none"
  /\ \A r \in Runs : etl[r] \in {"written", "opened", "moved", "lost", "staged"}
                      => files[r] = "whole"
  /\ staged \notin {None, Torn} => staged \in Runs /\ files[staged] = "whole"
  /\ current \notin {None, Torn} => current \in Runs /\ files[current] = "whole"

DataInv == TypeOK /\ Published /\ ReadsOneRun

\* The trainings are counted, and there is a recipe for each.
Trainings ==
  /\ recipe \in [1 .. MaxTrainings -> Nat]
  /\ training \in 0 .. MaxTrainings
  /\ trainer.is # "off" => training >= 1

-------------------------------------------------------------------------------
LEMMA ViewType ==
  ASSUME Published, current # Torn
  PROVE  /\ View \in Views
         /\ View.published => \E r \in Runs : View.runs = {r} /\ files[r] = "whole"
<1>1. CASE current = None
  BY <1>1 DEF View, Views
<1>2. CASE current # None
  BY <1>2 DEF View, Views, Published
<1> QED
  BY <1>1, <1>2

LEMMA NobodyType == NoTrainer \in TrainerType /\ NoEvaluator \in EvaluatorType
  BY DEF NoTrainer, NoEvaluator, TrainerType, EvaluatorType, Content

LEMMA SomeStage == Stages \in Nat /\ 1 \in 1 .. Stages
<1>1. Stages \in Nat \ {0}
  BY PipelineAssumption
<1> QED
  BY <1>1

LEMMA TrainingsInit == Init => Trainings
<1> SUFFICES ASSUME Init PROVE Trainings
  OBVIOUS
<1>1. MaxTrainings \in Nat
  BY PipelineAssumption
<1>2. recipe \in [1 .. MaxTrainings -> 1 .. MaxTrainings] /\ training = 0 /\ trainer = NoTrainer
  BY DEF Init
<1>3. recipe \in [1 .. MaxTrainings -> Nat] /\ 0 \in 0 .. MaxTrainings
  BY <1>1, <1>2
<1> QED
  BY <1>2, <1>3 DEF Trainings, NoTrainer

LEMMA TrainingsStep == Trainings /\ [Next]_vars => Trainings'
<1> SUFFICES ASSUME Trainings, [Next]_vars PROVE Trainings'
  OBVIOUS
<1>0. MaxTrainings \in Nat
  BY PipelineAssumption
<1>1. CASE StartTraining
  <2>1. recipe' = recipe /\ training < MaxTrainings /\ training' = training + 1
    BY <1>1 DEF StartTraining, chosen
  <2>2. training' \in 0 .. MaxTrainings /\ training' >= 1
    BY <1>0, <2>1 DEF Trainings
  <2> QED
    BY <2>1, <2>2 DEF Trainings
<1>2. ASSUME UNCHANGED <<recipe, training>>, trainer.is = "off" => trainer' = trainer
      PROVE  Trainings'
  BY <1>2 DEF Trainings
<1>3. CASE \/ WarmStart \/ Continue \/ TrainingDies
           \/ \E part \in {"train", "val"} : ReadSplit(part)
           \/ \E loss \in Losses \cup {NaN} : Epoch(loss)
           \/ \E f \in Files : SaveFile(f)
  <2>1. UNCHANGED <<recipe, training>> /\ trainer.is # "off"
    BY <1>3 DEF WarmStart, Continue, TrainingDies, ReadSplit, Epoch, SaveFile, chosen, Files
  <2> QED
    BY <1>2, <2>1
<1>4. CASE \/ Recluster \/ WriteManifest \/ ReadTest \/ EvaluationEnds \/ UNCHANGED vars
           \/ \E r \in Runs : \/ WriteSome(r) \/ WriteRest(r) \/ Open(r) \/ Stage(r)
                              \/ Publish(r) \/ EtlDies(r)
           \/ \E s \in 1 .. Stages : StartEvaluation(s)
           \/ \E f \in Parts : Check(f)
           \/ \E f \in Files : ReadFile(f)
  <2>1. UNCHANGED <<recipe, training, trainer>>
    BY <1>4 DEF Recluster, WriteManifest, ReadTest, EvaluationEnds, vars, WriteSome, WriteRest, Open,
       Stage, Publish, EtlDies, StartEvaluation, Check, ReadFile, chosen
  <2> QED
    BY <1>2, <2>1
<1> QED
  BY <1>1, <1>3, <1>4 DEF Next, Parts

LEMMA DataInit == Init => DataInv
<1> SUFFICES ASSUME Init PROVE DataInv
  OBVIOUS
<1>1. disk \in [1 .. Stages -> [Files -> Content \cup Metas]]
  BY DEF Init, Content
<1>2. \A s \in 1 .. Stages, f \in Parts : disk[s][f] \in Content
  BY DEF Init, Content, Parts
<1>3. trainer.is = "off" /\ evaluator.is = "off" /\ trainer.views = {} /\ evaluator.views = {}
  BY DEF Init, NoTrainer, NoEvaluator
<1>4. TypeOK
  BY <1>1, <1>2, <1>3, NobodyType DEF Init, TypeOK, Doing
<1> QED
  BY <1>3, <1>4 DEF Init, DataInv, Published, ReadsOneRun

\* What a process read of a published dataset stays complete.
LEMMA ReadsKept ==
  ASSUME ReadsOneRun, \A r \in Runs : files[r] = "whole" => files'[r] = "whole",
         \A v \in trainer'.views \cup evaluator'.views :
           \/ v \in trainer.views \cup evaluator.views
           \/ v.published => \E r \in Runs : v.runs = {r} /\ files'[r] = "whole"
  PROVE  ReadsOneRun'
  BY DEF ReadsOneRun

LEMMA EtlStep ==
  ASSUME DataInv, NEW r \in Runs,
         WriteSome(r) \/ WriteRest(r) \/ Open(r) \/ Stage(r) \/ Publish(r) \/ EtlDies(r)
  PROVE  DataInv'
<1> USE DEF DataInv
<1>1. UNCHANGED <<disk, training, trainer, evaluator>>
  BY DEF WriteSome, WriteRest, Open, Stage, Publish, EtlDies
<1>2. /\ etl' \in [Runs -> Doing]
      /\ files' \in [Runs -> {"none", "part", "whole"}]
  BY DEF WriteSome, WriteRest, Open, Stage, Publish, EtlDies, TypeOK, Doing
<1>3. TypeOK'
  BY <1>1, <1>2 DEF TypeOK
<1>4. CASE WriteSome(r)
  <2>1. Published' /\ \A q \in Runs : files[q] = "whole" => files'[q] = "whole"
    BY <1>4 DEF WriteSome, TypeOK, Published
  <2> QED
    BY <1>1, <1>3, <2>1, ReadsKept
<1>5. CASE WriteRest(r)
  <2>1. Published' /\ \A q \in Runs : files[q] = "whole" => files'[q] = "whole"
    BY <1>5 DEF WriteRest, TypeOK, Published
  <2> QED
    BY <1>1, <1>3, <2>1, ReadsKept
<1>6. CASE Open(r)
  BY <1>1, <1>3, <1>6 DEF Open, MayStage, TypeOK, Published, ReadsOneRun
<1>9. CASE Stage(r)
  BY <1>1, <1>3, <1>9 DEF Stage, TypeOK, Published, ReadsOneRun
<1>7. CASE Publish(r)
  BY <1>1, <1>3, <1>7 DEF Publish, TypeOK, Published, ReadsOneRun
<1>8. CASE EtlDies(r)
  BY <1>1, <1>3, <1>8 DEF EtlDies, TypeOK, Published, ReadsOneRun
<1> QED
  BY <1>4, <1>5, <1>6, <1>7, <1>8, <1>9

\* The files a bundle is saved in, one after the other.
LEMMA SaveType ==
  ASSUME TypeOK, Trainings, NEW f \in Files, SaveFile(f)
  PROVE  /\ disk' \in [1 .. Stages -> [Files -> Content \cup Metas]]
         /\ \A s \in 1 .. Stages, g \in Parts : disk'[s][g] \in Content
         /\ \E l \in Files \cup {"next"} : trainer' = [trainer EXCEPT !.is = l]
<1> DEFINE t == trainer.stage
<1>0. recipe[training] \in Nat
  BY PipelineAssumption DEF Trainings, SaveFile, Files
<1>1. t \in 1 .. Stages
  BY DEF SaveFile, TypeOK, Files
<1>2. disk[t] \in [Files -> Content \cup Metas] /\ Torn \in Content
  BY <1>1 DEF TypeOK, Content
<1>3. ASSUME NEW g \in Files, NEW c \in Content, g # "metadata",
             disk' = [disk EXCEPT ![t][g] = c, ![t][NextFile[g]] = Torn]
      PROVE  /\ disk' \in [1 .. Stages -> [Files -> Content \cup Metas]]
             /\ \A s \in 1 .. Stages, h \in Parts : disk'[s][h] \in Content
  <2>1. NextFile[g] \in Files
    BY <1>3 DEF NextFile, Files
  <2>2. disk' \in [1 .. Stages -> [Files -> Content \cup Metas]]
    BY <1>1, <1>2, <1>3, <2>1 DEF TypeOK
  <2>3. \A s \in 1 .. Stages, h \in Parts :
          disk'[s][h] = disk[s][h] \/ disk'[s][h] = c \/ disk'[s][h] = Torn
    BY <1>1, <1>2, <1>3, <2>1 DEF TypeOK, Parts
  <2> QED
    BY <1>2, <1>3, <2>2, <2>3 DEF TypeOK
<1>4. CASE f = "metadata"
  <2>1. disk' = [disk EXCEPT ![t]["metadata"] = [g \in Parts |-> disk[t][g]]]
        /\ trainer' = [trainer EXCEPT !.is = "next"]
    BY <1>4 DEF SaveFile, Parts
  <2>2. [g \in Parts |-> disk[t][g]] \in Metas
    BY <1>1 DEF TypeOK, Metas
  <2>3. disk' \in [1 .. Stages -> [Files -> Content \cup Metas]]
    BY <1>1, <1>2, <2>1, <2>2 DEF TypeOK
  <2>4. \A s \in 1 .. Stages, h \in Parts : disk'[s][h] = disk[s][h]
    BY <1>1, <1>2, <2>1 DEF TypeOK, Parts
  <2> QED
    BY <2>1, <2>3, <2>4 DEF TypeOK
<1>5. CASE f = "model"
  <2>1. <<recipe[training], trainer.best>> \in Content
    BY <1>0, <1>5 DEF SaveFile, TypeOK, Content, Models
  <2>2. disk' = [disk EXCEPT ![t]["model"] = <<recipe[training], trainer.best>>, ![t][NextFile["model"]] = Torn]
        /\ trainer' = [trainer EXCEPT !.is = NextFile["model"]]
    BY <1>5 DEF SaveFile
  <2>3. NextFile["model"] \in Files
    BY DEF NextFile, Files
  <2> QED
    BY <1>3, <1>5, <2>1, <2>2, <2>3
<1>6. CASE f \in {"scaler", "config"}
  <2>1. recipe[training] \in Content
    BY <1>0 DEF Content
  <2>2. disk' = [disk EXCEPT ![t][f] = recipe[training], ![t][NextFile[f]] = Torn]
        /\ trainer' = [trainer EXCEPT !.is = NextFile[f]]
    BY <1>6 DEF SaveFile
  <2>3. NextFile[f] \in Files
    BY <1>6 DEF NextFile, Files
  <2> QED
    BY <1>3, <1>6, <2>1, <2>2, <2>3
<1> QED
  BY <1>4, <1>5, <1>6 DEF Files

LEMMA TrainStep ==
  ASSUME DataInv, Trainings,
         \/ StartTraining \/ WarmStart \/ Continue \/ TrainingDies
         \/ \E part \in {"train", "val"} : ReadSplit(part)
         \/ \E loss \in Losses \cup {NaN} : Epoch(loss)
         \/ \E f \in Files : SaveFile(f)
  PROVE  DataInv'
<1> USE DEF DataInv
<1>1. UNCHANGED <<etl, files, staged, current, evaluator>>
  BY DEF StartTraining, WarmStart, Continue, TrainingDies, ReadSplit, Epoch, SaveFile, dataset
<1>2. Published'
  BY <1>1 DEF Published
<1>t. /\ trainer \in TrainerType /\ training \in Nat
      /\ trainer.is # "off" => trainer.stage \in 1 .. Stages
  BY DEF TypeOK
<1>3. ASSUME StartTraining \/ WarmStart \/ Continue \/ TrainingDies PROVE DataInv'
  <2>1. disk' = disk /\ training' \in Nat
    BY <1>3, <1>t DEF StartTraining, WarmStart, Continue, TrainingDies
  <2>2. /\ trainer' \in TrainerType /\ trainer'.is # "model"
        /\ trainer'.is # "off" => trainer'.stage \in 1 .. Stages
        /\ trainer'.views \subseteq trainer.views
    <3>1. CASE StartTraining
      <4>1. trainer' = [is |-> "train", stage |-> 1, epoch |-> 0, best |-> None, lowest |-> None,
                        bad |-> 0, views |-> {}]
        BY <3>1 DEF StartTraining, NoTrainer
      <4>2. trainer' \in TrainerType
        BY <4>1 DEF TrainerType
      <4> QED
        BY <4>1, <4>2, SomeStage
    <3>2. CASE WarmStart
      BY <1>t, <3>2 DEF WarmStart, TrainerType
    <3>3. CASE Continue
      <4>1. Stages \in Nat /\ trainer.stage \in 1 .. Stages
        BY <1>t, <3>3, SomeStage DEF Continue
      <4>2. CASE trainer' = [trainer EXCEPT !.is = "epoch"]
        BY <1>t, <4>1, <4>2 DEF TrainerType
      <4>3. CASE /\ trainer.stage < Stages
                 /\ trainer' = [NoTrainer EXCEPT !.is = "train", !.stage = trainer.stage + 1]
        <5>1. trainer' = [is |-> "train", stage |-> trainer.stage + 1, epoch |-> 0, best |-> None,
                          lowest |-> None, bad |-> 0, views |-> {}]
          BY <4>3 DEF NoTrainer
        <5>2. trainer.stage + 1 \in 1 .. Stages
          BY <4>1, <4>3
        <5>3. trainer' \in TrainerType
          BY <5>1, <5>2 DEF TrainerType
        <5> QED
          BY <5>1, <5>2, <5>3
      <4>4. CASE trainer' = NoTrainer
        BY <4>4, NobodyType DEF NoTrainer
      <4> QED
        BY <3>3, <4>2, <4>3, <4>4 DEF Continue
    <3>4. CASE TrainingDies
      BY <3>4, NobodyType DEF TrainingDies, NoTrainer
    <3> QED
      BY <1>3, <3>1, <3>2, <3>3, <3>4
  <2>3. TypeOK'
    BY <1>1, <2>1, <2>2 DEF TypeOK
  <2> QED
    BY <1>1, <1>2, <2>2, <2>3, ReadsKept
<1>4. ASSUME NEW part \in {"train", "val"}, ReadSplit(part) PROVE DataInv'
  <2>1. /\ \E l \in {"val", "warm"} : trainer' = [trainer EXCEPT !.is = l, !.views = @ \cup {View}]
        /\ UNCHANGED <<disk, training>> /\ trainer.is = part
    BY <1>4 DEF ReadSplit
  <2>5. current # Torn
    BY <1>4 DEF ReadSplit, Readable
  <2>2. /\ trainer' \in TrainerType /\ trainer'.is # "model"
        /\ trainer'.stage \in 1 .. Stages /\ trainer'.views = trainer.views \cup {View}
    <3>1. PICK l \in {"val", "warm"} : trainer' = [trainer EXCEPT !.is = l, !.views = @ \cup {View}]
      BY <2>1
    <3>2. trainer.views \cup {View} \in SUBSET Views
      BY <1>t, <2>5, ViewType DEF TrainerType
    <3>3. trainer' = [is |-> l, stage |-> trainer.stage, epoch |-> trainer.epoch, best |-> trainer.best,
                      lowest |-> trainer.lowest, bad |-> trainer.bad,
                      views |-> trainer.views \cup {View}]
      BY <1>t, <3>1 DEF TrainerType
    <3>4. trainer' \in TrainerType
      BY <1>t, <3>2, <3>3 DEF TrainerType
    <3> QED
      BY <1>t, <2>1, <3>3, <3>4
  <2>3. TypeOK'
    BY <1>1, <2>1, <2>2 DEF TypeOK
  <2>4. ReadsOneRun'
    BY <1>1, <2>2, <2>5, ViewType, ReadsKept
  <2> QED
    BY <1>2, <2>3, <2>4
<1>5. ASSUME NEW loss \in Losses \cup {NaN}, Epoch(loss) PROVE DataInv'
  <2>1. /\ trainer' \in TrainerType /\ (trainer'.is = "model" => trainer'.best \in Losses)
        /\ trainer'.stage = trainer.stage /\ trainer.is # "off" /\ trainer'.views = trainer.views
    <3>1. Lowest(loss) \in Losses \cup {None}
      BY <1>t DEF Lowest, TrainerType
    <3>2. Improved(loss) => loss \in Losses
      BY <1>5 DEF Improved
    <3>3. /\ trainer.is = "epoch"
          /\ \/ /\ Improved(loss)
                /\ trainer' = [trainer EXCEPT !.epoch = @ + 1, !.lowest = Lowest(loss), !.is = "model",
                                              !.best = loss, !.bad = 0]
             \/ trainer' = [trainer EXCEPT !.epoch = @ + 1, !.lowest = Lowest(loss), !.is = "next",
                                           !.bad = @ + 1]
      BY <1>5 DEF Epoch
    <3>4. CASE /\ Improved(loss)
               /\ trainer' = [trainer EXCEPT !.epoch = @ + 1, !.lowest = Lowest(loss), !.is = "model",
                                             !.best = loss, !.bad = 0]
      <4>1. trainer' = [is |-> "model", stage |-> trainer.stage, epoch |-> trainer.epoch + 1,
                        best |-> loss, lowest |-> Lowest(loss), bad |-> 0, views |-> trainer.views]
        BY <1>t, <3>4 DEF TrainerType
      <4>2. trainer' \in TrainerType
        BY <1>t, <3>1, <3>2, <3>4, <4>1 DEF TrainerType, Files
      <4> QED
        BY <3>2, <3>3, <3>4, <4>1, <4>2
    <3>5. CASE trainer' = [trainer EXCEPT !.epoch = @ + 1, !.lowest = Lowest(loss), !.is = "next",
                                          !.bad = @ + 1]
      <4>1. trainer' = [is |-> "next", stage |-> trainer.stage, epoch |-> trainer.epoch + 1,
                        best |-> trainer.best, lowest |-> Lowest(loss), bad |-> trainer.bad + 1,
                        views |-> trainer.views]
        BY <1>t, <3>5 DEF TrainerType
      <4>2. trainer' \in TrainerType
        BY <1>t, <3>1, <4>1 DEF TrainerType
      <4> QED
        BY <3>3, <4>1, <4>2
    <3> QED
      BY <3>3, <3>4, <3>5
  <2>2. disk' = disk \/ disk' = [disk EXCEPT ![trainer.stage]["model"] = Torn]
    <3>1. LET t == [trainer EXCEPT !.epoch = @ + 1, !.lowest = Lowest(loss)] IN
          t.stage = trainer.stage
      BY <1>t DEF TrainerType
    <3> QED
      BY <1>5, <3>1 DEF Epoch
  <2>3. /\ disk' \in [1 .. Stages -> [Files -> Content \cup Metas]]
        /\ \A s \in 1 .. Stages, f \in Parts : disk'[s][f] \in Content
    <3>1. trainer.stage \in 1 .. Stages /\ Torn \in Content /\ "model" \in Files
      BY <1>t, <2>1 DEF Content, Files
    <3>2. disk' \in [1 .. Stages -> [Files -> Content \cup Metas]]
      <4>1. disk[trainer.stage] \in [Files -> Content \cup Metas]
        BY <3>1 DEF TypeOK
      <4>2. [disk[trainer.stage] EXCEPT !["model"] = Torn] \in [Files -> Content \cup Metas]
        BY <3>1, <4>1
      <4>3. disk \in [1 .. Stages -> [Files -> Content \cup Metas]]
        BY DEF TypeOK
      <4> QED
        BY <2>2, <3>1, <4>2, <4>3
    <3>3. \A s \in 1 .. Stages, f \in Parts : disk'[s][f] = disk[s][f] \/ disk'[s][f] = Torn
      <4>1. /\ disk \in [1 .. Stages -> [Files -> Content \cup Metas]]
            /\ disk[trainer.stage] \in [Files -> Content \cup Metas]
        BY <3>1 DEF TypeOK
      <4>2. CASE disk' = [disk EXCEPT ![trainer.stage]["model"] = Torn]
        BY <3>1, <4>1, <4>2 DEF Parts
      <4> QED
        BY <2>2, <4>2
    <3> QED
      BY <3>1, <3>2, <3>3 DEF TypeOK
  <2>4. TypeOK'
    BY <1>1, <1>5, <1>t, <2>1, <2>3 DEF Epoch, TypeOK
  <2> QED
    BY <1>1, <1>2, <2>1, <2>4, ReadsKept
<1>6. ASSUME NEW f \in Files, SaveFile(f) PROVE DataInv'
  <2>1. PICK l \in Files \cup {"next"} : trainer' = [trainer EXCEPT !.is = l]
    BY <1>6, SaveType
  <2>2. trainer.is = f /\ training' = training
    BY <1>6 DEF SaveFile
  <2>3. l # "model"
    BY <1>6, <1>t, <2>1 DEF SaveFile, NextFile, Files, TrainerType
  <2>4. /\ trainer' \in TrainerType /\ trainer'.is = l
        /\ trainer'.stage = trainer.stage /\ trainer'.views = trainer.views
    BY <1>t, <2>1 DEF TrainerType
  <2>5. TypeOK'
    BY <1>1, <1>6, <1>t, <2>2, <2>3, <2>4, SaveType DEF TypeOK, Files
  <2> QED
    BY <1>1, <1>2, <2>4, <2>5, ReadsKept
<1> QED
  BY <1>3, <1>4, <1>5, <1>6

LEMMA EvaluateStep ==
  ASSUME DataInv,
         \/ ReadTest \/ EvaluationEnds
         \/ \E f \in Parts : Check(f)
         \/ \E s \in 1 .. Stages : StartEvaluation(s)
         \/ \E f \in Files : ReadFile(f)
  PROVE  DataInv'
<1> USE DEF DataInv
<1>1. UNCHANGED <<etl, files, staged, current, disk, training, trainer>>
  BY DEF Check, ReadTest, EvaluationEnds, StartEvaluation, ReadFile, dataset, Parts
<1>2. Published'
  BY <1>1 DEF Published
<1>t. evaluator \in EvaluatorType /\ (evaluator.is # "off" => evaluator.stage \in 1 .. Stages)
  BY DEF TypeOK
<1>3. /\ evaluator' \in EvaluatorType
      /\ evaluator'.is # "off" => evaluator'.stage \in 1 .. Stages
      /\ evaluator'.views # evaluator.views /\ evaluator'.views # {} =>
           current # Torn /\ evaluator'.views = {View}
  <2>1. CASE ReadTest
    <3>1. /\ evaluator' = [is |-> "report", stage |-> evaluator.stage, got |-> evaluator.got,
                           views |-> {View}, first |-> evaluator.first]
          /\ evaluator.is # "off" /\ current # Torn
      BY <1>t, <2>1 DEF ReadTest, EvaluatorType, Readable
    <3>2. evaluator' \in EvaluatorType
      BY <1>t, <3>1, ViewType DEF EvaluatorType
    <3> QED
      BY <1>t, <3>1, <3>2
  <2>5. ASSUME NEW f \in Parts, Check(f)
        PROVE  /\ evaluator' \in EvaluatorType /\ evaluator'.stage \in 1 .. Stages
               /\ evaluator'.views = evaluator.views
    <3>1. evaluator' = [evaluator EXCEPT !.is = NextHash[f]] /\ evaluator.is = Hashing[f]
      BY <2>5 DEF Check
    <3>2. evaluator.is # "off" /\ NextHash[f] \in {"hash_scaler", "hash_config", "test"}
      BY <3>1 DEF Hashing, NextHash, Parts, Files
    <3> QED
      BY <1>t, <3>1, <3>2 DEF EvaluatorType
  <2>2. CASE EvaluationEnds
    BY <2>2, NobodyType DEF EvaluationEnds, NoEvaluator
  <2>3. ASSUME NEW s \in 1 .. Stages, StartEvaluation(s)
        PROVE  /\ evaluator' \in EvaluatorType /\ evaluator'.stage \in 1 .. Stages
               /\ evaluator'.views = {}
    <3>1. \E n \in {training, training + 1} :
             evaluator' = [is |-> "config", stage |-> s, got |-> [f \in Files |-> None],
                           views |-> {}, first |-> n]
      BY <2>3 DEF StartEvaluation, NoEvaluator
    <3>4. training \in Nat
      BY DEF TypeOK
    <3>2. [f \in Files |-> None] \in [Files -> Content \cup Metas] /\ "config" \in Files /\ s \in Nat
      BY SomeStage DEF Content, Files
    <3>3. evaluator' \in EvaluatorType
      BY <3>1, <3>2, <3>4 DEF EvaluatorType
    <3> QED
      BY <3>1, <3>3
  <2>4. ASSUME NEW f \in Files, ReadFile(f)
        PROVE  /\ evaluator' \in EvaluatorType /\ evaluator'.stage \in 1 .. Stages
               /\ evaluator'.views = evaluator.views
    <3>1. evaluator.stage \in 1 .. Stages
      BY <1>t, <2>4 DEF ReadFile, Files
    <3>2. /\ disk[evaluator.stage][f] \in Content \cup Metas
          /\ NextRead[f] \in Files \cup {"hash_model"}
      BY <3>1 DEF TypeOK, NextRead, Files
    <3>3. evaluator' = [evaluator EXCEPT !.is = NextRead[f], !.got[f] = disk[evaluator.stage][f]]
      BY <2>4 DEF ReadFile
    <3> QED
      BY <1>t, <3>1, <3>2, <3>3 DEF EvaluatorType
  <2> QED
    BY <2>1, <2>2, <2>3, <2>4, <2>5
<1>4. TypeOK'
  BY <1>1, <1>3 DEF TypeOK
<1>5. ReadsOneRun'
  BY <1>1, <1>3, ViewType, ReadsKept
<1> QED
  BY <1>2, <1>4, <1>5

LEMMA DataStep == Trainings /\ DataInv /\ [Next]_vars => DataInv'
<1> SUFFICES ASSUME Trainings, DataInv, [Next]_vars PROVE DataInv'
  OBVIOUS
<1>1. CASE Recluster \/ WriteManifest \/ UNCHANGED vars
  <2>1. UNCHANGED <<etl, files, staged, current, disk, training, trainer, evaluator>>
    BY <1>1 DEF Recluster, WriteManifest, vars, dataset
  <2>2. TypeOK'
    BY <2>1 DEF DataInv, TypeOK
  <2>3. Published'
    BY <2>1 DEF DataInv, Published
  <2>4. ReadsOneRun'
    BY <2>1 DEF DataInv, ReadsOneRun
  <2> QED
    BY <2>2, <2>3, <2>4 DEF DataInv
<1> QED
  BY <1>1, EtlStep, TrainStep, EvaluateStep DEF Next, Parts

(***************************************************************************)
(* "An incomplete run cannot replace the last valid dataset": whoever      *)
(* resolves the pointer, in whatever order runs write, stage, publish and  *)
(* die, gets one run, complete, and it stays complete.                     *)
(***************************************************************************)
THEOREM ReadersGetOneRun == Spec => []ReadsOneRun
<1>1. DataInv => ReadsOneRun
  BY DEF DataInv
<1> QED
  BY <1>1, TrainingsInit, TrainingsStep, DataInit, DataStep, PTL DEF Spec

-------------------------------------------------------------------------------
(***************************************************************************)
(* What the steps of a training do to its bundle.                          *)
(***************************************************************************)
LEMMA EpochEffect ==
  ASSUME TypeOK, NEW loss \in Losses \cup {NaN}, Epoch(loss)
  PROVE  /\ trainer.is = "epoch" /\ trainer'.stage = trainer.stage
         /\ trainer'.lowest = Lowest(loss) /\ UNCHANGED <<recipe, training, evaluator>>
         /\ \/ /\ Improved(loss) /\ trainer'.is = "model" /\ trainer'.best = loss
               /\ disk' = [disk EXCEPT ![trainer.stage]["model"] = Torn]
            \/ /\ ~Improved(loss) /\ trainer'.is = "next" /\ trainer'.best = trainer.best
               /\ disk' = disk
<1>1. trainer \in TrainerType /\ trainer.is = "epoch"
  BY DEF TypeOK, Epoch
<1>5. recipe' = recipe
  BY DEF Epoch, chosen
<1>2. LET t == [trainer EXCEPT !.epoch = @ + 1, !.lowest = Lowest(loss)] IN
      t.stage = trainer.stage
  BY <1>1 DEF TrainerType
<1>3. CASE Improved(loss)
  <2>1. /\ trainer' = [trainer EXCEPT !.epoch = @ + 1, !.lowest = Lowest(loss), !.is = "model",
                                      !.best = loss, !.bad = 0]
        /\ disk' = [disk EXCEPT ![trainer.stage]["model"] = Torn]
    BY <1>2, <1>3 DEF Epoch
  <2>2. /\ trainer'.is = "model" /\ trainer'.best = loss /\ trainer'.lowest = Lowest(loss)
        /\ trainer'.stage = trainer.stage
    BY <1>1, <2>1 DEF TrainerType
  <2> QED
    BY <1>1, <1>3, <1>5, <2>1, <2>2 DEF Epoch
<1>4. CASE ~Improved(loss)
  <2>1. /\ trainer' = [trainer EXCEPT !.epoch = @ + 1, !.lowest = Lowest(loss), !.is = "next",
                                      !.bad = @ + 1]
        /\ disk' = disk
    BY <1>4 DEF Epoch
  <2>2. /\ trainer'.is = "next" /\ trainer'.best = trainer.best /\ trainer'.lowest = Lowest(loss)
        /\ trainer'.stage = trainer.stage
    BY <1>1, <2>1 DEF TrainerType
  <2> QED
    BY <1>1, <1>4, <1>5, <2>1, <2>2 DEF Epoch
<1> QED
  BY <1>3, <1>4

LEMMA SaveEffect ==
  ASSUME TypeOK, NEW f \in Files, SaveFile(f)
  PROVE  /\ trainer.is = f /\ trainer.stage \in 1 .. Stages
         /\ \A s \in 1 .. Stages : s # trainer.stage => disk'[s] = disk[s]
         /\ trainer'.is = IF f = "metadata" THEN "next" ELSE NextFile[f]
         /\ trainer'.stage = trainer.stage /\ trainer'.best = trainer.best
         /\ trainer'.lowest = trainer.lowest /\ UNCHANGED <<recipe, training, evaluator>>
         /\ disk'[trainer.stage]["model"] =
              IF f = "model" THEN <<recipe[training], trainer.best>> ELSE disk[trainer.stage]["model"]
         /\ disk'[trainer.stage]["metadata"] =
              CASE f = "metadata" -> [g \in Parts |-> disk[trainer.stage][g]]
                [] f = "config"   -> Torn
                [] OTHER          -> disk[trainer.stage]["metadata"]
         /\ f = "metadata" => \A g \in Parts : disk'[trainer.stage][g] = disk[trainer.stage][g]
<1>1. /\ trainer \in TrainerType /\ trainer.is = f /\ trainer.stage \in 1 .. Stages
      /\ disk \in [1 .. Stages -> [Files -> Content \cup Metas]]
      /\ disk[trainer.stage] \in [Files -> Content \cup Metas]
  BY DEF TypeOK, SaveFile, Files
<1>2. UNCHANGED <<recipe, training, evaluator>>
  BY DEF SaveFile, chosen
<1>3. CASE f = "metadata"
  <2>1. /\ disk' = [disk EXCEPT ![trainer.stage]["metadata"] = [g \in Parts |-> disk[trainer.stage][g]]]
        /\ trainer' = [trainer EXCEPT !.is = "next"]
    BY <1>3 DEF SaveFile, Parts
  <2> QED
    BY <1>1, <1>2, <1>3, <2>1 DEF TrainerType, Files, Parts
<1>4. CASE f = "model"
  <2>1. /\ disk' = [disk EXCEPT ![trainer.stage]["model"] = <<recipe[training], trainer.best>>,
                                ![trainer.stage]["scaler"] = Torn]
        /\ trainer' = [trainer EXCEPT !.is = NextFile["model"]]
    BY <1>4 DEF SaveFile, NextFile
  <2> QED
    BY <1>1, <1>2, <1>4, <2>1 DEF TrainerType, Files
<1>5. CASE f = "scaler"
  <2>1. /\ disk' = [disk EXCEPT ![trainer.stage]["scaler"] = recipe[training],
                                ![trainer.stage]["config"] = Torn]
        /\ trainer' = [trainer EXCEPT !.is = NextFile["scaler"]]
    BY <1>5 DEF SaveFile, NextFile
  <2> QED
    BY <1>1, <1>2, <1>5, <2>1 DEF TrainerType, Files
<1>6. CASE f = "config"
  <2>1. /\ disk' = [disk EXCEPT ![trainer.stage]["config"] = recipe[training],
                                ![trainer.stage]["metadata"] = Torn]
        /\ trainer' = [trainer EXCEPT !.is = NextFile["config"]]
    BY <1>6 DEF SaveFile, NextFile
  <2> QED
    BY <1>1, <1>2, <1>6, <2>1 DEF TrainerType, Files
<1> QED
  BY <1>3, <1>4, <1>5, <1>6 DEF Files

\* The steps that leave the bundles alone.
LEMMA OtherEffect ==
  ASSUME TypeOK, StartTraining \/ WarmStart \/ Continue \/ TrainingDies
                 \/ \E part \in {"train", "val"} : ReadSplit(part)
  PROVE  /\ UNCHANGED <<disk, evaluator, recipe>>
         /\ \/ trainer'.is = "off" /\ training' = training /\ trainer'.best = trainer'.lowest
            \/ /\ trainer.is = "off" /\ training' = training + 1 /\ trainer'.is = "train"
               /\ trainer'.best = None /\ trainer'.lowest = None
            \/ /\ trainer.is \in {"train", "val"} /\ trainer'.is \in {"val", "warm"}
               /\ training' = training /\ trainer'.stage = trainer.stage
               /\ trainer'.best = trainer.best /\ trainer'.lowest = trainer.lowest
            \/ /\ trainer.is \in {"warm", "next"} /\ trainer'.is = "epoch"
               /\ training' = training /\ trainer'.stage = trainer.stage
               /\ trainer'.best = trainer.best /\ trainer'.lowest = trainer.lowest
            \/ /\ trainer.is = "next" /\ trainer'.is = "train"
               /\ training' = training /\ trainer'.stage = trainer.stage + 1
               /\ trainer'.best = None /\ trainer'.lowest = None
<1>1. trainer \in TrainerType
  BY DEF TypeOK
<1>7. UNCHANGED <<disk, evaluator, recipe>>
  BY DEF StartTraining, WarmStart, Continue, TrainingDies, ReadSplit, chosen
<1>2. CASE StartTraining
  <2>1. /\ trainer' = [is |-> "train", stage |-> 1, epoch |-> 0, best |-> None, lowest |-> None,
                       bad |-> 0, views |-> {}]
        /\ trainer.is = "off" /\ training' = training + 1 /\ UNCHANGED <<disk, evaluator>>
    BY <1>2 DEF StartTraining, NoTrainer
  <2> QED
    BY <1>7, <2>1
<1>6. CASE TrainingDies
  BY <1>6, <1>7 DEF TrainingDies, NoTrainer
<1>5. CASE WarmStart
  BY <1>1, <1>5, <1>7 DEF WarmStart, TrainerType
<1>3. CASE Continue
  BY <1>1, <1>3, <1>7 DEF Continue, NoTrainer, TrainerType
<1>4. ASSUME NEW part \in {"train", "val"}, ReadSplit(part)
      PROVE  /\ trainer.is \in {"train", "val"} /\ trainer'.is \in {"val", "warm"}
             /\ UNCHANGED <<disk, evaluator, training>> /\ trainer'.stage = trainer.stage
             /\ trainer'.best = trainer.best /\ trainer'.lowest = trainer.lowest
  BY <1>1, <1>4 DEF ReadSplit, TrainerType
<1> QED
  BY <1>2, <1>3, <1>4, <1>5, <1>6, <1>7

(***************************************************************************)
(* The bundle of the stage in training: between epochs it is complete and  *)
(* that of the best loss; once its model is saved, the model is that of    *)
(* the best loss.                                                          *)
(***************************************************************************)
Best ==
  /\ trainer.best = trainer.lowest
  /\ trainer.is \in Files => trainer.best \in Losses
  /\ trainer.is \in {"train", "val", "warm"} => trainer.best = None
  /\ trainer.is \in {"scaler", "config", "metadata"} =>
       disk[trainer.stage]["model"] = <<recipe[training], trainer.best>>
  /\ trainer.is \in {"epoch", "next"} /\ trainer.best # None =>
       /\ disk[trainer.stage]["model"] = <<recipe[training], trainer.best>>
       /\ disk[trainer.stage]["metadata"] = [g \in Parts |-> disk[trainer.stage][g]]

LEMMA BestInit == Init => Best
  BY DEF Init, Best, NoTrainer, Files

LEMMA BestStep == DataInv /\ Best /\ [Next]_vars => Best'
<1> SUFFICES ASSUME DataInv, Best, [Next]_vars PROVE Best'
  OBVIOUS
<1>0. TypeOK
  BY DEF DataInv
<1>1. ASSUME NEW loss \in Losses \cup {NaN}, Epoch(loss) PROVE Best'
  <2>1. trainer.lowest = trainer.best
    BY DEF Best
  <2>2. CASE Improved(loss)
    <3>1. trainer'.is = "model" /\ trainer'.best = loss /\ trainer'.lowest = Lowest(loss)
      BY <1>0, <1>1, <2>2, EpochEffect
    <3>2. Lowest(loss) = loss /\ loss \in Losses
      BY <2>1, <2>2 DEF Improved, Lowest
    <3> QED
      BY <3>1, <3>2 DEF Best
  <2>3. CASE ~Improved(loss)
    <3>1. /\ trainer'.is = "next" /\ trainer'.best = trainer.best /\ trainer'.lowest = Lowest(loss)
          /\ UNCHANGED <<disk, recipe, training>> /\ trainer'.stage = trainer.stage
          /\ trainer.is = "epoch"
      BY <1>0, <1>1, <2>3, EpochEffect
    <3>2. Lowest(loss) = trainer.lowest
      BY <2>1, <2>3 DEF Improved, Lowest
    <3> QED
      BY <3>1, <3>2 DEF Best, Files
  <2> QED
    BY <2>2, <2>3
<1>2. ASSUME NEW f \in Files, SaveFile(f) PROVE Best'
  <2>1. /\ trainer.is = f /\ trainer'.stage = trainer.stage /\ trainer'.best = trainer.best
        /\ trainer'.lowest = trainer.lowest /\ UNCHANGED <<recipe, training>>
        /\ trainer'.is = IF f = "metadata" THEN "next" ELSE NextFile[f]
        /\ disk'[trainer.stage]["model"] =
             IF f = "model" THEN <<recipe[training], trainer.best>> ELSE disk[trainer.stage]["model"]
    BY <1>0, <1>2, SaveEffect
  <2>2. trainer.best = trainer.lowest /\ trainer.best \in Losses
    BY <1>2, <2>1 DEF Best
  <2>3. disk'[trainer.stage]["model"] = <<recipe[training], trainer.best>>
    BY <2>1 DEF Best, Files
  <2>4. CASE f = "metadata"
    <3>1. /\ disk'[trainer.stage]["metadata"] = [g \in Parts |-> disk[trainer.stage][g]]
          /\ \A g \in Parts : disk'[trainer.stage][g] = disk[trainer.stage][g]
      BY <1>0, <1>2, <2>4, SaveEffect
    <3>2. disk'[trainer.stage]["metadata"] = [g \in Parts |-> disk'[trainer.stage][g]]
      BY <3>1
    <3> QED
      BY <2>1, <2>2, <2>3, <2>4, <3>2 DEF Best, Files
  <2>5. CASE f # "metadata"
    BY <2>1, <2>2, <2>3, <2>5 DEF Best, Files, NextFile
  <2> QED
    BY <2>4, <2>5
<1>3. ASSUME StartTraining \/ WarmStart \/ Continue \/ TrainingDies
             \/ \E part \in {"train", "val"} : ReadSplit(part)
      PROVE  Best'
  BY <1>0, <1>3, OtherEffect DEF Best, Files
<1>4. CASE UNCHANGED <<trainer, recipe, training, disk>>
  BY <1>4 DEF Best
<1>5. ASSUME \/ Recluster \/ WriteManifest \/ ReadTest \/ EvaluationEnds \/ UNCHANGED vars
             \/ \E r \in Runs : \/ WriteSome(r) \/ WriteRest(r) \/ Open(r) \/ Stage(r)
                                \/ Publish(r) \/ EtlDies(r)
             \/ \E f \in Parts : Check(f)
             \/ \E s \in 1 .. Stages : StartEvaluation(s)
             \/ \E f \in Files : ReadFile(f)
      PROVE  Best'
  BY <1>4, <1>5 DEF Recluster, WriteManifest, Check, ReadTest, EvaluationEnds, vars, WriteSome,
     WriteRest, Open, Stage, Publish, EtlDies, StartEvaluation, ReadFile, chosen
<1> QED
  BY <1>1, <1>2, <1>3, <1>5 DEF Next, Parts

(***************************************************************************)
(* After each epoch the bundle of the stage is complete and that of the    *)
(* lowest loss so far, however many losses are NaN and whatever trainings  *)
(* before it have left in the directory.                                   *)
(***************************************************************************)
THEOREM BestModelIsKept == Spec => []BestIsKept
<1>1. Best => BestIsKept
  BY DEF Best, BestIsKept, Parts
<1> QED
  BY <1>1, TrainingsInit, TrainingsStep, DataInit, DataStep, BestInit, BestStep, PTL DEF Spec

-------------------------------------------------------------------------------
(***************************************************************************)
(* Models are told apart by their recipe and their loss.  A training never *)
(* saves the same one twice, as its best loss only falls, and another one  *)
(* saves it again only if it has the same recipe.  Earlier(s, t, c) says   *)
(* that c is a model that training t gave stage s, and that the next one   *)
(* it saves there, if it is still going on, is another.                    *)
(***************************************************************************)
Earlier(s, t, c) ==
  /\ c \in Models /\ t \in 1 .. training /\ c[1] = recipe[t]
  /\ trainer.is # "off" /\ trainer.stage < s => t < training
  /\ trainer.is # "off" /\ trainer.stage = s =>
       \/ t < training
       \/ trainer.best # None /\ trainer.best <= c[2] /\ (trainer.is = "model" => trainer.best < c[2])

HadBefore(s, c) == \E t \in Nat : Earlier(s, t, c)

\* The models that metadata describe, on disk and in the evaluator's memory.
Described ==
  /\ \A s \in 1 .. Stages : disk[s]["metadata"] \notin {None, Torn} =>
       disk[s]["metadata"] \in Metas /\ HadBefore(s, disk[s]["metadata"]["model"])
  /\ evaluator.is # "off" /\ evaluator.got["metadata"] # None =>
       /\ evaluator.got["metadata"] \in Metas
       /\ HadBefore(evaluator.stage, evaluator.got["metadata"]["model"])

\* A training that goes on now goes on beside the evaluation.
Beside ==
  evaluator.is # "off" =>
    /\ evaluator.first <= training + 1
    /\ trainer.is # "off" => evaluator.first <= training

\* The described model has been read, or another in whose place it came back.
Right ==
  \/ evaluator.got["model"] = evaluator.got["metadata"]["model"]
  \/ RunsAgain(evaluator.got["metadata"]["model"][1], evaluator.first)

Hashed == {"hash_scaler", "hash_config", "test", "report"}

\* Should the model on disk be the described one, it was already when it was read.
Compared ==
  evaluator.got["metadata"] # None =>
    /\ evaluator.is = "hash_model" =>
         (disk[evaluator.stage]["model"] = evaluator.got["metadata"]["model"] => Right)
    /\ evaluator.is \in Hashed => Right

EvalInv == Described /\ Beside /\ Compared

LEMMA EvalInit == Init => EvalInv
  BY DEF Init, EvalInv, Described, Beside, Compared, Hashed, NoEvaluator, Files

\* A model that a stage had stays one that it had.
LEMMA EarlierStays ==
  ASSUME DataInv, Trainings, Best, NEW s \in 1 .. Stages, NEW t \in Nat, NEW c, Earlier(s, t, c),
         \/ StartTraining \/ WarmStart \/ Continue \/ TrainingDies
         \/ \E part \in {"train", "val"} : ReadSplit(part)
         \/ \E loss \in Losses \cup {NaN} : Epoch(loss)
         \/ \E f \in Files : SaveFile(f)
         \/ UNCHANGED <<recipe, training, trainer>>
  PROVE  Earlier(s, t, c)'
<1>0. TypeOK /\ trainer.stage \in Nat /\ training \in Nat /\ s \in Nat
  BY DEF DataInv, TypeOK, TrainerType
<1>1. t \in 1 .. training /\ c[2] \in Nat
  BY PipelineAssumption DEF Earlier, Models
<1>2. Losses \subseteq Nat /\ trainer.best \in Losses \cup {None}
  BY PipelineAssumption DEF DataInv, TypeOK, TrainerType
<1>3. CASE UNCHANGED <<recipe, training, trainer>>
  BY <1>3 DEF Earlier
<1>4. ASSUME NEW loss \in Losses \cup {NaN}, Epoch(loss) PROVE Earlier(s, t, c)'
  <2>1. CASE Improved(loss)
    <3>1. loss \in Losses /\ loss # None /\ (trainer.best = None \/ loss < trainer.best)
      BY <2>1, PipelineAssumption DEF Improved
    <3>2. /\ trainer.is = "epoch" /\ trainer'.is = "model" /\ trainer'.best = loss
          /\ trainer'.stage = trainer.stage /\ UNCHANGED <<recipe, training>>
      BY <1>0, <1>4, <2>1, EpochEffect
    <3>3. trainer.best # None /\ trainer.best <= c[2] => loss < c[2] /\ loss <= c[2]
      <4>1. trainer.best # None => trainer.best \in Nat
        BY <1>2
      <4>2. loss \in Nat /\ (trainer.best # None => loss < trainer.best)
        BY <1>2, <3>1
      <4> QED
        BY <1>1, <4>1, <4>2
    <3>4. t < training \/ (trainer.stage = s => trainer.best # None /\ trainer.best <= c[2])
      BY <3>2 DEF Earlier
    <3> QED
      BY <3>1, <3>2, <3>3, <3>4 DEF Earlier
  <2>2. CASE ~Improved(loss)
    <3>1. /\ trainer.is = "epoch" /\ trainer'.is = "next" /\ trainer'.best = trainer.best
          /\ trainer'.stage = trainer.stage /\ UNCHANGED <<recipe, training>>
      BY <1>0, <1>4, <2>2, EpochEffect
    <3> QED
      BY <3>1 DEF Earlier
  <2> QED
    BY <2>1, <2>2
<1>5. ASSUME NEW f \in Files, SaveFile(f) PROVE Earlier(s, t, c)'
  <2>1. /\ trainer.is # "off" /\ trainer'.is # "model" /\ trainer'.best = trainer.best
        /\ trainer'.stage = trainer.stage /\ UNCHANGED <<recipe, training>>
    BY <1>0, <1>5, SaveEffect DEF Files, NextFile
  <2> QED
    BY <2>1 DEF Earlier
<1>6. ASSUME StartTraining \/ WarmStart \/ Continue \/ TrainingDies
             \/ \E part \in {"train", "val"} : ReadSplit(part)
      PROVE  Earlier(s, t, c)'
  <2>0. recipe' = recipe
    BY <1>0, <1>6, OtherEffect
  <2>1. CASE trainer'.is = "off" /\ training' = training
    BY <2>0, <2>1 DEF Earlier
  <2>2. CASE training' = training + 1
    BY <1>0, <1>1, <2>0, <2>2 DEF Earlier
  <2>3. CASE /\ trainer.is # "off" /\ trainer'.is \notin {"off", "model"} /\ training' = training
             /\ trainer'.stage = trainer.stage /\ trainer'.best = trainer.best
    BY <2>0, <2>3 DEF Earlier
  <2>4. CASE /\ trainer.is = "next" /\ trainer'.is = "train" /\ training' = training
             /\ trainer'.stage = trainer.stage + 1
    BY <1>0, <1>1, <2>0, <2>4 DEF Earlier
  <2> QED
    BY <1>0, <1>6, <2>1, <2>2, <2>3, <2>4, OtherEffect
<1> QED
  BY <1>3, <1>4, <1>5, <1>6

\* What the trainer writes into a bundle the evaluator is reading.
LEMMA EvalStepOfTraining ==
  ASSUME DataInv, Trainings, Best, Best', EvalInv,
         \/ StartTraining \/ WarmStart \/ Continue \/ TrainingDies
         \/ \E part \in {"train", "val"} : ReadSplit(part)
         \/ \E loss \in Losses \cup {NaN} : Epoch(loss)
         \/ \E f \in Files : SaveFile(f)
  PROVE  EvalInv'
<1>0. TypeOK
  BY DEF DataInv
<1>1. evaluator' = evaluator
  BY DEF StartTraining, WarmStart, Continue, TrainingDies, ReadSplit, Epoch, SaveFile
<1>a. recipe' = recipe
  BY DEF StartTraining, WarmStart, Continue, TrainingDies, ReadSplit, Epoch, SaveFile, chosen
<1>2. \A s \in 1 .. Stages : \A c : HadBefore(s, c) => HadBefore(s, c)'
  BY EarlierStays DEF HadBefore
<1>3. evaluator.is # "off" => evaluator.stage \in 1 .. Stages
  BY <1>0 DEF TypeOK
<1>4. evaluator'.is # "off" /\ evaluator'.got["metadata"] # None =>
       /\ evaluator'.got["metadata"] \in Metas
       /\ HadBefore(evaluator.stage, evaluator.got["metadata"]["model"])'
  BY <1>1, <1>2, <1>3 DEF EvalInv, Described
<1>5. /\ trainer.stage \in Nat /\ disk \in [1 .. Stages -> [Files -> Content \cup Metas]]
      /\ trainer.is # "off" => trainer.stage \in 1 .. Stages
  BY <1>0 DEF TypeOK, TrainerType
<1>6. ASSUME NEW s \in 1 .. Stages
      PROVE  \/ disk'[s]["metadata"] \in {disk[s]["metadata"], Torn}
             \/ SaveFile("metadata") /\ s = trainer.stage
  <2>1. ASSUME NEW loss \in Losses \cup {NaN}, Epoch(loss) PROVE disk'[s]["metadata"] = disk[s]["metadata"]
    <3>1. trainer.stage \in 1 .. Stages
      BY <1>5, <2>1 DEF Epoch
    <3>2. disk' = disk \/ disk' = [disk EXCEPT ![trainer.stage]["model"] = Torn]
      BY <1>0, <2>1, EpochEffect
    <3>3. disk[trainer.stage] \in [Files -> Content \cup Metas]
      BY <1>5, <3>1
    <3>4. CASE disk' = [disk EXCEPT ![trainer.stage]["model"] = Torn]
      <4>1. disk'[s] = IF s = trainer.stage THEN [disk[s] EXCEPT !["model"] = Torn] ELSE disk[s]
        BY <1>5, <3>1, <3>4
      <4> QED
        BY <3>3, <4>1 DEF Files
    <3> QED
      BY <3>2, <3>4
  <2>2. ASSUME NEW f \in Files, SaveFile(f), f # "metadata"
        PROVE  disk'[s]["metadata"] \in {disk[s]["metadata"], Torn}
    BY <1>0, <2>2, SaveEffect
  <2>3. ASSUME SaveFile("metadata"), s # trainer.stage PROVE disk'[s] = disk[s]
    BY <1>0, <2>3, SaveEffect DEF Files
  <2> QED
    BY <1>0, <2>1, <2>2, <2>3, OtherEffect
<1>7. ASSUME NEW s \in 1 .. Stages, NEW m, m = disk'[s]["metadata"], m \notin {None, Torn}
      PROVE  m \in Metas /\ HadBefore(s, m["model"])'
  <2>1. CASE m = disk[s]["metadata"]
    BY <1>2, <1>7, <2>1 DEF EvalInv, Described
  <2>2. CASE SaveFile("metadata") /\ s = trainer.stage
    <3>1. /\ trainer.is = "metadata" /\ trainer'.is = "next" /\ trainer'.stage = s
          /\ trainer'.best = trainer.best /\ UNCHANGED <<recipe, training>>
          /\ m = [g \in Parts |-> disk[s][g]]
      BY <1>0, <1>7, <2>2, SaveEffect DEF Files
    <3>2. m \in Metas
      BY <1>0, <3>1 DEF TypeOK, Metas
    <3>3. m["model"] = <<recipe[training], trainer.best>> /\ trainer.best \in Losses
      BY <2>2, <3>1 DEF Best, Files, Parts
    <3>4. /\ training \in Nat /\ training >= 1 /\ recipe[training] \in Nat
          /\ trainer.best \in Nat /\ trainer.best # None
      <4>1. training \in Nat /\ training >= 1
        BY <1>0, <3>1 DEF TypeOK, Trainings
      <4>2. recipe[training] \in Nat
        BY <4>1, <3>1, PipelineAssumption DEF Trainings
      <4>3. trainer.best \in Nat /\ trainer.best # None
        BY <3>3, PipelineAssumption
      <4> QED
        BY <4>1, <4>2, <4>3
    <3>5. Earlier(s, training, <<recipe[training], trainer.best>>)'
      BY <3>1, <3>3, <3>4, <1>5 DEF Earlier, Models
    <3> QED
      BY <3>1, <3>2, <3>3, <3>4, <3>5 DEF HadBefore
  <2> QED
    BY <1>6, <1>7, <2>1, <2>2
<1>8. Described'
  BY <1>1, <1>4, <1>7 DEF Described
<1>9. ASSUME NEW s \in 1 .. Stages, NEW c, HadBefore(s, c), disk'[s]["model"] = c,
             disk[s]["model"] # c
      PROVE  /\ \E t \in 1 .. training : t < training /\ recipe[t] = c[1] /\ recipe[training] = c[1]
             /\ trainer.is = "model" /\ training' = training
  <2>0. PICK t \in Nat : Earlier(s, t, c)
    BY <1>9 DEF HadBefore
  <2>1. /\ c \in Models /\ c # Torn /\ training \in Nat /\ t \in 1 .. training /\ c[2] \in Nat
        /\ c[1] = recipe[t]
    BY <1>0, <2>0, PipelineAssumption DEF Earlier, Models, TypeOK
  <2>2. ASSUME NEW loss \in Losses \cup {NaN}, Epoch(loss) PROVE disk'[s]["model"] \in {disk[s]["model"], Torn}
    <3>1. trainer.stage \in 1 .. Stages
      BY <1>5, <2>2 DEF Epoch
    <3>2. disk' = disk \/ disk' = [disk EXCEPT ![trainer.stage]["model"] = Torn]
      BY <1>0, <2>2, EpochEffect
    <3> QED
      BY <1>5, <3>1, <3>2 DEF Files
  <2>3. ASSUME NEW f \in Files, SaveFile(f), ~(f = "model" /\ s = trainer.stage)
        PROVE  disk'[s]["model"] = disk[s]["model"]
    BY <1>0, <2>3, SaveEffect
  <2>4. CASE SaveFile("model") /\ s = trainer.stage
    <3>1. /\ trainer.is = "model" /\ disk'[s]["model"] = <<recipe[training], trainer.best>>
          /\ training' = training
      BY <1>0, <2>4, SaveEffect DEF Files
    <3>2. c[1] = recipe[training] /\ c[2] = trainer.best
      BY <1>9, <3>1
    <3>3. t < training \/ trainer.best < c[2]
      BY <2>0, <2>4, <3>1 DEF Earlier
    <3>4. t < training
      BY <2>1, <3>2, <3>3
    <3> QED
      BY <2>1, <3>1, <3>2, <3>4
  <2> QED
    BY <1>0, <1>9, <2>1, <2>2, <2>3, <2>4, OtherEffect
<1>12. /\ training \in Nat /\ training' \in {training, training + 1}
       /\ trainer.is # "off" => training' = training
       /\ trainer'.is # "off" /\ trainer.is = "off" => training' = training + 1
  <2>1. CASE StartTraining
    BY <1>0, <2>1 DEF TypeOK, StartTraining
  <2>3. CASE \/ WarmStart \/ Continue \/ TrainingDies
             \/ \E part \in {"train", "val"} : ReadSplit(part)
             \/ \E loss \in Losses \cup {NaN} : Epoch(loss)
             \/ \E f \in Files : SaveFile(f)
    <3>1. trainer.is # "off" /\ training' = training
      BY <2>3 DEF WarmStart, Continue, TrainingDies, ReadSplit, Epoch, SaveFile, Files
    <3> QED
      BY <1>0, <3>1 DEF TypeOK
  <2> QED
    BY <2>1, <2>3
<1>11. Beside'
  <2>1. evaluator.first \in Nat
    BY <1>0 DEF TypeOK, EvaluatorType
  <2> QED
    BY <1>1, <1>12, <2>1 DEF EvalInv, Beside
<1>13. Right => Right'
  <2>2. \A t \in 1 .. training : t \in 1 .. training'
    BY <1>12
  <2> QED
    BY <1>1, <1>a, <2>2 DEF Right, RunsAgain
<1>10. Compared'
  <2> SUFFICES ASSUME evaluator.got["metadata"] # None PROVE Compared'
    BY <1>1 DEF Compared
  <2> DEFINE c == evaluator.got["metadata"]["model"]
             s == evaluator.stage
  <2>1. ASSUME evaluator.is = "hash_model", disk'[s]["model"] = c PROVE Right'
    <3>1. CASE disk[s]["model"] = c
      BY <1>13, <2>1, <3>1 DEF EvalInv, Compared
    <3>2. CASE disk[s]["model"] # c
      <4>1. s \in 1 .. Stages /\ HadBefore(s, c)
        BY <1>3, <2>1 DEF EvalInv, Described
      <4>2. PICK t \in 1 .. training : t < training /\ recipe[t] = c[1] /\ recipe[training] = c[1]
        BY <1>9, <2>1, <3>2, <4>1
      <4>3. trainer.is = "model" /\ training' = training
        BY <1>9, <2>1, <3>2, <4>1
      <4>4. evaluator.first <= training
        BY <2>1, <4>3 DEF EvalInv, Beside
      <4>5. training \in 1 .. training
        BY <1>0, <4>2 DEF TypeOK
      <4>6. RunsAgain(c[1], evaluator.first)'
        BY <1>1, <1>a, <4>2, <4>3, <4>4, <4>5 DEF RunsAgain
      <4> QED
        BY <1>1, <4>6 DEF Right
    <3> QED
      BY <3>1, <3>2
  <2>2. ASSUME evaluator.is \in Hashed PROVE Right'
    BY <1>13, <2>2 DEF EvalInv, Compared
  <2> QED
    BY <1>1, <2>1, <2>2 DEF Compared
<1> QED
  BY <1>8, <1>10, <1>11 DEF EvalInv

LEMMA EvalStep == Trainings /\ DataInv /\ Best /\ Best' /\ EvalInv /\ [Next]_vars => EvalInv'
<1> SUFFICES ASSUME Trainings, DataInv, Best, Best', EvalInv, [Next]_vars PROVE EvalInv'
  OBVIOUS
<1>0. TypeOK /\ evaluator \in EvaluatorType
  BY DEF DataInv, TypeOK
<1>1. CASE /\ UNCHANGED <<disk, recipe, training, trainer>>
           /\ \/ evaluator' = evaluator
              \/ ReadTest \/ EvaluationEnds
              \/ \E f \in Parts : Check(f)
              \/ \E s \in 1 .. Stages : StartEvaluation(s)
              \/ \E f \in Files : ReadFile(f)
  <2>2. \A s \in 1 .. Stages : disk'[s]["metadata"] \notin {None, Torn} =>
          disk'[s]["metadata"] \in Metas /\ HadBefore(s, disk[s]["metadata"]["model"])'
    BY <1>1 DEF EvalInv, Described, HadBefore, Earlier
  <2>0. training \in Nat
    BY <1>0 DEF TypeOK
  <2>3. CASE evaluator' = evaluator
    BY <1>1, <2>3 DEF EvalInv, Described, Beside, Compared, Right, RunsAgain, HadBefore, Earlier
  <2>8. ASSUME evaluator'.got = evaluator.got, evaluator'.stage = evaluator.stage,
               evaluator'.first = evaluator.first, evaluator.is # "off"
        PROVE  /\ Described' /\ Beside' /\ (Right => Right')
    <3>1. evaluator'.got["metadata"] # None =>
            /\ evaluator'.got["metadata"] \in Metas
            /\ HadBefore(evaluator.stage, evaluator.got["metadata"]["model"])'
      BY <1>1, <2>8 DEF EvalInv, Described, HadBefore, Earlier
    <3>2. Described'
      BY <2>2, <2>8, <3>1 DEF Described
    <3> QED
      BY <1>1, <2>8, <3>2 DEF EvalInv, Beside, Right, RunsAgain
  <2>4. ASSUME NEW f \in Parts, Check(f) PROVE EvalInv'
    <3>1. /\ evaluator.is = Hashing[f] /\ ChecksumMatches(f, evaluator.got["metadata"])
          /\ evaluator' = [evaluator EXCEPT !.is = NextHash[f]]
      BY <2>4 DEF Check
    <3>2. /\ evaluator.is # "off" /\ evaluator'.is \in {"hash_scaler", "hash_config", "test"}
          /\ evaluator.is = "hash_model" \/ evaluator.is \in Hashed
          /\ evaluator.is = "hash_model" => f = "model"
      BY <1>0, <3>1 DEF EvaluatorType, Hashing, NextHash, Hashed, Parts, Files
    <3>3. /\ evaluator'.stage = evaluator.stage /\ evaluator'.got = evaluator.got
          /\ evaluator'.first = evaluator.first
      BY <1>0, <3>1 DEF EvaluatorType
    <3>4. ASSUME evaluator.got["metadata"] # None PROVE Right
      <4>1. CASE evaluator.is = "hash_model"
        <5>1. disk[evaluator.stage]["model"] = evaluator.got["metadata"]["model"]
          BY <3>1, <3>2, <3>4, <4>1 DEF ChecksumMatches
        <5> QED
          BY <3>4, <4>1, <5>1 DEF EvalInv, Compared
      <4>2. CASE evaluator.is \in Hashed
        BY <3>4, <4>2 DEF EvalInv, Compared
      <4> QED
        BY <3>2, <4>1, <4>2
    <3>5. Compared'
      BY <2>8, <3>2, <3>3, <3>4 DEF Compared, Hashed
    <3> QED
      BY <2>8, <3>2, <3>3, <3>5 DEF EvalInv
  <2>5. CASE ReadTest
    <3>1. /\ evaluator.is = "test" /\ evaluator'.is = "report" /\ evaluator'.stage = evaluator.stage
          /\ evaluator'.got = evaluator.got /\ evaluator'.first = evaluator.first
      BY <1>0, <2>5 DEF ReadTest, EvaluatorType
    <3>2. Compared'
      BY <2>8, <3>1 DEF EvalInv, Compared, Hashed
    <3> QED
      BY <2>8, <3>1, <3>2 DEF EvalInv
  <2>6. CASE EvaluationEnds \/ \E s \in 1 .. Stages : StartEvaluation(s)
    <3>1. evaluator'.got = [f \in Files |-> None] /\ Beside'
      <4>1. CASE EvaluationEnds
        BY <4>1 DEF EvaluationEnds, NoEvaluator, Beside
      <4>2. ASSUME NEW s \in 1 .. Stages, StartEvaluation(s)
            PROVE  evaluator'.got = [f \in Files |-> None] /\ Beside'
        <5>1. /\ evaluator'.got = [f \in Files |-> None]
              /\ evaluator'.first = IF trainer.is = "off" THEN training + 1 ELSE training
          BY <4>2 DEF StartEvaluation, NoEvaluator
        <5> QED
          BY <1>1, <2>0, <5>1 DEF Beside
      <4> QED
        BY <2>6, <4>1, <4>2
    <3>2. evaluator'.got["metadata"] = None
      BY <3>1 DEF Files
    <3> QED
      BY <2>2, <3>1, <3>2 DEF EvalInv, Described, Compared
  <2>7. ASSUME NEW f \in Files, ReadFile(f) PROVE EvalInv'
    <3> DEFINE found == disk[evaluator.stage][f]
    <3>1. /\ evaluator.is = f /\ found # Torn
          /\ evaluator' = [evaluator EXCEPT !.is = NextRead[f], !.got[f] = found]
      BY <2>7 DEF ReadFile
    <3>2. /\ evaluator'.is = NextRead[f] /\ evaluator'.stage = evaluator.stage
          /\ evaluator'.got[f] = found /\ evaluator'.first = evaluator.first
          /\ \A g \in Files \ {f} : evaluator'.got[g] = evaluator.got[g]
      BY <1>0, <3>1 DEF EvaluatorType
    <3>3. evaluator.stage \in 1 .. Stages /\ evaluator.is # "off"
      BY <1>0, <3>1 DEF TypeOK, Files
    <3> HIDE DEF found
    <3>4. /\ evaluator'.got["metadata"] # None =>
               /\ evaluator'.got["metadata"] \in Metas
               /\ HadBefore(evaluator.stage, evaluator'.got["metadata"]["model"])
      <4>1. CASE f = "metadata"
        BY <3>1, <3>2, <3>3, <4>1 DEF EvalInv, Described, found
      <4>2. CASE f # "metadata"
        BY <3>2, <3>3, <4>2 DEF EvalInv, Described, Files
      <4> QED
        BY <4>1, <4>2
    <3>5. Described' /\ Beside'
      <4>1. evaluator'.stage = evaluator.stage /\ UNCHANGED <<recipe, training, trainer>>
        BY <1>1, <3>2
      <4>2. evaluator'.got["metadata"] # None =>
              HadBefore(evaluator.stage, evaluator.got["metadata"]["model"])'
        BY <3>4, <4>1, Zenon DEF HadBefore, Earlier
      <4>3. Described'
        BY <2>2, <3>2, <3>4, <4>2 DEF Described
      <4>4. Beside'
        BY <1>1, <3>2, <3>3 DEF EvalInv, Beside
      <4> QED
        BY <4>3, <4>4
    <3>6. evaluator'.is = "hash_model" => f = "model"
      BY <3>2 DEF NextRead, Files
    <3>7. evaluator'.is \notin Hashed
      BY <3>2 DEF NextRead, Files, Hashed
    <3>8. Compared'
      BY <1>1, <3>2, <3>6, <3>7 DEF Compared, Right, found, Files
    <3> QED
      BY <3>5, <3>8 DEF EvalInv
  <2> QED
    BY <1>1, <2>3, <2>4, <2>5, <2>6, <2>7
<1>2. ASSUME \/ Recluster \/ WriteManifest \/ ReadTest \/ EvaluationEnds \/ UNCHANGED vars
             \/ \E r \in Runs : \/ WriteSome(r) \/ WriteRest(r) \/ Open(r) \/ Stage(r)
                                \/ Publish(r) \/ EtlDies(r)
             \/ \E f \in Parts : Check(f)
             \/ \E s \in 1 .. Stages : StartEvaluation(s)
             \/ \E f \in Files : ReadFile(f)
      PROVE  EvalInv'
  <2>1. UNCHANGED <<disk, recipe, training, trainer>>
    BY <1>2 DEF Recluster, WriteManifest, Check, ReadTest, EvaluationEnds, vars, WriteSome,
       WriteRest, Open, Stage, Publish, EtlDies, StartEvaluation, ReadFile, chosen
  <2>2. \/ evaluator' = evaluator
        \/ ReadTest \/ EvaluationEnds
        \/ \E f \in Parts : Check(f)
        \/ \E s \in 1 .. Stages : StartEvaluation(s)
        \/ \E f \in Files : ReadFile(f)
    BY <1>2 DEF Recluster, WriteManifest, vars, WriteSome, WriteRest, Open,
       Stage, Publish, EtlDies
  <2> QED
    BY <1>1, <2>1, <2>2
<1> QED
  BY <1>2, EvalStepOfTraining DEF Next, Parts

(***************************************************************************)
(* A bundle that passes its checksums has the model its metadata describe, *)
(* whatever was replaced between the reading of the metadata, that of the  *)
(* model and the comparison, and whatever a training that died left,       *)
(* unless a training beside the evaluation repeats, byte for byte, one     *)
(* before it (load_artifact_bundle, artifacts.py).                         *)
(***************************************************************************)
THEOREM EvaluatedModelIsDescribed == Spec => []EvaluatesDescribedModel
<1>1. Compared => EvaluatesDescribedModel
  BY DEF Compared, Right, Hashed, EvaluatesDescribedModel
<1>2. EvalInv => EvaluatesDescribedModel
  BY <1>1 DEF EvalInv
<1> QED
  BY <1>2, TrainingsInit, TrainingsStep, DataInit, DataStep, BestInit, BestStep, EvalInit, EvalStep, PTL DEF Spec

-------------------------------------------------------------------------------
(***************************************************************************)
(* Sums.                                                                   *)
(***************************************************************************)
\* What holds of 0 and of the next number holds of all.
LEMMA UpTo ==
  ASSUME NEW n \in Nat, NEW T \in SUBSET (0 .. n), 0 \in T,
         \A i \in 1 .. n : i - 1 \in T => i \in T
  PROVE  T = 0 .. n
<1> DEFINE R == {ss \in Nat \X Nat : ss[1] < ss[2]}
           B == (0 .. n) \ T
<1>1. SUFFICES ASSUME B # {} PROVE FALSE
  OBVIOUS
<1>2. IsWellFoundedOn(R, Nat)
  BY NatLessThanWellFounded DEF OpToRel
<1>3. \A i, j \in Nat : i < j => <<i, j>> \in R
  OBVIOUS
<1>4. B \subseteq Nat
  OBVIOUS
<1> HIDE DEF R, B
<1>5. PICK m \in B : \A i \in B : <<i, m>> \notin R
  BY <1>1, <1>2, <1>4, WFMin
<1>6. m \in 0 .. n /\ m \notin T
  BY <1>5 DEF B
<1>7. m \in 1 .. n /\ m - 1 \in 0 .. n /\ m - 1 \in Nat /\ m \in Nat /\ m - 1 < m
  BY <1>6
<1>8. m - 1 \notin B
  BY <1>3, <1>5, <1>7
<1>9. m - 1 \in T
  BY <1>7, <1>8 DEF B
<1> QED
  BY <1>6, <1>7, <1>9

\* Values that a step makes of one another, from the first on.
Trace(q, n, first, step) ==
  q = [i \in 0 .. n |-> IF i = 0 THEN first ELSE step[i][q[i - 1]]]

LEMMA TraceExists ==
  ASSUME NEW n \in Nat, NEW Q, NEW first \in Q, NEW step \in [1 .. n -> [Q -> Q]]
  PROVE  \E q \in [0 .. n -> Q] : Trace(q, n, first, step)
<1> DEFINE Has(m) == \E q \in [0 .. m -> Q] : Trace(q, m, first, step)
           T == {m \in 0 .. n : Has(m)}
<1>1. 0 \in T
  <2> DEFINE q == [i \in 0 .. 0 |-> first]
  <2>1. q \in [0 .. 0 -> Q] /\ Trace(q, 0, first, step)
    BY DEF Trace
  <2>2. Has(0)
    BY <2>1
  <2> QED
    BY <2>2
<1>2. ASSUME NEW m \in 1 .. n, m - 1 \in T
      PROVE  m \in T
  <2>1. PICK q \in [0 .. m - 1 -> Q] : Trace(q, m - 1, first, step)
    BY <1>2
  <2> DEFINE p == [i \in 0 .. m |-> IF i = m THEN step[m][q[m - 1]] ELSE q[i]]
  <2>2. m - 1 \in 0 .. m - 1 /\ step[m] \in [Q -> Q] /\ m \in 1 .. n
    OBVIOUS
  <2>3. step[m][q[m - 1]] \in Q
    BY <2>1, <2>2
  <2>4. \A i \in 0 .. m : i = m \/ i \in 0 .. m - 1
    OBVIOUS
  <2>5. p \in [0 .. m -> Q]
    BY <2>1, <2>3, <2>4
  <2>6. \A i \in 0 .. m : p[i] = IF i = 0 THEN first ELSE step[i][p[i - 1]]
    <3> SUFFICES ASSUME NEW i \in 0 .. m
                 PROVE  p[i] = IF i = 0 THEN first ELSE step[i][p[i - 1]]
      OBVIOUS
    <3>1. CASE i = m
      <4>1. p[m] = step[m][q[m - 1]] /\ p[m - 1] = q[m - 1] /\ m # 0
        OBVIOUS
      <4> HIDE DEF p
      <4> QED
        BY <3>1, <4>1
    <3>2. CASE i # m
      <4>1. i \in 0 .. m - 1 /\ p[i] = q[i]
        BY <3>2
      <4>2. q[i] = IF i = 0 THEN first ELSE step[i][q[i - 1]]
        BY <2>1, <4>1 DEF Trace
      <4>3. i # 0 => i - 1 \in 0 .. m /\ i - 1 # m
        BY <4>1
      <4>4. i # 0 => p[i - 1] = q[i - 1]
        BY <4>3
      <4> HIDE DEF p
      <4> QED
        BY <4>1, <4>2, <4>4
    <3> QED
      BY <3>1, <3>2
  <2> HIDE DEF p
  <2>7. p = [i \in 0 .. m |-> IF i = 0 THEN first ELSE step[i][p[i - 1]]]
    BY <2>5, <2>6
  <2>8. Has(m)
    BY <2>5, <2>7 DEF Trace
  <2> QED
    BY <2>8
<1>3. n \in T
  <2> HIDE DEF T
  <2>1. T \in SUBSET (0 .. n)
    BY DEF T
  <2> QED
    BY <1>1, <1>2, <2>1, UpTo
<1> QED
  BY <1>3

LEMMA LengthIs ==
  ASSUME NEW n \in Nat, NEW s \in [1 .. n -> Int]
  PROVE  Len(s) = n /\ \A i \in 1 .. n : s[i] \in Int
<1>1. s \in Seq(Int)
  BY SeqDef
<1>2. Len(s) \in Nat /\ 1 .. Len(s) = 1 .. n
  BY <1>1, LenProperties
<1>3. n \in 1 .. n \/ n = 0
  OBVIOUS
<1>4. Len(s) \in 1 .. Len(s) \/ Len(s) = 0
  BY <1>2
<1> QED
  BY <1>2, <1>3, <1>4

\* p has the sums of the first members of s.
PartialSums(p, s, n) ==
  /\ p \in [0 .. n -> Int]
  /\ p[0] = 0 /\ \A i \in 1 .. n : p[i] = p[i - 1] + s[i]

LEMMA TotalUnfolds ==
  ASSUME NEW s, NEW n \in Nat, Len(s) = n, \A i \in 1 .. n : s[i] \in Int
  PROVE  \E p : PartialSums(p, s, n) /\ Total(s) = p[n]
<1> DEFINE Sums(g) == g = [i \in 0 .. n |-> IF i = 0 THEN 0 ELSE g[i - 1] + s[i]]
           step == [i \in 1 .. n |-> [x \in Int |-> x + s[i]]]
<1>1. step \in [1 .. n -> [Int -> Int]]
  OBVIOUS
<1>2. PICK q \in [0 .. n -> Int] : Trace(q, n, 0, step)
  <2> DEFINE Q == Int
  <2>1. 0 \in Q /\ step \in [1 .. n -> [Q -> Q]]
    BY <1>1
  <2> HIDE DEF step, Sums, Q
  <2>2. \E q \in [0 .. n -> Q] : Trace(q, n, 0, step)
    BY <2>1, TraceExists
  <2> QED
    BY <2>2 DEF Q
<1>3. Sums(q)
  <2>1. \A i \in 0 .. n : q[i] = IF i = 0 THEN 0 ELSE step[i][q[i - 1]]
    BY <1>2 DEF Trace
  <2>2. \A i \in 0 .. n : i # 0 => i \in 1 .. n /\ q[i - 1] \in Int
    OBVIOUS
  <2>3. \A i \in 1 .. n, x \in Int : step[i][x] = x + s[i]
    OBVIOUS
  <2> HIDE DEF step
  <2>4. \A i \in 0 .. n : q[i] = IF i = 0 THEN 0 ELSE q[i - 1] + s[i]
    BY <2>1, <2>2, <2>3
  <2> QED
    BY <2>4
<1> DEFINE F == CHOOSE g : Sums(g)
<1>4. Sums(F)
  <2> HIDE DEF Sums
  <2> QED
    BY <1>3, Zenon
<1>5. Total(s) = F[n]
  BY DEF Total
<1> HIDE DEF F
<1>6. DOMAIN F = 0 .. n /\ F[0] = 0 /\ \A i \in 1 .. n : F[i] = F[i - 1] + s[i]
  <2>1. DOMAIN F = 0 .. n /\ \A i \in 0 .. n : F[i] = IF i = 0 THEN 0 ELSE F[i - 1] + s[i]
    BY <1>4
  <2> HIDE DEF Sums
  <2> QED
    BY <2>1
<1>7. F = [i \in 0 .. n |-> F[i]]
  BY <1>4
<1> HIDE DEF Sums
<1> DEFINE T == {i \in 0 .. n : F[i] \in Int}
<1>8. 0 \in T
  BY <1>6
<1>9. ASSUME NEW i \in 1 .. n, i - 1 \in T PROVE i \in T
  BY <1>6, <1>9
<1>10. T \in SUBSET (0 .. n)
  OBVIOUS
<1>11. T = 0 .. n
  <2> HIDE DEF T, step
  <2> QED
    BY <1>8, <1>9, <1>10, UpTo
<1>12. F \in [0 .. n -> Int]
  BY <1>7, <1>11
<1> QED
  BY <1>5, <1>6, <1>12 DEF PartialSums

LEMMA TotalSteps ==
  ASSUME NEW n \in Nat, NEW s \in [1 .. n -> Int]
  PROVE  \E p : PartialSums(p, s, n) /\ Total(s) = p[n]
BY LengthIs, TotalUnfolds

LEMMA TotalType ==
  ASSUME NEW n \in Nat, NEW s \in [1 .. n -> Int]
  PROVE  Total(s) \in Int
<1>1. PICK p : PartialSums(p, s, n) /\ Total(s) = p[n]
  BY TotalSteps
<1> QED
  BY <1>1 DEF PartialSums

\* The greater the terms, the greater the sum.
LEMMA TotalGrows ==
  ASSUME NEW n \in Nat, NEW s \in [1 .. n -> Int], NEW t \in [1 .. n -> Int],
         \A i \in 1 .. n : s[i] <= t[i]
  PROVE  Total(s) <= Total(t)
<1>1. PICK p : PartialSums(p, s, n) /\ Total(s) = p[n]
  BY TotalSteps
<1>2. PICK q : PartialSums(q, t, n) /\ Total(t) = q[n]
  BY TotalSteps
<1> DEFINE T == {i \in 0 .. n : p[i] <= q[i]}
<1>3. 0 \in T
  BY <1>1, <1>2 DEF PartialSums
<1>4. ASSUME NEW i \in 1 .. n, i - 1 \in T PROVE i \in T
  <2>1. /\ p[i] = p[i - 1] + s[i] /\ q[i] = q[i - 1] + t[i]
        /\ p[i - 1] \in Int /\ q[i - 1] \in Int /\ s[i] \in Int /\ t[i] \in Int
    BY <1>1, <1>2 DEF PartialSums
  <2> QED
    BY <1>4, <2>1
<1>5. T \in SUBSET (0 .. n) /\ n \in 0 .. n
  OBVIOUS
<1> HIDE DEF T
<1>6. n \in T
  BY <1>3, <1>4, <1>5, UpTo
<1> QED
  BY <1>1, <1>2, <1>6 DEF T

\* A common factor.
LEMMA TotalTimes ==
  ASSUME NEW n \in Nat, NEW s \in [1 .. n -> Int], NEW a \in Int, NEW t \in [1 .. n -> Int],
         \A i \in 1 .. n : t[i] = a * s[i]
  PROVE  Total(t) = a * Total(s)
<1>1. PICK p : PartialSums(p, s, n) /\ Total(s) = p[n]
  BY TotalSteps
<1>2. PICK q : PartialSums(q, t, n) /\ Total(t) = q[n]
  BY TotalSteps
<1> DEFINE T == {i \in 0 .. n : q[i] = a * p[i]}
<1>3. 0 \in T
  BY <1>1, <1>2 DEF PartialSums
<1>4. ASSUME NEW i \in 1 .. n, i - 1 \in T PROVE i \in T
  <2>1. /\ p[i] = p[i - 1] + s[i] /\ q[i] = q[i - 1] + a * s[i]
        /\ p[i - 1] \in Int /\ s[i] \in Int
    BY <1>1, <1>2 DEF PartialSums
  <2>2. q[i - 1] = a * p[i - 1]
    BY <1>4
  <2>3. \A x, y \in Int : a * x + a * y = a * (x + y)
    OBVIOUS
  <2>4. q[i] = a * p[i]
    BY <2>1, <2>2, <2>3
  <2> QED
    BY <2>4
<1>5. T \in SUBSET (0 .. n) /\ n \in 0 .. n
  OBVIOUS
<1> HIDE DEF T
<1>6. n \in T
  BY <1>3, <1>4, <1>5, UpTo
<1> QED
  BY <1>1, <1>2, <1>6 DEF T

\* One for each member of S.
Ones(S, n) == [i \in 1 .. n |-> IF i \in S THEN 1 ELSE 0]

LEMMA TotalOfOnes ==
  ASSUME NEW n \in Nat, NEW S \in SUBSET (1 .. n)
  PROVE  Total(Ones(S, n)) = Cardinality(S) /\ IsFiniteSet(S)
<1> DEFINE s == Ones(S, n)
           upTo(i) == S \cap (1 .. i)
<1>1. s \in [1 .. n -> Int] /\ \A i \in 1 .. n : s[i] = IF i \in S THEN 1 ELSE 0
  BY DEF Ones
<1> HIDE DEF s
<1>2. PICK p : PartialSums(p, s, n) /\ Total(s) = p[n]
  BY <1>1, TotalSteps
<1>3. \A i \in 0 .. n : IsFiniteSet(upTo(i))
  <2> SUFFICES ASSUME NEW i \in 0 .. n PROVE IsFiniteSet(upTo(i))
    OBVIOUS
  <2>1. IsFiniteSet(1 .. i)
    BY FS_Interval
  <2> QED
    BY <2>1, FS_Intersection
<1> DEFINE T == {i \in 0 .. n : p[i] = Cardinality(upTo(i))}
<1>4. 0 \in T
  <2>1. upTo(0) = {}
    OBVIOUS
  <2>2. Cardinality(upTo(0)) = 0
    BY <2>1, FS_EmptySet
  <2> QED
    BY <1>2, <2>2 DEF PartialSums
<1>5. ASSUME NEW i \in 1 .. n, i - 1 \in T PROVE i \in T
  <2>1. p[i] = p[i - 1] + s[i] /\ p[i - 1] = Cardinality(upTo(i - 1)) /\ p[i - 1] \in Int
    BY <1>2, <1>5 DEF PartialSums
  <2>2. CASE i \in S
    <3>1. upTo(i) = upTo(i - 1) \cup {i} /\ i \notin upTo(i - 1)
      BY <2>2
    <3>2. IsFiniteSet(upTo(i - 1))
      BY <1>3
    <3> HIDE DEF upTo
    <3>3. Cardinality(upTo(i)) = Cardinality(upTo(i - 1)) + 1
      BY <3>1, <3>2, FS_AddElement
    <3> QED
      BY <1>1, <2>1, <2>2, <3>3
  <2>3. CASE i \notin S
    <3>1. upTo(i) = upTo(i - 1)
      BY <2>3
    <3> HIDE DEF upTo
    <3> QED
      BY <1>1, <2>1, <2>3, <3>1
  <2> QED
    BY <2>2, <2>3
<1>6. T \in SUBSET (0 .. n) /\ n \in 0 .. n
  OBVIOUS
<1>7. S = upTo(n)
  OBVIOUS
<1> HIDE DEF T
<1>8. n \in T
  BY <1>4, <1>5, <1>6, UpTo
<1>9. p[n] = Cardinality(upTo(n))
  BY <1>8 DEF T
<1> HIDE DEF upTo
<1> QED
  BY <1>2, <1>3, <1>6, <1>7, <1>9 DEF s

\* Term by term.
LEMMA TotalPlus ==
  ASSUME NEW n \in Nat, NEW s \in [1 .. n -> Int], NEW t \in [1 .. n -> Int],
         NEW u \in [1 .. n -> Int], \A i \in 1 .. n : u[i] = s[i] + t[i]
  PROVE  Total(u) = Total(s) + Total(t)
<1>1. PICK p : PartialSums(p, s, n) /\ Total(s) = p[n]
  BY TotalSteps
<1>2. PICK q : PartialSums(q, t, n) /\ Total(t) = q[n]
  BY TotalSteps
<1>3. PICK r : PartialSums(r, u, n) /\ Total(u) = r[n]
  BY TotalSteps
<1> DEFINE T == {i \in 0 .. n : r[i] = p[i] + q[i]}
<1>4. 0 \in T
  BY <1>1, <1>2, <1>3 DEF PartialSums
<1>5. ASSUME NEW i \in 1 .. n, i - 1 \in T PROVE i \in T
  <2>1. i - 1 \in 0 .. n /\ i \in 0 .. n /\ s[i] \in Int /\ t[i] \in Int
    OBVIOUS
  <2>2. p[i] = p[i - 1] + s[i] /\ p[i - 1] \in Int
    BY <1>1, <2>1 DEF PartialSums
  <2>3. q[i] = q[i - 1] + t[i] /\ q[i - 1] \in Int
    BY <1>2, <2>1 DEF PartialSums
  <2>4. r[i] = r[i - 1] + (s[i] + t[i])
    BY <1>3 DEF PartialSums
  <2>5. r[i - 1] = p[i - 1] + q[i - 1]
    BY <1>5
  <2> QED
    BY <2>1, <2>2, <2>3, <2>4, <2>5
<1>6. T \in SUBSET (0 .. n) /\ n \in 0 .. n
  OBVIOUS
<1> HIDE DEF T
<1>7. n \in T
  BY <1>4, <1>5, <1>6, UpTo
<1> QED
  BY <1>1, <1>2, <1>3, <1>7 DEF T

\* The sum of the first members.
LEMMA TotalOfFirst ==
  ASSUME NEW n \in Nat, NEW s \in [1 .. n -> Int], NEW p, PartialSums(p, s, n), NEW c \in 0 .. n
  PROVE  Total([d \in 1 .. c |-> s[d]]) = p[c]
<1> DEFINE u == [d \in 1 .. c |-> s[d]]
<1>1. c \in Nat /\ u \in [1 .. c -> Int] /\ \A i \in 1 .. c : u[i] = s[i] /\ i \in 1 .. n
  OBVIOUS
<1> HIDE DEF u
<1>2. PICK q : PartialSums(q, u, c) /\ Total(u) = q[c]
  BY <1>1, TotalSteps
<1> DEFINE T == {i \in 0 .. c : q[i] = p[i]}
<1>3. 0 \in T
  BY <1>1, <1>2 DEF PartialSums
<1>4. ASSUME NEW i \in 1 .. c, i - 1 \in T PROVE i \in T
  BY <1>1, <1>2, <1>4 DEF PartialSums
<1>5. T \in SUBSET (0 .. c) /\ c \in 0 .. c
  BY <1>1
<1> HIDE DEF T
<1>6. c \in T
  BY <1>1, <1>3, <1>4, <1>5, UpTo
<1> QED
  BY <1>2, <1>6 DEF T, u

\* No member of a sum of naturals is more than the sum.
LEMMA MemberFits ==
  ASSUME NEW m \in Nat, NEW s \in [1 .. m -> Nat], NEW c \in 1 .. m
  PROVE  s[c] <= Total(s) /\ Total(s) \in Nat
<1>0. PICK v \in Nat : v = s[c]
  OBVIOUS
<1> DEFINE one == Ones({c}, m)
           t == [d \in 1 .. m |-> IF d = c THEN v ELSE 0]
<1>1. s \in [1 .. m -> Int] /\ v \in Int
  OBVIOUS
<1>2. one \in [1 .. m -> Int] /\ \A d \in 1 .. m : one[d] = IF d = c THEN 1 ELSE 0
  BY DEF Ones
<1>3. t \in [1 .. m -> Int] /\ \A d \in 1 .. m : t[d] = IF d = c THEN v ELSE 0
  OBVIOUS
<1> HIDE DEF one, t
<1>a. \A d \in 1 .. m : t[d] = v * one[d]
  BY SMTT(30), <1>2, <1>3
<1>b. \A d \in 1 .. m : t[d] <= s[d]
  BY <1>0, <1>3
<1>4. Total(t) = v * Total(one)
  BY <1>1, <1>2, <1>3, <1>a, TotalTimes
<1>5. {c} \in SUBSET (1 .. m) /\ Cardinality({c}) = 1
  BY FS_Singleton
<1>6. Total(one) = 1
  BY <1>5, TotalOfOnes DEF one
<1>7. Total(t) <= Total(s)
  BY <1>1, <1>3, <1>b, TotalGrows
<1>8. Total(s) \in Int
  BY <1>1, TotalType
<1> QED
  BY <1>0, <1>4, <1>6, <1>7, <1>8

-------------------------------------------------------------------------------
(***************************************************************************)
(* Orders.                                                                 *)
(***************************************************************************)
StrictOrder(D, before) ==
  /\ \A x \in D : <<x, x>> \notin before
  /\ \A x, y \in D : x = y \/ <<x, y>> \in before \/ <<y, x>> \in before
  /\ \A x, y, z \in D : <<x, y>> \in before /\ <<y, z>> \in before => <<x, z>> \in before

LEMMA FirstNumbers ==
  ASSUME NEW m \in Nat
  PROVE  IsFiniteSet(0 .. m - 1) /\ Cardinality(0 .. m - 1) = m
<1>1. m - 1 \in Int /\ 0 \in Int
  OBVIOUS
<1>2. /\ IsFiniteSet(0 .. m - 1)
      /\ Cardinality(0 .. m - 1) = IF 0 > m - 1 THEN 0 ELSE (m - 1) - 0 + 1
  BY <1>1, FS_Interval
<1> QED
  BY <1>2

\* The ranks of D are 0, 1, ... , one for each member.
LEMMA RanksAre ==
  ASSUME NEW D, IsFiniteSet(D), NEW before, StrictOrder(D, before)
  PROVE  /\ \A x \in D : RankIn(D, before, x) \in 0 .. Cardinality(D) - 1
         /\ \A x, y \in D : <<x, y>> \in before => RankIn(D, before, x) < RankIn(D, before, y)
         /\ \A x, y \in D : RankIn(D, before, x) = RankIn(D, before, y) => x = y
         /\ \A i \in 0 .. Cardinality(D) - 1 : \E x \in D : RankIn(D, before, x) = i
<1> DEFINE below(x) == {y \in D : <<y, x>> \in before}
           r == [x \in D |-> RankIn(D, before, x)]
           R == 0 .. Cardinality(D) - 1
<1>1. Cardinality(D) \in Nat /\ IsFiniteSet(R) /\ Cardinality(R) = Cardinality(D)
  <2>1. Cardinality(D) \in Nat
    BY FS_CardinalityType
  <2> QED
    BY <2>1, FirstNumbers
<1>2. \A x \in D : /\ IsFiniteSet(below(x)) /\ Cardinality(below(x)) \in Nat
                   /\ RankIn(D, before, x) = Cardinality(below(x))
  <2> SUFFICES ASSUME NEW x \in D
               PROVE  /\ IsFiniteSet(below(x)) /\ Cardinality(below(x)) \in Nat
                      /\ RankIn(D, before, x) = Cardinality(below(x))
    OBVIOUS
  <2>1. IsFiniteSet(below(x))
    BY FS_Subset
  <2> QED
    BY <2>1, FS_CardinalityType DEF RankIn
<1>3. ASSUME NEW x \in D PROVE RankIn(D, before, x) \in R
  <2>1. below(x) \subseteq D \ {x}
    BY DEF StrictOrder
  <2>2. IsFiniteSet(D \ {x}) /\ Cardinality(D \ {x}) = Cardinality(D) - 1
    BY FS_RemoveElement
  <2> HIDE DEF below
  <2>3. Cardinality(below(x)) <= Cardinality(D \ {x})
    BY <2>1, <2>2, FS_Subset
  <2>4. Cardinality(below(x)) <= Cardinality(D) - 1
    BY <2>2, <2>3
  <2>5. RankIn(D, before, x) \in Nat /\ RankIn(D, before, x) <= Cardinality(D) - 1
    BY <1>2, <2>4
  <2> QED
    BY <1>1, <2>5
<1>4. ASSUME NEW x \in D, NEW y \in D, <<x, y>> \in before
      PROVE  RankIn(D, before, x) < RankIn(D, before, y)
  <2>1. below(x) \subseteq below(y) \ {x} /\ x \in below(y)
    BY <1>4 DEF StrictOrder
  <2>2. /\ IsFiniteSet(below(y) \ {x})
        /\ Cardinality(below(y) \ {x}) = Cardinality(below(y)) - 1
    BY <1>2, <2>1, FS_RemoveElement
  <2> HIDE DEF below
  <2>3. Cardinality(below(x)) <= Cardinality(below(y)) - 1
    BY <2>1, <2>2, FS_Subset
  <2>4. \A a, b \in Nat : a <= b - 1 => a < b
    OBVIOUS
  <2> QED
    BY <1>2, <2>3, <2>4
<1>5. ASSUME NEW x \in D, NEW y \in D, RankIn(D, before, x) = RankIn(D, before, y)
      PROVE  x = y
  <2>1. RankIn(D, before, x) \in Int
    BY <1>3
  <2>2. <<x, y>> \notin before /\ <<y, x>> \notin before
    BY <1>4, <1>5, <2>1
  <2> QED
    BY <2>2 DEF StrictOrder
<1>6. r \in [D -> R]
  BY <1>3
<1>7. r \in Injection(D, R)
  <2>1. \A x, y \in D : r[x] = r[y] => x = y
    BY <1>5
  <2> HIDE DEF r, R
  <2> QED
    BY <1>6, <2>1, Fun_IsInj
<1>8. r \in Surjection(D, R)
  <2> HIDE DEF r, R
  <2> QED
    BY <1>1, <1>7, FS_Injection
<1>9. ASSUME NEW i \in R PROVE \E x \in D : RankIn(D, before, x) = i
  <2>1. \E x \in D : r[x] = i
    <3> HIDE DEF r, R
    <3> QED
      BY <1>8 DEF Surjection
  <2> QED
    BY <2>1
<1> QED
  BY <1>3, <1>4, <1>5, <1>9

LEMMA DescendingIsStrict ==
  ASSUME NEW m \in Nat, NEW key \in [1 .. m -> Nat], NEW room \in [1 .. m -> Nat], NEW before,
         \A c, d \in 1 .. m :
           <<c, d>> \in before
             <=> \/ key[c] > key[d]
                 \/ key[c] = key[d] /\ room[c] > room[d]
                 \/ key[c] = key[d] /\ room[c] = room[d] /\ c < d
  PROVE  StrictOrder(1 .. m, before)
<1>1. \A c \in 1 .. m : key[c] \in Nat /\ room[c] \in Nat /\ c \in Nat
  OBVIOUS
<1>2. \A c \in 1 .. m : <<c, c>> \notin before
  BY <1>1
<1>3. ASSUME NEW c \in 1 .. m, NEW d \in 1 .. m, c # d
      PROVE  <<c, d>> \in before \/ <<d, c>> \in before
  <2>1. /\ key[c] \in Nat /\ key[d] \in Nat /\ room[c] \in Nat /\ room[d] \in Nat
        /\ c \in Nat /\ d \in Nat
    BY <1>1
  <2>2. \/ key[c] > key[d] \/ key[d] > key[c]
        \/ key[c] = key[d] /\ (room[c] > room[d] \/ room[d] > room[c])
        \/ key[c] = key[d] /\ room[c] = room[d] /\ (c < d \/ d < c)
    BY <1>3, <2>1
  <2> QED
    BY <2>2
<1>4. ASSUME NEW c \in 1 .. m, NEW d \in 1 .. m, NEW e \in 1 .. m,
             <<c, d>> \in before, <<d, e>> \in before
      PROVE  <<c, e>> \in before
  <2>1. /\ key[c] \in Nat /\ key[d] \in Nat /\ key[e] \in Nat
        /\ room[c] \in Nat /\ room[d] \in Nat /\ room[e] \in Nat
        /\ c \in Nat /\ d \in Nat /\ e \in Nat
    BY <1>1
  <2>2. \/ key[c] > key[d]
        \/ key[c] = key[d] /\ room[c] > room[d]
        \/ key[c] = key[d] /\ room[c] = room[d] /\ c < d
    BY <1>4
  <2>3. \/ key[d] > key[e]
        \/ key[d] = key[e] /\ room[d] > room[e]
        \/ key[d] = key[e] /\ room[d] = room[e] /\ d < e
    BY <1>4
  <2>4. \/ key[c] > key[e]
        \/ key[c] = key[e] /\ room[c] > room[e]
        \/ key[c] = key[e] /\ room[c] = room[e] /\ c < e
    BY <2>1, <2>2, <2>3
  <2> QED
    BY <2>4
<1> QED
  BY <1>2, <1>3, <1>4 DEF StrictOrder

-------------------------------------------------------------------------------
(***************************************************************************)
(* Dealing out: who selects and who splits gives one more to each in turn. *)
(***************************************************************************)
\* One more is one more, or there is no room, or they have enough.
LEMMA OneMoreIs ==
  ASSUME NEW m \in Nat, NEW q \in [1 .. m -> Nat], NEW room \in [1 .. m -> Nat],
         NEW c \in 1 .. m, NEW n \in Nat
  PROVE  LET p == OneMore(q, c, room, n) IN
           /\ p \in [1 .. m -> Nat]
           /\ \/ /\ Total(q) < n /\ q[c] < room[c] /\ Total(p) = Total(q) + 1
                 /\ \A d \in 1 .. m : p[d] = IF d = c THEN q[c] + 1 ELSE q[d]
              \/ p = q /\ ~(Total(q) < n /\ q[c] < room[c])
<1>1. CASE Total(q) < n /\ q[c] < room[c]
  <2> DEFINE p == [q EXCEPT ![c] = @ + 1]
             one == Ones({c}, m)
  <2>1. OneMore(q, c, room, n) = p
    BY <1>1 DEF OneMore
  <2>2. p \in [1 .. m -> Nat] /\ \A d \in 1 .. m : p[d] = IF d = c THEN q[c] + 1 ELSE q[d]
    OBVIOUS
  <2>3. one \in [1 .. m -> Int] /\ \A d \in 1 .. m : one[d] = IF d = c THEN 1 ELSE 0
    BY DEF Ones
  <2>4. Total(one) = 1
    <3>1. {c} \in SUBSET (1 .. m)
      OBVIOUS
    <3> HIDE DEF p, one
    <3>2. Total(Ones({c}, m)) = Cardinality({c})
      BY <3>1, TotalOfOnes
    <3>3. Cardinality({c}) = 1
      BY FS_Singleton
    <3> QED
      BY <3>2, <3>3 DEF one
  <2> HIDE DEF p, one
  <2>5. \A d \in 1 .. m : p[d] = q[d] + one[d]
    BY SMTT(30), <2>2, <2>3
  <2>6. p \in [1 .. m -> Int] /\ q \in [1 .. m -> Int]
    BY <2>2
  <2>7. Total(p) = Total(q) + Total(one)
    BY <2>3, <2>5, <2>6, TotalPlus
  <2> QED
    BY <1>1, <2>1, <2>2, <2>4, <2>7
<1>2. CASE ~(Total(q) < n /\ q[c] < room[c])
  BY <1>2 DEF OneMore
<1> QED
  BY <1>1, <1>2

\* What a deal gives, turn by turn.
Dealing(q, quota, room, n, turns) ==
  /\ q[0] = quota /\ Deal(quota, room, n, turns) = q[Len(turns)]
  /\ \A i \in 1 .. Len(turns) : q[i] = OneMore(q[i - 1], turns[i], room, n)

LEMMA DealSteps ==
  ASSUME NEW m \in Nat, NEW room \in [1 .. m -> Nat], NEW quota \in [1 .. m -> Nat],
         NEW n \in Nat, NEW turns, Len(turns) \in Nat,
         \A i \in 1 .. Len(turns) : turns[i] \in 1 .. m
  PROVE  \E q \in [0 .. Len(turns) -> [1 .. m -> Nat]] : Dealing(q, quota, room, n, turns)
<1>0. PICK many \in Nat : many = Len(turns)
  OBVIOUS
<1> DEFINE Q == [1 .. m -> Nat]
           Dealt(h) == h = [i \in 0 .. many |-> IF i = 0 THEN quota
                                             ELSE OneMore(h[i - 1], turns[i], room, n)]
           step == [i \in 1 .. many |-> [q \in Q |-> OneMore(q, turns[i], room, n)]]
<1>1. \A q \in Q, i \in 1 .. many : OneMore(q, turns[i], room, n) \in Q
  BY <1>0, OneMoreIs
<1>3. quota \in Q
  OBVIOUS
<1> HIDE DEF Q
<1>2. step \in [1 .. many -> [Q -> Q]]
  BY <1>1
<1>4. PICK q \in [0 .. many -> Q] : Trace(q, many, quota, step)
  <2> HIDE DEF step
  <2> QED
    BY <1>2, <1>3, TraceExists
<1>5. Dealt(q)
  <2>1. \A i \in 0 .. many : q[i] = IF i = 0 THEN quota ELSE step[i][q[i - 1]]
    BY <1>4 DEF Trace
  <2>2. \A i \in 0 .. many : i # 0 => i \in 1 .. many /\ q[i - 1] \in Q
    OBVIOUS
  <2>3. \A i \in 1 .. many, p \in Q : step[i][p] = OneMore(p, turns[i], room, n)
    OBVIOUS
  <2> HIDE DEF step
  <2>4. \A i \in 0 .. many : q[i] = IF i = 0 THEN quota ELSE OneMore(q[i - 1], turns[i], room, n)
    BY <2>1, <2>2, <2>3
  <2> QED
    BY <2>4
<1> HIDE DEF step
<1> DEFINE F == CHOOSE h : Dealt(h)
<1>6. Dealt(F)
  <2> HIDE DEF Dealt
  <2> QED
    BY <1>5, Zenon
<1>7. Deal(quota, room, n, turns) = F[many]
  BY <1>0 DEF Deal
<1> HIDE DEF F
<1>8. F[0] = quota /\ \A i \in 1 .. many : F[i] = OneMore(F[i - 1], turns[i], room, n)
  <2>1. \A i \in 0 .. many : F[i] = IF i = 0 THEN quota ELSE OneMore(F[i - 1], turns[i], room, n)
    BY <1>6
  <2> HIDE DEF Dealt
  <2> QED
    BY <2>1
<1>a. F = [i \in 0 .. many |-> F[i]]
  BY <1>6
<1> HIDE DEF Dealt
<1> DEFINE T == {i \in 0 .. many : F[i] \in Q}
<1>9. 0 \in T
  BY <1>3, <1>8
<1>10. ASSUME NEW i \in 1 .. many, i - 1 \in T PROVE i \in T
  BY <1>1, <1>8, <1>10
<1>11. T = 0 .. many
  <2>1. T \in SUBSET (0 .. many)
    OBVIOUS
  <2> HIDE DEF T
  <2> QED
    BY <1>9, <1>10, <2>1, UpTo
<1>12. F \in [0 .. many -> Q]
  BY <1>a, <1>11
<1> QED
  BY <1>0, <1>7, <1>8, <1>12 DEF Q, Dealing

\* Everybody has a turn before anybody has the next.
LEMMA TurnsAre ==
  ASSUME NEW m \in Nat \ {0}, NEW before, StrictOrder(1 .. m, before), NEW n \in Nat
  PROVE  LET turns == Turns(Listed(1 .. m, before), n) IN
           /\ Len(turns) = n
           /\ \A i \in 1 .. n : /\ turns[i] \in 1 .. m
                                /\ RankIn(1 .. m, before, turns[i]) = (i - 1) % m
<1> DEFINE D == 1 .. m
           rank(x) == RankIn(D, before, x)
           order == Listed(D, before)
           turns == Turns(order, n)
<1>1. IsFiniteSet(D) /\ Cardinality(D) = m
  BY FS_Interval
<1>2. \A i \in 0 .. m - 1 : \E x \in D : rank(x) = i
  <2> HIDE DEF D
  <2> QED
    BY <1>1, RanksAre DEF D
<1>3. order = [i \in 1 .. m |-> CHOOSE x \in D : rank(x) = i - 1]
  BY <1>1 DEF Listed
<1> HIDE DEF order, rank
<1>4. \A i \in 1 .. m : order[i] \in D /\ rank(order[i]) = i - 1
  <2> SUFFICES ASSUME NEW i \in 1 .. m PROVE order[i] \in D /\ rank(order[i]) = i - 1
    OBVIOUS
  <2>1. \E x \in D : rank(x) = i - 1
    BY <1>2
  <2> QED
    BY <1>3, <2>1
<1>5. order \in [1 .. m -> Int]
  BY <1>3, <1>4
<1>6. Len(order) = m
  BY <1>5, LengthIs
<1>7. \A i \in 1 .. n : (i - 1) % m \in 0 .. m - 1
  OBVIOUS
<1>8. \A i \in 1 .. n : turns[i] \in D /\ rank(turns[i]) = (i - 1) % m
  <2> SUFFICES ASSUME NEW i \in 1 .. n PROVE turns[i] \in D /\ rank(turns[i]) = (i - 1) % m
    OBVIOUS
  <2>1. turns[i] = order[((i - 1) % m) + 1]
    BY <1>6 DEF Turns
  <2>2. PICK x \in 0 .. m - 1 : x = (i - 1) % m
    BY <1>7
  <2>3. x + 1 \in 1 .. m /\ turns[i] = order[x + 1] /\ (x + 1) - 1 = x
    BY <2>1, <2>2
  <2> QED
    BY <1>4, <2>2, <2>3
<1>9. turns \in [1 .. n -> Int]
  <2>1. turns = [i \in 1 .. n |-> turns[i]]
    BY DEF Turns
  <2>2. \A i \in 1 .. n : turns[i] \in Int
    BY <1>8
  <2> HIDE DEF turns
  <2> QED
    BY <2>1, <2>2
<1>10. Len(turns) = n
  <2> HIDE DEF turns
  <2> QED
    BY <1>9, LengthIs
<1> QED
  BY <1>8, <1>10 DEF order, rank

LEMMA Division ==
  ASSUME NEW x \in Nat, NEW m \in Nat \ {0}
  PROVE  x \div m \in Nat /\ x % m \in 0 .. m - 1 /\ x = m * (x \div m) + (x % m)
<1> DEFINE q == x \div m
<1>1. q \in Int /\ m * q <= x /\ x < m * (q + 1)
  OBVIOUS
<1>2. x % m \in 0 .. m - 1
  OBVIOUS
<1>3. x = m * q + (x % m)
  OBVIOUS
<1>4. q \in Nat
  <2> HIDE DEF q
  <2> QED
    BY <1>1
<1> QED
  BY <1>2, <1>3, <1>4

LEMMA DivisionIsUnique ==
  ASSUME NEW x \in Nat, NEW m \in Nat \ {0}, NEW a \in Nat, NEW b \in 0 .. m - 1, x = m * a + b
  PROVE  x \div m = a /\ x % m = b
<1> DEFINE q == x \div m
           r == x % m
<1>1. q \in Nat /\ r \in 0 .. m - 1 /\ x = m * q + r
  BY Division
<1> HIDE DEF q, r
<1>2. ~(q < a)
  <2> SUFFICES ASSUME q < a PROVE FALSE
    OBVIOUS
  <2>1. PICK d \in Nat : a = q + 1 + d
    <3>1. a - q - 1 \in Nat /\ a = q + 1 + (a - q - 1)
      BY <1>1
    <3> QED
      BY <3>1
  <2>2. m * a = m * q + m + m * d
    BY <1>1, <2>1
  <2>3. m * d \in Nat /\ m * q \in Nat
    BY <1>1
  <2> HIDE DEF q, r
  <2> QED
    BY <1>1, <2>2, <2>3
<1>3. ~(a < q)
  <2> SUFFICES ASSUME a < q PROVE FALSE
    OBVIOUS
  <2>1. PICK d \in Nat : q = a + 1 + d
    <3>1. q - a - 1 \in Nat /\ q = a + 1 + (q - a - 1)
      BY <1>1
    <3> QED
      BY <3>1
  <2>2. m * q = m * a + m + m * d
    BY <1>1, <2>1
  <2>3. m * d \in Nat /\ m * a \in Nat
    BY <1>1
  <2> QED
    BY <1>1, <2>2, <2>3
<1>4. q = a
  BY <1>1, <1>2, <1>3
<1>5. m * a \in Nat
  OBVIOUS
<1>6. r = b
  BY <1>1, <1>4, <1>5
<1> QED
  BY <1>4, <1>6 DEF q, r

\* How many of the first i turns are of the member with this rank of m.
TurnsOf(rank, i, m) == i \div m + (IF rank < i % m THEN 1 ELSE 0)

LEMMA TurnsOfIs ==
  ASSUME NEW m \in Nat \ {0}, NEW i \in Nat, NEW rank \in 0 .. m - 1
  PROVE  /\ TurnsOf(rank, i, m) \in i \div m .. i \div m + 1
         /\ TurnsOf(rank, i, m) \in Nat /\ i \div m \in Nat
         /\ TurnsOf(rank, 0, m) = 0 /\ TurnsOf(rank, i * m, m) = i
         /\ TurnsOf(rank, i + 1, m) = TurnsOf(rank, i, m) + (IF rank = i % m THEN 1 ELSE 0)
<1> DEFINE a == i \div m
           b == i % m
<1>1. a \in Nat /\ b \in 0 .. m - 1 /\ i = m * a + b
  BY Division
<1>2. TurnsOf(rank, i, m) = a + (IF rank < b THEN 1 ELSE 0)
  BY DEF TurnsOf
<1> HIDE DEF a, b
<1>3. TurnsOf(rank, 0, m) = 0
  <2>1. 0 = m * 0 + 0 /\ 0 \in 0 .. m - 1
    OBVIOUS
  <2>2. 0 \div m = 0 /\ 0 % m = 0
    BY <2>1, DivisionIsUnique
  <2> QED
    BY <2>2 DEF TurnsOf
<1>4. TurnsOf(rank, i * m, m) = i
  <2>1. i * m = m * i + 0 /\ 0 \in 0 .. m - 1 /\ i * m \in Nat
    OBVIOUS
  <2>2. (i * m) \div m = i /\ (i * m) % m = 0
    BY <2>1, DivisionIsUnique
  <2> QED
    BY <2>2 DEF TurnsOf
<1>5. TurnsOf(rank, i + 1, m) = TurnsOf(rank, i, m) + (IF rank = b THEN 1 ELSE 0)
  <2>1. CASE b + 1 < m
    <3>1. i + 1 \in Nat /\ b + 1 \in 0 .. m - 1 /\ i + 1 = m * a + (b + 1)
      BY <1>1, <2>1
    <3>2. (i + 1) \div m = a /\ (i + 1) % m = b + 1
      BY <1>1, <3>1, DivisionIsUnique
    <3>3. TurnsOf(rank, i + 1, m) = a + (IF rank < b + 1 THEN 1 ELSE 0)
      BY <3>2 DEF TurnsOf
    <3> QED
      BY <1>1, <1>2, <3>3
  <2>2. CASE b + 1 = m
    <3>1. i + 1 \in Nat /\ 0 \in 0 .. m - 1 /\ a + 1 \in Nat
      BY <1>1
    <3>2. i + 1 = m * (a + 1) + 0
      <4>1. m * (a + 1) = m * a + m /\ m * a \in Nat
        BY <1>1
      <4> QED
        BY <1>1, <2>2, <4>1
    <3>3. (i + 1) \div m = a + 1 /\ (i + 1) % m = 0
      BY <3>1, <3>2, DivisionIsUnique
    <3>4. TurnsOf(rank, i + 1, m) = (a + 1) + (IF rank < 0 THEN 1 ELSE 0)
      BY <3>3 DEF TurnsOf
    <3> QED
      BY <1>1, <1>2, <2>2, <3>4
  <2> QED
    BY <1>1, <2>1, <2>2
<1> QED
  BY <1>1, <1>2, <1>3, <1>4, <1>5 DEF a, b

LEMMA FirstShareIs ==
  ASSUME NEW m \in Nat \ {0}, NEW room \in [1 .. m -> Nat], NEW n \in Nat
  PROVE  LET q == FirstShare(room, n) IN
           /\ q \in [1 .. m -> Nat] /\ Total(q) <= n
           /\ \A c \in 1 .. m : /\ q[c] <= room[c] /\ q[c] <= n \div m + 1
                                /\ q[c] = room[c] \/ n \div m <= q[c]
<1> DEFINE a == n \div m
           b == n % m
           all == [c \in 1 .. m |-> a * Ones(1 .. m, m)[c]]
           few == Ones(1 .. b, m)
           want == [c \in 1 .. m |-> a + (IF c <= b THEN 1 ELSE 0)]
           q == FirstShare(room, n)
<1>1. a \in Nat /\ b \in 0 .. m - 1 /\ n = m * a + b
  BY Division
<1>2. \A c \in 1 .. m : room[c] \in Nat
  OBVIOUS
<1>3. q = [c \in 1 .. m |-> Lesser(want[c], room[c])]
  <2>1. Len(room) = m /\ DOMAIN room = 1 .. m
    BY LengthIs
  <2> QED
    BY <2>1 DEF FirstShare
<1> HIDE DEF a, b, q
<1>4. want \in [1 .. m -> Nat] /\ \A c \in 1 .. m : a <= want[c] /\ want[c] <= a + 1
  BY <1>1
<1>5. Total(want) = n
  <2>1. /\ Ones(1 .. m, m) \in [1 .. m -> Int]
        /\ \A c \in 1 .. m : Ones(1 .. m, m)[c] = 1
    BY DEF Ones
  <2>2. few \in [1 .. m -> Int] /\ \A c \in 1 .. m : few[c] = IF c <= b THEN 1 ELSE 0
    BY <1>1 DEF Ones
  <2>3. all \in [1 .. m -> Int] /\ \A c \in 1 .. m : all[c] = a
    BY <1>1, <2>1
  <2>4. Total(all) = a * m
    <3>1. a \in Int /\ \A c \in 1 .. m : all[c] = a * Ones(1 .. m, m)[c]
      BY <1>1
    <3>2. 1 .. m \in SUBSET (1 .. m) /\ Cardinality(1 .. m) = m
      BY FS_Interval
    <3>3. Total(Ones(1 .. m, m)) = m
      BY <3>2, TotalOfOnes
    <3> HIDE DEF all
    <3>5. all \in [1 .. m -> Int] /\ Ones(1 .. m, m) \in [1 .. m -> Int]
      BY <2>1, <2>3
    <3>4. Total(all) = a * Total(Ones(1 .. m, m))
      BY ZenonT(60), <3>1, <3>5, TotalTimes
    <3> QED
      BY <3>3, <3>4
  <2>5. Total(few) = b
    <3>1. 1 .. b \in SUBSET (1 .. m)
      BY <1>1
    <3>3. b \in Int /\ 1 \in Int /\ b \in Nat
      BY <1>1
    <3>2. Cardinality(1 .. b) = b
      BY <3>3, FS_Interval
    <3> QED
      BY <3>1, <3>2, TotalOfOnes
  <2> HIDE DEF all, few
  <2>6. want \in [1 .. m -> Int] /\ \A c \in 1 .. m : want[c] = all[c] + few[c]
    BY <1>4, <2>2, <2>3
  <2> HIDE DEF want
  <2>7. Total(want) = Total(all) + Total(few)
    BY <2>2, <2>3, <2>6, TotalPlus
  <2> QED
    BY <1>1, <2>4, <2>5, <2>7
<1> HIDE DEF want
<1>6. /\ q \in [1 .. m -> Nat]
      /\ \A c \in 1 .. m : q[c] <= room[c] /\ q[c] <= want[c] /\ (q[c] = room[c] \/ q[c] = want[c])
  <2>1. \A c \in 1 .. m : want[c] \in Nat
    BY <1>4
  <2> QED
    BY <1>2, <1>3, <2>1 DEF Lesser
<1>7. Total(q) <= Total(want)
  <2>1. q \in [1 .. m -> Int] /\ want \in [1 .. m -> Int]
    BY <1>4, <1>6
  <2> QED
    BY <1>6, <2>1, TotalGrows
<1>8. \A c \in 1 .. m : q[c] \in Nat /\ want[c] \in Nat
  BY <1>4, <1>6
<1>9. \A c \in 1 .. m : /\ q[c] <= room[c] /\ q[c] <= a + 1
                        /\ q[c] = room[c] \/ a <= q[c]
  BY <1>1, <1>2, <1>4, <1>6, <1>8
<1> QED
  BY <1>5, <1>6, <1>7, <1>9 DEF a, q

\* As many from each cluster as from any other, up to two, or all that it has.
Balanced(q, room) ==
  \A c, d \in DOMAIN room : /\ q[c] <= room[c]
                            /\ q[d] > q[c] + 2 => q[c] = room[c]

\* What a cluster has after its turns, beginning with base or one more.
Shape(q, room, base, turns) ==
  \A c \in DOMAIN room : /\ q[c] <= room[c] /\ q[c] <= base + 1 + turns[c]
                         /\ q[c] = room[c] \/ base + turns[c] <= q[c]

LEMMA ShapeIsBalanced ==
  ASSUME NEW m \in Nat, NEW room \in [1 .. m -> Nat], NEW q \in [1 .. m -> Nat], NEW base \in Nat,
         NEW turns \in [1 .. m -> Nat], NEW a \in Nat, \A c \in 1 .. m : turns[c] \in a .. a + 1,
         Shape(q, room, base, turns)
  PROVE  Balanced(q, room)
<1> SUFFICES ASSUME NEW c \in 1 .. m, NEW d \in 1 .. m
             PROVE  q[c] <= room[c] /\ (q[d] > q[c] + 2 => q[c] = room[c])
  BY DEF Balanced
<1>1. /\ q[c] \in Nat /\ q[d] \in Nat /\ room[c] \in Nat /\ turns[c] \in Nat /\ turns[d] \in Nat
      /\ a <= turns[c] /\ turns[d] <= a + 1
  OBVIOUS
<1>2. /\ q[c] <= room[c] /\ q[d] <= base + 1 + turns[d]
      /\ q[c] = room[c] \/ base + turns[c] <= q[c]
  BY DEF Shape
<1> QED
  BY SMTT(30), <1>1, <1>2

\* stratified_select takes as many as were asked for or as there are.
LEMMA SelectedIs ==
  ASSUME NEW m \in Nat \ {0}, NEW room \in [1 .. m -> Nat], NEW target \in Nat
  PROVE  LET sel == Selected(room, target) IN
           /\ sel \in [1 .. m -> Nat] /\ Total(sel) = Lesser(target, Total(room))
           /\ Balanced(sel, room)
<1> DEFINE n == Lesser(target, Total(room))
           larger == {cd \in (1 .. m) \X (1 .. m) :
                        \/ room[cd[1]] > room[cd[2]]
                        \/ room[cd[1]] = room[cd[2]] /\ cd[1] < cd[2]}
           many == n * m
           turns == Turns(Listed(1 .. m, larger), many)
           share == FirstShare(room, n)
           base == n \div m
           rank(c) == RankIn(1 .. m, larger, c)
           at(i) == [c \in 1 .. m |-> TurnsOf(rank(c), i, m)]
<1>1. Len(room) = m /\ DOMAIN room = 1 .. m /\ \A c \in 1 .. m : room[c] \in Nat
  BY LengthIs
<1>2. n \in Nat /\ n <= Total(room)
  <2>1. Total(room) \in Nat
    <3>1. 1 \in 1 .. m
      OBVIOUS
    <3> QED
      BY <3>1, MemberFits
  <2> QED
    BY <2>1 DEF Lesser
<1>3. Selected(room, target) = Deal(share, room, n, turns)
  BY <1>1 DEF Selected
<1>4. many \in Nat
  BY <1>2
<1>5. StrictOrder(1 .. m, larger)
  <2>1. \A c, d \in 1 .. m : <<c, d>> \in larger
                               <=> room[c] > room[d] \/ (room[c] = room[d] /\ c < d)
    <3> SUFFICES ASSUME NEW c \in 1 .. m, NEW d \in 1 .. m
                 PROVE  <<c, d>> \in larger
                          <=> room[c] > room[d] \/ (room[c] = room[d] /\ c < d)
      OBVIOUS
    <3>1. <<c, d>> \in (1 .. m) \X (1 .. m) /\ <<c, d>>[1] = c /\ <<c, d>>[2] = d
      OBVIOUS
    <3> QED
      BY <3>1
  <2> HIDE DEF larger
  <2>2. \A c, d \in 1 .. m :
          <<c, d>> \in larger
            <=> \/ room[c] > room[d]
                \/ room[c] = room[d] /\ room[c] > room[d]
                \/ room[c] = room[d] /\ room[c] = room[d] /\ c < d
    BY <2>1
  <2> QED
    BY <2>2, DescendingIsStrict
<1> HIDE DEF larger, n
<1>6. Len(turns) = many /\ \A i \in 1 .. many : turns[i] \in 1 .. m /\ rank(turns[i]) = (i - 1) % m
  BY <1>4, <1>5, TurnsAre
<1>7. /\ \A c \in 1 .. m : rank(c) \in 0 .. m - 1
      /\ \A c, d \in 1 .. m : rank(c) = rank(d) => c = d
  <2>1. IsFiniteSet(1 .. m) /\ Cardinality(1 .. m) = m
    BY FS_Interval
  <2> QED
    BY <1>5, <2>1, RanksAre
<1> HIDE DEF rank, turns
<1>8. /\ share \in [1 .. m -> Nat] /\ Total(share) <= n
      /\ \A c \in 1 .. m : /\ share[c] <= room[c] /\ share[c] <= base + 1
                           /\ share[c] = room[c] \/ base <= share[c]
  BY <1>2, FirstShareIs
<1>9. base \in Nat
  BY <1>2, Division
<1> HIDE DEF share, base
<1>10. \A i \in Nat : /\ at(i) \in [1 .. m -> Nat] /\ i \div m \in Nat
                      /\ \A c \in 1 .. m : at(i)[c] \in i \div m .. i \div m + 1
  <2> SUFFICES ASSUME NEW i \in Nat
               PROVE  /\ at(i) \in [1 .. m -> Nat] /\ i \div m \in Nat
                      /\ \A c \in 1 .. m : at(i)[c] \in i \div m .. i \div m + 1
    OBVIOUS
  <2>1. \A c \in 1 .. m : /\ TurnsOf(rank(c), i, m) \in Nat
                          /\ TurnsOf(rank(c), i, m) \in i \div m .. i \div m + 1
    BY <1>7, TurnsOfIs
  <2>2. i \div m \in Nat
    BY Division
  <2> QED
    BY <2>1, <2>2
<1>11. \A c \in 1 .. m : at(0)[c] = 0 /\ at(many)[c] = n
  <2> SUFFICES ASSUME NEW c \in 1 .. m PROVE at(0)[c] = 0 /\ at(many)[c] = n
    OBVIOUS
  <2>1. TurnsOf(rank(c), 0, m) = 0 /\ TurnsOf(rank(c), n * m, m) = n
    BY <1>2, <1>7, TurnsOfIs
  <2> QED
    BY <2>1
<1>12. \A i \in 1 .. many, c \in 1 .. m :
         at(i)[c] = at(i - 1)[c] + (IF c = turns[i] THEN 1 ELSE 0)
  <2> SUFFICES ASSUME NEW i \in 1 .. many, NEW c \in 1 .. m
               PROVE  at(i)[c] = at(i - 1)[c] + (IF c = turns[i] THEN 1 ELSE 0)
    OBVIOUS
  <2>1. PICK x \in Nat : x = i - 1 /\ x + 1 = i
    <3>1. i - 1 \in Nat /\ (i - 1) + 1 = i
      BY <1>4
    <3> QED
      BY <3>1
  <2>2. TurnsOf(rank(c), x + 1, m) = TurnsOf(rank(c), x, m) + (IF rank(c) = x % m THEN 1 ELSE 0)
    <3> DEFINE r == rank(c)
    <3>1. r \in 0 .. m - 1
      BY <1>7
    <3> HIDE DEF r
    <3>2. TurnsOf(r, x + 1, m) = TurnsOf(r, x, m) + (IF r = x % m THEN 1 ELSE 0)
      BY ZenonT(60), <3>1, TurnsOfIs
    <3> QED
      BY <3>2 DEF r
  <2>3. rank(c) = (i - 1) % m <=> c = turns[i]
    BY <1>6, <1>7
  <2> QED
    BY <2>1, <2>2, <2>3
<1> HIDE DEF at, many
<1>13. PICK q \in [0 .. many -> [1 .. m -> Nat]] :
         /\ q[0] = share /\ Deal(share, room, n, turns) = q[many]
         /\ \A i \in 1 .. many : q[i] = OneMore(q[i - 1], turns[i], room, n)
  <2>1. m \in Nat /\ share \in [1 .. m -> Nat]
    BY <1>8
  <2>2. Len(turns) \in Nat /\ \A i \in 1 .. Len(turns) : turns[i] \in 1 .. m
    BY <1>4, <1>6
  <2>3. \E q \in [0 .. Len(turns) -> [1 .. m -> Nat]] : Dealing(q, share, room, n, turns)
    BY <1>2, <2>1, <2>2, DealSteps
  <2> QED
    BY <1>6, <2>3 DEF Dealing
<1>14. \A i \in 0 .. many : /\ q[i] \in [1 .. m -> Nat] /\ Total(q[i]) \in Int
                            /\ \A c \in 1 .. m : q[i][c] \in Nat
  <2> SUFFICES ASSUME NEW i \in 0 .. many
               PROVE  /\ q[i] \in [1 .. m -> Nat] /\ Total(q[i]) \in Int
                      /\ \A c \in 1 .. m : q[i][c] \in Nat
    OBVIOUS
  <2>1. q[i] \in [1 .. m -> Nat]
    OBVIOUS
  <2>2. q[i] \in [1 .. m -> Int]
    BY <2>1
  <2> QED
    BY <2>1, <2>2, TotalType
<1> DEFINE Good(i) == /\ Total(q[i]) <= n /\ Balanced(q[i], room)
                      /\ Total(q[i]) < n => Shape(q[i], room, base, at(i))
           T == {i \in 0 .. many : Good(i)}
<1>15. ASSUME NEW i \in 0 .. many, Shape(q[i], room, base, at(i)) PROVE Balanced(q[i], room)
  <2>1. i \in Nat
    BY <1>4
  <2>2. i \div m \in Nat /\ at(i) \in [1 .. m -> Nat] /\ \A c \in 1 .. m : at(i)[c] \in i \div m .. i \div m + 1
    BY <1>10, <2>1
  <2>3. m \in Nat /\ q[i] \in [1 .. m -> Nat]
    BY <1>14
  <2> QED
    BY <1>9, <1>15, <2>2, <2>3, ShapeIsBalanced
<1>16. 0 \in T
  <2>1. Shape(q[0], room, base, at(0))
    <3>1. \A c \in 1 .. m : base + 1 + at(0)[c] = base + 1 /\ base + at(0)[c] = base
      BY <1>9, <1>11
    <3> QED
      BY <1>1, <1>8, <1>13, <3>1 DEF Shape
  <2>2. 0 \in 0 .. many
    BY <1>4
  <2>3. Balanced(q[0], room)
    BY <1>15, <2>1, <2>2
  <2> QED
    BY <1>8, <1>13, <2>1, <2>2, <2>3
<1>17. ASSUME NEW i \in 1 .. many, i - 1 \in T PROVE i \in T
  <2> DEFINE c == turns[i]
  <2>1. i - 1 \in 0 .. many /\ Good(i - 1) /\ i \in 0 .. many /\ c \in 1 .. m
    BY <1>6, <1>17
  <2>2. \/ /\ Total(q[i - 1]) < n /\ q[i - 1][c] < room[c] /\ Total(q[i]) = Total(q[i - 1]) + 1
           /\ \A d \in 1 .. m : q[i][d] = IF d = c THEN q[i - 1][c] + 1 ELSE q[i - 1][d]
        \/ q[i] = q[i - 1] /\ ~(Total(q[i - 1]) < n /\ q[i - 1][c] < room[c])
    <3>1. q[i] = OneMore(q[i - 1], c, room, n) /\ q[i - 1] \in [1 .. m -> Nat] /\ m \in Nat
      BY <1>13, <1>14, <2>1
    <3> DEFINE old == q[i - 1]
    <3> HIDE DEF c, old
    <3>2. LET p == OneMore(old, c, room, n) IN
            \/ /\ Total(old) < n /\ old[c] < room[c] /\ Total(p) = Total(old) + 1
               /\ \A d \in 1 .. m : p[d] = IF d = c THEN old[c] + 1 ELSE old[d]
            \/ p = old /\ ~(Total(old) < n /\ old[c] < room[c])
      BY <1>2, <2>1, <3>1, OneMoreIs DEF old
    <3> QED
      BY <3>1, <3>2 DEF old
  <2>3. CASE ~(Total(q[i - 1]) < n)
    <3>1. q[i] = q[i - 1]
      BY <2>2, <2>3
    <3> QED
      BY <2>1, <2>3, <3>1
  <2>4. CASE Total(q[i - 1]) < n
    <3>1. Total(q[i]) <= n
      BY <1>2, <1>14, <2>1, <2>2
    <3>2. Shape(q[i], room, base, at(i))
      <4> SUFFICES ASSUME NEW d \in 1 .. m
                   PROVE  /\ q[i][d] <= room[d] /\ q[i][d] <= base + 1 + at(i)[d]
                          /\ q[i][d] = room[d] \/ base + at(i)[d] <= q[i][d]
        BY <1>1 DEF Shape
      <4>1. /\ q[i - 1][d] <= room[d] /\ q[i - 1][d] <= base + 1 + at(i - 1)[d]
            /\ q[i - 1][d] = room[d] \/ base + at(i - 1)[d] <= q[i - 1][d]
        BY <1>1, <2>1, <2>4 DEF Shape
      <4>2. at(i)[d] = at(i - 1)[d] + (IF d = c THEN 1 ELSE 0)
        BY <1>12
      <4>3. /\ q[i - 1][d] \in Nat /\ q[i][d] \in Nat /\ room[d] \in Nat
            /\ base \in Nat /\ at(i - 1)[d] \in Nat
        <5>1. i - 1 \in Nat
          BY <2>1
        <5>2. at(i - 1)[d] \in Nat
          BY <1>10, <5>1
        <5> QED
          BY <1>1, <1>9, <1>14, <2>1, <5>2
      <4>4. q[i - 1][c] \in Nat /\ room[c] \in Nat
        BY <1>1, <1>14, <2>1
      <4>5. \/ d = c /\ q[i - 1][d] < room[d] /\ q[i][d] = q[i - 1][d] + 1
            \/ d = c /\ ~(q[i - 1][d] < room[d]) /\ q[i][d] = q[i - 1][d]
            \/ d # c /\ q[i][d] = q[i - 1][d]
        BY <2>2, <2>4, <4>4
      <4> DEFINE old  == q[i - 1][d]
                 new  == q[i][d]
                 most == room[d]
                 was  == at(i - 1)[d]
      <4>6. /\ old \in Nat /\ new \in Nat /\ most \in Nat /\ was \in Nat /\ base \in Nat
            /\ old <= most /\ old <= base + 1 + was /\ (old = most \/ base + was <= old)
        BY <4>1, <4>3
      <4>7. \/ at(i)[d] = was + 1 /\ old < most /\ new = old + 1
            \/ at(i)[d] = was + 1 /\ ~(old < most) /\ new = old
            \/ at(i)[d] = was /\ new = old
        BY <4>2, <4>3, <4>5
      <4> HIDE DEF old, new, most, was
      <4>8. new <= most /\ new <= base + 1 + at(i)[d] /\ (new = most \/ base + at(i)[d] <= new)
        BY <4>6, <4>7
      <4> QED
        BY <4>8 DEF new, most
    <3>3. Balanced(q[i], room)
      BY <1>15, <2>1, <3>2
    <3> QED
      BY <2>1, <3>1, <3>2, <3>3
  <2> QED
    BY <2>3, <2>4
<1>18. T \in SUBSET (0 .. many) /\ many \in 0 .. many
  BY <1>4
<1> HIDE DEF T
<1>19. many \in T
  BY <1>4, <1>16, <1>17, <1>18, UpTo
<1>20. Good(many)
  BY <1>19 DEF T
<1>21. Total(q[many]) = n
  <2> SUFFICES ASSUME Total(q[many]) < n PROVE FALSE
    BY <1>2, <1>14, <1>18, <1>20
  <2>1. \A c \in 1 .. m : q[many][c] <= room[c] /\ (q[many][c] = room[c] \/ base + n <= q[many][c])
    BY <1>1, <1>11, <1>20 DEF Shape
  <2>2. CASE \A c \in 1 .. m : q[many][c] = room[c]
    <3>1. q[many] \in [1 .. m -> Int] /\ room \in [1 .. m -> Int] /\ m \in Nat
      BY <1>14, <1>18
    <3>2. Total(room) <= Total(q[many])
      <4>1. \A c \in 1 .. m : room[c] <= q[many][c]
        BY <1>1, <2>2
      <4> QED
        BY <3>1, <4>1, TotalGrows
    <3>3. Total(room) \in Int /\ Total(q[many]) \in Int
      BY <3>1, TotalType
    <3> QED
      BY <1>2, <3>2, <3>3
  <2>3. CASE \E c \in 1 .. m : q[many][c] # room[c]
    <3>1. PICK c \in 1 .. m : base + n <= q[many][c]
      BY <2>1, <2>3
    <3>2. q[many][c] \in Nat /\ n <= q[many][c]
      BY <1>2, <1>9, <1>14, <1>18, <3>1
    <3>3. q[many][c] <= Total(q[many])
      BY <1>14, <1>18, MemberFits
    <3> QED
      BY <1>2, <1>14, <1>18, <3>2, <3>3
  <2> QED
    BY <2>2, <2>3
<1> QED
  BY <1>3, <1>13, <1>14, <1>18, <1>20, <1>21 DEF n

LEMMA FactorCancels ==
  ASSUME NEW x \in Nat \ {0}, NEW a \in Int, NEW b \in Int, x * a <= x * b
  PROVE  a <= b
<1> SUFFICES ASSUME b + 1 <= a PROVE FALSE
  OBVIOUS
<1>1. PICK d \in Nat : a = b + 1 + d
  <2>1. a - b - 1 \in Nat /\ a = b + 1 + (a - b - 1)
    OBVIOUS
  <2> QED
    BY <2>1
<1>2. x * a = x * b + x + x * d
  BY <1>1
<1>3. x * d \in Nat /\ x * b \in Int
  OBVIOUS
<1> QED
  BY <1>2, <1>3

\* The proportional share of a room, rounded down.
LEMMA ShareIs ==
  ASSUME NEW r \in Nat, NEW n \in Nat, NEW all \in Nat \ {0}, n <= all
  PROVE  LET q == (r * n) \div all IN
           /\ q \in Nat /\ q <= r /\ (r * n) % all \in Nat
           /\ all * q <= r * n /\ r * n <= all * (q + 1) /\ r * n <= all * r
<1> DEFINE x == r * n
           q == x \div all
<1>1. x \in Nat /\ r * all \in Nat /\ x <= r * all /\ r * all = all * r
  OBVIOUS
<1> HIDE DEF x
<1>2. q \in Nat /\ x % all \in 0 .. all - 1 /\ x = all * q + (x % all)
  BY <1>1, Division
<1>3. all * q <= x /\ x <= all * (q + 1)
  <2>1. all * (q + 1) = all * q + all /\ all * q \in Int
    BY <1>2
  <2> HIDE DEF q
  <2> QED
    BY <1>2, <2>1
<1>4. q <= r
  <2>1. all * q <= all * r /\ q \in Int /\ r \in Int
    <3>1. all * q \in Int /\ all * r \in Int
      BY <1>2
    <3> HIDE DEF q
    <3> QED
      BY <1>1, <1>2, <1>3, <3>1
  <2> HIDE DEF q
  <2> QED
    BY <2>1, FactorCancels
<1> QED
  BY <1>1, <1>2, <1>3, <1>4 DEF x

\* Shares that are rounded down add up to no more than was asked for; one more
\* for everybody with room adds up to no less.
LEMMA SharesAdd ==
  ASSUME NEW m \in Nat, NEW room \in [1 .. m -> Nat], NEW n \in Nat, NEW q \in [1 .. m -> Nat],
         NEW all \in Nat \ {0}, all = Total(room)
  PROVE  /\ (\A c \in 1 .. m : all * q[c] <= room[c] * n) => Total(q) <= n
         /\ (\A c \in 1 .. m : room[c] * n <= all * q[c]) => n <= Total(q)
<1> DEFINE times == [c \in 1 .. m |-> all * q[c]]
           due   == [c \in 1 .. m |-> n * room[c]]
<1>1. q \in [1 .. m -> Int] /\ room \in [1 .. m -> Int] /\ \A c \in 1 .. m : q[c] \in Int /\ room[c] \in Int
  OBVIOUS
<1>2. times \in [1 .. m -> Int] /\ \A c \in 1 .. m : times[c] = all * q[c]
  BY <1>1
<1>3. due \in [1 .. m -> Int] /\ \A c \in 1 .. m : due[c] = n * room[c] /\ due[c] = room[c] * n
  BY <1>1
<1> HIDE DEF times, due
<1>a. n \in Int /\ all \in Int
  OBVIOUS
<1>4. Total(times) = all * Total(q)
  BY <1>1, <1>2, <1>a, TotalTimes
<1>5. Total(due) = n * Total(room)
  <2>1. \A c \in 1 .. m : due[c] = n * room[c]
    BY <1>3
  <2> QED
    BY <1>1, <1>3, <1>a, <2>1, TotalTimes
<1>6. Total(q) \in Int
  BY <1>1, TotalType
<1>7. n * Total(room) = all * n /\ all * n \in Int /\ all * Total(q) \in Int
  BY <1>6
<1>8. ASSUME \A c \in 1 .. m : all * q[c] <= room[c] * n PROVE Total(q) <= n
  <2>1. Total(times) <= Total(due)
    BY <1>2, <1>3, <1>8, TotalGrows
  <2>2. all * Total(q) <= all * n
    BY <1>4, <1>5, <1>7, <2>1
  <2> QED
    BY <1>6, <2>2, FactorCancels
<1>9. ASSUME \A c \in 1 .. m : room[c] * n <= all * q[c] PROVE n <= Total(q)
  <2>1. Total(due) <= Total(times)
    BY <1>2, <1>3, <1>9, TotalGrows
  <2>2. all * n <= all * Total(q)
    BY <1>4, <1>5, <1>7, <2>1
  <2> QED
    BY <1>6, <2>2, FactorCancels
<1> QED
  BY <1>8, <1>9

\* A cluster gives no more than it has, and together they give what is asked
\* for, if there is as much.
LEMMA QuotasAre ==
  ASSUME NEW m \in Nat \ {0}, NEW room \in [1 .. m -> Nat], NEW n \in Nat, n <= Total(room)
  PROVE  LET q == Quotas(room, n) IN
           /\ q \in [1 .. m -> Nat] /\ Total(q) = n
           /\ \A c \in 1 .. m : q[c] <= room[c]
<1> DEFINE all  == Total(room)
           base == [c \in 1 .. m |-> IF all = 0 THEN 0 ELSE (room[c] * n) \div all]
           left == [c \in 1 .. m |-> IF all = 0 THEN 0 ELSE (room[c] * n) % all]
           before == {cd \in (1 .. m) \X (1 .. m) :
                        LET c == cd[1]
                            d == cd[2]
                        IN \/ left[c] > left[d]
                           \/ left[c] = left[d] /\ room[c] > room[d]
                           \/ left[c] = left[d] /\ room[c] = room[d] /\ c < d}
           many  == 4 * m + 1
           turns == Turns(Listed(1 .. m, before), many)
           rank(c) == RankIn(1 .. m, before, c)
           some(c) == Lesser(base[c] + 1, room[c])
<1>1. Len(room) = m /\ DOMAIN room = 1 .. m /\ \A c \in 1 .. m : room[c] \in Nat
  BY LengthIs
<1>2. Quotas(room, n) = Deal(base, room, n, turns)
  BY <1>1 DEF Quotas
<1>3. all \in Nat
  <2>1. 1 \in 1 .. m
    OBVIOUS
  <2> QED
    BY <2>1, MemberFits
<1>4. ASSUME NEW c \in 1 .. m
      PROVE  /\ base[c] \in Nat /\ left[c] \in Nat /\ base[c] <= room[c]
             /\ all # 0 => /\ all * base[c] <= room[c] * n
                           /\ room[c] * n <= all * (base[c] + 1) /\ room[c] * n <= all * room[c]
  <2>1. CASE all = 0
    BY <1>1, <2>1
  <2>2. CASE all # 0
    <3>1. all \in Nat \ {0} /\ n <= all /\ room[c] \in Nat
      BY <1>1, <1>3, <2>2
    <3>2. base[c] = (room[c] * n) \div all /\ left[c] = (room[c] * n) % all
      BY <2>2
    <3> HIDE DEF all, base, left
    <3> QED
      BY ZenonT(60), <3>1, <3>2, ShareIs
  <2> QED
    BY <2>1, <2>2
<1>5. base \in [1 .. m -> Nat] /\ left \in [1 .. m -> Nat]
  <2>1. base = [c \in 1 .. m |-> base[c]] /\ left = [c \in 1 .. m |-> left[c]]
    OBVIOUS
  <2> HIDE DEF base, left
  <2> QED
    BY <1>4, <2>1
<1> HIDE DEF base, left, all
<1>6. StrictOrder(1 .. m, before)
  <2>1. ASSUME NEW c \in 1 .. m, NEW d \in 1 .. m
        PROVE  <<c, d>> \in before
                 <=> \/ left[c] > left[d]
                     \/ left[c] = left[d] /\ room[c] > room[d]
                     \/ left[c] = left[d] /\ room[c] = room[d] /\ c < d
    <3>1. <<c, d>> \in (1 .. m) \X (1 .. m) /\ <<c, d>>[1] = c /\ <<c, d>>[2] = d
      OBVIOUS
    <3> QED
      BY <3>1
  <2> HIDE DEF before
  <2> QED
    BY <1>5, <2>1, DescendingIsStrict
<1> HIDE DEF before
<1>7. many \in Nat /\ m < many
  OBVIOUS
<1> HIDE DEF many
<1>8. Len(turns) = many /\ \A i \in 1 .. many : turns[i] \in 1 .. m /\ rank(turns[i]) = (i - 1) % m
  BY <1>6, <1>7, TurnsAre
<1>9. /\ \A c \in 1 .. m : rank(c) \in 0 .. m - 1
      /\ \A c, d \in 1 .. m : rank(c) = rank(d) => c = d
  <2>1. IsFiniteSet(1 .. m) /\ Cardinality(1 .. m) = m
    BY FS_Interval
  <2> QED
    BY <1>6, <2>1, RanksAre
<1> HIDE DEF rank, turns
<1>10. Total(base) <= n
  <2>1. CASE all = 0
    <3>1. Total(base) <= Total(room)
      <4>1. base \in [1 .. m -> Int] /\ room \in [1 .. m -> Int]
        BY <1>5
      <4> QED
        BY <1>4, <4>1, TotalGrows
    <3>2. Total(room) = 0
      BY <2>1 DEF all
    <3> QED
      BY <3>1, <3>2
  <2>2. CASE all # 0
    <3>1. all \in Nat \ {0} /\ all = Total(room) /\ \A c \in 1 .. m : all * base[c] <= room[c] * n
      BY <1>3, <1>4, <2>2 DEF all
    <3> QED
      BY <1>5, <3>1, SharesAdd
  <2> QED
    BY <2>1, <2>2
<1>11. PICK q \in [0 .. many -> [1 .. m -> Nat]] :
         /\ q[0] = base /\ Deal(base, room, n, turns) = q[many]
         /\ \A i \in 1 .. many : q[i] = OneMore(q[i - 1], turns[i], room, n)
  <2>1. m \in Nat /\ Len(turns) \in Nat /\ \A i \in 1 .. Len(turns) : turns[i] \in 1 .. m
    BY <1>7, <1>8
  <2>2. \E q \in [0 .. Len(turns) -> [1 .. m -> Nat]] : Dealing(q, base, room, n, turns)
    BY <1>5, <2>1, DealSteps
  <2> QED
    BY <1>8, <2>2 DEF Dealing
<1>12. \A i \in 0 .. many : /\ q[i] \in [1 .. m -> Nat] /\ Total(q[i]) \in Int
                            /\ \A c \in 1 .. m : q[i][c] \in Nat
  <2> SUFFICES ASSUME NEW i \in 0 .. many
               PROVE  /\ q[i] \in [1 .. m -> Nat] /\ Total(q[i]) \in Int
                      /\ \A c \in 1 .. m : q[i][c] \in Nat
    OBVIOUS
  <2>1. q[i] \in [1 .. m -> Nat]
    OBVIOUS
  <2>2. q[i] \in [1 .. m -> Int]
    BY <2>1
  <2> QED
    BY <2>1, <2>2, TotalType
<1>13. \A c \in 1 .. m : base[c] \in Nat /\ room[c] \in Nat /\ base[c] <= room[c]
  BY <1>1, <1>4
<1> DEFINE Good(i) == /\ Total(q[i]) <= n
                      /\ \A c \in 1 .. m : base[c] <= q[i][c] /\ q[i][c] <= room[c]
                      /\ Total(q[i]) < n => \A c \in 1 .. m : rank(c) < i => some(c) <= q[i][c]
           T == {i \in 0 .. many : Good(i)}
<1> HIDE DEF some
<1>14. 0 \in T
  <2>1. \A c \in 1 .. m : ~(rank(c) < 0)
    BY <1>9
  <2>2. 0 \in 0 .. many
    BY <1>7
  <2> QED
    BY <1>10, <1>11, <1>13, <2>1, <2>2
<1>15. ASSUME NEW i \in 1 .. many, i - 1 \in T PROVE i \in T
  <2> DEFINE c == turns[i]
             old == q[i - 1]
  <2>1. i - 1 \in 0 .. many /\ Good(i - 1) /\ i \in 0 .. many /\ c \in 1 .. m
    BY <1>8, <1>15
  <2>2. \/ /\ Total(old) < n /\ old[c] < room[c] /\ Total(q[i]) = Total(old) + 1
           /\ \A d \in 1 .. m : q[i][d] = IF d = c THEN old[c] + 1 ELSE old[d]
        \/ q[i] = old /\ ~(Total(old) < n /\ old[c] < room[c])
    <3>1. q[i] = OneMore(old, c, room, n) /\ old \in [1 .. m -> Nat] /\ m \in Nat
      BY <1>11, <1>12, <2>1
    <3> HIDE DEF c, old
    <3>2. LET p == OneMore(old, c, room, n) IN
            \/ /\ Total(old) < n /\ old[c] < room[c] /\ Total(p) = Total(old) + 1
               /\ \A d \in 1 .. m : p[d] = IF d = c THEN old[c] + 1 ELSE old[d]
            \/ p = old /\ ~(Total(old) < n /\ old[c] < room[c])
      BY <2>1, <3>1, OneMoreIs
    <3> QED
      BY <3>1, <3>2
  <2>3. /\ Total(old) \in Int /\ Total(q[i]) \in Int
        /\ \A d \in 1 .. m : old[d] \in Nat /\ q[i][d] \in Nat
    BY <1>12, <2>1
  <2>4. Total(q[i]) <= n
    BY <2>1, <2>2, <2>3
  <2>5. \A d \in 1 .. m : base[d] <= q[i][d] /\ q[i][d] <= room[d] /\ old[d] <= q[i][d]
    <3> SUFFICES ASSUME NEW d \in 1 .. m
                 PROVE  base[d] <= q[i][d] /\ q[i][d] <= room[d] /\ old[d] <= q[i][d]
      OBVIOUS
    <3>1. /\ base[d] <= old[d] /\ old[d] <= room[d]
          /\ old[d] \in Nat /\ base[d] \in Nat /\ room[d] \in Nat /\ q[i][d] \in Nat
      BY <1>13, <2>1, <2>3
    <3>2. \/ q[i][d] = old[d]
          \/ old[d] < room[d] /\ q[i][d] = old[d] + 1
      BY <2>2
    <3> QED
      BY <3>1, <3>2
  <2>6. ASSUME Total(q[i]) < n, NEW d \in 1 .. m, rank(d) < i PROVE some(d) <= q[i][d]
    <3>1. Total(old) < n
      BY <2>2, <2>3, <2>6
    <3>2. /\ q[i][d] \in Nat /\ old[d] \in Nat /\ base[d] \in Nat /\ room[d] \in Nat
          /\ some(d) \in Nat /\ some(d) <= base[d] + 1 /\ some(d) <= room[d]
      BY <1>13, <2>3 DEF Lesser, some
    <3>3. CASE rank(d) < i - 1
      <4>1. some(d) <= old[d] /\ old[d] <= q[i][d]
        BY <2>1, <2>5, <3>1, <3>3
      <4> QED
        BY <3>2, <4>1
    <3>4. CASE rank(d) = i - 1
      <4>1. i - 1 \in Nat /\ i - 1 \in 0 .. m - 1 /\ i - 1 = m * 0 + (i - 1) /\ 0 \in Nat
        BY <1>9, <3>4
      <4>2. (i - 1) % m = i - 1
        BY <4>1, DivisionIsUnique
      <4>3. d = c
        BY <1>8, <1>9, <2>1, <3>4, <4>2
      <4>4. q[i][d] = old[d] + 1 \/ room[d] <= q[i][d]
        BY <1>13, <2>1, <2>2, <2>3, <3>1, <4>3
      <4>5. base[d] <= old[d]
        BY <2>1
      <4> QED
        BY SMTT(30), <3>2, <4>4, <4>5
    <3>5. rank(d) \in Int /\ i \in Int
      BY <1>7, <1>9
    <3>6. rank(d) < i - 1 \/ rank(d) = i - 1
      BY <2>6, <3>5
    <3> QED
      BY <3>3, <3>4, <3>6
  <2> QED
    BY <2>1, <2>4, <2>5, <2>6
<1>16. T \in SUBSET (0 .. many) /\ many \in 0 .. many
  BY <1>7
<1> HIDE DEF T
<1>17. many \in T
  BY <1>7, <1>14, <1>15, <1>16, UpTo
<1>18. Good(many)
  BY <1>17 DEF T
<1>19. Total(q[many]) = n
  <2> SUFFICES ASSUME Total(q[many]) < n PROVE FALSE
    BY <1>12, <1>16, <1>18
  <2>1. all \in Nat \ {0} /\ all = Total(room)
    <3>1. q[many] \in [1 .. m -> Nat] /\ 1 \in 1 .. m
      BY <1>12, <1>16
    <3>2. Total(q[many]) \in Nat
      BY <3>1, MemberFits
    <3> QED
      BY <1>3, <3>2 DEF all
  <2>2. ASSUME NEW c \in 1 .. m PROVE room[c] * n <= all * q[many][c]
    <3>1. some(c) <= q[many][c]
      <4>1. rank(c) < many
        BY <1>7, <1>9
      <4> QED
        BY <1>18, <4>1
    <3>7. q[many][c] \in Nat
      BY <1>12, <1>13, <1>16
    <3>8. base[c] + 1 \in Nat /\ room[c] \in Nat
      BY <1>12, <1>13, <1>16
    <3>2. /\ q[many][c] \in Nat /\ base[c] + 1 \in Nat /\ room[c] \in Nat
          /\ base[c] + 1 <= q[many][c] \/ room[c] <= q[many][c]
      BY <3>1, <3>7, <3>8 DEF Lesser, some
    <3>3. \A x, y \in Nat : x <= y => all * x <= all * y
      BY <2>1
    <3>4. room[c] * n <= all * (base[c] + 1) /\ room[c] * n <= all * room[c]
      BY <1>4, <2>1
    <3>5. /\ room[c] * n \in Int /\ all * (base[c] + 1) \in Int
          /\ all * room[c] \in Int /\ all * q[many][c] \in Int
      <4>1. \A x, y \in Nat : x * y \in Int
        OBVIOUS
      <4>2. all \in Nat
        BY <2>1
      <4> QED
        BY <3>2, <4>1, <4>2
    <3>6. all * (base[c] + 1) <= all * q[many][c] \/ all * room[c] <= all * q[many][c]
      BY <3>2, <3>3
    <3> QED
      BY <3>4, <3>5, <3>6
  <2>3. q[many] \in [1 .. m -> Nat] /\ m \in Nat
    BY <1>12, <1>16
  <2>4. n <= Total(q[many])
    BY <2>1, <2>2, <2>3, SharesAdd
  <2> QED
    BY <1>12, <1>16, <2>4
<1> QED
  BY <1>2, <1>11, <1>12, <1>16, <1>18, <1>19

\* A slice of a cluster, as HouseholdSplit makes them, and one of each.
Slice(c, from, n) == {<<c, i>> : i \in from + 1 .. from + n}

Slices(m, from, cut) == UNION {Slice(c, from[c], cut[c]) : c \in 1 .. m}

LEMMA SliceIs ==
  ASSUME NEW c, NEW from \in Nat, NEW n \in Nat
  PROVE  IsFiniteSet(Slice(c, from, n)) /\ Cardinality(Slice(c, from, n)) = n
<1> DEFINE I == from + 1 .. from + n
           S == Slice(c, from, n)
           pair == [i \in I |-> <<c, i>>]
<1>1. IsFiniteSet(I) /\ Cardinality(I) = n
  <2>1. from + 1 \in Int /\ from + n \in Int
    OBVIOUS
  <2>2. /\ IsFiniteSet(I)
        /\ Cardinality(I) = IF from + 1 > from + n THEN 0 ELSE (from + n) - (from + 1) + 1
    BY <2>1, FS_Interval
  <2> QED
    BY <2>2
<1>2. pair \in [I -> S]
  BY DEF Slice
<1>3. \A i, j \in I : pair[i] = pair[j] => i = j
  OBVIOUS
<1>4. \A h \in S : \E i \in I : pair[i] = h
  BY DEF Slice
<1> HIDE DEF I, S, pair
<1>5. pair \in Bijection(I, S)
  <2>1. pair \in Injection(I, S)
    BY <1>2, <1>3, Fun_IsInj
  <2>2. pair \in Surjection(I, S)
    BY <1>2, <1>4, Fun_IsSurj
  <2> QED
    BY <2>1, <2>2 DEF Bijection
<1>6. IsFiniteSet(S) /\ Cardinality(S) = Cardinality(I)
  BY <1>1, <1>5, FS_Bijection DEF ExistsBijection
<1> QED
  BY <1>1, <1>6 DEF S

LEMMA SlicesAre ==
  ASSUME NEW m \in Nat, NEW from \in [1 .. m -> Nat], NEW cut \in [1 .. m -> Nat]
  PROVE  /\ IsFiniteSet(Slices(m, from, cut))
         /\ Cardinality(Slices(m, from, cut)) = Total(cut)
<1>1. cut \in [1 .. m -> Int]
  OBVIOUS
<1>2. PICK p : PartialSums(p, cut, m) /\ Total(cut) = p[m]
  BY <1>1, TotalSteps
<1> DEFINE S(i) == Slices(i, from, cut)
           T == {i \in 0 .. m : IsFiniteSet(S(i)) /\ Cardinality(S(i)) = p[i]}
<1>3. 0 \in T
  <2>1. S(0) = {}
    BY DEF Slices
  <2>2. IsFiniteSet(S(0)) /\ Cardinality(S(0)) = 0
    BY <2>1, FS_EmptySet
  <2> QED
    BY <1>2, <2>2 DEF PartialSums
<1>4. ASSUME NEW i \in 1 .. m, i - 1 \in T PROVE i \in T
  <2> DEFINE new == Slice(i, from[i], cut[i])
  <2>1. IsFiniteSet(S(i - 1)) /\ Cardinality(S(i - 1)) = p[i - 1]
    BY <1>4
  <2>2. IsFiniteSet(new) /\ Cardinality(new) = cut[i] /\ cut[i] \in Nat
    BY SliceIs
  <2>3. S(i) = S(i - 1) \cup new
    <3>1. 1 .. i = (1 .. i - 1) \cup {i}
      OBVIOUS
    <3> QED
      BY <3>1 DEF Slices
  <2>4. S(i - 1) \cap new = {}
    <3> SUFFICES ASSUME NEW h \in S(i - 1), h \in new PROVE FALSE
      OBVIOUS
    <3>1. PICK c \in 1 .. i - 1 : h \in Slice(c, from[c], cut[c])
      BY DEF Slices
    <3>2. h[1] = c /\ h[1] = i
      BY <3>1 DEF Slice
    <3> QED
      BY <3>1, <3>2
  <2>5. p[i] = p[i - 1] + cut[i] /\ p[i - 1] \in Int
    BY <1>2 DEF PartialSums
  <2> HIDE DEF S, new
  <2>6. /\ IsFiniteSet(S(i - 1) \cup new)
        /\ Cardinality(S(i - 1) \cup new) =
             Cardinality(S(i - 1)) + Cardinality(new) - Cardinality(S(i - 1) \cap new)
    BY <2>1, <2>2, FS_Union
  <2>7. Cardinality(S(i - 1) \cap new) = 0
    BY <2>4, FS_EmptySet
  <2>8. IsFiniteSet(S(i)) /\ Cardinality(S(i)) = p[i]
    BY <2>1, <2>2, <2>3, <2>5, <2>6, <2>7
  <2> QED
    BY <2>8
<1>5. T \in SUBSET (0 .. m) /\ m \in 0 .. m
  OBVIOUS
<1> HIDE DEF T
<1>6. m \in T
  BY <1>3, <1>4, <1>5, UpTo
<1> QED
  BY <1>2, <1>6 DEF T

\* Taking what is needed of the rest, cluster by cluster.
Taken(m, rest, need) ==
  [c \in 1 .. m |->
     IF Total([d \in 1 .. c |-> rest[d]]) <= need THEN rest[c]
     ELSE IF Total([d \in 1 .. c |-> rest[d]]) - rest[c] < need
            THEN need - (Total([d \in 1 .. c |-> rest[d]]) - rest[c]) ELSE 0]

LEMMA TakenIs ==
  ASSUME NEW m \in Nat, NEW rest \in [1 .. m -> Nat], NEW need \in Nat, need <= Total(rest)
  PROVE  /\ Taken(m, rest, need) \in [1 .. m -> Nat] /\ Total(Taken(m, rest, need)) = need
         /\ \A c \in 1 .. m : Taken(m, rest, need)[c] <= rest[c]
<1> DEFINE t == Taken(m, rest, need)
<1>1. rest \in [1 .. m -> Int] /\ \A c \in 1 .. m : rest[c] \in Nat
  OBVIOUS
<1>2. PICK p : PartialSums(p, rest, m) /\ Total(rest) = p[m]
  BY <1>1, TotalSteps
<1>3. \A c \in 1 .. m : p[c] \in Int /\ p[c - 1] \in Int /\ p[c] = p[c - 1] + rest[c]
  BY <1>2 DEF PartialSums
<1>4. \A c \in 1 .. m : Total([d \in 1 .. c |-> rest[d]]) = p[c]
  <2> SUFFICES ASSUME NEW c \in 1 .. m PROVE Total([d \in 1 .. c |-> rest[d]]) = p[c]
    OBVIOUS
  <2>1. c \in 0 .. m
    OBVIOUS
  <2> QED
    BY SMTT(30), <1>1, <1>2, <2>1, TotalOfFirst
<1>5. t = [c \in 1 .. m |-> IF p[c] <= need THEN rest[c]
                            ELSE IF p[c] - rest[c] < need THEN need - (p[c] - rest[c]) ELSE 0]
  BY <1>4 DEF Taken
<1>6. ASSUME NEW c \in 1 .. m
      PROVE  t[c] \in Nat /\ t[c] <= rest[c] /\ Lesser(p[c], need) = Lesser(p[c - 1], need) + t[c]
  <2>1. t[c] = IF p[c] <= need THEN rest[c]
               ELSE IF p[c] - rest[c] < need THEN need - (p[c] - rest[c]) ELSE 0
    BY <1>5
  <2>2. p[c] \in Int /\ p[c - 1] \in Int /\ p[c] = p[c - 1] + rest[c] /\ rest[c] \in Nat
    BY <1>1, <1>3
  <2>3. CASE p[c] <= need
    BY <2>1, <2>2, <2>3 DEF Lesser
  <2>4. CASE need < p[c] /\ p[c - 1] < need
    <3>1. p[c] - rest[c] = p[c - 1]
      BY <2>2
    <3>2. t[c] = need - p[c - 1]
      BY <2>1, <2>2, <2>4, <3>1
    <3>3. Lesser(p[c], need) = need /\ Lesser(p[c - 1], need) = p[c - 1]
      BY <2>2, <2>4 DEF Lesser
    <3> QED
      BY <2>2, <2>4, <3>2, <3>3
  <2>5. CASE need < p[c] /\ ~(p[c - 1] < need)
    BY <2>1, <2>2, <2>5 DEF Lesser
  <2> QED
    BY <2>2, <2>3, <2>4, <2>5
<1>7. t \in [1 .. m -> Nat] /\ t \in [1 .. m -> Int]
  <2> DEFINE v(c) == IF p[c] <= need THEN rest[c]
                     ELSE IF p[c] - rest[c] < need THEN need - (p[c] - rest[c]) ELSE 0
  <2>1. t = [c \in 1 .. m |-> v(c)] /\ \A c \in 1 .. m : t[c] = v(c)
    BY <1>5
  <2> HIDE DEF t, v
  <2> QED
    BY <1>6, <2>1
<1> HIDE DEF t
<1>8. PICK q : PartialSums(q, t, m) /\ Total(t) = q[m]
  BY <1>7, TotalSteps
<1> DEFINE T == {c \in 0 .. m : q[c] = Lesser(p[c], need)}
<1>9. 0 \in T
  <2>1. q[0] = 0 /\ p[0] = 0
    BY <1>2, <1>8 DEF PartialSums
  <2> QED
    BY <2>1 DEF Lesser
<1>10. ASSUME NEW c \in 1 .. m, c - 1 \in T PROVE c \in T
  <2>1. q[c] = q[c - 1] + t[c]
    BY <1>8 DEF PartialSums
  <2> QED
    BY <1>6, <1>10, <2>1
<1>11. T \in SUBSET (0 .. m) /\ m \in 0 .. m
  OBVIOUS
<1> HIDE DEF T
<1>12. m \in T
  BY <1>9, <1>10, <1>11, UpTo
<1>13. p[m] \in Int
  BY <1>2 DEF PartialSums
<1>14. Total(t) = need
  BY <1>2, <1>8, <1>12, <1>13 DEF T, Lesser
<1> QED
  BY <1>6, <1>7, <1>14 DEF t

LEMMA WithoutIs ==
  ASSUME NEW m \in Nat, NEW room \in [1 .. m -> Nat], NEW quota \in [1 .. m -> Nat],
         \A c \in 1 .. m : quota[c] <= room[c]
  PROVE  /\ Without(room, quota) \in [1 .. m -> Nat]
         /\ \A c \in 1 .. m : Without(room, quota)[c] = room[c] - quota[c]
         /\ Total(room) = Total(quota) + Total(Without(room, quota))
         /\ Total(Without(room, quota)) \in Int
<1> DEFINE w == Without(room, quota)
<1>1. \A c \in 1 .. m : room[c] \in Nat /\ quota[c] \in Nat
  OBVIOUS
<1>2. w = [c \in 1 .. m |-> room[c] - quota[c]]
  BY DEF Without
<1> HIDE DEF w
<1>3. w \in [1 .. m -> Nat] /\ \A c \in 1 .. m : w[c] = room[c] - quota[c]
  BY <1>1, <1>2
<1>4. w \in [1 .. m -> Int] /\ room \in [1 .. m -> Int] /\ quota \in [1 .. m -> Int]
  BY <1>3
<1>5. \A c \in 1 .. m : room[c] = quota[c] + w[c]
  BY <1>1, <1>3
<1>6. Total(room) = Total(quota) + Total(w)
  BY <1>4, <1>5, TotalPlus
<1>7. Total(w) \in Int
  BY <1>4, TotalType
<1> QED
  BY <1>3, <1>6, <1>7 DEF w

\* Two sets of slices, of which each begins where the other ends.
LEMMA SlicesAreApart ==
  ASSUME NEW m \in Nat, NEW from \in [1 .. m -> Nat], NEW cut \in [1 .. m -> Nat],
         NEW next \in [1 .. m -> Nat], NEW more \in [1 .. m -> Nat],
         \A c \in 1 .. m : from[c] + cut[c] <= next[c]
  PROVE  Slices(m, from, cut) \cap Slices(m, next, more) = {}
<1> SUFFICES ASSUME NEW h \in Slices(m, from, cut), h \in Slices(m, next, more) PROVE FALSE
  OBVIOUS
<1>1. PICK c \in 1 .. m : h \in Slice(c, from[c], cut[c])
  BY DEF Slices
<1>2. PICK d \in 1 .. m : h \in Slice(d, next[d], more[d])
  BY DEF Slices
<1>3. PICK i \in Int : h = <<c, i>> /\ i <= from[c] + cut[c]
  BY <1>1 DEF Slice
<1>4. PICK j \in Int : h = <<d, j>> /\ next[d] + 1 <= j
  BY <1>2 DEF Slice
<1>5. c = d /\ i = j
  BY <1>3, <1>4
<1>6. /\ from[c] \in Nat /\ cut[c] \in Nat /\ next[c] \in Nat
      /\ from[c] + cut[c] <= next[c]
  OBVIOUS
<1> QED
  BY <1>3, <1>4, <1>5, <1>6

LEMMA SlicesFit ==
  ASSUME NEW m \in Nat, NEW from \in [1 .. m -> Nat], NEW cut \in [1 .. m -> Nat],
         NEW room \in [1 .. m -> Nat], \A c \in 1 .. m : from[c] + cut[c] <= room[c],
         NEW h \in Slices(m, from, cut)
  PROVE  h[2] <= room[h[1]]
<1>1. PICK c \in 1 .. m : h \in Slice(c, from[c], cut[c])
  BY DEF Slices
<1>2. from[c] \in Nat /\ cut[c] \in Nat /\ room[c] \in Nat /\ from[c] + cut[c] <= room[c]
  OBVIOUS
<1>3. PICK i \in from[c] + 1 .. from[c] + cut[c] : h = <<c, i>>
  BY <1>1 DEF Slice
<1>4. i \in Int /\ i <= from[c] + cut[c] /\ h[1] = c /\ h[2] = i
  BY <1>2, <1>3
<1> QED
  BY <1>2, <1>4

\* Validation, testing and training get as many households as they ask for, no
\* two of them the same, and none that was not selected.
Handed(parts, sel, trainN, valN, testN) ==
  /\ Cardinality(parts.val) = valN
  /\ Cardinality(parts.test) = testN
  /\ Cardinality(parts.train) = trainN
  /\ Cardinality(parts.val \cup parts.test \cup parts.train) = trainN + valN + testN
  /\ \A part \in DOMAIN parts : \A h \in parts[part] : h[2] <= sel[h[1]]
  /\ parts["test"] \cap (parts["train"] \cup parts["val"]) = {}

LEMMA SplitIs ==
  ASSUME NEW m \in Nat \ {0}, NEW sel \in [1 .. m -> Nat],
         NEW trainN \in Nat, NEW valN \in Nat, NEW testN \in Nat,
         trainN + valN + testN <= Total(sel)
  PROVE  Handed(HouseholdSplit(sel, trainN, valN, testN), sel, trainN, valN, testN)
<1> DEFINE val  == Quotas(sel, valN)
           left == Without(sel, val)
           test == Quotas(left, testN)
           rest == Without(left, test)
           train == Taken(m, rest, trainN)
           none == [c \in 1 .. m |-> 0]
           both == [c \in 1 .. m |-> val[c] + test[c]]
           parts == HouseholdSplit(sel, trainN, valN, testN)
           V == Slices(m, none, val)
           E == Slices(m, val, test)
           R == Slices(m, both, train)
<1>1. m \in Nat /\ DOMAIN sel = 1 .. m /\ \A c \in 1 .. m : sel[c] \in Nat
  OBVIOUS
<1>2. Total(sel) \in Int
  <2>1. sel \in [1 .. m -> Int]
    OBVIOUS
  <2> QED
    BY <1>1, <2>1, TotalType
<1>3. parts = [val |-> V, test |-> E, train |-> R]
  <2> DEFINE took(c) == IF Total([d \in 1 .. c |-> rest[d]]) <= trainN THEN rest[c]
                        ELSE IF Total([d \in 1 .. c |-> rest[d]]) - rest[c] < trainN
                          THEN trainN - (Total([d \in 1 .. c |-> rest[d]]) - rest[c]) ELSE 0
  <2>1. \A c \in 1 .. m : none[c] = 0 /\ both[c] = val[c] + test[c] /\ train[c] = took(c)
    BY DEF Taken
  <2>2. parts = [val   |-> UNION {Slice(c, 0, val[c]) : c \in DOMAIN sel},
                 test  |-> UNION {Slice(c, val[c], test[c]) : c \in DOMAIN sel},
                 train |-> UNION {Slice(c, val[c] + test[c], took(c)) : c \in DOMAIN sel}]
    BY DEF HouseholdSplit, Slice
  <2> HIDE DEF parts, val, test, none, both, train, took
  <2>3. /\ UNION {Slice(c, 0, val[c]) : c \in DOMAIN sel} = V
        /\ UNION {Slice(c, val[c], test[c]) : c \in DOMAIN sel} = E
        /\ UNION {Slice(c, val[c] + test[c], took(c)) : c \in DOMAIN sel} = R
    BY <1>1, <2>1 DEF Slices
  <2> QED
    BY <2>2, <2>3
<1> HIDE DEF parts
<1>4. val \in [1 .. m -> Nat] /\ Total(val) = valN /\ \A c \in 1 .. m : val[c] <= sel[c]
  <2>1. valN <= Total(sel)
    BY <1>2
  <2> QED
    BY <2>1, QuotasAre
<1> HIDE DEF val
<1>5. /\ left \in [1 .. m -> Nat] /\ \A c \in 1 .. m : left[c] = sel[c] - val[c]
      /\ Total(sel) = valN + Total(left) /\ Total(left) \in Int
  BY ZenonT(60), <1>1, <1>4, WithoutIs
<1> HIDE DEF left
<1>6. test \in [1 .. m -> Nat] /\ Total(test) = testN /\ \A c \in 1 .. m : test[c] <= left[c]
  <2>1. testN <= Total(left)
    BY <1>2, <1>5
  <2> QED
    BY <1>5, <2>1, QuotasAre
<1> HIDE DEF test
<1>7. /\ rest \in [1 .. m -> Nat] /\ \A c \in 1 .. m : rest[c] = left[c] - test[c]
      /\ Total(left) = testN + Total(rest) /\ Total(rest) \in Int
  BY ZenonT(60), <1>1, <1>5, <1>6, WithoutIs
<1> HIDE DEF rest
<1>8. train \in [1 .. m -> Nat] /\ Total(train) = trainN /\ \A c \in 1 .. m : train[c] <= rest[c]
  <2>1. trainN <= Total(rest)
    BY <1>2, <1>5, <1>7
  <2> QED
    BY <1>1, <1>7, <2>1, TakenIs
<1> HIDE DEF train
<1>9. /\ none \in [1 .. m -> Nat] /\ both \in [1 .. m -> Nat]
      /\ \A c \in 1 .. m : none[c] = 0 /\ both[c] = val[c] + test[c]
  BY <1>4, <1>6
<1> HIDE DEF none, both
<1>10. ASSUME NEW c \in 1 .. m
       PROVE  /\ none[c] + val[c] <= val[c] /\ none[c] + val[c] <= both[c]
              /\ val[c] + test[c] <= both[c]
              /\ none[c] + val[c] <= sel[c] /\ val[c] + test[c] <= sel[c]
              /\ both[c] + train[c] <= sel[c]
  <2>1. /\ val[c] \in Nat /\ test[c] \in Nat /\ train[c] \in Nat /\ sel[c] \in Nat
        /\ left[c] = sel[c] - val[c] /\ rest[c] = left[c] - test[c]
        /\ val[c] <= sel[c] /\ test[c] <= left[c] /\ train[c] <= rest[c]
        /\ none[c] = 0 /\ both[c] = val[c] + test[c]
    BY <1>1, <1>4, <1>5, <1>6, <1>7, <1>8, <1>9
  <2> QED
    BY SMTT(30), <2>1
<1>11. V \cap E = {} /\ V \cap R = {} /\ E \cap R = {}
  <2>1. V \cap E = {}
    BY <1>1, <1>4, <1>6, <1>9, <1>10, SlicesAreApart
  <2>2. V \cap R = {}
    BY <1>1, <1>4, <1>8, <1>9, <1>10, SlicesAreApart
  <2>3. E \cap R = {}
    BY <1>1, <1>4, <1>6, <1>8, <1>9, <1>10, SlicesAreApart
  <2> QED
    BY <2>1, <2>2, <2>3
<1>12. /\ IsFiniteSet(V) /\ Cardinality(V) = valN
       /\ IsFiniteSet(E) /\ Cardinality(E) = testN
       /\ IsFiniteSet(R) /\ Cardinality(R) = trainN
  BY <1>1, <1>4, <1>6, <1>8, <1>9, SlicesAre
<1>13. /\ \A h \in V : h[2] <= sel[h[1]]
       /\ \A h \in E : h[2] <= sel[h[1]]
       /\ \A h \in R : h[2] <= sel[h[1]]
  <2>1. \A h \in V : h[2] <= sel[h[1]]
    BY <1>1, <1>4, <1>9, <1>10, SlicesFit
  <2>2. \A h \in E : h[2] <= sel[h[1]]
    BY <1>1, <1>4, <1>6, <1>10, SlicesFit
  <2>3. \A h \in R : h[2] <= sel[h[1]]
    BY <1>1, <1>8, <1>9, <1>10, SlicesFit
  <2> QED
    BY <2>1, <2>2, <2>3
<1> HIDE DEF V, E, R
<1>14. Cardinality(V \cup E \cup R) = trainN + valN + testN
  <2>1. Cardinality({}) = 0
    BY FS_EmptySet
  <2>2. IsFiniteSet(V \cup E) /\ Cardinality(V \cup E) = valN + testN
    <3>1. /\ IsFiniteSet(V \cup E)
          /\ Cardinality(V \cup E) = Cardinality(V) + Cardinality(E) - Cardinality(V \cap E)
      BY <1>12, FS_Union
    <3>2. Cardinality(V \cap E) = 0
      BY <1>11, <2>1
    <3> QED
      BY <1>12, <3>1, <3>2
  <2>3. Cardinality((V \cup E) \cup R)
          = Cardinality(V \cup E) + Cardinality(R) - Cardinality((V \cup E) \cap R)
    BY <1>12, <2>2, FS_Union
  <2>4. Cardinality((V \cup E) \cap R) = 0
    <3>1. (V \cup E) \cap R = {}
      BY <1>11
    <3> QED
      BY <2>1, <3>1
  <2> QED
    BY <1>12, <2>2, <2>3, <2>4
<1>15. /\ parts.val = V /\ parts.test = E /\ parts.train = R /\ parts["test"] = E
       /\ parts["train"] = R /\ parts["val"] = V /\ DOMAIN parts = {"val", "test", "train"}
  BY <1>3
<1>16. E \cap (R \cup V) = {}
  BY <1>11
<1>17. Handed(parts, sel, trainN, valN, testN)
  BY <1>12, <1>13, <1>14, <1>15, <1>16 DEF Handed
<1> QED
  BY <1>17 DEF parts

\* Without a manifest: the last tenth has targets of its own.
LEMMA CutIs ==
  ASSUME NEW n \in Nat, NEW seqLen \in Nat, NEW predLen \in Nat
  PROVE  TargetsOf(TimeCut("test", n, seqLen), seqLen, predLen) \cap
           (TargetsOf(TimeCut("train", n, seqLen), seqLen, predLen)
              \cup TargetsOf(TimeCut("val", n, seqLen), seqLen, predLen)) = {}
<1> DEFINE p8 == (8 * n) \div 10
           p9 == (9 * n) \div 10
           early(p) == IF p > seqLen THEN p - seqLen ELSE 0
<1>1. p8 \in Nat /\ p9 \in Nat /\ p8 <= p9 /\ p9 <= n
  OBVIOUS
<1>2. /\ TimeCut("train", n, seqLen) = [from |-> 0, to |-> p8]
      /\ TimeCut("val", n, seqLen) = [from |-> early(p8), to |-> p9]
      /\ TimeCut("test", n, seqLen) = [from |-> early(p9), to |-> n]
  BY DEF TimeCut
<1> HIDE DEF p8, p9
<1>3. /\ \A t \in TargetsOf([from |-> 0, to |-> p8], seqLen, predLen) :
           t \in Int /\ seqLen + 1 <= t /\ t <= p8
      /\ \A t \in TargetsOf([from |-> early(p8), to |-> p9], seqLen, predLen) :
           t \in Int /\ seqLen + 1 <= t /\ t <= p9
      /\ \A t \in TargetsOf([from |-> early(p9), to |-> n], seqLen, predLen) :
           t \in Int /\ early(p9) + seqLen + 1 <= t
  BY <1>1 DEF TargetsOf
<1>4. \A t \in Int : seqLen + 1 <= t /\ t <= p9 => ~(early(p9) + seqLen + 1 <= t)
  BY <1>1
<1>5. \A t \in Int : t <= p8 => t <= p9
  BY <1>1
<1> QED
  BY <1>2, <1>3, <1>4, <1>5

-------------------------------------------------------------------------------
(***************************************************************************)
(* The cohort is what the arithmetic makes of clusters that hold all the   *)
(* households, and nobody changes the clusters once it is selected.        *)
(***************************************************************************)
SamplingInv ==
  /\ length \in Nat /\ mode \in {"manifest", "single", "many"}
  /\ size # None => \E j \in Nat \ {0} : size \in [1 .. j -> Nat] /\ Total(size) = Households
  /\ selected # None => size # None
  /\ split # None => split["test"] \cap (split["train"] \cup split["val"]) = {}
  /\ CohortIsSound

LEMMA SamplingInit == Init => SamplingInv
BY PipelineAssumption DEF Init, SamplingInv, CohortIsSound

LEMMA ReclusterKeeps ==
  ASSUME SamplingInv, Recluster
  PROVE  SamplingInv'
<1>1. UNCHANGED <<mode, length, selected, split>> /\ size = None /\ selected = None
  BY DEF Recluster, chosen, SamplingInv
<1>2. ASSUME NEW s \in Clusterings
      PROVE  \E j \in Nat \ {0} : s \in [1 .. j -> Nat] /\ Total(s) = Households
  <2>1. PICK j \in 1 .. k : s \in [1 .. j -> 1 .. Households]
    BY DEF Clusterings
  <2>2. j \in Nat \ {0} /\ s \in [1 .. j -> Nat] /\ Total(s) = Households
    BY <2>1 DEF Clusterings
  <2> QED
    BY <2>2
<1>3. size' = size \/ size' \in Clusterings
  BY DEF Recluster
<1>4. size' # None => \E j \in Nat \ {0} : size' \in [1 .. j -> Nat] /\ Total(size') = Households
  BY <1>1, <1>2, <1>3
<1> QED
  BY <1>1, <1>4 DEF SamplingInv, CohortIsSound

LEMMA ManifestIsSound ==
  ASSUME SamplingInv, WriteManifest
  PROVE  SamplingInv'
<1>1. UNCHANGED <<mode, length, size>> /\ size # None
  BY DEF WriteManifest, chosen
<1>2. PICK j \in Nat \ {0} : size \in [1 .. j -> Nat] /\ Total(size) = Households
  BY <1>1 DEF SamplingInv
<1>3. TrainN \in Nat /\ ValN \in Nat /\ TestN \in Nat /\ TargetN \in Nat
  BY PipelineAssumption
<1> DEFINE sel == Selected(size, TargetN)
<1>4. /\ sel \in [1 .. j -> Nat] /\ Total(sel) = Lesser(TargetN, Households)
      /\ Balanced(sel, size)
  BY <1>2, <1>3, SelectedIs
<1>5. /\ selected' = sel
      /\ split' = IF TrainN + ValN + TestN <= Total(sel)
                    THEN HouseholdSplit(sel, TrainN, ValN, TestN) ELSE None
  BY DEF WriteManifest
<1> HIDE DEF sel
<1>6. split' # None => Handed(split', sel, TrainN, ValN, TestN)
  BY <1>3, <1>4, <1>5, SplitIs
<1>7. CohortIsSound'
  <2>1. Total(selected') = Lesser(TargetN, Households)
    BY <1>4, <1>5
  <2>2. \A c, d \in DOMAIN size' : /\ selected'[c] <= size'[c]
                                   /\ selected'[d] > selected'[c] + 2 => selected'[c] = size'[c]
    BY <1>1, <1>4, <1>5 DEF Balanced
  <2>3. split' # None =>
          /\ Cardinality(split'.val) = ValN
          /\ Cardinality(split'.test) = TestN
          /\ Cardinality(split'.train) = TrainN
          /\ Cardinality(split'.val \cup split'.test \cup split'.train) = TrainN + ValN + TestN
          /\ \A part \in DOMAIN split' : \A h \in split'[part] : h[2] <= selected'[h[1]]
    BY <1>5, <1>6 DEF Handed
  <2> QED
    BY <2>1, <2>2, <2>3 DEF CohortIsSound
<1>8. split' # None => split'["test"] \cap (split'["train"] \cup split'["val"]) = {}
  BY <1>6 DEF Handed
<1> QED
  BY <1>1, <1>7, <1>8 DEF SamplingInv

LEMMA SamplingStep == SamplingInv /\ [Next]_vars => SamplingInv'
<1> SUFFICES ASSUME SamplingInv, [Next]_vars PROVE SamplingInv'
  OBVIOUS
<1>1. CASE \/ StartTraining \/ WarmStart \/ Continue \/ TrainingDies
           \/ ReadTest \/ EvaluationEnds \/ UNCHANGED vars
           \/ \E r \in Runs : \/ WriteSome(r) \/ WriteRest(r) \/ Open(r) \/ Stage(r)
                              \/ Publish(r) \/ EtlDies(r)
           \/ \E f \in Parts : Check(f)
           \/ \E part \in {"train", "val"} : ReadSplit(part)
           \/ \E loss \in Losses \cup {NaN} : Epoch(loss)
           \/ \E f \in Files : SaveFile(f) \/ ReadFile(f)
           \/ \E s \in 1 .. Stages : StartEvaluation(s)
  <2>1. UNCHANGED <<mode, length, size, selected, split>>
    BY <1>1 DEF StartTraining, WarmStart, Continue, TrainingDies, Check, ReadTest, EvaluationEnds,
       vars, WriteSome, WriteRest, Open, Stage, Publish, EtlDies, ReadSplit, Epoch, SaveFile, ReadFile,
       StartEvaluation, chosen, sampling
  <2> QED
    BY <2>1 DEF SamplingInv, CohortIsSound
<1> QED
  BY <1>1, ReclusterKeeps, ManifestIsSound DEF Next, Parts

LEMMA SamplingAlways == Spec => []SamplingInv
BY SamplingInit, SamplingStep, PTL DEF Spec

(***************************************************************************)
(* For any clusters and quotas the cohort has the size asked for, balanced *)
(* over the clusters, and the split hands out as many households as it was *)
(* asked for, none twice and none that was not selected                    *)
(* (stratified_select, _quotas and cluster_stratified_household_split).    *)
(***************************************************************************)
THEOREM CohortIsDealtOut == Spec => []CohortIsSound
<1>1. SamplingInv => CohortIsSound
  BY DEF SamplingInv
<1> QED
  BY <1>1, SamplingAlways, PTL

(***************************************************************************)
(* No reading is a target both of the evaluation and of training or        *)
(* validation, with a manifest or for a single household: for any clusters,*)
(* quotas, lengths and windows (stratified_select and                      *)
(* cluster_stratified_household_split, representative_sampling.py; the     *)
(* cuts of dataset.py).                                                    *)
(***************************************************************************)
THEOREM TestDataAreUnseen == Spec => []TestIsUnseen
<1>1. SamplingInv => TestIsUnseen
  <2> SUFFICES ASSUME SamplingInv, mode # "many"
               PROVE  Targets("test") \cap (Targets("train") \cup Targets("val")) = {}
    BY DEF TestIsUnseen
  <2>1. CASE mode = "manifest"
    <3> DEFINE T == TargetsOf(Whole, SeqLen, PredLen)
    <3>1. \A part \in {"test", "train", "val"} :
            Targets(part) = IF split = None THEN {} ELSE split[part] \X T
      BY <2>1 DEF Targets
    <3> HIDE DEF T
    <3>2. split # None => split["test"] \cap (split["train"] \cup split["val"]) = {}
      BY DEF SamplingInv
    <3> QED
      BY <3>1, <3>2
  <2>2. CASE mode = "single"
    <3> DEFINE T(part) == TargetsOf(TimeCut(part, length, SeqLen), SeqLen, PredLen)
    <3>1. \A part \in {"test", "train", "val"} : Targets(part) = {1} \X T(part)
      BY <2>2 DEF Targets
    <3>2. T("test") \cap (T("train") \cup T("val")) = {}
      BY PipelineAssumption, CutIs DEF SamplingInv
    <3> HIDE DEF T
    <3> QED
      BY <3>1, <3>2
  <2> QED
    BY <2>1, <2>2 DEF SamplingInv
<1> QED
  BY <1>1, SamplingAlways, PTL

-------------------------------------------------------------------------------
(***************************************************************************)
(* The ETL of one household (module Etl), for any file, any weather and any *)
(* lags, windows and shares of extremes.                                    *)
(***************************************************************************)
LEMMA ExtremesAre ==
  ASSUME NEW S \in SUBSET Int, IsFiniteSet(S), S # {}
  PROVE  /\ Max(S) \in S /\ \A x \in S : x <= Max(S)
         /\ Min(S) \in S /\ \A x \in S : Min(S) <= x
<1>0. PICK n \in Nat : ExistsSurjection(1 .. n, S)
  BY FS_NatSurjection
<1>1. PICK g \in [1 .. n -> S] : \A x \in S : \E i \in 1 .. n : g[i] = x
  BY <1>0 DEF ExistsSurjection, Surjection
<1>2. n > 0 /\ n \in 0 .. n
  <2>1. 1 .. n # {}
    BY <1>1
  <2> QED
    BY <2>1
<1> DEFINE T == {i \in 0 .. n :
                   i = 0 \/ \E a, b \in 1 .. i : \A j \in 1 .. i : g[a] <= g[j] /\ g[j] <= g[b]}
<1>3. 0 \in T
  OBVIOUS
<1>4. ASSUME NEW i \in 1 .. n, i - 1 \in T PROVE i \in T
  <2>1. \A j \in 1 .. i : g[j] \in Int /\ (j = i \/ j \in 1 .. i - 1)
    <3> SUFFICES ASSUME NEW j \in 1 .. i PROVE g[j] \in Int /\ (j = i \/ j \in 1 .. i - 1)
      OBVIOUS
    <3>1. j \in 1 .. n /\ (j = i \/ j \in 1 .. i - 1)
      OBVIOUS
    <3>2. g[j] \in S
      BY <1>1, <3>1
    <3> QED
      BY <3>1, <3>2
  <2>2. CASE i = 1
    <3>1. \A j \in 1 .. i : j = 1
      BY <2>2
    <3>2. g[1] <= g[1] /\ 1 \in 1 .. i
      BY <2>1, <2>2
    <3>3. \A j \in 1 .. i : g[1] <= g[j] /\ g[j] <= g[1]
      BY <3>1, <3>2
    <3> QED
      BY <3>2, <3>3
  <2>3. CASE i # 1
    <3>1. PICK a \in 1 .. i - 1, b \in 1 .. i - 1 :
            \A j \in 1 .. i - 1 : g[a] <= g[j] /\ g[j] <= g[b]
      BY <1>4, <2>3
    <3>2. a \in 1 .. i /\ b \in 1 .. i /\ i \in 1 .. i
      OBVIOUS
    <3>3. \E c \in 1 .. i : g[c] <= g[a] /\ g[c] <= g[i]
      BY <2>1, <3>2
    <3>4. PICK c \in 1 .. i : g[c] <= g[a] /\ g[c] <= g[i]
      BY <3>3
    <3>5. \E d \in 1 .. i : g[b] <= g[d] /\ g[i] <= g[d]
      BY <2>1, <3>2
    <3>6. PICK d \in 1 .. i : g[b] <= g[d] /\ g[i] <= g[d]
      BY <3>5
    <3>7. \A j \in 1 .. i : g[c] <= g[j] /\ g[j] <= g[d]
      BY <2>1, <3>1, <3>2, <3>4, <3>6
    <3> QED
      BY <3>7
  <2> QED
    BY <2>2, <2>3
<1>5. T \in SUBSET (0 .. n)
  OBVIOUS
<1> HIDE DEF T
<1>6. n \in T
  BY <1>2, <1>3, <1>4, <1>5, UpTo
<1>7. PICK a \in 1 .. n, b \in 1 .. n : \A j \in 1 .. n : g[a] <= g[j] /\ g[j] <= g[b]
  BY <1>2, <1>6 DEF T
<1>8. /\ g[a] \in S /\ \A x \in S : g[a] <= x
      /\ g[b] \in S /\ \A x \in S : g[b] >= x
  BY <1>1, <1>7
<1>9. Max(S) \in S /\ \A x \in S : Max(S) >= x
  BY <1>8 DEF Max
<1>10. Min(S) \in S /\ \A x \in S : Min(S) <= x
  BY <1>8 DEF Min
<1> QED
  BY <1>9, <1>10

\* The sum does not change when zeros follow.
LEMMA ZerosFollow ==
  ASSUME NEW n \in Nat, NEW s \in [1 .. n -> Int], NEW c \in 0 .. n, NEW r \in [1 .. c -> Int],
         \A i \in 1 .. c : r[i] = s[i], \A i \in 1 .. n : i > c => s[i] = 0
  PROVE  Total(r) = Total(s)
<1>1. PICK p : PartialSums(p, s, n) /\ Total(s) = p[n]
  BY TotalSteps
<1>2. Total(r) = p[c]
  <2>1. r = [d \in 1 .. c |-> s[d]]
    OBVIOUS
  <2> QED
    BY <1>1, <2>1, TotalOfFirst
<1> DEFINE T == {i \in 0 .. n : i >= c => p[i] = p[c]}
<1>3. 0 \in T
  OBVIOUS
<1>4. ASSUME NEW i \in 1 .. n, i - 1 \in T PROVE i \in T
  <2>1. p[i] = p[i - 1] + s[i] /\ p[i - 1] \in Int
    BY <1>1 DEF PartialSums
  <2> QED
    BY <1>4, <2>1
<1>5. T \in SUBSET (0 .. n) /\ n \in 0 .. n
  OBVIOUS
<1> HIDE DEF T
<1>6. n \in T
  BY <1>3, <1>4, <1>5, UpTo
<1> QED
  BY <1>1, <1>2, <1>6 DEF T

-------------------------------------------------------------------------------
\* The bounds of the grid of a household that has readings.
Begin(m) == Min(Aggregated(m))
End(m)   == Max(Aggregated(m))

Span(m) == End(m) - Begin(m) + 1

LEMMA GridIs ==
  ASSUME NEW m, Aggregated(m) # {}
  PROVE  /\ Begin(m) \in Aggregated(m) /\ End(m) \in Aggregated(m)
         /\ Begin(m) \in 1 .. LastSlot /\ End(m) \in 1 .. LastSlot /\ Begin(m) <= End(m)
         /\ Grid(m) = Begin(m) .. End(m) /\ Span(m) \in Nat \ {0}
         /\ \A s \in Aggregated(m) : Begin(m) <= s /\ s <= End(m)
<1>1. /\ Slots = 1 .. LastSlot /\ LastSlot \in Nat
      /\ Aggregated(m) = {s \in Slots : m[s] # <<>>}
  BY EtlAssumption DEF Slots, Aggregated
<1>2. IsFiniteSet(Aggregated(m)) /\ Aggregated(m) \in SUBSET Int
  <2>1. IsFiniteSet(1 .. LastSlot)
    BY <1>1, FS_Interval
  <2> QED
    BY <1>1, <2>1, FS_Subset
<1>3. /\ Begin(m) \in Aggregated(m) /\ End(m) \in Aggregated(m)
      /\ \A s \in Aggregated(m) : Begin(m) <= s /\ s <= End(m)
  BY <1>2, ExtremesAre DEF Begin, End
<1>4. Begin(m) \in 1 .. LastSlot /\ End(m) \in 1 .. LastSlot /\ Begin(m) <= End(m)
  BY <1>1, <1>3
<1>5. Grid(m) = Begin(m) .. End(m)
  BY DEF Grid, Begin, End
<1>6. Span(m) \in Nat \ {0}
  BY <1>1, <1>4 DEF Span
<1> QED
  BY <1>3, <1>4, <1>5, <1>6

LEMMA IntervalIsListed ==
  ASSUME LastSlot \in Nat, NEW a \in 1 .. LastSlot, NEW b \in 1 .. LastSlot, a <= b
  PROVE  Listed(a .. b, Before) = [i \in 1 .. b - a + 1 |-> a + i - 1]
<1>1. Cardinality(a .. b) = b - a + 1
  <2>1. a \in Int /\ b \in Int
    OBVIOUS
  <2> QED
    BY <2>1, FS_Interval
<1>2. \A x \in a .. b : RankIn(a .. b, Before, x) = x - a
  <2> SUFFICES ASSUME NEW x \in a .. b PROVE RankIn(a .. b, Before, x) = x - a
    OBVIOUS
  <2>1. \A y \in a .. b : <<y, x>> \in Before <=> y < x
    <3> SUFFICES ASSUME NEW y \in a .. b PROVE <<y, x>> \in Before <=> y < x
      OBVIOUS
    <3>1. <<y, x>> \in Slots \X Slots /\ <<y, x>>[1] = y /\ <<y, x>>[2] = x
      BY DEF Slots
    <3> QED
      BY <3>1 DEF Before
  <2>2. {y \in a .. b : <<y, x>> \in Before} = a .. x - 1
    <3>1. \A y \in a .. b : y < x <=> y \in a .. x - 1
      OBVIOUS
    <3>2. a .. x - 1 \subseteq a .. b
      OBVIOUS
    <3> QED
      BY <2>1, <3>1, <3>2
  <2>3. Cardinality(a .. x - 1) = x - a
    <3>1. a \in Int /\ x - 1 \in Int /\ a <= x
      OBVIOUS
    <3>2. Cardinality(a .. x - 1) = IF a > x - 1 THEN 0 ELSE (x - 1) - a + 1
      BY <3>1, FS_Interval
    <3> QED
      BY <3>1, <3>2
  <2> QED
    BY <2>2, <2>3 DEF RankIn
<1>3. ASSUME NEW i \in 1 .. b - a + 1
      PROVE  (CHOOSE x \in a .. b : RankIn(a .. b, Before, x) = i - 1) = a + i - 1
  <2>1. a + i - 1 \in a .. b /\ \A x \in a .. b : x - a = i - 1 <=> x = a + i - 1
    OBVIOUS
  <2>2. \A x \in a .. b : RankIn(a .. b, Before, x) = i - 1 <=> x = a + i - 1
    BY <1>2, <2>1
  <2> QED
    BY <2>1, <2>2
<1> QED
  BY <1>1, <1>3 DEF Listed

-------------------------------------------------------------------------------
\* The values of a slot, the row that Flag makes of it, and such rows.
ValueOf(m, s) == IF known /\ m[s] # <<>> THEN SumOf(m[s]) ELSE None

RawRow(m, s) ==
  [slot |-> s, kwh |-> IF ValueOf(m, s) = NaN THEN None ELSE ValueOf(m, s),
   loadMissing |-> ValueOf(m, s) \in {None, NaN},
   weatherMissing |-> ~HasWeather(s)]

RowsOf(Value) == [slot : Int, kwh : Value, loadMissing : BOOLEAN, weatherMissing : BOOLEAN]

LEMMA SumOfIs ==
  ASSUME NEW rows \in Readings
  PROVE  SumOf(rows) \in Int \cup {None, NaN}
<1> DEFINE there == {i \in DOMAIN rows : rows[i] # None}
           n == Len(rows)
           w == Within(there, rows)
<1>1. rows \in Seq(Nat \cup {None, NaN})
  BY EtlAssumption
<1>2. n \in Nat /\ DOMAIN rows = 1 .. n /\ \A i \in 1 .. n : rows[i] \in Nat \cup {None, NaN}
  BY <1>1, LenProperties
<1>3. CASE there = {}
  BY <1>3 DEF SumOf
<1>4. CASE there # {} /\ \E i \in there : rows[i] = NaN
  BY <1>4 DEF SumOf
<1>5. CASE there # {} /\ ~\E i \in there : rows[i] = NaN
  <2>1. w = [i \in 1 .. n |-> IF i \in there THEN rows[i] ELSE 0]
    BY <1>2 DEF Within
  <2>2. w \in [1 .. n -> Int]
    <3>1. \A i \in 1 .. n : i \in there => rows[i] \in Nat
      BY <1>2, <1>5
    <3> HIDE DEF there, w, n
    <3> QED
      BY <2>1, <3>1
  <2>3. SumOf(rows) = Total(w)
    BY <1>5 DEF SumOf
  <2> HIDE DEF w, n
  <2> QED
    BY <1>2, <2>2, <2>3, TotalType
<1> QED
  BY <1>3, <1>4, <1>5

LEMMA RawRowIs ==
  ASSUME NEW m \in [Slots -> Readings], NEW s \in Slots
  PROVE  RawRow(m, s) \in RowsOf(Int \cup {None}) /\ RawRow(m, s).slot = s
<1>1. s \in Int
  BY DEF Slots
<1>2. ValueOf(m, s) \in Int \cup {None, NaN}
  BY SumOfIs DEF ValueOf
<1> QED
  BY <1>1, <1>2 DEF RawRow, RowsOf

LEMMA FlaggedIs ==
  ASSUME NEW m, Aggregated(m) # {}
  PROVE  Flagged(Joined(Resampled(m)))
           = [i \in 1 .. Span(m) |-> RawRow(m, Begin(m) + i - 1)]
<1> DEFINE a == Begin(m)
           n == Span(m)
           t == Resampled(m)
           u == Joined(t)
<1>1. t = [i \in 1 .. n |-> [slot |-> a + i - 1, kwh |-> ValueOf(m, a + i - 1)]]
  <2>1. Listed(Grid(m), Before) = [i \in 1 .. n |-> a + i - 1]
    <3>1. LastSlot \in Nat
      BY EtlAssumption
    <3> QED
      BY <3>1, GridIs, IntervalIsListed DEF Span
  <2> QED
    BY <2>1 DEF Resampled, ValueOf
<1> HIDE DEF t, a, n
<1>2. u = [i \in 1 .. n |-> [slot |-> a + i - 1, kwh |-> ValueOf(m, a + i - 1),
                             weather |-> HasWeather(a + i - 1)]]
  <2>1. DOMAIN t = 1 .. n
    BY <1>1
  <2>2. \A i \in 1 .. n : t[i].slot = a + i - 1 /\ t[i].kwh = ValueOf(m, a + i - 1)
    BY <1>1
  <2> QED
    BY <2>1, <2>2 DEF Joined
<1> HIDE DEF u
<1>3. DOMAIN u = 1 .. n
  BY <1>2
<1>4. \A i \in 1 .. n : /\ u[i].slot = a + i - 1 /\ u[i].kwh = ValueOf(m, a + i - 1)
                        /\ u[i].weather = HasWeather(a + i - 1)
  BY <1>2
<1>5. Flagged(u) = [i \in 1 .. n |-> RawRow(m, a + i - 1)]
  BY <1>3, <1>4 DEF Flagged, RawRow
<1> QED
  BY <1>5 DEF a, n, u, t

LEMMA NothingIsFlagged ==
  ASSUME NEW m, Aggregated(m) = {}
  PROVE  DOMAIN Flagged(Joined(Resampled(m))) = {}
<1>1. Listed({}, Before) = [i \in 1 .. 0 |-> CHOOSE x \in {} : RankIn({}, Before, x) = i - 1]
  BY FS_EmptySet DEF Listed
<1>2. DOMAIN Resampled(m) = {}
  BY <1>1 DEF Resampled, Grid
<1> QED
  BY <1>2 DEF Joined, Flagged


-------------------------------------------------------------------------------
\* g has the first rows of f.
Begins(g, f, c, n) ==
  /\ DOMAIN g = 1 .. c /\ DOMAIN f = 1 .. n
  /\ \A i \in 1 .. c : i \in 1 .. n /\ g[i] = f[i]

\* The rows that fill row i, and their values in a column.
Past(f, i) == {j \in Filling(f, i) : f[j].kwh # None}
Column(f, i) == Within(Past(f, i), [j \in DOMAIN f |-> f[j].kwh])

FilledFrom(f, i, n) ==
  /\ Past(f, i) = {j \in 1 .. n : j < i /\ f[j].kwh # None}
  /\ IsFiniteSet(Past(f, i))
  /\ Column(f, i) \in [1 .. n -> Int]
  /\ \A j \in 1 .. n : Column(f, i)[j] = IF j \in Past(f, i) THEN f[j].kwh ELSE 0
  /\ Mean(f, i) = IF Past(f, i) = {} THEN 0
                    ELSE Total(Column(f, i)) \div Cardinality(Past(f, i))

LEMMA PastIs ==
  ASSUME NEW n \in Nat, NEW f \in [1 .. n -> RowsOf(Int \cup {None})], NEW i \in 1 .. n
  PROVE  FilledFrom(f, i, n)
<1>1. DOMAIN f = 1 .. n /\ \A j \in 1 .. n : f[j].kwh \in Int \cup {None}
  BY DEF RowsOf
<1>2. Past(f, i) = {j \in 1 .. n : j < i /\ f[j].kwh # None}
  BY <1>1 DEF Past, Filling
<1>3. IsFiniteSet(Past(f, i))
  <2>1. IsFiniteSet(1 .. n)
    BY FS_Interval
  <2>2. Past(f, i) \subseteq 1 .. n
    BY <1>2
  <2> QED
    BY <2>1, <2>2, FS_Subset
<1>4. Column(f, i) = [j \in 1 .. n |-> IF j \in Past(f, i) THEN f[j].kwh ELSE 0]
  BY <1>1 DEF Column, Within
<1>5. Column(f, i) \in [1 .. n -> Int]
  <2>1. \A j \in 1 .. n : j \in Past(f, i) => f[j].kwh \in Int
    BY <1>1, <1>2
  <2> QED
    BY <1>4, <2>1
<1>6. Mean(f, i) = IF Past(f, i) = {} THEN 0
                     ELSE Total(Column(f, i)) \div Cardinality(Past(f, i))
  BY DEF Mean, Past, Column
<1> QED
  BY <1>2, <1>3, <1>4, <1>5, <1>6 DEF FilledFrom

LEMMA ImputedIs ==
  ASSUME NEW n \in Nat, NEW f \in [1 .. n -> RowsOf(Int \cup {None})]
  PROVE  /\ Imputed(f) \in [1 .. n -> RowsOf(Int)]
         /\ \A i \in 1 .. n :
              /\ Imputed(f)[i].slot = f[i].slot
              /\ Imputed(f)[i].loadMissing = f[i].loadMissing
              /\ f[i].kwh # None => Imputed(f)[i].kwh = f[i].kwh
<1>1. \A i \in 1 .. n : Mean(f, i) \in Int
  <2> SUFFICES ASSUME NEW i \in 1 .. n PROVE Mean(f, i) \in Int
    OBVIOUS
  <2>0. FilledFrom(f, i, n)
    BY PastIs
  <2>6. CASE Past(f, i) = {}
    BY <2>0, <2>6 DEF FilledFrom
  <2> SUFFICES ASSUME Past(f, i) # {} PROVE Mean(f, i) \in Int
    BY <2>6
  <2>1. Cardinality(Past(f, i)) \in Nat /\ Cardinality(Past(f, i)) # 0
    BY <2>0, FS_CardinalityType, FS_EmptySet DEF FilledFrom
  <2>2. PICK d \in Nat \ {0} : d = Cardinality(Past(f, i))
    BY <2>1
  <2>3. PICK x \in Int : x = Total(Column(f, i))
    BY <2>0, TotalType DEF FilledFrom
  <2>4. Mean(f, i) = x \div d
    BY <2>0, <2>2, <2>3 DEF FilledFrom
  <2>5. x \div d \in Int
    OBVIOUS
  <2> QED
    BY <2>4, <2>5
<1>2. Imputed(f) = [i \in 1 .. n |->
                        [f[i] EXCEPT !.kwh = IF f[i].kwh = None THEN Mean(f, i) ELSE f[i].kwh]]
  BY DEF Imputed
<1>3. ASSUME NEW i \in 1 .. n
      PROVE  /\ Imputed(f)[i] \in RowsOf(Int)
             /\ Imputed(f)[i].slot = f[i].slot
             /\ Imputed(f)[i].loadMissing = f[i].loadMissing
             /\ f[i].kwh # None => Imputed(f)[i].kwh = f[i].kwh
  <2>1. PICK x \in Int : x = IF f[i].kwh = None THEN Mean(f, i) ELSE f[i].kwh
    BY <1>1 DEF RowsOf
  <2>2. PICK r \in RowsOf(Int \cup {None}) : r = f[i]
    OBVIOUS
  <2>3. Imputed(f)[i] = [r EXCEPT !.kwh = x]
    BY <1>2, <2>1, <2>2
  <2>4. /\ [r EXCEPT !.kwh = x] \in RowsOf(Int) /\ [r EXCEPT !.kwh = x].kwh = x
        /\ [r EXCEPT !.kwh = x].slot = r.slot
        /\ [r EXCEPT !.kwh = x].loadMissing = r.loadMissing
    BY DEF RowsOf
  <2> QED
    BY <2>1, <2>2, <2>3, <2>4
<1> QED
  BY <1>2, <1>3

LEMMA ImputedBegins ==
  ASSUME NEW n \in Nat, NEW f \in [1 .. n -> RowsOf(Int \cup {None})], NEW c \in 0 .. n,
         NEW g \in [1 .. c -> RowsOf(Int \cup {None})], Begins(g, f, c, n)
  PROVE  Begins(Imputed(g), Imputed(f), c, n)
<1>1. /\ c \in Nat /\ DOMAIN f = 1 .. n /\ DOMAIN g = 1 .. c
      /\ \A i \in 1 .. c : i \in 1 .. n /\ g[i] = f[i]
  BY DEF Begins
<1>2. ASSUME NEW i \in 1 .. c PROVE Mean(g, i) = Mean(f, i)
  <2>0. FilledFrom(f, i, n) /\ FilledFrom(g, i, c)
    BY <1>1, PastIs
  <2>1. Past(g, i) = Past(f, i)
    <3>1. Past(f, i) = {j \in 1 .. n : j < i /\ f[j].kwh # None}
      BY <2>0 DEF FilledFrom
    <3>2. Past(g, i) = {j \in 1 .. c : j < i /\ g[j].kwh # None}
      BY <2>0 DEF FilledFrom
    <3>3. \A j \in 1 .. n : j < i => j \in 1 .. c
      OBVIOUS
    <3> QED
      BY <1>1, <3>1, <3>2, <3>3
  <2>2. Total(Column(g, i)) = Total(Column(f, i))
    <3>1. /\ Column(f, i) \in [1 .. n -> Int]
          /\ \A j \in 1 .. n : Column(f, i)[j] = IF j \in Past(f, i) THEN f[j].kwh ELSE 0
          /\ \A j \in Past(f, i) : j < i
      BY <2>0 DEF FilledFrom
    <3>2. /\ Column(g, i) \in [1 .. c -> Int]
          /\ \A j \in 1 .. c : Column(g, i)[j] = IF j \in Past(g, i) THEN g[j].kwh ELSE 0
      BY <2>0 DEF FilledFrom
    <3>3. \A j \in 1 .. c : Column(g, i)[j] = Column(f, i)[j]
      BY <1>1, <2>1, <3>1, <3>2
    <3>4. \A j \in 1 .. n : j > c => Column(f, i)[j] = 0
      BY <3>1
    <3> QED
      BY ZenonT(60), <3>1, <3>2, <3>3, <3>4, ZerosFollow
  <2>3. Mean(f, i) = IF Past(f, i) = {} THEN 0
                       ELSE Total(Column(f, i)) \div Cardinality(Past(f, i))
    BY <2>0 DEF FilledFrom
  <2>4. Mean(g, i) = IF Past(g, i) = {} THEN 0
                       ELSE Total(Column(g, i)) \div Cardinality(Past(g, i))
    BY <2>0 DEF FilledFrom
  <2> QED
    BY <2>1, <2>2, <2>3, <2>4
<1> QED
  BY <1>1, <1>2 DEF Imputed, Begins

LEMMA ClippedBegins ==
  ASSUME NEW g, NEW f, NEW c, NEW n, Begins(g, f, c, n), NEW limits
  PROVE  Begins(ClippedTo(g, limits), ClippedTo(f, limits), c, n)
BY DEF ClippedTo, Begins

\* The rows that a window goes back to are there.
LEMMA WindowIs ==
  ASSUME NEW i \in Nat \ {0}
  PROVE  /\ Max({1, i - Roll + 1}) \in Int
         /\ Max({1, i - Roll + 1}) = IF i - Roll + 1 > 1 THEN i - Roll + 1 ELSE 1
         /\ \A j \in Max({1, i - Roll + 1}) .. i : j \in 1 .. i
<1>1. Roll \in Nat \ {0}
  BY EtlAssumption
<1>2. {1, i - Roll + 1} \in SUBSET Int /\ IsFiniteSet({1, i - Roll + 1}) /\ {1, i - Roll + 1} # {}
  <2>1. IsFiniteSet({1} \cup {i - Roll + 1})
    BY FS_Singleton, FS_Union
  <2>2. {1} \cup {i - Roll + 1} = {1, i - Roll + 1}
    OBVIOUS
  <2> QED
    BY <1>1, <2>1, <2>2
<1>3. PICK x : x = Max({1, i - Roll + 1})
  OBVIOUS
<1>4. x \in {1, i - Roll + 1} /\ 1 <= x /\ i - Roll + 1 <= x
  <2>1. x \in {1, i - Roll + 1} /\ \A y \in {1, i - Roll + 1} : y <= x
    BY <1>2, <1>3, ExtremesAre
  <2> QED
    BY <2>1
<1>5. x \in Int /\ x = IF i - Roll + 1 > 1 THEN i - Roll + 1 ELSE 1
  BY <1>1, <1>4
<1>6. \A j \in x .. i : j \in 1 .. i
  BY <1>4, <1>5
<1> QED
  BY <1>3, <1>5, <1>6

LEMMA FeaturedBegins ==
  ASSUME NEW c \in Nat, NEW n \in Nat, NEW g, NEW f, Begins(g, f, c, n)
  PROVE  Range(Featured(g)) \subseteq Range(Featured(f))
<1>1. /\ DOMAIN g = 1 .. c /\ DOMAIN f = 1 .. n
      /\ \A i \in 1 .. c : i \in 1 .. n /\ g[i] = f[i]
  BY DEF Begins
<1>2. ASSUME NEW i \in 1 .. c PROVE Featured(g)[i] = Featured(f)[i]
  <2>1. i \in Nat \ {0} /\ \A j \in 1 .. i : j \in 1 .. c
    OBVIOUS
  <2>2. \A j \in Max({1, i - Roll + 1}) .. i : g[j] = f[j]
    BY <1>1, <2>1, WindowIs
  <2>3. {g[j].kwh : j \in Max({1, i - Roll + 1}) .. i}
          = {f[j].kwh : j \in Max({1, i - Roll + 1}) .. i}
    BY <2>2
  <2>4. i > Lag => g[i - Lag] = f[i - Lag]
    <3>1. Lag \in Nat \ {0}
      BY EtlAssumption
    <3>2. i > Lag => i - Lag \in 1 .. c
      BY <3>1
    <3> QED
      BY <1>1, <3>2
  <2> QED
    BY <1>1, <2>3, <2>4 DEF Featured
<1>3. DOMAIN Featured(g) = 1 .. c /\ DOMAIN Featured(f) = 1 .. n
  BY <1>1 DEF Featured
<1> QED
  BY <1>1, <1>2, <1>3 DEF Range


-------------------------------------------------------------------------------
\* What Winsorize finds.
Made(m) == Imputed(Flagged(Joined(Resampled(m))))

LEMMA MadeIs ==
  ASSUME NEW m \in [Slots -> Readings], Aggregated(m) # {}
  PROVE  /\ Made(m) \in [1 .. Span(m) -> RowsOf(Int)]
         /\ \A i \in 1 .. Span(m) :
              /\ Made(m)[i].slot = Begin(m) + i - 1
              /\ Made(m)[i].loadMissing = (ValueOf(m, Begin(m) + i - 1) \in {None, NaN})
              /\ ValueOf(m, Begin(m) + i - 1) \notin {None, NaN}
                   => Made(m)[i].kwh = ValueOf(m, Begin(m) + i - 1)
<1> DEFINE f == Flagged(Joined(Resampled(m)))
           a == Begin(m)
           n == Span(m)
<1>1. n \in Nat /\ a \in 1 .. LastSlot /\ \A i \in 1 .. n : a + i - 1 \in Slots
  BY GridIs, EtlAssumption DEF Slots, Span
<1>2. f = [i \in 1 .. n |-> RawRow(m, a + i - 1)]
  BY FlaggedIs
<1> HIDE DEF f, a, n
<1>3. \A i \in 1 .. n : /\ RawRow(m, a + i - 1) \in RowsOf(Int \cup {None})
                        /\ RawRow(m, a + i - 1).slot = a + i - 1
  BY <1>1, RawRowIs
<1>4. f \in [1 .. n -> RowsOf(Int \cup {None})]
  BY <1>2, <1>3
<1>5. \A i \in 1 .. n :
        /\ f[i].slot = a + i - 1
        /\ f[i].loadMissing = (ValueOf(m, a + i - 1) \in {None, NaN})
        /\ ValueOf(m, a + i - 1) \notin {None, NaN}
             => f[i].kwh = ValueOf(m, a + i - 1) /\ f[i].kwh # None
  BY <1>2 DEF RawRow
<1>6. /\ Imputed(f) \in [1 .. n -> RowsOf(Int)]
      /\ \A i \in 1 .. n : /\ Imputed(f)[i].slot = f[i].slot
                           /\ Imputed(f)[i].loadMissing = f[i].loadMissing
                           /\ f[i].kwh # None => Imputed(f)[i].kwh = f[i].kwh
  BY <1>1, <1>4, ImputedIs
<1>7. Made(m) = Imputed(f)
  BY DEF Made, f
<1>8. /\ Made(m) \in [1 .. n -> RowsOf(Int)]
      /\ \A i \in 1 .. n :
           /\ Made(m)[i].slot = a + i - 1
           /\ Made(m)[i].loadMissing = (ValueOf(m, a + i - 1) \in {None, NaN})
           /\ ValueOf(m, a + i - 1) \notin {None, NaN} => Made(m)[i].kwh = ValueOf(m, a + i - 1)
  BY <1>5, <1>6, <1>7
<1> QED
  BY <1>8 DEF a, n

LEMMA NothingIsMade ==
  ASSUME NEW m, Aggregated(m) = {}
  PROVE  DOMAIN Made(m) = {}
BY NothingIsFlagged DEF Made, Imputed

\* What is made of a file that is cut off is made of the whole file too.
LEMMA CutOffBegins ==
  ASSUME NEW m \in [Slots -> Readings], NEW s \in Slots,
         Aggregated(CutOff(m, s)) # {}
  PROVE  /\ Aggregated(m) # {} /\ Span(CutOff(m, s)) \in Nat
         /\ Begins(Made(CutOff(m, s)), Made(m), Span(CutOff(m, s)), Span(m))
<1> DEFINE cut == CutOff(m, s)
           c == Span(cut)
           n == Span(m)
           a == Begin(m)
           f == Flagged(Joined(Resampled(m)))
           g == Flagged(Joined(Resampled(cut)))
<1>1. s \in Int /\ \A x \in Slots : x \in Int /\ cut[x] = IF x <= s THEN m[x] ELSE <<>>
  BY DEF CutOff, Slots
<1>2. /\ \A x \in Aggregated(cut) : x \in Slots /\ x <= s /\ x \in Aggregated(m)
      /\ \A x \in Aggregated(m) : x \in Slots /\ (x <= s => x \in Aggregated(cut))
  BY <1>1 DEF Aggregated
<1>3. Aggregated(m) # {} /\ Aggregated(cut) # {}
  BY <1>2
<1> HIDE DEF cut
<1>4. /\ Begin(m) \in Aggregated(m) /\ End(m) \in Aggregated(m)
      /\ \A x \in Aggregated(m) : Begin(m) <= x /\ x <= End(m)
      /\ Begin(m) \in Int /\ End(m) \in Int /\ Begin(m) \in 1 .. LastSlot
      /\ n \in Nat /\ n = End(m) - Begin(m) + 1
  BY <1>3, GridIs DEF Span
<1>5. /\ Begin(cut) \in Aggregated(cut) /\ End(cut) \in Aggregated(cut)
      /\ \A x \in Aggregated(cut) : Begin(cut) <= x /\ x <= End(cut)
      /\ Begin(cut) \in Int /\ End(cut) \in Int /\ End(cut) \in 1 .. LastSlot
      /\ c \in Nat /\ c = End(cut) - Begin(cut) + 1
  BY <1>3, GridIs DEF Span
<1>6. Begin(cut) = a /\ End(cut) <= s /\ End(cut) <= End(m)
  <2>1. Begin(cut) \in Aggregated(m) /\ End(cut) \in Aggregated(m) /\ End(cut) <= s /\ Begin(cut) <= s
    BY <1>2, <1>5
  <2>2. a <= Begin(cut) /\ End(cut) <= End(m) /\ a <= s
    BY <1>1, <1>4, <1>5, <2>1
  <2>3. a \in Aggregated(cut)
    BY <1>2, <1>4, <2>2
  <2>4. Begin(cut) <= a
    BY <1>5, <2>3
  <2> QED
    BY <1>4, <1>5, <2>1, <2>2, <2>4
<1>7. f = [i \in 1 .. n |-> RawRow(m, a + i - 1)]
  BY <1>3, FlaggedIs
<1>8. g = [i \in 1 .. c |-> RawRow(cut, a + i - 1)]
  BY <1>3, <1>6, FlaggedIs
<1>9. Made(m) = Imputed(f) /\ Made(cut) = Imputed(g)
  BY DEF Made
<1> HIDE DEF a, c, n, f, g
<1>14. a \in 1 .. LastSlot /\ Begin(m) = a
  BY <1>4 DEF a
<1>10. \A i \in 1 .. c : /\ i \in 1 .. n /\ a + i - 1 \in Slots
                         /\ a + i - 1 <= s
  BY <1>1, <1>4, <1>5, <1>6, <1>14, EtlAssumption DEF Slots
<1>11. \A i \in 1 .. c : RawRow(cut, a + i - 1) = RawRow(m, a + i - 1)
  <2> SUFFICES ASSUME NEW i \in 1 .. c PROVE RawRow(cut, a + i - 1) = RawRow(m, a + i - 1)
    OBVIOUS
  <2>1. cut[a + i - 1] = m[a + i - 1]
    BY <1>1, <1>10
  <2> QED
    BY <2>1 DEF RawRow, ValueOf
<1>12. Begins(g, f, c, n)
  BY <1>7, <1>8, <1>10, <1>11 DEF Begins
<1>13. Begins(Imputed(g), Imputed(f), c, n)
  <2>1. \A i \in 1 .. n : a + i - 1 \in Slots
    BY SMTT(30), <1>1, <1>4, <1>14, EtlAssumption DEF Slots, Aggregated
  <2>2. \A i \in 1 .. n : RawRow(m, a + i - 1) \in RowsOf(Int \cup {None})
    BY <2>1, RawRowIs
  <2>3. f \in [1 .. n -> RowsOf(Int \cup {None})]
    BY <1>7, <2>2
  <2>4. g \in [1 .. c -> RowsOf(Int \cup {None})]
    BY <1>8, <1>10, <1>11, <2>2
  <2>5. c \in 0 .. n
    BY <1>4, <1>5, <1>6 DEF a
  <2> QED
    BY <1>4, <1>12, <2>3, <2>4, <2>5, ImputedBegins
<1> QED
  BY <1>3, <1>5, <1>9, <1>13 DEF c, n, cut


LEMMA CausalRows ==
  ASSUME meter \in [Slots -> Readings], NEW s \in Slots, NEW limits
  PROVE  Range(Featured(ClippedTo(Made(CutOff(meter, s)), limits)))
           \subseteq Range(Featured(ClippedTo(Made(meter), limits)))
<1> DEFINE cut == CutOff(meter, s)
           g == ClippedTo(Made(cut), limits)
           f == ClippedTo(Made(meter), limits)
<1> HIDE DEF cut
<1>1. CASE Aggregated(cut) = {}
  <2>1. DOMAIN g = {}
    BY <1>1, NothingIsMade DEF ClippedTo
  <2>2. Range(Featured(g)) = {}
    BY <2>1 DEF Featured, Range
  <2> QED
    BY <2>2 DEF cut
<1>2. CASE Aggregated(cut) # {}
  <2>1. /\ Aggregated(meter) # {} /\ Span(cut) \in Nat
        /\ Begins(Made(cut), Made(meter), Span(cut), Span(meter))
    BY <1>2, CutOffBegins DEF cut
  <2>2. Span(meter) \in Nat
    BY <2>1, GridIs
  <2>3. Begins(g, f, Span(cut), Span(meter))
    BY <2>1, ClippedBegins
  <2> HIDE DEF g, f
  <2>4. Range(Featured(g)) \subseteq Range(Featured(f))
    BY <2>1, <2>2, <2>3, FeaturedBegins
  <2> QED
    BY <2>4 DEF g, f, cut
<1> QED
  BY <1>1, <1>2

LEMMA CausalStep ==
  ASSUME meter \in [Slots -> Readings],
         table = Featured(Winsorized(Made(meter)))
  PROVE  FeaturesAreCausal
<1> SUFFICES ASSUME table # <<>>, NEW s \in Slots
             PROVE  Range(Featured(ClippedTo(Made(CutOff(meter, s)), Limits(Made(meter)))))
                      \subseteq Range(table)
  BY DEF FeaturesAreCausal, Made
<1>1. CASE Made(meter) = <<>>
  <2>1. table = <<>>
    BY <1>1 DEF Winsorized, Featured
  <2> QED
    BY <2>1
<1>2. CASE Made(meter) # <<>>
  <2>1. table = Featured(ClippedTo(Made(meter), Limits(Made(meter))))
    BY <1>2 DEF Winsorized
  <2> QED
    BY <2>1, CausalRows
<1> QED
  BY <1>1, <1>2

-------------------------------------------------------------------------------
LEMMA RowsLength ==
  ASSUME NEW S, NEW n \in Nat, NEW t \in [1 .. n -> S]
  PROVE  Len(t) = n
<1>1. t \in Seq(S)
  BY SeqDef
<1>2. Len(t) \in Nat /\ 1 .. Len(t) = 1 .. n
  BY <1>1, LenProperties
<1>3. n \in 1 .. n \/ n = 0
  OBVIOUS
<1>4. Len(t) \in 1 .. Len(t) \/ Len(t) = 0
  BY <1>2
<1> QED
  BY <1>2, <1>3, <1>4

\* A percentile is one of the values.
LEMMA PercentileIs ==
  ASSUME NEW n \in Nat \ {0}, NEW t \in [1 .. n -> RowsOf(Int)],
         NEW permille \in 0 .. 1000
  PROVE  Percentile(t, permille) \in Int
<1>1. Len(t) = n /\ DOMAIN t = 1 .. n
  BY RowsLength
<1>2. PICK v \in [1 .. n -> Int] : \A i \in 1 .. n : t[i].kwh = v[i]
  <2>1. \A i \in 1 .. n : t[i].kwh \in Int
    BY DEF RowsOf
  <2>2. [i \in 1 .. n |-> t[i].kwh] \in [1 .. n -> Int]
    BY <2>1
  <2> QED
    BY <2>2
<1> DEFINE below(j) == {l \in 1 .. n : v[l] <= v[j]}
           high == {j \in 1 .. n : 1000 * Cardinality(below(j)) >= permille * n}
           all == {v[i] : i \in 1 .. n}
           S == {v[i] : i \in high}
<1>9. \A j \in high : j \in 1 .. n
  OBVIOUS
<1>3. Percentile(t, permille) = Min(S)
  <2>1. \A j \in 1 .. n : {l \in DOMAIN t : t[l].kwh <= t[j].kwh} = below(j)
    BY <1>1, <1>2
  <2>2. {j \in DOMAIN t : 1000 * Cardinality({l \in DOMAIN t : t[l].kwh <= t[j].kwh})
                            >= permille * Len(t)} = high
    <3>1. \A j \in 1 .. n : Cardinality({l \in DOMAIN t : t[l].kwh <= t[j].kwh})
                              = Cardinality(below(j))
      <4> HIDE DEF below
      <4> QED
        BY <2>1
    <3> HIDE DEF below
    <3> QED
      BY <1>1, <3>1
  <2>3. Percentile(t, permille) = Min({t[i].kwh : i \in high})
    BY <2>2 DEF Percentile
  <2> HIDE DEF high
  <2>4. {t[i].kwh : i \in high} = S
    BY <1>2, <1>9
  <2> QED
    BY <2>3, <2>4
<1>4. IsFiniteSet(1 .. n) /\ Cardinality(1 .. n) = n
  <2>1. n \in Nat /\ n \in Int /\ 1 \in Int
    OBVIOUS
  <2> QED
    BY <2>1, FS_Interval
<1>5. all \in SUBSET Int /\ all # {} /\ IsFiniteSet(all)
  <2>1. 1 \in 1 .. n
    OBVIOUS
  <2>2. IsFiniteSet(all)
    <3>1. v \in Surjection(1 .. n, all)
      BY DEF Surjection
    <3> HIDE DEF all
    <3> QED
      BY <1>4, <3>1, FS_Surjection
  <2> QED
    BY <2>1, <2>2
<1>6. PICK j \in 1 .. n : \A i \in 1 .. n : v[i] <= v[j]
  <2>1. Max(all) \in all /\ \A x \in all : x <= Max(all)
    <3> HIDE DEF all
    <3> QED
      BY <1>5, ExtremesAre
  <2>4. PICK x \in all : x = Max(all)
    BY <2>1
  <2>2. PICK j \in 1 .. n : v[j] = Max(all)
    BY <2>4
  <2>3. \A i \in 1 .. n : v[i] \in all
    OBVIOUS
  <2> HIDE DEF all
  <2> QED
    BY <2>1, <2>2, <2>3
<1>7. j \in high
  <2>1. below(j) = 1 .. n
    BY <1>6
  <2>2. 1000 * n >= permille * n
    <3>1. PICK d \in Nat : 1000 = permille + d
      <4>1. 1000 - permille \in Nat /\ 1000 = permille + (1000 - permille)
        OBVIOUS
      <4> QED
        BY <4>1
    <3>2. 1000 * n = permille * n + d * n /\ d * n \in Nat /\ permille * n \in Nat
      BY <3>1
    <3> QED
      BY <3>2
  <2> HIDE DEF below
  <2> QED
    BY <1>4, <2>1, <2>2
<1>8. S \in SUBSET Int /\ S # {} /\ IsFiniteSet(S)
  <2> HIDE DEF high
  <2>1. S \subseteq all
    BY <1>9
  <2>2. S # {}
    BY <1>7
  <2> HIDE DEF S, all
  <2> QED
    BY <1>5, <2>1, <2>2, FS_Subset
<1> HIDE DEF S
<1>10. Min(S) \in S
  BY <1>8, ExtremesAre
<1> QED
  BY ZenonT(60), <1>3, <1>8, <1>10

\* A value between two limits, or the nearer of them.
LEMMA ClippedValue ==
  ASSUME NEW lo \in Int, NEW hi \in Int, lo < hi, NEW v \in Int
  PROVE  LET x == Max({lo, Min({v, hi})}) IN
           /\ x \in Int /\ lo <= x /\ x <= hi
           /\ x = v \/ (v > x /\ x = hi) \/ (v < x /\ x = lo)
<1>0. \A x, y \in Int : {x, y} \in SUBSET Int /\ IsFiniteSet({x, y}) /\ {x, y} # {}
  <2> SUFFICES ASSUME NEW x \in Int, NEW y \in Int PROVE IsFiniteSet({x, y})
    OBVIOUS
  <2>1. IsFiniteSet({x} \cup {y}) /\ {x} \cup {y} = {x, y}
    BY FS_Singleton, FS_Union
  <2> QED
    BY <2>1
<1>1. PICK u : u = Min({v, hi})
  OBVIOUS
<1>2. u \in {v, hi} /\ u <= v /\ u <= hi
  <2>1. u \in {v, hi} /\ \A y \in {v, hi} : u <= y
    BY <1>0, <1>1, ExtremesAre
  <2> QED
    BY <2>1
<1>3. u \in Int
  BY <1>2
<1>4. PICK x : x = Max({lo, u})
  OBVIOUS
<1>5. x \in {lo, u} /\ lo <= x /\ u <= x
  <2>1. x \in {lo, u} /\ \A y \in {lo, u} : y <= x
    BY <1>0, <1>3, <1>4, ExtremesAre
  <2> QED
    BY <2>1
<1>6. /\ x \in Int /\ lo <= x /\ x <= hi
      /\ x = v \/ (v > x /\ x = hi) \/ (v < x /\ x = lo)
  BY <1>2, <1>3, <1>5
<1> QED
  BY <1>1, <1>4, <1>6


\* Winsorizing changes extremes only, and makes them the extremes.
LEMMA WinsorizedIs ==
  ASSUME NEW n \in Nat \ {0}, NEW t \in [1 .. n -> RowsOf(Int)]
  PROVE  /\ Winsorized(t) \in [1 .. n -> RowsOf(Int)]
         /\ \A i \in 1 .. n :
              LET w == Winsorized(t) IN
                /\ w[i].slot = t[i].slot /\ w[i].loadMissing = t[i].loadMissing
                /\ \/ w[i].kwh = t[i].kwh
                   \/ t[i].kwh > w[i].kwh /\ \A j \in 1 .. n : w[j].kwh <= w[i].kwh
                   \/ t[i].kwh < w[i].kwh /\ \A j \in 1 .. n : w[j].kwh >= w[i].kwh
<1> DEFINE w == Winsorized(t)
           lo == Percentile(t, PerMille)
           hi == Percentile(t, 1000 - PerMille)
<1>1. lo \in Int /\ hi \in Int
  <2>1. PerMille \in 0 .. 1000 /\ 1000 - PerMille \in 0 .. 1000
    BY EtlAssumption
  <2>2. \A p \in 0 .. 1000 : Percentile(t, p) \in Int
    BY ZenonT(60), PercentileIs
  <2>3. PICK q \in 0 .. 1000 : q = 1000 - PerMille
    BY <2>1
  <2>4. Percentile(t, PerMille) \in Int /\ Percentile(t, q) \in Int
    BY ZenonT(60), <2>1, <2>2
  <2> QED
    BY <2>3, <2>4
<1>2. PICK limits : /\ limits.lo = lo /\ limits.hi = hi
                    /\ w = t \/ w = ClippedTo(t, limits)
  <2>1. Limits(t).lo = lo /\ Limits(t).hi = hi
    BY DEF Limits
  <2>2. w = t \/ w = ClippedTo(t, Limits(t))
    BY DEF Winsorized
  <2> HIDE DEF lo, hi, w
  <2> QED
    BY <2>1, <2>2
<1> HIDE DEF lo, hi, w
<1>3. CASE w = t
  BY <1>3 DEF w
<1>4. CASE w # t
  <2> DEFINE clip(v) == Max({lo, Min({v, hi})})
  <2>1. lo < hi /\ w = [i \in 1 .. n |-> [t[i] EXCEPT !.kwh = clip(t[i].kwh)]]
    <3>1. w = ClippedTo(t, limits) /\ DOMAIN t = 1 .. n
      BY <1>2, <1>4
    <3>2. limits.hi <= limits.lo => w = t
      BY <3>1 DEF ClippedTo
    <3>3. ~(limits.hi <= limits.lo) =>
            w = [i \in 1 .. n |->
                   [t[i] EXCEPT !.kwh = Max({limits.lo, Min({t[i].kwh, limits.hi})})]]
      BY <3>1 DEF ClippedTo
    <3>4. lo < hi
      BY <1>1, <1>2, <1>4, <3>2
    <3>5. ~(limits.hi <= limits.lo) /\ limits.lo = lo /\ limits.hi = hi
      BY <1>2, <1>4, <3>2
    <3>6. \A v : Max({limits.lo, Min({v, limits.hi})}) = clip(v)
      BY <3>5
    <3> HIDE DEF clip
    <3>7. w = [i \in 1 .. n |-> [t[i] EXCEPT !.kwh = clip(t[i].kwh)]]
      BY <3>3, <3>5, <3>6
    <3> QED
      BY <3>4, <3>7
  <2>2. \A v \in Int : /\ clip(v) \in Int /\ lo <= clip(v) /\ clip(v) <= hi
                       /\ \/ clip(v) = v
                          \/ v > clip(v) /\ clip(v) = hi
                          \/ v < clip(v) /\ clip(v) = lo
    BY <1>1, <2>1, ClippedValue
  <2> HIDE DEF clip
  <2>3. ASSUME NEW i \in 1 .. n
        PROVE  /\ w[i] \in RowsOf(Int) /\ t[i].kwh \in Int /\ w[i].kwh = clip(t[i].kwh)
               /\ w[i].slot = t[i].slot /\ w[i].loadMissing = t[i].loadMissing
    <3>1. PICK r \in RowsOf(Int) : r = t[i]
      OBVIOUS
    <3>2. r.kwh \in Int
      BY DEF RowsOf
    <3>3. PICK x \in Int : x = clip(r.kwh)
      BY <2>2, <3>2
    <3>4. w[i] = [r EXCEPT !.kwh = x]
      BY <2>1, <3>1, <3>3
    <3>5. /\ [r EXCEPT !.kwh = x] \in RowsOf(Int) /\ [r EXCEPT !.kwh = x].kwh = x
          /\ [r EXCEPT !.kwh = x].slot = r.slot
          /\ [r EXCEPT !.kwh = x].loadMissing = r.loadMissing
      BY DEF RowsOf
    <3> QED
      BY <3>1, <3>2, <3>3, <3>4, <3>5
  <2>4. \A i \in 1 .. n : lo <= w[i].kwh /\ w[i].kwh <= hi
    <3> SUFFICES ASSUME NEW i \in 1 .. n PROVE lo <= w[i].kwh /\ w[i].kwh <= hi
      OBVIOUS
    <3>1. w[i].kwh = clip(t[i].kwh) /\ t[i].kwh \in Int
      BY <2>3
    <3>2. lo <= clip(t[i].kwh) /\ clip(t[i].kwh) <= hi
      BY <2>2, <3>1
    <3> QED
      BY <3>1, <3>2
  <2>5. w \in [1 .. n -> RowsOf(Int)]
    BY <2>1, <2>3
  <2>6. ASSUME NEW i \in 1 .. n
        PROVE  \/ w[i].kwh = t[i].kwh
               \/ t[i].kwh > w[i].kwh /\ \A j \in 1 .. n : w[j].kwh <= w[i].kwh
               \/ t[i].kwh < w[i].kwh /\ \A j \in 1 .. n : w[j].kwh >= w[i].kwh
    <3>1. /\ t[i].kwh \in Int /\ w[i].kwh = clip(t[i].kwh)
          /\ \/ clip(t[i].kwh) = t[i].kwh
             \/ t[i].kwh > clip(t[i].kwh) /\ clip(t[i].kwh) = hi
             \/ t[i].kwh < clip(t[i].kwh) /\ clip(t[i].kwh) = lo
      BY <2>2, <2>3
    <3> QED
      BY <2>4, <3>1
  <2> QED
    BY <2>3, <2>5, <2>6 DEF w
<1> QED
  BY <1>3, <1>4

LEMMA LargerIs ==
  ASSUME NEW x \in Int, NEW y \in Int
  PROVE  Max({x, y}) = IF x < y THEN y ELSE x
<1>1. {x, y} \in SUBSET Int /\ IsFiniteSet({x, y}) /\ {x, y} # {}
  <2>1. IsFiniteSet({x} \cup {y}) /\ {x} \cup {y} = {x, y}
    BY FS_Singleton, FS_Union
  <2> QED
    BY <2>1
<1>2. PICK u : u = Max({x, y})
  OBVIOUS
<1>3. u \in {x, y} /\ \A z \in {x, y} : z <= u
  BY <1>1, <1>2, ExtremesAre
<1>4. u = IF x < y THEN y ELSE x
  BY <1>3
<1> QED
  BY <1>2, <1>4

LEMMA StoreStep ==
  ASSUME meter \in [Slots -> Readings],
         table = Featured(Winsorized(Made(meter)))
  PROVE  StoreIsTheTimeline
<1>1. CASE Aggregated(meter) = {}
  <2>1. DOMAIN Winsorized(Made(meter)) = {}
    BY <1>1, NothingIsMade DEF Winsorized, ClippedTo
  <2>2. DOMAIN table = 1 .. 0 /\ table = [i \in 1 .. 0 |-> table[i]]
    BY <2>1 DEF Featured
  <2>3. table \in [1 .. 0 -> Int]
    BY <2>2
  <2>4. Len(table) = 0
    BY <2>3, RowsLength
  <2> QED
    BY <1>1, <2>2, <2>4 DEF StoreIsTheTimeline
<1>2. CASE Aggregated(meter) # {}
  <2> DEFINE first == Begin(meter)
             last == End(meter)
             n == Span(meter)
             w == Winsorized(Made(meter))
             low(i) == Max({1, i - Roll + 1})
  <2>1. /\ first \in Int /\ last \in Int /\ n \in Nat \ {0} /\ n = last - first + 1
        /\ \A s \in Aggregated(meter) : s \in Int /\ first <= s /\ s <= last
    <3>1. /\ first \in 1 .. LastSlot /\ last \in 1 .. LastSlot /\ n \in Nat \ {0}
          /\ \A s \in Aggregated(meter) : first <= s /\ s <= last
      BY <1>2, GridIs
    <3>2. \A s \in Aggregated(meter) : s \in Int
      BY DEF Aggregated, Slots
    <3> QED
      BY <3>1, <3>2 DEF Span
  <2>2. /\ w \in [1 .. n -> RowsOf(Int)]
        /\ \A i \in 1 .. n :
             /\ w[i].slot = first + i - 1
             /\ ValueOf(meter, first + i - 1) \notin {None, NaN} =>
                  /\ ~w[i].loadMissing
                  /\ LET v == ValueOf(meter, first + i - 1) IN
                       \/ w[i].kwh = v
                       \/ v > w[i].kwh /\ \A j \in 1 .. n : w[j].kwh <= w[i].kwh
                       \/ v < w[i].kwh /\ \A j \in 1 .. n : w[j].kwh >= w[i].kwh
    <3>1. /\ Made(meter) \in [1 .. n -> RowsOf(Int)]
          /\ \A i \in 1 .. n :
               /\ Made(meter)[i].slot = first + i - 1
               /\ Made(meter)[i].loadMissing = (ValueOf(meter, first + i - 1) \in {None, NaN})
               /\ ValueOf(meter, first + i - 1) \notin {None, NaN}
                    => Made(meter)[i].kwh = ValueOf(meter, first + i - 1)
      BY <1>2, MadeIs
    <3> HIDE DEF first, n, w
    <3>2. /\ w \in [1 .. n -> RowsOf(Int)]
          /\ \A i \in 1 .. n :
               LET t == Made(meter) IN
                 /\ w[i].slot = t[i].slot /\ w[i].loadMissing = t[i].loadMissing
                 /\ \/ w[i].kwh = t[i].kwh
                    \/ t[i].kwh > w[i].kwh /\ \A j \in 1 .. n : w[j].kwh <= w[i].kwh
                    \/ t[i].kwh < w[i].kwh /\ \A j \in 1 .. n : w[j].kwh >= w[i].kwh
      BY <2>1, <3>1, WinsorizedIs DEF w
    <3>3. ASSUME NEW i \in 1 .. n
          PROVE  /\ w[i].slot = first + i - 1
                 /\ ValueOf(meter, first + i - 1) \notin {None, NaN} =>
                      /\ ~w[i].loadMissing
                      /\ LET v == ValueOf(meter, first + i - 1) IN
                           \/ w[i].kwh = v
                           \/ v > w[i].kwh /\ \A j \in 1 .. n : w[j].kwh <= w[i].kwh
                           \/ v < w[i].kwh /\ \A j \in 1 .. n : w[j].kwh >= w[i].kwh
      <4>1. PICK v : v = ValueOf(meter, first + i - 1)
        OBVIOUS
      <4>2. PICK r : r = Made(meter)[i]
        OBVIOUS
      <4>3. /\ r.slot = first + i - 1 /\ r.loadMissing = (v \in {None, NaN})
            /\ v \notin {None, NaN} => r.kwh = v
        BY <3>1, <4>1, <4>2
      <4>4. /\ w[i].slot = r.slot /\ w[i].loadMissing = r.loadMissing
            /\ \/ w[i].kwh = r.kwh
               \/ r.kwh > w[i].kwh /\ \A j \in 1 .. n : w[j].kwh <= w[i].kwh
               \/ r.kwh < w[i].kwh /\ \A j \in 1 .. n : w[j].kwh >= w[i].kwh
        BY <3>2, <4>2
      <4> QED
        BY <4>1, <4>3, <4>4
    <3> QED
      BY <3>2, <3>3
  <2> HIDE DEF first, last, n, w
  <2>3. table = [i \in 1 .. n |->
                   [slot |-> w[i].slot, kwh |-> w[i].kwh,
                    loadMissing |-> w[i].loadMissing, weatherMissing |-> w[i].weatherMissing,
                    lag |-> IF i > Lag THEN w[i - Lag].kwh ELSE w[i].kwh,
                    rollMax |-> Max({w[j].kwh : j \in low(i) .. i})]]
    BY <2>2 DEF Featured, w
  <2>4. DOMAIN table = 1 .. n /\ Len(table) = n
    <3>1. DOMAIN table = 1 .. n
      BY <2>3
    <3>2. table \in [1 .. n -> {table[i] : i \in 1 .. n}]
      BY <2>3
    <3> QED
      BY <2>1, <3>1, <3>2, RowsLength
  <2>5. \A i \in 1 .. n :
          /\ table[i].slot = first + i - 1 /\ table[i].kwh = w[i].kwh
          /\ table[i].loadMissing = w[i].loadMissing
          /\ table[i].lag = IF i > Lag THEN w[i - Lag].kwh ELSE w[i].kwh
          /\ table[i].rollMax = Max({w[j].kwh : j \in low(i) .. i})
    BY <2>2, <2>3
  <2>6. ASSUME NEW i \in 1 .. n
        PROVE  LET s == first + i - 1 IN
                 /\ table[s - first + 1].slot = s
                 /\ table[s - first + 1].lag
                      = table[(IF s - Lag >= first THEN s - Lag ELSE s) - first + 1].kwh
                 /\ table[s - first + 1].rollMax
                      = Max({table[x - first + 1].kwh : x \in Max({first, s - Roll + 1}) .. s})
    <3>5. PICK s \in Int : s = first + i - 1
      <4>1. first + i - 1 \in Int
        BY <2>1
      <4> QED
        BY <4>1
    <3>1. s - first + 1 = i
      BY <2>1, <3>5
    <3>2. Lag \in Nat \ {0} /\ Roll \in Nat \ {0}
      BY EtlAssumption
    <3>3. table[i].lag = table[(IF s - Lag >= first THEN s - Lag ELSE s) - first + 1].kwh
      <4>1. CASE i > Lag
        <5>1. s - Lag >= first /\ (s - Lag) - first + 1 = i - Lag /\ i - Lag \in 1 .. n
          BY <2>1, <3>5, <3>2, <4>1
        <5> QED
          BY <2>5, <4>1, <5>1
      <4>2. CASE ~(i > Lag)
        <5>1. ~(s - Lag >= first)
          BY <2>1, <3>5, <3>2, <4>2
        <5> QED
          BY <2>5, <3>1, <4>2, <5>1
      <4> QED
        BY <4>1, <4>2
    <3>4. {w[j].kwh : j \in low(i) .. i}
            = {table[x - first + 1].kwh : x \in Max({first, s - Roll + 1}) .. s}
      <4>1. PICK a \in Int : a = low(i) /\ a >= 1
        <5>1. low(i) = IF i - Roll + 1 > 1 THEN i - Roll + 1 ELSE 1
          BY WindowIs
        <5> HIDE DEF low
        <5>2. i - Roll + 1 \in Int
          BY <3>2
        <5>3. low(i) \in Int /\ low(i) >= 1
          BY <5>1, <5>2
        <5> QED
          BY <5>3
      <4>2. PICK b \in Int : b = Max({first, s - Roll + 1}) /\ b = a + first - 1
        <5>1. low(i) = IF i - Roll + 1 > 1 THEN i - Roll + 1 ELSE 1
          BY WindowIs
        <5>2. s - Roll + 1 \in Int
          BY <3>2
        <5>3. Max({first, s - Roll + 1}) = IF first < s - Roll + 1 THEN s - Roll + 1 ELSE first
          BY <2>1, <5>2, LargerIs
        <5> HIDE DEF low
        <5>4. a = IF i - Roll + 1 > 1 THEN i - Roll + 1 ELSE 1
          BY <4>1, <5>1
        <5>5. (IF first < s - Roll + 1 THEN s - Roll + 1 ELSE first) = a + first - 1
          BY <2>1, <3>5, <3>2, <5>4
        <5> QED
          BY <2>1, <5>3, <5>5
      <4> HIDE DEF low
      <4>5. /\ b = a + first - 1 /\ s = first + i - 1 /\ a >= 1 /\ i <= n
            /\ first \in Int /\ n \in Int /\ i \in Int
        BY <2>1, <3>5, <4>1, <4>2
      <4>3. \A j \in a .. i : /\ j + first - 1 \in b .. s
                              /\ table[(j + first - 1) - first + 1].kwh = w[j].kwh
        <5> SUFFICES ASSUME NEW j \in a .. i
                     PROVE  /\ j + first - 1 \in b .. s
                            /\ table[(j + first - 1) - first + 1].kwh = w[j].kwh
          OBVIOUS
        <5>1. j + first - 1 \in b .. s /\ (j + first - 1) - first + 1 = j /\ j \in 1 .. n
          BY <4>5
        <5> QED
          BY <2>5, <5>1
      <4>4. \A x \in b .. s : /\ x - first + 1 \in a .. i
                              /\ table[x - first + 1].kwh = w[x - first + 1].kwh
        <5> SUFFICES ASSUME NEW x \in b .. s
                     PROVE  /\ x - first + 1 \in a .. i
                            /\ table[x - first + 1].kwh = w[x - first + 1].kwh
          OBVIOUS
        <5>1. x - first + 1 \in a .. i /\ x - first + 1 \in 1 .. n
          BY <4>5
        <5> QED
          BY <2>5, <5>1
      <4>6. {w[j].kwh : j \in a .. i} = {table[x - first + 1].kwh : x \in b .. s}
        <5> DEFINE at(x) == table[x - first + 1].kwh
        <5>1. \A j \in a .. i : \E x \in b .. s : at(x) = w[j].kwh
          BY <4>3
        <5>2. \A x \in b .. s : \E j \in a .. i : at(x) = w[j].kwh
          BY <4>4
        <5> HIDE DEF at
        <5>3. {w[j].kwh : j \in a .. i} = {at(x) : x \in b .. s}
          BY <5>1, <5>2
        <5> QED
          BY <5>3 DEF at
      <4> QED
        BY <4>1, <4>2, <4>6
    <3> QED
      BY <2>5, <3>5, <3>1, <3>3, <3>4
  <2>7. ASSUME NEW s \in Aggregated(meter), known, SumOf(meter[s]) \notin {None, NaN}
        PROVE  /\ ~table[s - first + 1].loadMissing
               /\ LET v == SumOf(meter[s]) IN
                    \/ table[s - first + 1].kwh = v
                    \/ /\ v > table[s - first + 1].kwh
                       /\ \A i \in 1 .. n : table[i].kwh <= table[s - first + 1].kwh
                    \/ /\ v < table[s - first + 1].kwh
                       /\ \A i \in 1 .. n : table[i].kwh >= table[s - first + 1].kwh
    <3>1. PICK i \in 1 .. n : i = s - first + 1 /\ first + i - 1 = s
      <4>2. s \in Int /\ first <= s /\ s <= last
        BY <2>1
      <4>1. s - first + 1 \in 1 .. n /\ first + (s - first + 1) - 1 = s
        BY <2>1, <4>2
      <4> QED
        BY <4>1
    <3>2. ValueOf(meter, s) = SumOf(meter[s])
      BY <2>7 DEF ValueOf, Aggregated
    <3>3. /\ ~w[i].loadMissing
          /\ LET v == SumOf(meter[s]) IN
               \/ w[i].kwh = v
               \/ v > w[i].kwh /\ \A j \in 1 .. n : w[j].kwh <= w[i].kwh
               \/ v < w[i].kwh /\ \A j \in 1 .. n : w[j].kwh >= w[i].kwh
      BY <2>2, <2>7, <3>1, <3>2
    <3> QED
      BY <2>5, <3>1, <3>3
  <2>8. first = Min(Aggregated(meter)) /\ last = Max(Aggregated(meter))
    BY DEF first, last, Begin, End
  <2> HIDE DEF low
  <2>9. Len(table) = IF Aggregated(meter) = {} THEN 0 ELSE last - first + 1
    BY <1>2, <2>1, <2>4
  <2>10. /\ DOMAIN table = 1 .. n
         /\ first = Min(Aggregated(meter)) /\ last = Max(Aggregated(meter))
    BY <2>4, <2>8
  <2> HIDE <2>1
  <2> SUFFICES ASSUME pc = "written"
               PROVE  LET at(s) == table[s - first + 1]
                          sum(s) == SumOf(meter[s])
                      IN
                        /\ Len(table) = IF Aggregated(meter) = {} THEN 0
                                         ELSE Max(Aggregated(meter)) - first + 1
                        /\ \A i \in DOMAIN table :
                             LET s == first + i - 1 IN
                               /\ at(s).slot = s
                               /\ at(s).lag = at(IF s - Lag >= first THEN s - Lag ELSE s).kwh
                               /\ at(s).rollMax
                                    = Max({at(x).kwh : x \in Max({first, s - Roll + 1}) .. s})
                        /\ \A s \in Aggregated(meter) :
                             known /\ sum(s) \notin {None, NaN} =>
                               /\ ~at(s).loadMissing
                               /\ \/ at(s).kwh = sum(s)
                                  \/ sum(s) > at(s).kwh /\ \A i \in DOMAIN table : table[i].kwh <= at(s).kwh
                                  \/ sum(s) < at(s).kwh /\ \A i \in DOMAIN table : table[i].kwh >= at(s).kwh
    BY DEF StoreIsTheTimeline, first, Begin
  <2> QED
    BY <2>6, <2>7, <2>9, <2>10
<1> QED
  BY <1>1, <1>2

-------------------------------------------------------------------------------
\* What is in the table before each step.
TableInv ==
  /\ meter \in [Slots -> Readings]
  /\ pc \in {"resample", "join", "flag", "impute", "winsorize", "features", "written"}
  /\ pc = "join"      => table = Resampled(meter)
  /\ pc = "flag"      => table = Joined(Resampled(meter))
  /\ pc = "impute"    => table = Flagged(Joined(Resampled(meter)))
  /\ pc = "winsorize" => table = Made(meter)
  /\ pc = "features"  => table = Winsorized(Made(meter))
  /\ pc = "written"   => table = Featured(Winsorized(Made(meter)))

LEMMA TableInit == EtlInit => TableInv
BY DEF EtlInit, TableInv

LEMMA TableStep == TableInv /\ [EtlNext]_etlVars => TableInv'
<1> SUFFICES ASSUME TableInv, [EtlNext]_etlVars PROVE TableInv'
  OBVIOUS
<1>1. meter' = meter /\ weather' = weather /\ known' = known
  BY DEF EtlNext, etlVars, Becomes, Resample, JoinWeather, Flag, Impute, Winsorize,
         AddFeatures
<1>2. Resampled(meter)' = Resampled(meter)
  BY <1>1 DEF Resampled
<1>4. Joined(Resampled(meter))' = Joined(Resampled(meter))
  BY <1>1, <1>2 DEF Joined, HasWeather
<1>5. Flagged(Joined(Resampled(meter)))' = Flagged(Joined(Resampled(meter)))
  BY <1>4 DEF Flagged
<1>6. Made(meter)' = Made(meter)
  BY <1>5 DEF Made, Imputed
<1>7. Winsorized(Made(meter))' = Winsorized(Made(meter))
  BY <1>6 DEF Winsorized
<1>8. Featured(Winsorized(Made(meter)))' = Featured(Winsorized(Made(meter)))
  BY <1>7 DEF Featured
<1>9. CASE Resample
  BY <1>1, <1>2, <1>9 DEF TableInv, Resample, Becomes
<1>10. CASE JoinWeather
  BY <1>1, <1>4, <1>10 DEF TableInv, JoinWeather, Becomes
<1>11. CASE Flag
  BY <1>1, <1>5, <1>11 DEF TableInv, Flag, Becomes
<1>12. CASE Impute
  BY <1>1, <1>6, <1>12 DEF TableInv, Impute, Becomes, Made
<1>13. CASE Winsorize
  BY <1>1, <1>7, <1>13 DEF TableInv, Winsorize, Becomes
<1>14. CASE AddFeatures
  BY <1>1, <1>8, <1>14 DEF TableInv, AddFeatures, Becomes
<1>15. CASE UNCHANGED etlVars
  BY <1>1, <1>2, <1>4, <1>5, <1>6, <1>7, <1>8, <1>15 DEF TableInv, etlVars
<1> QED
  BY <1>9, <1>10, <1>11, <1>12, <1>13, <1>14, <1>15 DEF EtlNext

(***************************************************************************)
(* "Causal imputation: only observations strictly before t may fill t":    *)
(* what the ETL makes of a file is, row by row, what it would have made of *)
(* the file cut off at the row, limits of winsorizing excepted.            *)
(***************************************************************************)
THEOREM FeaturesDoNotLookAhead == EtlSpec => []FeaturesAreCausal
<1>1. TableInv => FeaturesAreCausal
  <2> SUFFICES ASSUME TableInv PROVE FeaturesAreCausal
    OBVIOUS
  <2>1. CASE pc = "written"
    BY <2>1, CausalStep DEF TableInv
  <2>2. CASE pc # "written"
    BY <2>2 DEF FeaturesAreCausal
  <2> QED
    BY <2>1, <2>2
<1> QED
  BY <1>1, TableInit, TableStep, PTL DEF EtlSpec

(***************************************************************************)
(* The store has one row per slot from the first reading to the last, the  *)
(* lag and the rolling window go back in time and not only in rows, and    *)
(* what was metered is there, unless it was extreme or its household has   *)
(* no metadata: add_features counts rows because the grid has no holes.    *)
(***************************************************************************)
THEOREM TimelineIsStored == EtlSpec => []StoreIsTheTimeline
<1>1. TableInv => StoreIsTheTimeline
  <2> SUFFICES ASSUME TableInv PROVE StoreIsTheTimeline
    OBVIOUS
  <2>1. CASE pc = "written"
    BY <2>1, StoreStep DEF TableInv
  <2>2. CASE pc # "written"
    BY <2>2 DEF StoreIsTheTimeline
  <2> QED
    BY <2>1, <2>2
<1> QED
  BY <1>1, TableInit, TableStep, PTL DEF EtlSpec

===============================================================================
