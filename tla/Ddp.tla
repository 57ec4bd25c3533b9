--------------------------------- MODULE Ddp ---------------------------------
(***************************************************************************)
(* Distributed training of the teacher (src/training/spark_ddp_trainer.py): *)
(* every rank trains on its own households and meets the others in         *)
(* collective operations, once per step for the gradients and once per     *)
(* epoch for the loss.  A collective is complete when all ranks are in it. *)
(* What is learned is left out.                                            *)
(***************************************************************************)
EXTENDS Integers, FiniteSets, FiniteSetsExt

CONSTANTS
  WorldSize,      \* ranks
  Households,
  Lengths,        \* how many readings a household may have
  SeqLen, PredLen, BatchSize, Epochs

VARIABLES
  length,         \* length[h]: the readings of household h
  done,           \* done[r]: the collectives rank r has completed
  pc,             \* pc[r]: "running", in a "collective", "over", "failed"
  saved           \* has rank 0 written the bundle?

vars == <<length, done, pc, saved>>

Ranks == 0 .. WorldSize - 1

Init ==
  /\ length \in [0 .. Households - 1 -> Lengths]
  /\ done = [r \in Ranks |-> 0] /\ pc = [r \in Ranks |-> "running"]
  /\ saved = FALSE

-------------------------------------------------------------------------------
\* _shard_household_dirs, with the households in the order of their names.
Shard(r) == {h \in DOMAIN length : h % WorldSize = r}

\* _make_windows.
WindowsOf(n) == IF n < SeqLen + PredLen THEN 0 ELSE n - SeqLen - PredLen + 1

\* _load_shard_windows.
Windows(r) == MapThenSumSet(LAMBDA h : WindowsOf(length[h]), Shard(r))

StepsPerEpoch(r) == Max({1, Windows(r) \div BatchSize})

\* The collective rank r comes to next.  The model is built by all together;
\* a rank without data then goes to the last barrier.
Call(r) ==
  LET at == done[r] - 1 IN
  CASE done[r] = 0     -> "build"
    [] done[r] > 0 /\ (Windows(r) = 0 \/ at >= Epochs * (StepsPerEpoch(r) + 1))
                       -> "barrier"
    [] done[r] > 0 /\ Windows(r) > 0 /\ at < Epochs * (StepsPerEpoch(r) + 1)
                       -> IF at % (StepsPerEpoch(r) + 1) < StepsPerEpoch(r)
                            THEN "gradients" ELSE "loss"

\* Rank 0 writes the bundle before the barrier, if it has trained.
MustSave(r) == r = 0 /\ Call(r) = "barrier" /\ Windows(r) > 0 /\ ~saved

Save ==
  /\ pc[0] = "running" /\ MustSave(0)
  /\ saved' = TRUE
  /\ UNCHANGED <<length, done, pc>>

Enter(r) ==
  /\ pc[r] = "running" /\ ~MustSave(r)
  /\ pc' = [pc EXCEPT ![r] = "collective"]
  /\ UNCHANGED <<length, done, saved>>

\* All are in the same collective: each has the sum of what they brought.
Meet ==
  /\ \A r \in Ranks : pc[r] = "collective" /\ Call(r) = Call(0)
  /\ done' = [r \in Ranks |-> done[r] + 1]
  /\ pc' = [r \in Ranks |-> IF Call(r) = "barrier" THEN "over" ELSE "running"]
  /\ UNCHANGED <<length, saved>>

\* The transport finds that the messages do not fit, or the timeout passes.
Fails(r) ==
  /\ pc[r] = "collective"
  /\ \E q \in Ranks \ {r} : pc[q] = "failed" \/ (pc[q] = "collective" /\ Call(q) # Call(r))
  /\ pc' = [pc EXCEPT ![r] = "failed"]
  /\ UNCHANGED <<length, done, saved>>

Next ==
  \/ Save
  \/ \E r \in Ranks : Enter(r) \/ Fails(r)
  \/ Meet

Spec == Init /\ [][Next]_vars

-------------------------------------------------------------------------------
(***************************************************************************)
(* "DDP all_reduce is the textbook distributed-SGD primitive. We use it    *)
(* correctly": ranks that wait for each other wait in the same collective. *)
(***************************************************************************)
CollectivesMatch ==
  \A r, q \in Ranks :
    pc[r] = "collective" /\ pc[q] = "collective" => Call(r) = Call(q)

===============================================================================
