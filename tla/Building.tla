------------------------------- MODULE Building -------------------------------
(***************************************************************************)
(* A building agent and its District: BuildingAgent._maybe_federate        *)
(* (src/tiers/building.py) over the CommunicationModule                    *)
(* (src/ismcc/communication.py), and Top-K with error feedback             *)
(* (src/federated/sparsification.py).                                      *)
(*                                                                         *)
(* The agent is one thread: it trains, and at a federation tick it polls   *)
(* and, when there is nothing new, uploads.  Other things happen while a   *)
(* call is under way, and a call can fail before or after the District     *)
(* has handled it.  Nothing of the agent outlives its process.             *)
(*                                                                         *)
(* Weights are left out.  A training step moves a coordinate of its own by *)
(* some size; an update says how much of each step is in it.  Top-K keeps  *)
(* the largest coordinates and the rest is the residual.                   *)
(*                                                                         *)
(* The District is what module District shows of it to one agent of an     *)
(* exact membership: it keeps the agent's last upload of the open round,   *)
(* closes no round without one, and calls an older round "stale".          *)
(***************************************************************************)
EXTENDS Integers, Sequences, FiniteSets, FiniteSetsExt

CONSTANTS
  None,           \* no pending delta, no round, no row, no answer
  Sizes,          \* how much a training step may move its coordinate
  Keep,           \* the coordinates Top-K keeps
  MaxSteps,       \* bound: the training steps
  MaxRound,       \* bound: the rounds the District closes
  MaxCrashes,     \* bound: how often the agent dies
  PollsFail,      \* may a poll fail, or find the District without a model?
  MaxLost         \* bound: the uploads that are handled unknown to the agent

Steps  == 1 .. MaxSteps
Update == [Steps -> Nat]

ASSUME BuildingAssumption ==
  /\ Sizes \subseteq Nat \ {0}
  /\ Keep \in Nat \ {0}
  /\ MaxSteps \in Nat /\ MaxRound \in Nat /\ MaxCrashes \in Nat
  /\ PollsFail \in BOOLEAN /\ MaxLost \in Nat
  /\ None \notin Int
  /\ None \notin Update
  /\ None \notin [round : Nat, delta : Update, sparse : Update]
  /\ None \notin [stale : BOOLEAN, round : Nat]

\* BuildingAgent and its model.
VARIABLES
  pc,             \* "train", "decide" after a poll, "wait" for an answer
  booted,         \* tick 0 is over
  hasBaseline,    \* _has_global_baseline
  local,          \* parameter_delta(_baseline_snapshot)
  pendingDelta,   \* _pending_delta
  pendingRound,   \* _pending_delta_round
  uploadedRound   \* _uploaded_round

\* Its CommunicationModule.
VARIABLES
  currentRound,   \* current_round
  lastApplied,    \* _last_applied_round
  residual        \* _compression_residual

\* The District and the wire to it.
VARIABLES
  districtRound,  \* the District's open round
  row,            \* the agent's upload in the journal of the open round
  folded,         \* folded[r + 1]: the agent's upload in round r
  wire,           \* uploads on their way
  answer          \* the answer to the call the agent waits for

\* For the properties and bounds.
VARIABLES
  trained,        \* trained[s]: by how much step s moved the model
  share, offered, \* share[s], offered[s]: the part of step s in the uploads
                  \* the District folded, after Top-K and before it
  steps,          \* the training steps so far
  sent,           \* every upload sent
  lost, crashes   \* how often an answer was lost, and the agent died

agentVars    == <<booted, hasBaseline, local, pendingDelta, pendingRound, uploadedRound>>
commsVars    == <<currentRound, lastApplied, residual>>
districtVars == <<districtRound, row, folded, share, offered>>
trainVars    == <<trained, steps>>
boundVars    == <<lost, crashes>>
vars == <<pc, agentVars, commsVars, districtVars, wire, answer, trainVars, sent, boundVars>>

Zero == [s \in Steps |-> 0]

u (+) v == [s \in Steps |-> u[s] + v[s]]
u (-) v == [s \in Steps |-> u[s] - v[s]]

\* Does coordinate s go before t?  Equal sizes go by position.
Larger(u, s, t) == u[s] > u[t] \/ (u[s] = u[t] /\ s < t)

\* topk_sparsify: the Keep largest coordinates, the rest is zero.
TopK(u) ==
  [s \in Steps |->
     IF Cardinality({t \in Steps : Larger(u, t, s)}) < Keep THEN u[s] ELSE 0]

Init ==
  /\ pc = "train" /\ booted = FALSE /\ hasBaseline = FALSE
  /\ local = Zero
  /\ pendingDelta = None /\ pendingRound = None /\ uploadedRound = None
  /\ currentRound = 0 /\ lastApplied = -1 /\ residual = Zero
  /\ districtRound = 0 /\ row = None /\ folded = <<>>
  /\ share = Zero /\ offered = Zero
  /\ wire = {} /\ answer = None
  /\ trained = Zero /\ steps = 0 /\ sent = {} /\ lost = 0 /\ crashes = 0

-------------------------------------------------------------------------------
\* AgentCore trains between two federation ticks.
Train(size) ==
  /\ pc = "train" /\ booted
  /\ steps < MaxSteps
  /\ steps' = steps + 1
  /\ local' = [local EXCEPT ![steps + 1] = size]
  /\ trained' = [trained EXCEPT ![steps + 1] = size]
  /\ UNCHANGED <<pc, booted, hasBaseline, pendingDelta, pendingRound, uploadedRound,
                 commsVars, districtVars, wire, answer, sent, boundVars>>

\* Mutant of Latest: the round after it.
LatestNext(r) == Max({currentRound, r + 1})

\* current_round follows the labels and the "stale" answers.
Latest(r) == Max({currentRound, r})

\* Mutant of Rebase: the residual goes with the old baseline.
RebaseClean ==
  /\ local' = Zero
  /\ residual' = Zero
  /\ pendingDelta' = None /\ pendingRound' = None /\ uploadedRound' = None

\* The model just adopted, or distilled, is what the next delta is against.
Rebase ==
  /\ local' = Zero
  /\ pendingDelta' = None /\ pendingRound' = None /\ uploadedRound' = None
  /\ UNCHANGED residual

(***************************************************************************)
(* The poll brings a model with a new label.  Tick 0 adopts it; a later    *)
(* tick distills it, and leaves _has_global_baseline as it is.             *)
(***************************************************************************)
PullNew ==
  /\ pc = "train"
  /\ districtRound > lastApplied
  /\ currentRound' = Latest(districtRound)
  /\ lastApplied' = districtRound
  /\ hasBaseline' = (hasBaseline \/ ~booted)
  /\ booted' = TRUE
  /\ Rebase
  /\ UNCHANGED <<pc, districtVars, wire, answer, trainVars, sent, boundVars>>

\* No model, an old one, or no answer: tick 0 ends, a later tick may upload.
PullNothing ==
  /\ pc = "train"
  /\ PollsFail \/ districtRound <= lastApplied
  /\ pc' = IF booted THEN "decide" ELSE "train"
  /\ booted' = TRUE
  /\ UNCHANGED <<hasBaseline, local, pendingDelta, pendingRound, uploadedRound,
                 commsVars, districtVars, wire, answer, trainVars, sent, boundVars>>

MayUpload == hasBaseline /\ uploadedRound # currentRound

Skip ==
  /\ pc = "decide"
  /\ ~MayUpload
  /\ pc' = "train"
  /\ UNCHANGED <<agentVars, commsVars, districtVars, wire, answer, trainVars, sent, boundVars>>

\* Mutant of Delta: computed anew for every attempt.
DeltaAnew == local

\* The delta of this round: a retry sends the one of the first attempt.
Delta == IF pendingRound = currentRound THEN pendingDelta ELSE local

\* What Top-K is applied to (dp_sigma = 0).
Payload(delta) == delta (+) residual

Upload(delta) == [round |-> currentRound, delta |-> delta, sparse |-> TopK(Payload(delta))]

Send ==
  /\ pc = "decide"
  /\ MayUpload
  /\ pendingDelta' = Delta
  /\ pendingRound' = currentRound
  /\ wire' = wire \cup {Upload(pendingDelta')}
  /\ sent' = sent \cup {Upload(pendingDelta')}
  /\ pc' = "wait"
  /\ UNCHANGED <<booted, hasBaseline, local, uploadedRound, commsVars, districtVars,
                 answer, trainVars, boundVars>>

\* An upload on the wire is that of the call the agent waits for.
Awaited(m) == pc = "wait" /\ answer = None /\ m.round = currentRound /\ m.delta = pendingDelta

(***************************************************************************)
(* The District handles an upload, also one whose caller has given up.  An *)
(* upload of a later round cannot exist (ReceiptIsOwned).                  *)
(***************************************************************************)
DistrictHandles(m) ==
  /\ wire' = wire \ {m}
  /\ row' = IF m.round = districtRound THEN m ELSE row
  /\ answer' = IF ~Awaited(m) THEN answer
               ELSE [stale |-> m.round < districtRound, round |-> districtRound]
  /\ UNCHANGED <<pc, agentVars, commsVars, districtRound, folded, share, offered,
                 trainVars, sent, boundVars>>

\* The other agents are in too: the round closes with the agent's row.
DistrictCloses ==
  /\ row # None
  /\ districtRound < MaxRound
  /\ folded' = Append(folded, row)
  /\ share' = share (+) row.sparse
  /\ offered' = offered (+) row.delta
  /\ districtRound' = districtRound + 1
  /\ row' = None
  /\ UNCHANGED <<pc, agentVars, commsVars, wire, answer, trainVars, sent, boundVars>>

-------------------------------------------------------------------------------
\* The upload is refused or lost before the District handles it.
CallFails ==
  /\ pc = "wait" /\ answer = None
  /\ wire' = {m \in wire : ~Awaited(m)}
  /\ pc' = "train"
  /\ UNCHANGED <<agentVars, commsVars, districtVars, answer, trainVars, sent, boundVars>>

(***************************************************************************)
(* The agent sees an error, yet the District has handled the upload or     *)
(* will: the deadline of ten seconds passes, the connection breaks, or the *)
(* aggregation this upload triggered fails.                                *)
(***************************************************************************)
AnswerIsLost ==
  /\ lost < MaxLost
  /\ lost' = lost + 1
  /\ pc = "wait"
  /\ answer' = None
  /\ pc' = "train"
  /\ UNCHANGED <<agentVars, commsVars, districtVars, wire, trainVars, sent, crashes>>

\* What Top-K dropped is carried forward.
NextResidual == Payload(pendingDelta) (-) TopK(Payload(pendingDelta))

\* Mutant of ReceiptRound: the round the answer names.
ReceiptRoundTold == answer.round

\* The round the agent holds for uploaded: the one it sent.
ReceiptRound == currentRound

\* "received" or "aggregated", or "stale round", which counts as success.
Succeeded ==
  /\ pc = "wait" /\ answer # None
  /\ currentRound' = IF answer.stale THEN Latest(answer.round) ELSE currentRound
  /\ residual' = NextResidual
  /\ uploadedRound' = ReceiptRound
  /\ pendingDelta' = None /\ pendingRound' = None
  /\ answer' = None
  /\ pc' = "train"
  /\ UNCHANGED <<booted, hasBaseline, local, lastApplied, districtVars, wire, trainVars,
                 sent, boundVars>>

\* The process dies and starts again with untrained weights, from tick 0.
Restart ==
  /\ crashes < MaxCrashes
  /\ crashes' = crashes + 1
  /\ pc' = "train" /\ booted' = FALSE /\ hasBaseline' = FALSE
  /\ local' = Zero
  /\ pendingDelta' = None /\ pendingRound' = None /\ uploadedRound' = None
  /\ currentRound' = 0 /\ lastApplied' = -1 /\ residual' = Zero
  /\ answer' = None
  /\ UNCHANGED <<districtVars, wire, trainVars, sent, lost>>

Agent ==
  \/ PullNew
  \/ PullNothing
  \/ Skip
  \/ Send
  \/ Succeeded

Next ==
  \/ \E size \in Sizes : Train(size)
  \/ Agent
  \/ CallFails
  \/ AnswerIsLost
  \/ \E m \in wire : DistrictHandles(m)
  \/ DistrictCloses
  \/ Restart

Spec == Init /\ [][Next]_vars

(***************************************************************************)
(* While the household's stream lasts the agent goes on; a poll that is    *)
(* repeated is answered in the end, and so is an upload; the other agents  *)
(* of the District do their part.                                          *)
(***************************************************************************)
Fairness ==
  /\ WF_vars(Agent)
  /\ SF_vars(PullNew)
  /\ SF_vars(\E m \in wire : DistrictHandles(m))
  /\ SF_vars(Succeeded)
  /\ WF_vars(DistrictCloses)

FairSpec == Spec /\ Fairness

-------------------------------------------------------------------------------
(***************************************************************************)
(* Properties                                                              *)
(***************************************************************************)
\* What the District has got of the agent.
Taken == {folded[i] : i \in 1 .. Len(folded)} \cup ({row} \ {None})

\* The part of step s in it, and in the updates it was made from.
Share(s)   == share[s] + (IF row = None THEN 0 ELSE row.sparse[s])
Offered(s) == offered[s] + (IF row = None THEN 0 ELSE row.delta[s])

\* No answer was lost and the agent has not died.
Untroubled == lost = 0 /\ crashes = 0

(***************************************************************************)
(* All attempts at a round carry the same update, so it does not matter    *)
(* which of them the District keeps, or that an early one arrives last:    *)
(* the wire is a set because of it.                                        *)
(***************************************************************************)
RetryIsSame ==
  Untroubled => \A a, b \in sent : a.round = b.round => a = b

\* No part of a training step goes into the federation twice.
NoDoubleCount == \A s \in Steps : Share(s) <= trained[s]

(***************************************************************************)
(* "Compression residuals use error feedback and survive until a           *)
(* successful round": between two uploads, what the District has got and   *)
(* the residual make up the updates that were sent to it.  Not so once an  *)
(* answer is lost (README, section 5).                                     *)
(***************************************************************************)
ErrorFeedbackIsExact ==
  pc = "train" /\ pendingDelta = None =>
    \A s \in Steps : Share(s) + residual[s] = Offered(s)

(***************************************************************************)
(* The same for an agent that knows of every upload the District handled;  *)
(* and at no time does a training step of it count twice.                  *)
(***************************************************************************)
UntroubledFeedbackIsExact == Untroubled => ErrorFeedbackIsExact /\ NoDoubleCount

(***************************************************************************)
(* "Receipt means the District durably owns this round's update": a round  *)
(* the agent holds for uploaded has its update, folded or in the journal.  *)
(* And the agent never runs ahead of its District: "future round" is never *)
(* its answer, and its uploads are in the round they were made for.        *)
(***************************************************************************)
ReceiptIsOwned ==
  /\ uploadedRound # None => \E m \in Taken : m.round = uploadedRound
  /\ lastApplied <= currentRound /\ currentRound <= districtRound
  /\ \A m \in wire : m.round <= districtRound
  /\ \A i \in 1 .. Len(folded) : folded[i].round = i - 1
  /\ row # None => row.round = districtRound

(***************************************************************************)
(* An agent that was given a model takes part in a round in the end.  Not  *)
(* so when polls may fail (PollsFail) and that of tick 0 does: README,     *)
(* section 5.                                                              *)
(***************************************************************************)
TaughtTakesPart == (lastApplied >= 0) ~> (folded # <<>>)

(***************************************************************************)
(* An agent that has a baseline takes part in every round, whatever polls  *)
(* fail and answers are lost, unless it dies and starts from tick 0.       *)
(***************************************************************************)
RoundsGoOn == hasBaseline ~> (Len(folded) = MaxRound \/ ~hasBaseline)

================================================================================
