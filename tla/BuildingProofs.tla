---------------------------- MODULE BuildingProofs ----------------------------
(***************************************************************************)
(* Proofs about Building, for any number and size of training steps, any   *)
(* Keep, any bounds, and with every fault switched on.                     *)
(***************************************************************************)
EXTENDS Building, SequenceTheorems, TLAPS

Uploads == [round : Nat, delta : Update, sparse : Update]
Answers == [stale : BOOLEAN, round : Nat]

-------------------------------------------------------------------------------
(***************************************************************************)
(* Lemmas about the operators.                                             *)
(***************************************************************************)
LEMMA ZeroType == Zero \in Update
  BY DEF Zero, Update

LEMMA ZeroIs ==
  ASSUME NEW s \in Steps
  PROVE  Zero[s] = 0
  BY DEF Zero

LEMMA SumType ==
  ASSUME NEW u \in Update, NEW v \in Update
  PROVE  (u (+) v) \in Update
  BY DEF Update, (+)

LEMMA SumIs ==
  ASSUME NEW u, NEW v, NEW s \in Steps
  PROVE  (u (+) v)[s] = u[s] + v[s]
  BY DEF (+)

LEMMA DifferenceIs ==
  ASSUME NEW u, NEW v, NEW s \in Steps
  PROVE  (u (-) v)[s] = u[s] - v[s]
  BY DEF (-)

\* A coordinate of the update goes in as it is, or not at all.
LEMMA TopKIs ==
  ASSUME NEW u \in Update
  PROVE  /\ TopK(u) \in Update
         /\ \A s \in Steps : TopK(u)[s] \in {0, u[s]}
<1>1. \A s \in Steps : TopK(u)[s] \in {0, u[s]}
  BY DEF TopK
<1>2. \A s \in Steps : TopK(u)[s] \in Nat
  BY <1>1 DEF Update
<1>3. TopK(u) \in Update
  BY <1>2 DEF TopK, Update
<1> QED
  BY <1>1, <1>3

LEMMA RestType ==
  ASSUME NEW u \in Update
  PROVE  (u (-) TopK(u)) \in Update
<1>1. \A s \in Steps : u[s] - TopK(u)[s] \in Nat
  BY TopKIs DEF Update
<1> QED
  BY <1>1 DEF Update, (-)

LEMMA LatestIs ==
  ASSUME NEW r \in Nat, currentRound \in Nat
  PROVE  /\ Latest(r) \in {currentRound, r}
         /\ Latest(r) >= currentRound /\ Latest(r) >= r
<1> DEFINE P(x) == x \in {currentRound, r} /\ \A y \in {currentRound, r} : x >= y
<1>1. \E x : P(x)
  <2>1. CASE currentRound >= r
    BY <2>1
  <2>2. CASE r >= currentRound
    BY <2>2
  <2> QED
    BY <2>1, <2>2
<1>2. Latest(r) = CHOOSE x : P(x)
  BY DEF Latest, Max
<1>3. P(CHOOSE x : P(x))
  BY <1>1
<1> QED
  BY <1>2, <1>3

-------------------------------------------------------------------------------
(***************************************************************************)
(* The types of the variables, and what goes with a place in the code: a   *)
(* delta is held together with its round, and while the agent waits they   *)
(* are those of the call; only then is there an answer.                    *)
(***************************************************************************)
TypeOK ==
  /\ pc \in {"train", "decide", "wait"}
  /\ booted \in BOOLEAN /\ hasBaseline \in BOOLEAN
  /\ local \in Update
  /\ pendingDelta \in Update \cup {None} /\ pendingRound \in Nat \cup {None}
  /\ uploadedRound \in Nat \cup {None}
  /\ currentRound \in Nat /\ lastApplied \in Nat \cup {-1} /\ residual \in Update
  /\ districtRound \in Nat /\ row \in Uploads \cup {None} /\ folded \in Seq(Uploads)
  /\ share \in Update /\ offered \in Update
  /\ wire \subseteq Uploads /\ answer \in Answers \cup {None}
  /\ trained \in Update /\ steps \in 0 .. MaxSteps
  /\ sent \subseteq Uploads
  /\ lost \in Nat /\ crashes \in Nat

Held ==
  /\ pendingRound = None <=> pendingDelta = None
  /\ pc = "wait" => pendingRound = currentRound
  /\ answer # None => pc = "wait"

Shape == TypeOK /\ Held

LEMMA NoneIs == None \notin Nat /\ None \notin Update /\ None \notin Uploads /\ None \notin Answers
  BY BuildingAssumption DEF Uploads, Answers

LEMMA ShapeInit == Init => Shape
<1> SUFFICES ASSUME Init PROVE Shape
  OBVIOUS
<1>1. Zero \in Update /\ <<>> \in Seq(Uploads) /\ 0 \in 0 .. MaxSteps
  BY BuildingAssumption, ZeroType
<1>2. TypeOK
  BY <1>1 DEF Init, TypeOK
<1>3. Held
  BY DEF Init, Held
<1> QED
  BY <1>2, <1>3 DEF Shape

\* The upload of the agent's next or present call.
LEMMA UploadType ==
  ASSUME TypeOK, NEW d \in Update
  PROVE  /\ Payload(d) \in Update
         /\ Upload(d) \in Uploads
<1>1. Payload(d) \in Update
  BY SumType DEF TypeOK, Payload
<1> QED
  BY <1>1, TopKIs DEF TypeOK, Upload, Uploads

LEMMA TrainShape ==
  ASSUME Shape, NEW size \in Sizes, Train(size)
  PROVE  Shape'
<1>1. steps + 1 \in Steps /\ size \in Nat /\ steps' \in 0 .. MaxSteps
  BY BuildingAssumption DEF Shape, TypeOK, Train, Steps
<1>2. local' \in Update /\ trained' \in Update
  BY <1>1 DEF Shape, TypeOK, Train, Update
<1> QED
  BY <1>1, <1>2 DEF Shape, TypeOK, Held, Train, commsVars, districtVars, boundVars

LEMMA PullNewShape ==
  ASSUME Shape, PullNew
  PROVE  Shape'
<1>1. currentRound' \in Nat /\ lastApplied' \in Nat
  BY LatestIs DEF Shape, TypeOK, PullNew
<1>2. hasBaseline' \in BOOLEAN /\ booted' \in BOOLEAN
  BY DEF Shape, TypeOK, PullNew
<1>3. local' \in Update /\ pendingDelta' = None /\ pendingRound' = None /\ uploadedRound' = None
      /\ residual' \in Update
  BY ZeroType DEF Shape, TypeOK, PullNew, Rebase
<1> QED
  BY <1>1, <1>2, <1>3, NoneIs DEF Shape, TypeOK, Held, PullNew, districtVars, trainVars, boundVars

LEMMA PullNothingShape ==
  ASSUME Shape, PullNothing
  PROVE  Shape'
  BY DEF Shape, TypeOK, Held, PullNothing, commsVars, districtVars, trainVars, boundVars

LEMMA SkipShape ==
  ASSUME Shape, Skip
  PROVE  Shape'
  BY DEF Shape, TypeOK, Held, Skip, agentVars, commsVars, districtVars, trainVars, boundVars

LEMMA DeltaType ==
  ASSUME Shape
  PROVE  Delta \in Update
  BY NoneIs DEF Shape, TypeOK, Held, Delta

LEMMA SendShape ==
  ASSUME Shape, Send
  PROVE  Shape'
<1>1. pendingDelta' \in Update /\ pendingRound' = currentRound /\ pc' = "wait"
  BY DeltaType DEF Send
<1>2. Upload(pendingDelta') \in Uploads
  BY <1>1, UploadType DEF Shape
<1>3. wire' \subseteq Uploads /\ sent' \subseteq Uploads
  BY <1>2 DEF Shape, TypeOK, Send
<1> QED
  BY <1>1, <1>3, NoneIs DEF Shape, TypeOK, Held, Send, commsVars, districtVars, trainVars, boundVars

LEMMA HandlesShape ==
  ASSUME Shape, NEW m \in wire, DistrictHandles(m)
  PROVE  Shape'
<1>1. m \in Uploads /\ wire' \subseteq Uploads /\ row' \in Uploads \cup {None}
  BY DEF Shape, TypeOK, DistrictHandles
<1>2. (m.round < districtRound) \in BOOLEAN /\ districtRound \in Nat
  BY DEF Shape, TypeOK
<1>3. [stale |-> m.round < districtRound, round |-> districtRound] \in Answers
  BY <1>2 DEF Answers
<1>4. answer' \in Answers \cup {None} /\ (answer' # None => pc = "wait")
  BY <1>3 DEF Shape, TypeOK, Held, DistrictHandles, Awaited
<1> QED
  BY <1>1, <1>4 DEF Shape, TypeOK, Held, DistrictHandles, agentVars, commsVars, trainVars, boundVars

LEMMA ClosesShape ==
  ASSUME Shape, DistrictCloses
  PROVE  Shape'
<1>1. row \in Uploads
  BY DEF Shape, TypeOK, DistrictCloses
<1>2. row.sparse \in Update /\ row.delta \in Update
  BY <1>1 DEF Uploads
<1>3. share' \in Update /\ offered' \in Update
  BY <1>2, SumType DEF Shape, TypeOK, DistrictCloses
<1>4. folded' \in Seq(Uploads) /\ districtRound' \in Nat /\ row' = None
  BY <1>1, AppendProperties DEF Shape, TypeOK, DistrictCloses
<1> QED
  BY <1>3, <1>4 DEF Shape, TypeOK, Held, DistrictCloses, agentVars, commsVars, trainVars, boundVars

LEMMA FailsShape ==
  ASSUME Shape, CallFails
  PROVE  Shape'
  BY DEF Shape, TypeOK, Held, CallFails, agentVars, commsVars, districtVars, trainVars, boundVars

LEMMA LostShape ==
  ASSUME Shape, AnswerIsLost
  PROVE  Shape'
  BY DEF Shape, TypeOK, Held, AnswerIsLost, agentVars, commsVars, districtVars, trainVars

LEMMA SucceededShape ==
  ASSUME Shape, Succeeded
  PROVE  Shape'
<1>1. answer \in Answers /\ pendingDelta \in Update
  BY NoneIs DEF Shape, TypeOK, Held, Succeeded
<1>2. currentRound' \in Nat
  BY <1>1, LatestIs DEF Shape, TypeOK, Succeeded, Answers
<1>3. residual' \in Update
  BY <1>1, UploadType, RestType DEF Shape, Succeeded, NextResidual
<1>4. uploadedRound' \in Nat
  BY DEF Shape, TypeOK, Succeeded, ReceiptRound
<1> QED
  BY <1>2, <1>3, <1>4 DEF Shape, TypeOK, Held, Succeeded, districtVars, trainVars, boundVars

LEMMA RestartShape ==
  ASSUME Shape, Restart
  PROVE  Shape'
<1>1. Zero \in Update /\ crashes' \in Nat /\ -1 \in {-1}
  BY ZeroType DEF Shape, TypeOK, Restart
<1>2. /\ pc' = "train" /\ booted' = FALSE /\ hasBaseline' = FALSE
      /\ local' = Zero /\ residual' = Zero
      /\ pendingDelta' = None /\ pendingRound' = None /\ uploadedRound' = None
      /\ currentRound' = 0 /\ lastApplied' = -1
      /\ answer' = None
  BY DEF Restart
<1>3. /\ districtRound' \in Nat /\ row' \in Uploads \cup {None} /\ folded' \in Seq(Uploads)
      /\ share' \in Update /\ offered' \in Update
      /\ wire' \subseteq Uploads
      /\ trained' \in Update /\ steps' \in 0 .. MaxSteps
      /\ sent' \subseteq Uploads /\ lost' \in Nat
  BY DEF Shape, TypeOK, Restart, districtVars, trainVars
<1>4. TypeOK'
  BY <1>1, <1>2, <1>3 DEF TypeOK
<1>5. Held'
  BY <1>2 DEF Held
<1> QED
  BY <1>4, <1>5 DEF Shape

LEMMA ShapeStep == Shape /\ [Next]_vars => Shape'
<1> SUFFICES ASSUME Shape, [Next]_vars PROVE Shape'
  OBVIOUS
<1>1. CASE UNCHANGED vars
  BY <1>1 DEF Shape, TypeOK, Held, vars, agentVars, commsVars, districtVars, trainVars, boundVars
<1>2. CASE Next
  BY <1>2, TrainShape, PullNewShape, PullNothingShape, SkipShape, SendShape, HandlesShape,
     ClosesShape, FailsShape, LostShape, SucceededShape, RestartShape DEF Next, Agent
<1> QED
  BY <1>1, <1>2

(***************************************************************************)
(* Type correctness.                                                       *)
(***************************************************************************)
THEOREM ShapeHolds == Spec => []Shape
  BY ShapeInit, ShapeStep, PTL DEF Spec

-------------------------------------------------------------------------------
(***************************************************************************)
(* Receipts.  The upload of round r has reached the District when r is     *)
(* folded, or open with a row in its journal: an answer is only ever given *)
(* to an upload that has.                                                  *)
(***************************************************************************)
Owned(r) == r < districtRound \/ (r = districtRound /\ row # None)

\* The agent is not ahead of its District, and uploads are where they belong.
InRound ==
  /\ lastApplied <= currentRound /\ currentRound <= districtRound
  /\ \A m \in wire : m.round <= districtRound
  /\ Len(folded) = districtRound
  /\ \A i \in 1 .. Len(folded) : folded[i].round = i - 1
  /\ row # None => row.round = districtRound

Received ==
  /\ uploadedRound # None => Owned(uploadedRound)
  /\ answer # None => Owned(currentRound) /\ answer.round <= districtRound

ReceiptInv == Shape /\ InRound /\ Received

LEMMA ReceiptInit == Init => ReceiptInv
<1> SUFFICES ASSUME Init PROVE ReceiptInv
  OBVIOUS
<1>1. Shape
  BY ShapeInit
<1>2. InRound
  BY DEF Init, InRound
<1>3. Received
  BY DEF Init, Received
<1> QED
  BY <1>1, <1>2, <1>3 DEF ReceiptInv

\* A step of the agent that leaves the District, the wire and the labels.
LEMMA InRoundStays ==
  ASSUME InRound,
         lastApplied' <= currentRound', currentRound' <= districtRound',
         wire' \subseteq wire, UNCHANGED districtVars
  PROVE  InRound'
  BY DEF InRound, districtVars

LEMMA ReceivedStays ==
  ASSUME Received, UNCHANGED <<currentRound, uploadedRound, answer, districtVars>>
  PROVE  Received'
  BY DEF Received, Owned, districtVars

LEMMA TrainReceipt ==
  ASSUME ReceiptInv, NEW size \in Sizes, Train(size)
  PROVE  InRound' /\ Received'
<1>1. UNCHANGED <<lastApplied, currentRound, districtVars, wire, answer, uploadedRound>>
  BY DEF Train, commsVars, districtVars
<1>2. lastApplied' <= currentRound' /\ currentRound' <= districtRound' /\ wire' \subseteq wire
  BY <1>1 DEF ReceiptInv, InRound, districtVars
<1> QED
  BY <1>1, <1>2, InRoundStays, ReceivedStays DEF ReceiptInv

LEMMA PullNewReceipt ==
  ASSUME ReceiptInv, PullNew
  PROVE  InRound' /\ Received'
<1>1. UNCHANGED <<districtVars, wire, answer, pc>> /\ uploadedRound' = None
  BY DEF PullNew, Rebase
<1>2. answer = None
  BY DEF ReceiptInv, Shape, Held, PullNew
<1>3. currentRound' = districtRound /\ lastApplied' = districtRound
  BY LatestIs DEF ReceiptInv, Shape, TypeOK, InRound, PullNew
<1>4. districtRound' = districtRound /\ districtRound \in Nat
  BY <1>1 DEF districtVars, ReceiptInv, Shape, TypeOK
<1>5. InRound'
  BY <1>1, <1>3, <1>4, InRoundStays DEF ReceiptInv
<1>6. Received'
  BY <1>1, <1>2 DEF Received
<1> QED
  BY <1>5, <1>6

LEMMA PullNothingReceipt ==
  ASSUME ReceiptInv, PullNothing
  PROVE  InRound' /\ Received'
<1>1. UNCHANGED <<lastApplied, currentRound, districtVars, wire, answer, uploadedRound>>
  BY DEF PullNothing, commsVars, districtVars
<1>2. lastApplied' <= currentRound' /\ currentRound' <= districtRound' /\ wire' \subseteq wire
  BY <1>1 DEF ReceiptInv, InRound, districtVars
<1> QED
  BY <1>1, <1>2, InRoundStays, ReceivedStays DEF ReceiptInv

LEMMA SkipReceipt ==
  ASSUME ReceiptInv, Skip
  PROVE  InRound' /\ Received'
<1>1. UNCHANGED <<lastApplied, currentRound, districtVars, wire, answer, uploadedRound>>
  BY DEF Skip, agentVars, commsVars, districtVars
<1>2. lastApplied' <= currentRound' /\ currentRound' <= districtRound' /\ wire' \subseteq wire
  BY <1>1 DEF ReceiptInv, InRound, districtVars
<1> QED
  BY <1>1, <1>2, InRoundStays, ReceivedStays DEF ReceiptInv

LEMMA SendReceipt ==
  ASSUME ReceiptInv, Send
  PROVE  InRound' /\ Received'
<1>1. UNCHANGED <<lastApplied, currentRound, districtVars, answer, uploadedRound>>
  BY DEF Send, commsVars, districtVars
<1>2. wire' = wire \cup {Upload(pendingDelta')} /\ Upload(pendingDelta').round = currentRound
  BY DEF Send, Upload
<1>3. InRound'
  BY <1>1, <1>2 DEF ReceiptInv, InRound, districtVars
<1> QED
  BY <1>1, <1>3, ReceivedStays DEF ReceiptInv

(***************************************************************************)
(* An upload of the open round goes into the journal before its answer is  *)
(* made, and one that comes later was awaited by nobody or is stale.       *)
(***************************************************************************)
LEMMA HandlesReceipt ==
  ASSUME ReceiptInv, NEW m \in wire, DistrictHandles(m)
  PROVE  InRound' /\ Received'
<1>1. /\ m \in Uploads /\ m # None /\ m.round \in Nat
      /\ m.round <= districtRound /\ districtRound \in Nat
  BY NoneIs DEF ReceiptInv, Shape, TypeOK, InRound, Uploads
<1>2. UNCHANGED <<lastApplied, currentRound, uploadedRound, districtRound, folded>>
      /\ wire' \subseteq wire
  BY DEF DistrictHandles, agentVars, commsVars
<1>3. row' = IF m.round = districtRound THEN m ELSE row
  BY DEF DistrictHandles
<1>4. InRound'
  BY <1>1, <1>2, <1>3 DEF ReceiptInv, InRound
<1>5. \A r \in Nat : Owned(r) => Owned(r)'
  BY <1>1, <1>2, <1>3 DEF Owned
<1>6. uploadedRound' # None => Owned(uploadedRound)'
  <2>1. uploadedRound # None => uploadedRound \in Nat /\ Owned(uploadedRound)
    BY DEF ReceiptInv, Shape, TypeOK, Received
  <2> QED
    BY <1>2, <1>5, <2>1 DEF Owned
<1>7. answer' # None => Owned(currentRound)' /\ answer'.round <= districtRound'
  <2>1. CASE Awaited(m)
    <3>1. answer' = [stale |-> m.round < districtRound, round |-> districtRound]
      BY <2>1 DEF DistrictHandles
    <3>2. answer'.round = districtRound
      BY <3>1
    <3>3. Owned(m.round)' /\ m.round = currentRound
      BY <1>1, <1>2, <1>3, <2>1 DEF Owned, Awaited
    <3> QED
      BY <1>1, <1>2, <3>2, <3>3 DEF Owned
  <2>2. CASE ~Awaited(m)
    <3>1. answer' = answer /\ currentRound \in Nat
      BY <2>2 DEF DistrictHandles, ReceiptInv, Shape, TypeOK
    <3> QED
      BY <1>2, <1>5, <3>1 DEF ReceiptInv, Received, Owned
  <2> QED
    BY <2>1, <2>2
<1> QED
  BY <1>4, <1>6, <1>7 DEF Received

LEMMA ClosesReceipt ==
  ASSUME ReceiptInv, DistrictCloses
  PROVE  InRound' /\ Received'
<1>1. row \in Uploads /\ row.round = districtRound /\ districtRound \in Nat /\ currentRound \in Nat
      /\ lastApplied \in Nat \cup {-1}
  BY DEF ReceiptInv, Shape, TypeOK, InRound, DistrictCloses
<1>2. UNCHANGED <<lastApplied, currentRound, uploadedRound, wire, answer>>
  BY DEF DistrictCloses, agentVars, commsVars
<1>3. folded' = Append(folded, row) /\ districtRound' = districtRound + 1 /\ row' = None
  BY DEF DistrictCloses
<1>4. folded \in Seq(Uploads) /\ Len(folded) = districtRound
  BY DEF ReceiptInv, Shape, TypeOK, InRound
<1>5. Len(folded') = districtRound'
  BY <1>1, <1>3, <1>4, AppendProperties
<1>6. \A i \in 1 .. Len(folded') : folded'[i].round = i - 1
  <2> SUFFICES ASSUME NEW i \in 1 .. Len(folded') PROVE folded'[i].round = i - 1
    OBVIOUS
  <2>1. CASE i = Len(folded) + 1
    BY <1>1, <1>3, <1>4, <2>1, AppendProperties
  <2>2. CASE i \in 1 .. Len(folded)
    <3>1. folded'[i] = folded[i]
      BY <1>1, <1>3, <1>4, <2>2, AppendProperties
    <3> QED
      BY <2>2, <3>1 DEF ReceiptInv, InRound
  <2> QED
    BY <1>1, <1>3, <1>4, <1>5, <2>1, <2>2
<1>7. \A m \in wire : m.round \in Nat
  BY DEF ReceiptInv, Shape, TypeOK, Uploads
<1>8. InRound'
  BY <1>1, <1>2, <1>3, <1>5, <1>6, <1>7 DEF ReceiptInv, InRound
<1>9. \A r \in Nat : Owned(r) => Owned(r)'
  BY <1>1, <1>3 DEF Owned
<1>10. uploadedRound' # None => Owned(uploadedRound)'
  <2>1. uploadedRound # None => uploadedRound \in Nat /\ Owned(uploadedRound)
    BY DEF ReceiptInv, Shape, TypeOK, Received
  <2> QED
    BY <1>2, <1>9, <2>1 DEF Owned
<1>11. answer' # None => Owned(currentRound)' /\ answer'.round <= districtRound'
  <2>1. answer # None => answer.round \in Nat
    BY DEF ReceiptInv, Shape, TypeOK, Answers
  <2> QED
    BY <1>1, <1>2, <1>3, <1>9, <2>1 DEF ReceiptInv, Received, Owned
<1> QED
  BY <1>8, <1>10, <1>11 DEF Received

LEMMA FailsReceipt ==
  ASSUME ReceiptInv, CallFails
  PROVE  InRound' /\ Received'
<1>1. UNCHANGED <<lastApplied, currentRound, districtVars, answer, uploadedRound>>
      /\ wire' \subseteq wire
  BY DEF CallFails, agentVars, commsVars, districtVars
<1>2. lastApplied' <= currentRound' /\ currentRound' <= districtRound'
  BY <1>1 DEF ReceiptInv, InRound, districtVars
<1> QED
  BY <1>1, <1>2, InRoundStays, ReceivedStays DEF ReceiptInv

LEMMA LostReceipt ==
  ASSUME ReceiptInv, AnswerIsLost
  PROVE  InRound' /\ Received'
<1>1. UNCHANGED <<lastApplied, currentRound, districtVars, uploadedRound, wire>> /\ answer' = None
  BY DEF AnswerIsLost, agentVars, commsVars, districtVars
<1>2. lastApplied' <= currentRound' /\ currentRound' <= districtRound'
  BY <1>1 DEF ReceiptInv, InRound, districtVars
<1>3. InRound'
  BY <1>1, <1>2, InRoundStays DEF ReceiptInv
<1> QED
  BY <1>1, <1>3 DEF ReceiptInv, Received, Owned, districtVars

LEMMA SucceededReceipt ==
  ASSUME ReceiptInv, Succeeded
  PROVE  InRound' /\ Received'
<1>1. UNCHANGED <<lastApplied, districtVars, wire>> /\ answer' = None
      /\ uploadedRound' = currentRound
  BY DEF Succeeded, ReceiptRound
<1>2. /\ answer # None /\ answer.round \in Nat /\ answer.round <= districtRound
      /\ currentRound \in Nat /\ districtRound \in Nat /\ lastApplied \in Nat \cup {-1}
      /\ lastApplied <= currentRound /\ currentRound <= districtRound
      /\ Owned(currentRound)
  BY DEF ReceiptInv, Shape, TypeOK, InRound, Received, Answers, Succeeded
<1>3. currentRound' \in {currentRound, Latest(answer.round)}
  BY DEF Succeeded
<1>4. lastApplied' <= currentRound' /\ currentRound' <= districtRound'
  BY <1>1, <1>2, <1>3, LatestIs DEF districtVars
<1>5. InRound'
  BY <1>1, <1>4, InRoundStays DEF ReceiptInv
<1> QED
  BY <1>1, <1>2, <1>5 DEF Received, Owned, districtVars

LEMMA RestartReceipt ==
  ASSUME ReceiptInv, Restart
  PROVE  InRound' /\ Received'
<1>1. /\ UNCHANGED <<districtVars, wire>> /\ answer' = None /\ uploadedRound' = None
      /\ lastApplied' = -1 /\ currentRound' = 0
  BY DEF Restart
<1>2. districtRound' \in Nat
  BY <1>1 DEF districtVars, ReceiptInv, Shape, TypeOK
<1>3. InRound'
  BY <1>1, <1>2, InRoundStays DEF ReceiptInv
<1> QED
  BY <1>1, <1>3 DEF Received

LEMMA ReceiptStep == ReceiptInv /\ [Next]_vars => ReceiptInv'
<1> SUFFICES ASSUME ReceiptInv, [Next]_vars PROVE InRound' /\ Received'
  BY ShapeStep DEF ReceiptInv
<1>1. CASE UNCHANGED vars
  <2>1. UNCHANGED <<lastApplied, currentRound, districtVars, wire, answer, uploadedRound>>
    BY <1>1 DEF vars, agentVars, commsVars, districtVars
  <2>2. lastApplied' <= currentRound' /\ currentRound' <= districtRound' /\ wire' \subseteq wire
    BY <2>1 DEF ReceiptInv, InRound, districtVars
  <2> QED
    BY <2>1, <2>2, InRoundStays, ReceivedStays DEF ReceiptInv
<1>2. CASE Next
  BY <1>2, TrainReceipt, PullNewReceipt, PullNothingReceipt, SkipReceipt, SendReceipt,
     HandlesReceipt, ClosesReceipt, FailsReceipt, LostReceipt, SucceededReceipt,
     RestartReceipt DEF Next, Agent
<1> QED
  BY <1>1, <1>2

LEMMA OwnedIsTaken ==
  ASSUME ReceiptInv, NEW r \in Nat, Owned(r)
  PROVE  \E m \in Taken : m.round = r
<1>1. CASE r < districtRound
  <2>1. r + 1 \in 1 .. Len(folded) /\ folded[r + 1].round = (r + 1) - 1
    BY <1>1 DEF ReceiptInv, Shape, TypeOK, InRound
  <2>2. folded[r + 1] \in Taken
    BY <2>1 DEF Taken
  <2> QED
    BY <2>1, <2>2
<1>2. CASE r = districtRound /\ row # None
  BY <1>2 DEF ReceiptInv, InRound, Taken
<1> QED
  BY <1>1, <1>2 DEF Owned

(***************************************************************************)
(* A round the agent holds for uploaded has its update, folded or in the   *)
(* journal, and the agent never runs ahead of its District: for any lost   *)
(* answers, crashes, stale uploads and failed polls.                       *)
(***************************************************************************)
THEOREM ReceiptMeansOwned == Spec => []ReceiptIsOwned
<1>1. ReceiptInv => ReceiptIsOwned
  <2> SUFFICES ASSUME ReceiptInv PROVE ReceiptIsOwned
    OBVIOUS
  <2>1. uploadedRound # None => \E m \in Taken : m.round = uploadedRound
    BY OwnedIsTaken DEF ReceiptInv, Shape, TypeOK, Received
  <2> QED
    BY <2>1 DEF ReceiptInv, InRound, ReceiptIsOwned
<1> QED
  BY <1>1, ReceiptInit, ReceiptStep, PTL DEF Spec

-------------------------------------------------------------------------------
(***************************************************************************)
(* An agent that was told of every upload the District handled.  It is     *)
(* either in the open round, which has nothing of it yet, or its upload is *)
(* in and it knows, or is about to.                                        *)
(***************************************************************************)
Fresh ==
  /\ districtRound = currentRound /\ row = None
  /\ answer = None /\ uploadedRound # currentRound

Done ==
  /\ \/ districtRound = currentRound /\ row # None
     \/ districtRound = currentRound + 1 /\ row = None
  /\ lastApplied = currentRound
  /\ wire = {}
  /\ IF answer # None THEN ~answer.stale ELSE uploadedRound = currentRound

\* Before it has a baseline the agent sends nothing.
Based ==
  /\ \/ lastApplied = currentRound
     \/ lastApplied = -1 /\ currentRound = 0 /\ sent = {}
  /\ ~hasBaseline => sent = {}
  /\ lastApplied = -1 => ~hasBaseline

\* The upload on the wire is that of the call under way.
OneCall ==
  \A m \in wire : pc = "wait" /\ answer = None /\ m \in sent /\ m = Upload(pendingDelta)

\* A retry of the open round is the upload that was sent for it.
Attempts ==
  /\ \A a \in sent : a.round <= currentRound
  /\ Fresh => \A a \in sent : a.round = currentRound =>
                 pendingRound = currentRound /\ a = Upload(pendingDelta)

Single == \A a, b \in sent : a.round = b.round => a = b

Calm == (Fresh \/ Done) /\ Based /\ OneCall /\ Attempts /\ Single

CalmInv == Untroubled => Calm

LEMMA CalmInit == Init => Calm
<1> SUFFICES ASSUME Init PROVE Calm
  OBVIOUS
<1>1. Fresh
  BY BuildingAssumption DEF Init, Fresh
<1>2. Based
  BY DEF Init, Based
<1>3. OneCall /\ Attempts /\ Single
  BY DEF Init, OneCall, Attempts, Single
<1> QED
  BY <1>1, <1>2, <1>3 DEF Calm

\* The agent's labels and its uploads, the District and the wire stay as they are.
LEMMA CalmStays ==
  ASSUME Calm, UNCHANGED <<hasBaseline, pendingDelta, pendingRound, uploadedRound, commsVars,
                           districtVars, answer, sent>>,
         wire' \subseteq wire, pc = "wait" => pc' = "wait" \/ wire' = {}
  PROVE  Calm'
<1>2. Upload(pendingDelta)' = Upload(pendingDelta)
  BY DEF Upload, Payload, commsVars
<1>3. Fresh' = Fresh
  BY DEF Fresh, commsVars, districtVars
<1>4. Done => Done'
  BY DEF Done, commsVars, districtVars
<1>5. Based'
  BY DEF Calm, Based, commsVars
<1>6. OneCall'
  BY <1>2 DEF Calm, OneCall
<1>7. Attempts' /\ Single'
  BY <1>2, <1>3 DEF Calm, Attempts, Single, commsVars
<1> QED
  BY <1>3, <1>4, <1>5, <1>6, <1>7 DEF Calm

LEMMA TrainCalm ==
  ASSUME Calm, NEW size \in Sizes, Train(size)
  PROVE  Calm'
  BY CalmStays DEF Train

LEMMA PullNothingCalm ==
  ASSUME Calm, PullNothing
  PROVE  Calm'
  BY CalmStays DEF PullNothing

LEMMA SkipCalm ==
  ASSUME Calm, Skip
  PROVE  Calm'
  BY CalmStays DEF Skip, agentVars

LEMMA FailsCalm ==
  ASSUME ReceiptInv, Calm, CallFails
  PROVE  Calm'
<1>1. wire' \subseteq wire /\ UNCHANGED <<agentVars, commsVars, districtVars, answer, sent>>
  BY DEF CallFails
<1>2. \A m \in wire : Awaited(m)
  BY DEF CallFails, Calm, OneCall, Awaited, Upload
<1>3. wire' = {}
  BY <1>2 DEF CallFails
<1> QED
  BY <1>1, <1>3, CalmStays DEF agentVars

(***************************************************************************)
(* The label is new only when the round before it has closed with the      *)
(* agent's update, or nothing was sent yet.                                *)
(***************************************************************************)
LEMMA PullNewCalm ==
  ASSUME ReceiptInv, Calm, PullNew
  PROVE  Calm'
<1>1. /\ UNCHANGED <<districtVars, wire, answer, sent>>
      /\ pendingDelta' = None /\ pendingRound' = None /\ uploadedRound' = None
      /\ districtRound > lastApplied
      /\ lastApplied' = districtRound
      /\ pc = "train"
      /\ hasBaseline => hasBaseline'
  BY DEF PullNew, Rebase
<1>2. /\ currentRound \in Nat /\ districtRound \in Nat /\ lastApplied \in Nat \cup {-1}
      /\ lastApplied <= currentRound /\ currentRound <= districtRound
      /\ \A a \in sent : a.round \in Nat
  BY DEF ReceiptInv, Shape, TypeOK, InRound, Uploads
<1>3. currentRound' = districtRound
  BY <1>2, LatestIs DEF PullNew
<1>4. answer = None
  BY <1>1 DEF ReceiptInv, Shape, Held
<1>5. row = None /\ (sent = {} \/ currentRound < districtRound)
  <2>1. CASE Fresh
    BY <1>1, <1>2, <2>1 DEF Fresh, Calm, Based
  <2>2. CASE Done
    BY <1>1, <1>2, <2>2 DEF Done
  <2> QED
    BY <2>1, <2>2 DEF Calm
<1>6. wire = {}
  BY <1>1 DEF Calm, OneCall
<1>7. \A a \in sent : a.round < districtRound
  BY <1>2, <1>5 DEF Calm, Attempts
<1>8. Fresh'
  BY <1>1, <1>2, <1>3, <1>4, <1>5, NoneIs DEF Fresh, districtVars
<1>9. Based'
  BY <1>1, <1>2, <1>3 DEF Calm, Based
<1>10. OneCall'
  BY <1>1, <1>6 DEF OneCall
<1>11. Attempts' /\ Single'
  BY <1>1, <1>2, <1>3, <1>7 DEF Attempts, Calm, Single
<1> QED
  BY <1>8, <1>9, <1>10, <1>11 DEF Calm

LEMMA SendCalm ==
  ASSUME ReceiptInv, Calm, Send
  PROVE  Calm'
<1> DEFINE m == Upload(pendingDelta')
<1>1. /\ UNCHANGED <<hasBaseline, uploadedRound, commsVars, districtVars, answer>>
      /\ pendingDelta' = Delta /\ pendingRound' = currentRound
      /\ wire' = wire \cup {m} /\ sent' = sent \cup {m}
      /\ pc = "decide" /\ pc' = "wait"
      /\ hasBaseline /\ uploadedRound # currentRound
  BY DEF Send, MayUpload
<1>2. answer = None /\ currentRound \in Nat
  BY <1>1 DEF ReceiptInv, Shape, TypeOK, Held
<1>3. Fresh
  BY <1>1, <1>2 DEF Calm, Done
<1>4. Fresh'
  BY <1>1, <1>3 DEF Fresh, commsVars, districtVars
<1>5. Upload(pendingDelta)' = m /\ m.round = currentRound /\ currentRound' = currentRound
  BY <1>1 DEF Upload, Payload, commsVars
<1>6. \A a \in sent : a.round = currentRound => a = m
  <2> SUFFICES ASSUME NEW a \in sent, a.round = currentRound PROVE a = m
    OBVIOUS
  <2>1. pendingRound = currentRound /\ a = Upload(pendingDelta)
    BY <1>3 DEF Calm, Attempts
  <2>2. pendingDelta' = pendingDelta
    BY <1>1, <2>1 DEF Delta
  <2> QED
    BY <2>1, <2>2
<1>7. Based'
  BY <1>1 DEF Calm, Based, commsVars
<1>8. OneCall'
  <2>1. wire = {}
    BY <1>1 DEF Calm, OneCall
  <2> QED
    BY <1>1, <1>2, <1>5, <2>1 DEF OneCall
<1>9. Attempts'
  BY <1>1, <1>2, <1>5, <1>6 DEF Calm, Attempts
<1>10. Single'
  BY <1>1, <1>5, <1>6 DEF Calm, Single
<1> QED
  BY <1>4, <1>7, <1>8, <1>9, <1>10 DEF Calm

LEMMA HandlesCalm ==
  ASSUME ReceiptInv, Calm, NEW m \in wire, DistrictHandles(m)
  PROVE  Calm'
<1>1. /\ UNCHANGED <<pc, agentVars, commsVars, districtRound, sent>>
      /\ row' = IF m.round = districtRound THEN m ELSE row
  BY DEF DistrictHandles
<1>2. wire = {m} /\ pc = "wait" /\ answer = None /\ m = Upload(pendingDelta) /\ m # None
  BY NoneIs DEF Calm, OneCall, ReceiptInv, Shape, TypeOK
<1>3. wire' = {}
  BY <1>2 DEF DistrictHandles
<1>4. Fresh
  BY <1>2 DEF Calm, Done
<1>5. m.round = currentRound /\ currentRound = districtRound /\ districtRound \in Nat
  BY <1>2, <1>4 DEF Upload, Fresh, ReceiptInv, Shape, TypeOK
<1>6. Awaited(m)
  BY <1>2 DEF Awaited, Upload
<1>7. answer' = [stale |-> m.round < districtRound, round |-> districtRound]
  BY <1>6 DEF DistrictHandles
<1>8. ~answer'.stale /\ answer' # None
  <2>1. ~(m.round < districtRound)
    BY <1>5
  <2>2. (m.round < districtRound) \in BOOLEAN
    OBVIOUS
  <2>3. answer' \in Answers
    BY <1>5, <1>7, <2>2 DEF Answers
  <2>4. answer'.stale = (m.round < districtRound)
    BY <1>7
  <2> QED
    BY <2>1, <2>3, <2>4, NoneIs
<1>9. lastApplied = currentRound
  BY <1>2 DEF Calm, Based, OneCall
<1>10. Done'
  BY <1>1, <1>2, <1>3, <1>5, <1>8, <1>9 DEF Done, commsVars
<1>11. Based'
  BY <1>1 DEF Calm, Based, agentVars, commsVars
<1>12. OneCall'
  BY <1>3 DEF OneCall
<1>13. ~Fresh'
  BY <1>8 DEF Fresh
<1>14. Attempts'
  BY <1>1, <1>13 DEF Calm, Attempts, commsVars
<1>15. Single'
  BY <1>1 DEF Calm, Single
<1> QED
  BY <1>10, <1>11, <1>12, <1>14, <1>15 DEF Calm

LEMMA ClosesCalm ==
  ASSUME ReceiptInv, Calm, DistrictCloses
  PROVE  Calm'
<1>1. /\ UNCHANGED <<agentVars, commsVars, wire, answer, sent, pc>>
      /\ districtRound' = districtRound + 1 /\ row # None /\ row' = None
  BY DEF DistrictCloses
<1>2. districtRound \in Nat /\ currentRound \in Nat
  BY DEF ReceiptInv, Shape, TypeOK
<1>3. Done /\ districtRound = currentRound
  BY <1>1 DEF Calm, Fresh, Done
<1>4. Done'
  BY <1>1, <1>3 DEF Done, agentVars, commsVars
<1>5. ~Fresh'
  BY <1>1, <1>2, <1>3 DEF Fresh, commsVars
<1>6. Based'
  BY <1>1 DEF Calm, Based, agentVars, commsVars
<1>7. OneCall'
  BY <1>1, <1>3 DEF Done, OneCall
<1>8. Attempts' /\ Single'
  BY <1>1, <1>5 DEF Calm, Attempts, Single, commsVars
<1> QED
  BY <1>4, <1>6, <1>7, <1>8 DEF Calm

LEMMA SucceededCalm ==
  ASSUME ReceiptInv, Calm, Succeeded
  PROVE  Calm'
<1>1. /\ UNCHANGED <<hasBaseline, lastApplied, districtVars, wire, sent>>
      /\ answer # None /\ answer' = None
      /\ uploadedRound' = currentRound
  BY DEF Succeeded, ReceiptRound
<1>2. Done /\ ~answer.stale
  BY <1>1 DEF Calm, Fresh, Done
<1>3. currentRound' = currentRound
  BY <1>2 DEF Succeeded
<1>4. Done'
  BY <1>1, <1>2, <1>3 DEF Done, districtVars
<1>5. ~Fresh'
  BY <1>1, <1>3 DEF Fresh
<1>6. Based'
  BY <1>1, <1>3 DEF Calm, Based
<1>7. OneCall'
  BY <1>1, <1>2 DEF Done, OneCall
<1>8. Attempts' /\ Single'
  BY <1>1, <1>3, <1>5 DEF Calm, Attempts, Single
<1> QED
  BY <1>4, <1>6, <1>7, <1>8 DEF Calm

LEMMA UntroubledStep ==
  ASSUME Shape, [Next]_vars, Untroubled'
  PROVE  Untroubled /\ ~AnswerIsLost /\ ~Restart
<1>1. lost \in Nat /\ crashes \in Nat
  BY DEF Shape, TypeOK
<1>2. ~AnswerIsLost
  BY <1>1 DEF AnswerIsLost, Untroubled
<1>3. ~Restart
  BY <1>1 DEF Restart, Untroubled
<1>4. CASE UNCHANGED vars
  BY <1>2, <1>3, <1>4 DEF vars, boundVars, Untroubled
<1>5. CASE Next
  BY <1>2, <1>3, <1>5 DEF Next, Agent, Train, PullNew, PullNothing, Skip, Send, Succeeded,
     CallFails, DistrictHandles, DistrictCloses, boundVars, Untroubled
<1> QED
  BY <1>2, <1>3, <1>4, <1>5

LEMMA CalmStep == ReceiptInv /\ CalmInv /\ [Next]_vars => CalmInv'
<1> SUFFICES ASSUME ReceiptInv, Calm, [Next]_vars, ~AnswerIsLost, ~Restart
             PROVE  Calm'
  BY UntroubledStep DEF ReceiptInv, CalmInv
<1>1. CASE UNCHANGED vars
  BY <1>1, CalmStays DEF vars, agentVars
<1>2. CASE Next
  BY <1>2, TrainCalm, PullNewCalm, PullNothingCalm, SkipCalm, SendCalm, HandlesCalm,
     ClosesCalm, FailsCalm, SucceededCalm DEF Next, Agent
<1> QED
  BY <1>1, <1>2

(***************************************************************************)
(* All attempts at a round carry the same update, as long as no answer was *)
(* lost and the agent has not died.                                        *)
(***************************************************************************)
THEOREM RetriesAreSame == Spec => []RetryIsSame
<1>1. Init => ReceiptInv /\ CalmInv
  BY ReceiptInit, CalmInit DEF CalmInv
<1>2. ReceiptInv /\ CalmInv /\ [Next]_vars => ReceiptInv' /\ CalmInv'
  BY ReceiptStep, CalmStep
<1>3. CalmInv => RetryIsSame
  BY DEF CalmInv, Calm, Single, RetryIsSame
<1> QED
  BY <1>1, <1>2, <1>3, PTL DEF Spec

-------------------------------------------------------------------------------
(***************************************************************************)
(* The books of error feedback.  What the District has got and what the    *)
(* agent holds back, now or when the answer is in, make up what was        *)
(* offered; and what was offered and what is still to be, is no more than  *)
(* was trained.                                                            *)
(***************************************************************************)
Kept(s) == IF answer = None THEN residual[s] ELSE NextResidual[s]

Balanced == \A s \in Steps : Share(s) + Kept(s) = Offered(s)

Untrained == \A s \in Steps : s > steps => trained[s] = 0 /\ local[s] = 0

Spent ==
  \A s \in Steps :
    /\ Offered(s) <= trained[s]
    /\ Fresh => Offered(s) + local[s] <= trained[s]
    /\ Fresh /\ pendingDelta # None => pendingDelta[s] <= local[s]

BooksInv == Untrained /\ (Untroubled => Balanced /\ Spent)

LEMMA BooksType ==
  ASSUME Shape, NEW s \in Steps
  PROVE  /\ share[s] \in Nat /\ offered[s] \in Nat
         /\ Share(s) \in Nat /\ Offered(s) \in Nat
         /\ local[s] \in Nat /\ trained[s] \in Nat /\ residual[s] \in Nat
         /\ pendingDelta # None => pendingDelta[s] \in Nat
         /\ row # None => row.sparse[s] \in Nat /\ row.delta[s] \in Nat
  BY DEF Shape, TypeOK, Uploads, Update, Share, Offered

LEMMA BooksInit == Init => Untrained /\ Balanced /\ Spent
<1> SUFFICES ASSUME Init, NEW s \in Steps
             PROVE  /\ trained[s] = 0 /\ local[s] = 0
                    /\ Share(s) = 0 /\ Kept(s) = 0 /\ Offered(s) = 0
                    /\ pendingDelta = None
  BY DEF Untrained, Balanced, Spent
<1> QED
  BY ZeroIs DEF Init, Share, Kept, Offered

\* Training steps come in order, and each coordinate is trained once.
LEMMA UntrainedStep ==
  ASSUME Shape, Untrained, [Next]_vars
  PROVE  Untrained'
<1>1. CASE \E size \in Sizes : Train(size)
  BY <1>1 DEF Shape, TypeOK, Update, Steps, Untrained, Train
<1>2. CASE UNCHANGED <<trained, steps>> /\ (local' = local \/ local' = Zero)
  BY <1>2, ZeroIs DEF Untrained
<1>3. CASE UNCHANGED vars
  BY <1>2, <1>3 DEF vars, agentVars, trainVars
<1>4. CASE Agent \/ CallFails \/ AnswerIsLost \/ DistrictCloses \/ Restart
           \/ \E m \in wire : DistrictHandles(m)
  BY <1>2, <1>4 DEF Agent, PullNew, Rebase, PullNothing, Skip, Send, Succeeded, CallFails,
     AnswerIsLost, DistrictCloses, Restart, DistrictHandles, agentVars, trainVars
<1> QED
  BY <1>1, <1>3, <1>4 DEF Next

\* What the books are about stays as it is.
LEMMA BooksStay ==
  ASSUME Shape, Balanced, Spent, Calm,
         UNCHANGED <<local, pendingDelta, residual, currentRound, uploadedRound, answer,
                     districtVars, trained>>
  PROVE  Balanced' /\ Spent'
<1>1. Fresh' = Fresh
  BY DEF Fresh, districtVars
<1>2. NextResidual' = NextResidual
  BY DEF NextResidual, Payload
<1>3. \A s \in Steps : /\ Share(s)' = Share(s) /\ Offered(s)' = Offered(s)
                       /\ Kept(s)' = Kept(s)
  BY <1>2 DEF Share, Offered, Kept, districtVars
<1> QED
  BY <1>1, <1>3 DEF Balanced, Spent

LEMMA TrainBooks ==
  ASSUME Shape, Untrained, Balanced, Spent, NEW size \in Sizes, Train(size)
  PROVE  Balanced' /\ Spent'
<1>1. /\ UNCHANGED <<pendingDelta, residual, currentRound, uploadedRound, answer, districtVars>>
      /\ steps + 1 \in Steps /\ steps \in Nat /\ size \in Nat
      /\ local' = [local EXCEPT ![steps + 1] = size]
      /\ trained' = [trained EXCEPT ![steps + 1] = size]
  BY BuildingAssumption DEF Train, Shape, TypeOK, Steps, commsVars
<1>2. Fresh' = Fresh /\ NextResidual' = NextResidual
  BY <1>1 DEF Fresh, NextResidual, Payload, districtVars
<1>3. \A s \in Steps : /\ Share(s)' = Share(s) /\ Offered(s)' = Offered(s)
                       /\ Kept(s)' = Kept(s)
  BY <1>1, <1>2 DEF Share, Offered, Kept, districtVars
<1>4. Balanced'
  BY <1>3 DEF Balanced
<1>5. ASSUME NEW s \in Steps
      PROVE  /\ Offered(s) <= trained'[s]
             /\ Fresh => Offered(s) + local'[s] <= trained'[s]
             /\ Fresh /\ pendingDelta # None => pendingDelta[s] <= local'[s]
  <2>1. /\ Offered(s) <= trained[s]
        /\ Fresh => Offered(s) + local[s] <= trained[s]
        /\ Fresh /\ pendingDelta # None => pendingDelta[s] <= local[s]
    BY DEF Spent
  <2>2. CASE s = steps + 1
    <3>1. trained[s] = 0 /\ local[s] = 0
      BY <1>1, <2>2 DEF Untrained
    <3>2. local'[s] = size /\ trained'[s] = size
      BY <1>1, <2>2 DEF Shape, TypeOK, Update
    <3>3. Offered(s) = 0 /\ (Fresh /\ pendingDelta # None => pendingDelta[s] = 0)
      BY <2>1, <3>1, BooksType
    <3> QED
      BY <1>1, <3>2, <3>3
  <2>3. CASE s # steps + 1
    <3>1. local'[s] = local[s] /\ trained'[s] = trained[s]
      BY <1>1, <2>3 DEF Shape, TypeOK, Update
    <3> QED
      BY <2>1, <3>1
  <2> QED
    BY <2>2, <2>3
<1>6. Spent'
  BY <1>1, <1>2, <1>3, <1>5 DEF Spent
<1> QED
  BY <1>4, <1>6

LEMMA PullNewBooks ==
  ASSUME Shape, Balanced, Spent, PullNew
  PROVE  Balanced' /\ Spent'
<1>1. /\ UNCHANGED <<residual, answer, districtVars, trained>> /\ pc = "train"
      /\ local' = Zero /\ pendingDelta' = None
  BY DEF PullNew, Rebase, trainVars
<1>2. answer = None
  BY <1>1 DEF Shape, Held
<1>3. \A s \in Steps : /\ Share(s)' = Share(s) /\ Offered(s)' = Offered(s)
                       /\ Kept(s)' = Kept(s) /\ local'[s] = 0
  BY <1>1, <1>2, ZeroIs DEF Share, Offered, Kept, districtVars
<1> QED
  BY <1>1, <1>3, BooksType DEF Balanced, Spent

LEMMA SendBooks ==
  ASSUME ReceiptInv, Calm, Balanced, Spent, Send
  PROVE  Balanced' /\ Spent'
<1>1. /\ UNCHANGED <<local, uploadedRound, currentRound, residual, districtVars, answer, trained>>
      /\ pendingDelta' = Delta /\ pc = "decide"
  BY DEF Send, commsVars, trainVars
<1>2. answer = None
  BY <1>1 DEF ReceiptInv, Shape, Held
<1>3. Fresh' = Fresh
  BY <1>1 DEF Fresh, districtVars
<1>4. \A s \in Steps : /\ Share(s)' = Share(s) /\ Offered(s)' = Offered(s)
                       /\ Kept(s)' = Kept(s)
  BY <1>1, <1>2 DEF Share, Offered, Kept, districtVars
<1>5. \A s \in Steps : Fresh => Delta[s] <= local[s]
  <2> SUFFICES ASSUME NEW s \in Steps, Fresh PROVE Delta[s] <= local[s]
    OBVIOUS
  <2>1. CASE pendingRound = currentRound
    <3>1. pendingDelta # None /\ Delta = pendingDelta
      BY <2>1, NoneIs DEF ReceiptInv, Shape, TypeOK, Held, Delta
    <3> QED
      BY <3>1 DEF Spent
  <2>2. CASE pendingRound # currentRound
    BY <2>2, BooksType DEF Delta, ReceiptInv
  <2> QED
    BY <2>1, <2>2
<1> QED
  BY <1>1, <1>3, <1>4, <1>5 DEF Balanced, Spent

\* The upload goes in: its part of the sum leaves what the agent has still to give.
LEMMA HandlesBooks ==
  ASSUME ReceiptInv, Calm, Balanced, Spent, NEW m \in wire, DistrictHandles(m)
  PROVE  Balanced' /\ Spent'
<1>1. /\ UNCHANGED <<local, pendingDelta, residual, currentRound, districtRound,
                     share, offered, trained>>
      /\ row' = IF m.round = districtRound THEN m ELSE row
  BY DEF DistrictHandles, agentVars, commsVars, trainVars
<1>2. pc = "wait" /\ answer = None /\ m = Upload(pendingDelta) /\ m # None
  BY NoneIs DEF Calm, OneCall, ReceiptInv, Shape, TypeOK
<1>3. Fresh
  <2>1. wire # {}
    OBVIOUS
  <2> QED
    BY <2>1 DEF Calm, Done
<1>4. m.round = districtRound /\ row = None
  BY <1>2, <1>3 DEF Upload, Fresh
<1>5. pendingDelta \in Update
  BY <1>2, NoneIs DEF ReceiptInv, Shape, TypeOK, Held
<1>6. row' = m /\ m.delta = pendingDelta /\ m.sparse = TopK(Payload(pendingDelta))
  BY <1>1, <1>2, <1>4 DEF Upload
<1>7. answer' # None /\ ~Fresh'
  <2>1. Awaited(m)
    BY <1>2 DEF Awaited, Upload
  <2>2. answer' = [stale |-> m.round < districtRound, round |-> districtRound]
    BY <2>1 DEF DistrictHandles
  <2>3. (m.round < districtRound) \in BOOLEAN /\ districtRound \in Nat
    BY DEF ReceiptInv, Shape, TypeOK
  <2>4. answer' \in Answers
    BY <2>2, <2>3 DEF Answers
  <2> QED
    BY <2>4, NoneIs DEF Fresh
<1>8. ASSUME NEW s \in Steps
      PROVE  /\ Share(s)' + Kept(s)' = Offered(s)'
             /\ Offered(s)' <= trained'[s]
  <2> DEFINE P == Payload(pendingDelta)
  <2>1. P[s] = pendingDelta[s] + residual[s]
    BY SumIs DEF Payload
  <2>2. NextResidual[s] = P[s] - TopK(P)[s]
    BY DifferenceIs DEF NextResidual
  <2>3. TopK(P)[s] \in Nat
    BY <1>5, UploadType, TopKIs DEF ReceiptInv, Shape, Update
  <2>4. Share(s)' = share[s] + TopK(P)[s] /\ Offered(s)' = offered[s] + pendingDelta[s]
    BY <1>1, <1>2, <1>6 DEF Share, Offered
  <2>5. Kept(s)' = NextResidual[s]
    BY <1>1, <1>7 DEF Kept, NextResidual, Payload
  <2>6. share[s] + residual[s] = offered[s]
    <3>1. Share(s) = share[s] /\ Offered(s) = offered[s] /\ Kept(s) = residual[s]
      BY <1>2, <1>4, BooksType DEF Share, Offered, Kept, ReceiptInv
    <3> QED
      BY <3>1 DEF Balanced
  <2>7. offered[s] + local[s] <= trained[s] /\ pendingDelta[s] <= local[s]
    <3>1. Offered(s) = offered[s] /\ pendingDelta # None
      BY <1>4, <1>5, NoneIs, BooksType DEF Offered, ReceiptInv
    <3> QED
      BY <1>3, <3>1 DEF Spent
  <2>8. /\ share[s] \in Nat /\ offered[s] \in Nat /\ residual[s] \in Nat
        /\ local[s] \in Nat /\ trained[s] \in Nat /\ pendingDelta[s] \in Nat
    BY <1>5, BooksType DEF ReceiptInv, Update
  <2>9. Share(s)' + Kept(s)' = Offered(s)'
    BY <2>1, <2>2, <2>3, <2>4, <2>5, <2>6, <2>8
  <2>10. Offered(s)' <= trained'[s]
    BY <1>1, <2>4, <2>7, <2>8
  <2> QED
    BY <2>9, <2>10
<1> QED
  BY <1>7, <1>8 DEF Balanced, Spent

LEMMA ClosesBooks ==
  ASSUME ReceiptInv, Calm, Balanced, Spent, DistrictCloses
  PROVE  Balanced' /\ Spent'
<1>1. /\ UNCHANGED <<residual, answer, trained, pendingDelta, uploadedRound, currentRound>>
      /\ row # None /\ row' = None
      /\ share' = share (+) row.sparse /\ offered' = offered (+) row.delta
      /\ districtRound' = districtRound + 1
  BY DEF DistrictCloses, agentVars, commsVars, trainVars
<1>2. ~Fresh'
  <2>1. districtRound = currentRound /\ districtRound \in Nat
    BY <1>1 DEF Calm, Fresh, Done, ReceiptInv, Shape, TypeOK
  <2> QED
    BY <1>1, <2>1 DEF Fresh
<1>3. ASSUME NEW s \in Steps
      PROVE  Share(s)' = Share(s) /\ Offered(s)' = Offered(s) /\ Kept(s)' = Kept(s)
  <2>1. share'[s] = share[s] + row.sparse[s] /\ offered'[s] = offered[s] + row.delta[s]
    BY <1>1, SumIs
  <2>2. /\ row.sparse[s] \in Nat /\ row.delta[s] \in Nat
        /\ share[s] \in Nat /\ offered[s] \in Nat
    BY <1>1, BooksType DEF ReceiptInv
  <2>3. Share(s)' = Share(s) /\ Offered(s)' = Offered(s)
    BY <1>1, <2>1, <2>2 DEF Share, Offered
  <2>4. Kept(s)' = Kept(s)
    BY <1>1 DEF Kept, NextResidual, Payload
  <2> QED
    BY <2>3, <2>4
<1> QED
  BY <1>1, <1>2, <1>3 DEF Balanced, Spent

LEMMA SucceededBooks ==
  ASSUME ReceiptInv, Calm, Balanced, Spent, Succeeded
  PROVE  Balanced' /\ Spent'
<1>1. /\ UNCHANGED <<local, districtVars, trained>>
      /\ answer # None /\ answer' = None
      /\ residual' = NextResidual
      /\ uploadedRound' = currentRound
  BY DEF Succeeded, ReceiptRound, trainVars
<1>2. ~answer.stale
  BY <1>1 DEF Calm, Fresh, Done
<1>3. currentRound' = currentRound
  BY <1>2 DEF Succeeded
<1>4. ~Fresh'
  BY <1>1, <1>3 DEF Fresh
<1>5. \A s \in Steps : /\ Share(s)' = Share(s) /\ Offered(s)' = Offered(s)
                       /\ Kept(s)' = Kept(s)
  BY <1>1 DEF Share, Offered, Kept, districtVars
<1> QED
  BY <1>1, <1>4, <1>5 DEF Balanced, Spent

BooksIndInv == ReceiptInv /\ CalmInv /\ BooksInv

LEMMA BooksStep == BooksIndInv /\ [Next]_vars => BooksInv'
<1> SUFFICES ASSUME BooksIndInv, [Next]_vars PROVE BooksInv'
  OBVIOUS
<1>1. Untrained'
  BY UntrainedStep DEF BooksIndInv, BooksInv, ReceiptInv
<1>2. ASSUME Untroubled' PROVE Balanced' /\ Spent'
  <2>1. Untroubled /\ ~AnswerIsLost /\ ~Restart
    BY <1>2, UntroubledStep DEF BooksIndInv, ReceiptInv
  <2>2. Shape /\ ReceiptInv /\ Calm /\ Untrained /\ Balanced /\ Spent
    BY <2>1 DEF BooksIndInv, BooksInv, CalmInv, ReceiptInv
  <2>3. CASE UNCHANGED vars
    BY <2>2, <2>3, BooksStay DEF vars, agentVars, commsVars, trainVars
  <2>4. CASE PullNothing \/ Skip \/ CallFails
    BY <2>2, <2>4, BooksStay DEF PullNothing, Skip, CallFails, agentVars, commsVars, trainVars
  <2>5. CASE Next
    BY <2>1, <2>2, <2>4, <2>5, TrainBooks, PullNewBooks, SendBooks, HandlesBooks, ClosesBooks,
       SucceededBooks DEF Next, Agent
  <2> QED
    BY <2>3, <2>5
<1> QED
  BY <1>1, <1>2 DEF BooksInv

(***************************************************************************)
(* Error feedback is exact, and no step counts twice: for an agent that    *)
(* knows of every upload the District handled.                             *)
(***************************************************************************)
THEOREM FeedbackIsExact == Spec => []UntroubledFeedbackIsExact
<1>1. Init => BooksIndInv
  BY ReceiptInit, CalmInit, BooksInit DEF BooksIndInv, CalmInv, BooksInv
<1>2. BooksIndInv /\ [Next]_vars => BooksIndInv'
  BY ReceiptStep, CalmStep, BooksStep DEF BooksIndInv
<1>3. BooksIndInv => UntroubledFeedbackIsExact
  <2> SUFFICES ASSUME BooksIndInv, Untroubled
               PROVE  ErrorFeedbackIsExact /\ NoDoubleCount
    BY DEF UntroubledFeedbackIsExact
  <2>1. Shape /\ Balanced /\ Spent
    BY DEF BooksIndInv, BooksInv, ReceiptInv
  <2>2. ErrorFeedbackIsExact
    BY <2>1 DEF Shape, Held, Balanced, Kept, ErrorFeedbackIsExact
  <2>3. ASSUME NEW s \in Steps PROVE Share(s) <= trained[s]
    <3>1. Kept(s) \in Nat
      <4>1. CASE answer = None
        BY <2>1, <4>1, BooksType DEF Kept
      <4>2. CASE answer # None
        <5>1. pendingDelta \in Update
          BY <2>1, <4>2, NoneIs DEF Shape, TypeOK, Held
        <5>2. NextResidual \in Update
          BY <2>1, <5>1, UploadType, RestType DEF Shape, NextResidual
        <5> QED
          BY <4>2, <5>2 DEF Kept, Update
      <4> QED
        BY <4>1, <4>2
    <3>2. Share(s) + Kept(s) = Offered(s) /\ Offered(s) <= trained[s]
      BY <2>1 DEF Balanced, Spent
    <3> QED
      BY <2>1, <3>1, <3>2, BooksType
  <2> QED
    BY <2>2, <2>3 DEF NoDoubleCount
<1> QED
  BY <1>1, <1>2, <1>3, PTL DEF Spec

================================================================================
