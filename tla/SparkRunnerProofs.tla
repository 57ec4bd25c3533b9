--------------------------- MODULE SparkRunnerProofs ---------------------------
(***************************************************************************)
(* Theorems about SparkRunner, for any agents, districts, rounds, trainings *)
(* and launches, and for any width of Top-K: a failed task is repeated, a  *)
(* driver dies and is launched again, in the same directory or a new one.  *)
(***************************************************************************)
EXTENDS SparkRunner, FiniteSetTheorems, TLAPS

\* The round has come to something that is not adopted yet.
Pending == pc \in {"aggregated", "half audited", "audited"}

TypeOK ==
  /\ pc \in {"off", "ready", "tasks", "aggregated", "half audited", "audited", "closing", "measured"}
  /\ cfg \in [f : Nat, resume : Nat, dp : BOOLEAN]
  /\ round \in 0 .. MaxRounds
  /\ pc \in {"ready", "tasks"} \/ Pending => round < MaxRounds
  /\ w \in Model /\ training \in Model /\ trained \in Model /\ residual \in Model /\ lost \in Model
  /\ outcome \in [model : Model, accepted : [Districts -> Nat], rejected : BOOLEAN]
  /\ history \in [Rounds -> [input : Model \cup {None}, rejected : BOOLEAN] \cup {None}]
  /\ step \in [Agents -> {"todo", "trained", "carried", "done"}]
  /\ input \in [Rounds -> Model \cup {None}]
  /\ delta \in [Agents -> Update \cup {None}]
  /\ agentAudit \in [Rounds -> [Agents -> BOOLEAN] \cup {None}]
  /\ districtAudit \in [Rounds -> [Districts -> Nat] \cup {None}]
  /\ mark \subseteq {"shared", "repeated"}

(***************************************************************************)
(* The delta of a task that has trained is what Top-K makes of its payload, *)
(* until the residual is replaced; with privacy it never is.               *)
(***************************************************************************)
Fresh ==
  pc = "tasks" =>
    \A a \in Agents :
      /\ step[a] \in {"trained", "carried"} => delta[a] # None
      /\ a \in NoData => delta[a] = None
      /\ step[a] = "trained" => delta[a] = TopK(Payload(a))
      /\ cfg.dp /\ delta[a] # None /\ step[a] # "todo" => delta[a] = TopK(Payload(a))

TypeInv == TypeOK /\ Fresh

-------------------------------------------------------------------------------
(***************************************************************************)
(* Top-K keeps a coordinate as it is or makes it zero.                     *)
(***************************************************************************)
LEMMA TopKKeepsOrDrops ==
  ASSUME NEW u \in Update
  PROVE  /\ TopK(u) \in Update
         /\ \A k \in Coords : TopK(u)[k] \in {0, u[k]}
  BY DEF TopK, Update

LEMMA SumType ==
  ASSUME NEW u \in Update, NEW v \in Update
  PROVE  u (+) v \in Update /\ \A k \in Coords : (u (+) v)[k] = u[k] + v[k]
  BY DEF Update, (+)

LEMMA PayloadType ==
  ASSUME TypeOK, NEW a \in Agents
  PROVE  /\ Payload(a) \in Update
         /\ cfg.dp => Payload(a) = training[a]
         /\ ~cfg.dp => \A k \in Coords : Payload(a)[k] = training[a][k] + residual[a][k]
<1>1. training[a] \in Update /\ residual[a] \in Update
  BY DEF TypeOK, Model
<1> QED
  BY <1>1, SumType DEF Payload

\* What Carry puts in place: the part of the payload that Top-K dropped.
LEMMA ResidualType ==
  ASSUME TypeInv, NEW a \in Agents, pc = "tasks", step[a] = "trained"
  PROVE  /\ NextResidual(a) \in Update
         /\ cfg.dp => NextResidual(a) = residual[a]
         /\ ~cfg.dp => \A k \in Coords :
              NextResidual(a)[k] + delta[a][k] = training[a][k] + residual[a][k]
<1>1. delta[a] = TopK(Payload(a)) /\ Payload(a) \in Update /\ residual[a] \in Update
  BY PayloadType DEF TypeInv, Fresh, TypeOK, Model
<1>2. delta[a] \in Update /\ \A k \in Coords : delta[a][k] \in {0, Payload(a)[k]}
  BY <1>1, TopKKeepsOrDrops
<1>3. \A k \in Coords : Payload(a)[k] \in Nat /\ delta[a][k] \in Nat /\ residual[a][k] \in Nat
  BY <1>1, <1>2 DEF Update
<1>4. CASE cfg.dp
  BY <1>1, <1>4 DEF NextResidual
<1>5. CASE ~cfg.dp
  <2>1. NextResidual(a) = [k \in Coords |-> Payload(a)[k] - delta[a][k]]
    BY <1>5 DEF NextResidual, (-)
  <2>2. \A k \in Coords : /\ NextResidual(a)[k] \in Nat
                          /\ NextResidual(a)[k] + delta[a][k] = Payload(a)[k]
    BY <1>2, <1>3, <2>1
  <2>3. NextResidual(a) \in Update
    BY <2>1, <2>2 DEF Update
  <2> QED
    BY <1>5, <2>2, <2>3, PayloadType DEF TypeInv
<1> QED
  BY <1>4, <1>5

\* Whoever is accepted has a delta.
LEMMA AcceptedHasDelta ==
  ASSUME NEW accepted \in SUBSET Agents, NEW a \in accepted,
         \A d \in Districts : accepted \cap District(d) \in Selections(d)
  PROVE  delta[a] # None
<1> DEFINE d == RankOf(a) % NumDistricts
<1>1. RankOf(a) \in Int
  <2>1. DOMAIN Manifest \subseteq Int
    BY SparkAssumption
  <2>2. \E i \in DOMAIN Manifest : Manifest[i] = a
    BY DEF Agents
  <2>3. (CHOOSE i \in DOMAIN Manifest : Manifest[i] = a) \in DOMAIN Manifest
    BY <2>2
  <2> QED
    BY <2>1, <2>3 DEF RankOf
<1>2. d \in 0 .. NumDistricts - 1 /\ a \in District(d)
  BY <1>1, SparkAssumption DEF District
<1>3. accepted \cap District(d) \in Selections(d)
  BY <1>2 DEF Districts
<1>4. \A S \in Selections(d) : S \subseteq Present(d)
  BY DEF Selections
<1>5. a \in Present(d)
  BY <1>2, <1>3, <1>4
<1> QED
  BY <1>5 DEF Present

LEMMA AgentsFinite ==
  /\ IsFiniteSet(Agents)
  /\ \A S \in SUBSET Agents : IsFiniteSet(S) /\ Cardinality(S) \in Nat
<1>1. DOMAIN Manifest = 1 .. Len(Manifest) /\ Len(Manifest) \in Nat
  BY SparkAssumption
<1>2. IsFiniteSet(DOMAIN Manifest)
  BY <1>1, FS_Interval
<1>3. Manifest \in Surjection(DOMAIN Manifest, Agents)
  <2>1. Manifest \in [DOMAIN Manifest -> Agents]
    BY <1>1, SparkAssumption
  <2>2. \A a \in Agents : \E i \in DOMAIN Manifest : Manifest[i] = a
    BY DEF Agents
  <2> QED
    BY <2>1, <2>2 DEF Surjection
<1>4. IsFiniteSet(Agents)
  BY <1>2, <1>3, FS_Surjection
<1> QED
  BY <1>4, FS_Subset, FS_CardinalityType

(***************************************************************************)
(* What a round comes to: every coordinate of a delta is either added to   *)
(* the model or lost, and nobody's part moves who was not accepted.        *)
(***************************************************************************)
LEMMA AggregateSplits ==
  ASSUME TypeOK, NEW accepted \in SUBSET Agents, NEW rejected \in BOOLEAN,
         NEW cut \in [accepted -> [Coords -> Cuts]],
         \A a \in accepted : delta[a] # None,
         \A a \in accepted, k \in Coords : cut[a][k] <= delta[a][k]
  PROVE  /\ Outcome(accepted, cut, rejected) \in Model
         /\ \A a \in Agents :
              /\ Loss(a, accepted, cut, rejected) \in Update
              /\ a \notin accepted \/ rejected => Outcome(accepted, cut, rejected)[a] = w[a]
              /\ \A k \in Coords :
                   /\ w[a][k] <= Outcome(accepted, cut, rejected)[a][k]
                   /\ Outcome(accepted, cut, rejected)[a][k] + Loss(a, accepted, cut, rejected)[k]
                        = w[a][k] + IF delta[a] = None THEN 0 ELSE delta[a][k]
         /\ rejected => Outcome(accepted, cut, rejected) = w
<1>1. w \in [Agents -> Update] /\ \A a \in Agents : w[a] \in Update
  BY DEF TypeOK, Model
<1>2. \A a \in Agents : delta[a] # None => delta[a] \in Update
  BY DEF TypeOK
<1>3. \A a \in accepted : cut[a] \in Update
  BY SparkAssumption DEF Update
<1>4. ASSUME NEW a \in accepted
      PROVE  /\ w[a] (+) (delta[a] (-) cut[a]) \in Update
             /\ \A k \in Coords :
                  /\ w[a][k] <= (w[a] (+) (delta[a] (-) cut[a]))[k]
                  /\ (w[a] (+) (delta[a] (-) cut[a]))[k] + cut[a][k] = w[a][k] + delta[a][k]
  <2>1. \A k \in Coords : w[a][k] \in Nat /\ delta[a][k] \in Nat /\ cut[a][k] \in Nat
    BY <1>1, <1>2, <1>3 DEF Update
  <2>2. \A k \in Coords : (delta[a] (-) cut[a])[k] = delta[a][k] - cut[a][k]
    BY DEF (-)
  <2>3. delta[a] (-) cut[a] \in Update
    BY <2>1, <2>2 DEF (-), Update
  <2> QED
    BY <1>1, <2>1, <2>2, <2>3, SumType
<1>5. Candidate(accepted, cut) \in [Agents -> Update]
  BY <1>1, <1>4 DEF Candidate
<1>6. Outcome(accepted, cut, rejected) \in Model /\ (rejected => Outcome(accepted, cut, rejected) = w)
  BY <1>1, <1>5 DEF Outcome, Model
<1>7. ASSUME NEW a \in Agents
      PROVE  /\ Loss(a, accepted, cut, rejected) \in Update
             /\ a \notin accepted \/ rejected => Outcome(accepted, cut, rejected)[a] = w[a]
             /\ \A k \in Coords :
                  /\ w[a][k] <= Outcome(accepted, cut, rejected)[a][k]
                  /\ Outcome(accepted, cut, rejected)[a][k] + Loss(a, accepted, cut, rejected)[k]
                       = w[a][k] + IF delta[a] = None THEN 0 ELSE delta[a][k]
  <2>1. \A k \in Coords : w[a][k] \in Nat /\ (delta[a] # None => delta[a][k] \in Nat)
    BY <1>1, <1>2 DEF Update
  <2>2. CASE a \in accepted /\ ~rejected
    <3>1. Outcome(accepted, cut, rejected)[a] = w[a] (+) (delta[a] (-) cut[a])
      BY <2>2 DEF Outcome, Candidate
    <3>2. Loss(a, accepted, cut, rejected) = cut[a]
      BY <2>2 DEF Loss
    <3> QED
      BY <1>3, <1>4, <2>2, <3>1, <3>2
  <2>3. CASE a \notin accepted \/ rejected
    <3>1. Outcome(accepted, cut, rejected)[a] = w[a]
      BY <2>3 DEF Outcome, Candidate
    <3>2. CASE delta[a] = None
      <4>1. Loss(a, accepted, cut, rejected) = Zero
        BY <3>2 DEF Loss
      <4> QED
        BY <2>1, <3>1, <3>2, <4>1 DEF Zero, Update
    <3>3. CASE delta[a] # None
      <4>1. Loss(a, accepted, cut, rejected) = delta[a]
        BY <2>3, <3>3 DEF Loss
      <4> QED
        BY <1>2, <2>1, <3>1, <3>3, <4>1
    <3> QED
      BY <3>2, <3>3
  <2> QED
    BY <2>2, <2>3
<1> QED
  BY <1>6, <1>7

LEMMA ZeroType == Zero \in Update /\ Start \in Model /\ \A k \in Coords : Zero[k] = 0
  BY DEF Zero, Start, Model, Update

LEMMA NothingType ==
  /\ NoOutcome \in [model : Model, accepted : [Districts -> Nat], rejected : BOOLEAN]
  /\ NoRounds \in [Rounds -> Model \cup {None}]
  /\ NoRounds \in [Rounds -> [Agents -> BOOLEAN] \cup {None}]
  /\ NoRounds \in [Rounds -> [Districts -> Nat] \cup {None}]
  /\ NoRounds \in [Rounds -> [input : Model \cup {None}, rejected : BOOLEAN] \cup {None}]
  BY ZeroType DEF NoOutcome, NoRounds

-------------------------------------------------------------------------------
LEMMA TypeInit == Init => TypeInv
  BY SparkAssumption, ZeroType, NothingType DEF Init, TypeInv, TypeOK, Fresh, Pending

\* A launch begins with zero, or with the input a launch of the same second left.
LEMMA LaunchType ==
  ASSUME TypeInv, NEW c \in Configs, NEW same \in BOOLEAN, Launch(c, same)
  PROVE  TypeInv'
<1>1. /\ input' \in [Rounds -> Model \cup {None}] /\ residual' \in Model
      /\ agentAudit' \in [Rounds -> [Agents -> BOOLEAN] \cup {None}]
      /\ districtAudit' \in [Rounds -> [Districts -> Nat] \cup {None}]
      /\ delta' \in [Agents -> Update \cup {None}]
  BY ZeroType, NothingType DEF Launch, Directory, TypeInv, TypeOK, auditVars
<1>2. cfg' = c /\ c \in [f : Nat, resume : Nat, dp : BOOLEAN]
  BY SparkAssumption DEF Launch
<1>3. Prior(c) # None => c.resume \in 1 .. MaxRounds /\ Prior(c) = input'[c.resume - 1]
  BY DEF Prior
<1>4. Prior(c) # None => Prior(c) \in Model
  BY <1>1, <1>3, SparkAssumption DEF Rounds
<1>5. w' \in Model /\ round' \in 0 .. MaxRounds
  BY <1>3, <1>4, ZeroType, SparkAssumption DEF Launch
<1>6. /\ pc' \in {"ready", "closing"} /\ (pc' = "ready" => round' < MaxRounds)
      /\ training' \in Model /\ trained' \in Model /\ lost' \in Model
      /\ outcome' \in [model : Model, accepted : [Districts -> Nat], rejected : BOOLEAN]
      /\ history' \in [Rounds -> [input : Model \cup {None}, rejected : BOOLEAN] \cup {None}]
      /\ step' \in [Agents -> {"todo", "trained", "carried", "done"}]
      /\ mark' \subseteq {"shared", "repeated"}
  BY ZeroType, NothingType DEF Launch
<1> QED
  BY <1>1, <1>2, <1>5, <1>6 DEF TypeInv, TypeOK, Fresh, Pending

LEMMA TypeStep == TypeInv /\ [Next]_vars => TypeInv'
<1> SUFFICES ASSUME TypeInv, [Next]_vars PROVE TypeInv'
  OBVIOUS
<1> USE DEF driverVars, taskVars, auditVars, fileVars, ghostVars
<1>0. TypeOK
  BY DEF TypeInv
<1>1. ASSUME NEW c \in Configs, NEW same \in BOOLEAN, Launch(c, same) PROVE TypeInv'
  BY <1>1, LaunchType
<1>2. ASSUME NEW trainings \in [Agents \ NoData -> Trainings], StartRound(trainings) PROVE TypeInv'
  <2>1. training' \in Model
    BY <1>2, ZeroType, SparkAssumption DEF StartRound, Model
  <2>2. input' \in [Rounds -> Model \cup {None}]
    BY <1>0, <1>2 DEF StartRound, TypeOK
  <2>3. TypeOK'
    BY <1>0, <1>2, <2>1, <2>2 DEF StartRound, TypeOK, Pending
  <2> QED
    BY <1>2, <2>3 DEF StartRound, TypeInv, Fresh
<1>3. ASSUME NEW a \in Agents, Train(a) PROVE TypeInv'
  <2>1. Payload(a) \in Update /\ TopK(Payload(a)) \in Update /\ training[a] \in Update
    BY <1>0, PayloadType, TopKKeepsOrDrops DEF TypeOK, Model
  <2>2. /\ delta' = [delta EXCEPT ![a] = TopK(Payload(a))]
        /\ step' = [step EXCEPT ![a] = "trained"] /\ pc = "tasks"
        /\ UNCHANGED <<driverVars, training, input, residual, auditVars, lost, mark>>
    BY <1>3 DEF Train
  <2>3. trained' \in Model
    <3>1. trained[a] (+) training[a] \in Update
      BY <1>0, <2>1, SumType DEF TypeOK, Model
    <3> QED
      BY <1>0, <1>3, <3>1 DEF Train, TypeOK, Model
  <2>4. TypeOK'
    BY <1>0, <2>1, <2>2, <2>3 DEF TypeOK, Pending
  <2>5. \A b \in Agents : Payload(b)' = Payload(b)
    BY <2>2 DEF Payload
  <2>6. delta'[a] = TopK(Payload(a)) /\ step'[a] = "trained" /\ delta'[a] # None
    BY <1>0, <2>1, <2>2, SparkAssumption DEF TypeOK
  <2>7. \A b \in Agents : b # a => delta'[b] = delta[b] /\ step'[b] = step[b]
    BY <1>0, <2>2 DEF TypeOK
  <2>8. Fresh'
    BY <1>3, <2>2, <2>5, <2>6, <2>7 DEF Train, TypeInv, Fresh
  <2> QED
    BY <2>4, <2>8 DEF TypeInv
<1>4. ASSUME NEW a \in Agents, Carry(a) PROVE TypeInv'
  <2>1. /\ pc = "tasks" /\ step[a] = "trained" /\ residual' = [residual EXCEPT ![a] = NextResidual(a)]
        /\ step' = [step EXCEPT ![a] = "carried"]
        /\ UNCHANGED <<driverVars, training, trained, lost, input, delta, auditVars, mark>>
    BY <1>4 DEF Carry
  <2>2. NextResidual(a) \in Update /\ (cfg.dp => NextResidual(a) = residual[a])
    BY <2>1, ResidualType
  <2>3. TypeOK'
    BY <1>0, <2>1, <2>2 DEF TypeOK, Pending, Model
  <2>4. cfg.dp => residual' = residual
    BY <1>0, <2>1, <2>2 DEF TypeOK, Model
  <2>5. /\ cfg.dp => \A b \in Agents : Payload(b)' = Payload(b)
        /\ \A b \in Agents : b # a => Payload(b)' = Payload(b)
    BY <1>0, <2>1, <2>4 DEF Payload, TypeOK, Model
  <2>6. /\ step'[a] = "carried" /\ \A b \in Agents : b # a => step'[b] = step[b]
    BY <1>0, <2>1 DEF TypeOK
  <2>7. delta[a] # None /\ delta[a] = TopK(Payload(a))
    BY <2>1 DEF TypeInv, Fresh
  <2>8. Fresh'
    BY <2>1, <2>5, <2>6, <2>7 DEF TypeInv, Fresh
  <2> QED
    BY <2>3, <2>8 DEF TypeInv
<1>5. ASSUME NEW a \in Agents, Report(a) \/ TaskFails(a) PROVE TypeInv'
  <2>1. /\ pc = "tasks" /\ UNCHANGED <<driverVars, training, trained, lost, fileVars>>
        /\ \E s \in {"todo", "done"} :
             /\ step' = [step EXCEPT ![a] = s]
             /\ s = "done" => step[a] = "carried" \/ (step[a] = "todo" /\ a \in NoData)
        /\ mark' \subseteq {"shared", "repeated"}
    BY <1>0, <1>5 DEF Report, TaskFails, TypeOK
  <2>2. TypeOK'
    BY <1>0, <2>1 DEF TypeOK, Pending
  <2>3. \A b \in Agents : Payload(b)' = Payload(b)
    BY <2>1 DEF Payload
  <2>4. /\ step'[a] \in {"todo", "done"}
        /\ step'[a] = "done" => step[a] = "carried" \/ a \in NoData
        /\ \A b \in Agents : b # a => step'[b] = step[b]
    BY <1>0, <2>1 DEF TypeOK
  <2>5. Fresh'
    BY <2>1, <2>3, <2>4 DEF TypeInv, Fresh
  <2> QED
    BY <2>2, <2>5 DEF TypeInv
<1>6. ASSUME RunFails \/ AggregationRaises PROVE TypeInv'
  <2>1. Dies
    BY <1>6 DEF RunFails, AggregationRaises
  <2> QED
    BY <1>0, <2>1, ZeroType, NothingType DEF Dies, TypeOK, TypeInv, Fresh, Pending
<1>7. ASSUME NEW accepted \in SUBSET Agents, NEW rejected \in BOOLEAN,
             NEW cut \in [accepted -> [Coords -> Cuts]], Aggregate(accepted, cut, rejected)
      PROVE  TypeInv'
  <2>1. \A a \in accepted : delta[a] # None
    BY <1>7, AcceptedHasDelta DEF Aggregate
  <2>2. /\ Outcome(accepted, cut, rejected) \in Model
        /\ \A a \in Agents : Loss(a, accepted, cut, rejected) \in Update
    BY <1>0, <1>7, <2>1, AggregateSplits DEF Aggregate
  <2>3. \A d \in Districts : Cardinality(accepted \cap District(d)) \in Nat
    BY AgentsFinite
  <2>4. outcome' \in [model : Model, accepted : [Districts -> Nat], rejected : BOOLEAN]
    BY <1>7, <2>2, <2>3 DEF Aggregate
  <2>5. lost' \in Model
    <3>1. \A a \in Agents : lost[a] (+) Loss(a, accepted, cut, rejected) \in Update
      BY <1>0, <2>2, SumType DEF TypeOK, Model
    <3> QED
      BY <1>7, <3>1 DEF Aggregate, Model
  <2> QED
    BY <1>0, <1>7, <2>4, <2>5 DEF Aggregate, TypeOK, TypeInv, Fresh, Pending
<1>8. ASSUME AuditAgents \/ AuditDistricts PROVE TypeInv'
  <2>1. /\ agentAudit' \in [Rounds -> [Agents -> BOOLEAN] \cup {None}]
        /\ districtAudit' \in [Rounds -> [Districts -> Nat] \cup {None}]
    <3>1. [a \in Agents |-> a \notin NoData] \in [Agents -> BOOLEAN]
      OBVIOUS
    <3>2. outcome.accepted \in [Districts -> Nat]
      BY <1>0 DEF TypeOK
    <3>3. CASE AuditAgents
      BY <1>0, <3>1, <3>3, Zenon DEF AuditAgents, TypeOK
    <3>4. CASE AuditDistricts
      BY <1>0, <3>2, <3>4 DEF AuditDistricts, TypeOK
    <3> QED
      BY <1>8, <3>3, <3>4
  <2> QED
    BY <1>0, <1>8, <2>1 DEF AuditAgents, AuditDistricts, TypeOK, TypeInv, Fresh, Pending
<1>9. ASSUME NEW small \in BOOLEAN, Adopt(small) PROVE TypeInv'
  <2>1. round < MaxRounds /\ round' = round + 1 /\ round \in 0 .. MaxRounds
    BY <1>0, <1>9 DEF Adopt, TypeOK, Pending
  <2>2. pc' \in {"ready", "closing"} /\ (pc' = "ready" => round' # MaxRounds)
    BY <1>9 DEF Adopt
  <2>3. round' \in 0 .. MaxRounds /\ (pc' = "ready" => round' < MaxRounds)
    BY <2>1, <2>2, SparkAssumption
  <2>4. history' \in [Rounds -> [input : Model \cup {None}, rejected : BOOLEAN] \cup {None}]
    <3>1. round \in Rounds
      BY <2>1, SparkAssumption DEF Rounds
    <3>2. [input |-> input[round], rejected |-> outcome.rejected] \in
            [input : Model \cup {None}, rejected : BOOLEAN]
      BY <1>0, <3>1 DEF TypeOK
    <3> QED
      BY <1>0, <1>9, <3>2 DEF Adopt, TypeOK
  <2>5. w' \in Model /\ outcome' = NoOutcome
    BY <1>0, <1>9 DEF Adopt, TypeOK
  <2>6. TypeOK'
    BY <1>0, <1>9, <2>2, <2>3, <2>4, <2>5, NothingType DEF Adopt, TypeOK, Pending
  <2> QED
    BY <2>2, <2>6 DEF TypeInv, Fresh
<1>10. ASSUME Measure \/ Finish PROVE TypeInv'
  BY <1>0, <1>10 DEF Measure, Finish, TypeOK, TypeInv, Fresh, Pending
<1>11. CASE UNCHANGED vars
  BY <1>0, <1>11 DEF vars, TypeOK, TypeInv, Fresh, Payload, Pending
<1> QED
  BY <1>1, <1>2, <1>3, <1>4, <1>5, <1>6, <1>7, <1>8, <1>9, <1>10, <1>11 DEF Next

(***************************************************************************)
(* Types, and that a task's delta belongs to its payload.                  *)
(***************************************************************************)
THEOREM TypeCorrect == Spec => []TypeOK
<1>1. TypeInv => TypeOK
  BY DEF TypeInv
<1> QED
  BY TypeInit, TypeStep, <1>1, PTL DEF Spec

-------------------------------------------------------------------------------
(***************************************************************************)
(* Where every unit of training is: in the model (or in the one that the   *)
(* round has come to), in the residual, lost in an aggregation, or, for a  *)
(* task of the open round that has a delta, still on its way.  A task that *)
(* has not carried its residual owes all it has trained, also if it has    *)
(* failed since; one that has owes its delta.  With privacy the residual   *)
(* is not part of the account.                                             *)
(***************************************************************************)
Due(a, k) ==
  IF pc # "tasks" \/ delta[a] = None THEN 0
  ELSE IF cfg.dp \/ step[a] \in {"todo", "trained"} THEN training[a][k] ELSE delta[a][k]

Coming == IF Pending THEN outcome.model ELSE w

Account ==
  mark = {} =>
    \A a \in Agents, k \in Coords :
      /\ w[a][k] <= Coming[a][k]
      /\ pc = "off" => w[a][k] + lost[a][k] <= trained[a][k]
      /\ pc # "off" /\ cfg.dp  => Coming[a][k] + lost[a][k] + Due(a, k) <= trained[a][k]
      /\ pc # "off" /\ ~cfg.dp =>
           Coming[a][k] + residual[a][k] + lost[a][k] + Due(a, k) = trained[a][k]

\* The numbers of the account.
LEMMA Numbers ==
  ASSUME TypeInv, NEW a \in Agents, NEW k \in Coords
  PROVE  /\ w[a][k] \in Nat /\ residual[a][k] \in Nat /\ lost[a][k] \in Nat
         /\ training[a][k] \in Nat /\ trained[a][k] \in Nat /\ Coming[a][k] \in Nat
         /\ delta[a] # None => delta[a][k] \in Nat
         /\ Due(a, k) \in Nat
<1>1. /\ w[a] \in Update /\ residual[a] \in Update /\ training[a] \in Update
      /\ trained[a] \in Update /\ lost[a] \in Update /\ Coming[a] \in Update
      /\ (delta[a] # None => delta[a] \in Update)
  BY DEF TypeInv, TypeOK, Model, Coming
<1> QED
  BY <1>1 DEF Update, Due

LEMMA AccountInit == Init => Account
  BY ZeroType DEF Init, Account, Due, Start, Coming, Pending

LEMMA AccountStep == TypeInv /\ Account /\ [Next]_vars => Account'
<1> SUFFICES ASSUME TypeInv, Account, [Next]_vars, mark' = {}, NEW a \in Agents, NEW k \in Coords
             PROVE  /\ w'[a][k] <= Coming'[a][k]
                    /\ pc' = "off" => w'[a][k] + lost'[a][k] <= trained'[a][k]
                    /\ pc' # "off" /\ cfg'.dp =>
                         Coming'[a][k] + lost'[a][k] + Due(a, k)' <= trained'[a][k]
                    /\ pc' # "off" /\ ~cfg'.dp =>
                         Coming'[a][k] + residual'[a][k] + lost'[a][k] + Due(a, k)' = trained'[a][k]
  BY DEF Account
<1> DEFINE Goal == /\ w'[a][k] <= Coming'[a][k]
                   /\ pc' = "off" => w'[a][k] + lost'[a][k] <= trained'[a][k]
                   /\ pc' # "off" /\ cfg'.dp =>
                        Coming'[a][k] + lost'[a][k] + Due(a, k)' <= trained'[a][k]
                   /\ pc' # "off" /\ ~cfg'.dp =>
                        Coming'[a][k] + residual'[a][k] + lost'[a][k] + Due(a, k)' = trained'[a][k]
<1> USE DEF driverVars, taskVars, auditVars, fileVars, ghostVars
<1>n. /\ w[a][k] \in Nat /\ residual[a][k] \in Nat /\ lost[a][k] \in Nat
      /\ training[a][k] \in Nat /\ trained[a][k] \in Nat /\ Coming[a][k] \in Nat
      /\ delta[a] # None => delta[a][k] \in Nat
      /\ Due(a, k) \in Nat
  BY Numbers
<1>1. ASSUME NEW c \in Configs, NEW same \in BOOLEAN, Launch(c, same) PROVE Goal
  <2>1. ~same
    BY <1>1 DEF Launch
  <2>2. residual' = Start /\ input' = [r \in Rounds |-> None] /\ delta' = [b \in Agents |-> None]
    BY <1>1, <2>1 DEF Launch, Directory, NoRounds
  <2>3. Prior(c) = None
    BY <2>2, SparkAssumption DEF Prior, Rounds
  <2>4. w' = Start /\ trained' = Start /\ lost' = Start /\ pc' \in {"ready", "closing"}
    BY <1>1, <2>3 DEF Launch
  <2>5. Start[a][k] = 0 /\ Due(a, k)' = 0 /\ Coming' = w'
    BY <2>2, <2>4, ZeroType DEF Start, Due, Coming, Pending
  <2> QED
    BY <2>2, <2>4, <2>5
<1>a. mark = {} =>
        /\ w[a][k] <= Coming[a][k]
        /\ pc = "off" => w[a][k] + lost[a][k] <= trained[a][k]
        /\ pc # "off" /\ cfg.dp  => Coming[a][k] + lost[a][k] + Due(a, k) <= trained[a][k]
        /\ pc # "off" /\ ~cfg.dp =>
             Coming[a][k] + residual[a][k] + lost[a][k] + Due(a, k) = trained[a][k]
  BY DEF Account
<1>2. ASSUME NEW trainings \in [Agents \ NoData -> Trainings], StartRound(trainings) PROVE Goal
  <2>1. /\ UNCHANGED <<cfg, w, residual, trained, lost, mark>> /\ pc = "ready" /\ pc' = "tasks"
        /\ Due(a, k) = 0 /\ Due(a, k)' = 0
    BY <1>2 DEF StartRound, Due
  <2>2. Coming = w /\ Coming' = w
    BY <2>1 DEF Coming, Pending
  <2> QED
    BY <1>n, <1>a, <2>1, <2>2
<1>3. ASSUME NEW b \in Agents, Train(b) PROVE Goal
  <2>1. /\ UNCHANGED <<pc, cfg, w, residual, training, lost, mark>> /\ pc = "tasks" /\ step[b] = "todo"
        /\ delta' = [delta EXCEPT ![b] = TopK(Payload(b))]
        /\ step' = [step EXCEPT ![b] = "trained"]
        /\ trained' = [trained EXCEPT ![b] = IF delta[b] = None THEN @ (+) training[b] ELSE @]
    BY <1>3 DEF Train
  <2>0. Coming = w /\ Coming' = w
    BY <2>1 DEF Coming, Pending
  <2>2. CASE a # b
    <3>1. trained'[a] = trained[a] /\ delta'[a] = delta[a] /\ step'[a] = step[a]
      BY <2>1, <2>2 DEF TypeInv, TypeOK, Model
    <3>2. Due(a, k)' = Due(a, k)
      BY <2>1, <3>1 DEF Due
    <3> QED
      BY <1>a, <2>0, <2>1, <3>1, <3>2
  <2>3. CASE a = b
    <3>1. delta'[a] # None /\ step'[a] = "trained"
      BY <2>1, <2>3, PayloadType, TopKKeepsOrDrops, SparkAssumption DEF TypeInv, TypeOK
    <3>2. Due(a, k)' = training[a][k]
      BY <2>1, <3>1 DEF Due
    <3>3. CASE delta[a] = None
      <4>1. trained'[a] = trained[a] (+) training[a]
        BY <2>1, <2>3, <3>3 DEF TypeInv, TypeOK, Model
      <4>2. trained'[a][k] = trained[a][k] + training[a][k]
        <5>1. trained[a] \in Update /\ training[a] \in Update
          BY DEF TypeInv, TypeOK, Model
        <5> QED
          BY <4>1, <5>1, SumType
      <4>3. Due(a, k) = 0
        BY <3>3 DEF Due
      <4> QED
        BY <1>n, <1>a, <2>0, <2>1, <3>2, <4>2, <4>3
    <3>4. CASE delta[a] # None
      <4>1. trained'[a] = trained[a]
        BY <2>1, <2>3, <3>4 DEF TypeInv, TypeOK, Model
      <4>2. Due(a, k) = training[a][k]
        BY <2>1, <2>3, <3>4 DEF Due
      <4> QED
        BY <1>a, <2>0, <2>1, <3>2, <4>1, <4>2
    <3> QED
      BY <3>3, <3>4
  <2> QED
    BY <2>2, <2>3
<1>4. ASSUME NEW b \in Agents, Carry(b) PROVE Goal
  <2>1. /\ UNCHANGED <<pc, cfg, w, training, trained, lost, delta, mark>>
        /\ pc = "tasks" /\ step[b] = "trained"
        /\ residual' = [residual EXCEPT ![b] = NextResidual(b)]
        /\ step' = [step EXCEPT ![b] = "carried"]
    BY <1>4 DEF Carry
  <2>0. Coming = w /\ Coming' = w
    BY <2>1 DEF Coming, Pending
  <2>2. CASE a # b
    <3>1. residual'[a] = residual[a] /\ step'[a] = step[a]
      BY <2>1, <2>2 DEF TypeInv, TypeOK, Model
    <3>2. Due(a, k)' = Due(a, k)
      BY <2>1, <3>1 DEF Due
    <3> QED
      BY <1>a, <2>0, <2>1, <3>1, <3>2
  <2>3. CASE a = b
    <3>1. residual'[a] = NextResidual(a) /\ step'[a] = "carried" /\ delta[a] # None
      BY <2>1, <2>3 DEF TypeInv, TypeOK, Model, Fresh
    <3>2. Due(a, k) = training[a][k]
      BY <2>1, <2>3, <3>1 DEF Due
    <3>3. CASE cfg.dp
      <4>1. Due(a, k)' = training[a][k]
        BY <2>1, <3>1, <3>3 DEF Due
      <4> QED
        BY <1>a, <2>0, <2>1, <3>2, <3>3, <4>1
    <3>4. CASE ~cfg.dp
      <4>1. Due(a, k)' = delta[a][k]
        BY <2>1, <3>1, <3>4 DEF Due
      <4>2. residual'[a][k] + delta[a][k] = training[a][k] + residual[a][k] /\ residual'[a][k] \in Nat
        BY <2>1, <2>3, <3>1, <3>4, ResidualType DEF Update
      <4>3. delta[a][k] \in Nat
        BY <1>n, <3>1
      <4> QED
        BY <1>n, <1>a, <2>0, <2>1, <3>2, <3>4, <4>1, <4>2, <4>3
    <3> QED
      BY <3>3, <3>4
  <2> QED
    BY <2>2, <2>3
<1>5. ASSUME NEW b \in Agents, Report(b) \/ TaskFails(b) PROVE Goal
  <2>1. /\ UNCHANGED <<pc, cfg, w, training, trained, lost, residual, delta>> /\ pc = "tasks"
        /\ mark = {}
    BY <1>5 DEF Report, TaskFails
  <2>2. \/ step'[a] = step[a]
        \/ step'[a] = "done" /\ step[a] = "carried"
        \/ delta[a] = None
        \/ step'[a] = "todo" /\ step[a] \in {"todo", "trained"}
        \/ cfg.dp
    BY ZenonT(60), <1>5 DEF Report, TaskFails, TypeInv, TypeOK, Fresh
  <2>3. Due(a, k)' = Due(a, k)
    BY <2>1, <2>2 DEF Due
  <2>4. Coming = w /\ Coming' = w
    BY <2>1 DEF Coming, Pending
  <2> QED
    BY <1>a, <2>1, <2>3, <2>4
<1>6. ASSUME RunFails \/ AggregationRaises PROVE Goal
  <2>1. Dies /\ pc # "off"
    BY <1>6 DEF RunFails, AggregationRaises
  <2>2. w'[a][k] = 0 /\ Coming' = w' /\ pc' = "off" /\ UNCHANGED <<cfg, lost, trained, mark>>
    BY <2>1, ZeroType DEF Dies, Start, Coming, Pending
  <2> QED
    BY <1>n, <1>a, <2>1, <2>2
<1>7. ASSUME NEW accepted \in SUBSET Agents, NEW rejected \in BOOLEAN,
             NEW cut \in [accepted -> [Coords -> Cuts]], Aggregate(accepted, cut, rejected)
      PROVE  Goal
  <2>1. /\ UNCHANGED <<cfg, w, trained, residual, mark>> /\ pc = "tasks" /\ pc' = "aggregated"
        /\ step[a] = "done"
        /\ outcome'.model = Outcome(accepted, cut, rejected)
        /\ lost' = [b \in Agents |-> lost[b] (+) Loss(b, accepted, cut, rejected)]
    BY <1>7 DEF Aggregate
  <2>2. \A b \in accepted : delta[b] # None
    BY <1>7, AcceptedHasDelta DEF Aggregate
  <2>3. /\ Loss(a, accepted, cut, rejected) \in Update
        /\ Outcome(accepted, cut, rejected) \in Model
        /\ w[a][k] <= Outcome(accepted, cut, rejected)[a][k]
        /\ Outcome(accepted, cut, rejected)[a][k] + Loss(a, accepted, cut, rejected)[k]
             = w[a][k] + IF delta[a] = None THEN 0 ELSE delta[a][k]
    <3>1. TypeOK /\ \A b \in accepted, j \in Coords : cut[b][j] <= delta[b][j]
      BY <1>7 DEF TypeInv, Aggregate
    <3> QED
      BY <2>2, <3>1, AggregateSplits
  <2>4. Coming = w /\ Coming' = Outcome(accepted, cut, rejected) /\ Due(a, k)' = 0
    BY <2>1 DEF Coming, Pending, Due
  <2>5. lost'[a][k] = lost[a][k] + Loss(a, accepted, cut, rejected)[k]
    BY <2>1, <2>3, SumType DEF TypeInv, TypeOK, Model
  <2>6. Loss(a, accepted, cut, rejected)[k] \in Nat /\ Outcome(accepted, cut, rejected)[a][k] \in Nat
    BY <2>3 DEF Update, Model
  <2>7. cfg.dp /\ delta[a] # None => delta[a][k] <= training[a][k]
    <3> SUFFICES ASSUME cfg.dp, delta[a] # None PROVE delta[a][k] <= training[a][k]
      OBVIOUS
    <3>1. delta[a] = TopK(training[a])
      BY <2>1, PayloadType DEF TypeInv, Fresh
    <3>2. delta[a][k] \in {0, training[a][k]}
      BY <3>1, TopKKeepsOrDrops DEF TypeInv, TypeOK, Model
    <3> QED
      BY <1>n, <3>2
  <2>8. Due(a, k) = IF delta[a] = None THEN 0 ELSE IF cfg.dp THEN training[a][k] ELSE delta[a][k]
    BY <2>1 DEF Due
  <2> DEFINE new == Outcome(accepted, cut, rejected)[a][k]
             gone == Loss(a, accepted, cut, rejected)[k]
  <2>9. /\ w[a][k] <= new /\ new \in Nat /\ gone \in Nat
        /\ new + gone = w[a][k] + IF delta[a] = None THEN 0 ELSE delta[a][k]
        /\ lost'[a][k] = lost[a][k] + gone
    BY <2>3, <2>5, <2>6
  <2>10. Coming[a][k] = w[a][k] /\ Coming'[a][k] = new
    BY <2>4
  <2> HIDE DEF new, gone
  <2>11. w'[a][k] <= Coming'[a][k]
    BY <2>1, <2>9, <2>10
  <2>12. CASE cfg.dp
    <3>1. w[a][k] + lost[a][k] + Due(a, k) <= trained[a][k]
      BY <1>a, <2>1, <2>10, <2>12
    <3>2. new + gone <= w[a][k] + Due(a, k)
      BY <1>n, <2>7, <2>8, <2>9, <2>12
    <3> QED
      BY <1>n, <2>1, <2>4, <2>9, <2>10, <2>11, <2>12, <3>1, <3>2
  <2>13. CASE ~cfg.dp
    <3>1. w[a][k] + residual[a][k] + lost[a][k] + Due(a, k) = trained[a][k]
      BY <1>a, <2>1, <2>10, <2>13
    <3>2. new + gone = w[a][k] + Due(a, k)
      BY <1>n, <2>8, <2>9, <2>13
    <3>0. /\ w[a][k] \in Nat /\ residual[a][k] \in Nat /\ lost[a][k] \in Nat /\ Due(a, k) \in Nat
          /\ new \in Nat /\ gone \in Nat
      BY <1>n, <2>9
    <3>3. new + residual[a][k] + (lost[a][k] + gone) + 0 = trained[a][k]
      BY <3>0, <3>1, <3>2
    <3>4. Coming'[a][k] + residual'[a][k] + lost'[a][k] + Due(a, k)' = trained'[a][k]
      BY <2>1, <2>4, <2>9, <2>10, <3>3
    <3> QED
      BY <2>1, <2>11, <2>13, <3>4
  <2> QED
    BY <2>12, <2>13
<1>8. ASSUME AuditAgents \/ AuditDistricts PROVE Goal
  <2>1. UNCHANGED <<cfg, w, outcome, residual, lost, trained, mark>> /\ Pending /\ Pending' /\ pc' # "off"
    BY <1>8 DEF AuditAgents, AuditDistricts, Pending
  <2>2. Coming' = Coming /\ Due(a, k) = 0 /\ Due(a, k)' = 0 /\ pc # "off"
    BY <2>1 DEF Coming, Due, Pending
  <2> QED
    BY <1>n, <1>a, <2>1, <2>2
<1>9. ASSUME NEW small \in BOOLEAN, Adopt(small) PROVE Goal
  <2>1. /\ UNCHANGED <<cfg, residual, lost, trained, mark>> /\ w' = outcome.model
        /\ pc = "audited" /\ pc' \in {"ready", "closing"}
    BY <1>9 DEF Adopt
  <2>2. Coming = outcome.model /\ Coming' = w' /\ Due(a, k) = 0 /\ Due(a, k)' = 0
    BY <2>1 DEF Coming, Due, Pending
  <2> QED
    BY <1>n, <1>a, <2>1, <2>2
<1>10. ASSUME Measure \/ Finish PROVE Goal
  <2>1. /\ UNCHANGED <<cfg, w, residual, lost, trained, mark>>
        /\ pc \in {"closing", "measured"} /\ pc' \in {"measured", "off"}
    BY <1>10 DEF Measure, Finish
  <2>2. Coming = w /\ Coming' = w /\ Due(a, k) = 0 /\ Due(a, k)' = 0
    BY <2>1 DEF Coming, Due, Pending
  <2> QED
    BY <1>n, <1>a, <2>1, <2>2
<1>11. CASE UNCHANGED vars
  BY <1>a, <1>11 DEF vars, Due, Coming, Pending
<1> QED
  BY <1>1, <1>2, <1>3, <1>4, <1>5, <1>6, <1>7, <1>8, <1>9, <1>10, <1>11 DEF Next

(***************************************************************************)
(* Top-K delays and does not lose: whatever tasks and drivers fail, what   *)
(* an agent has trained in a run is in the model, in its residual or was   *)
(* taken from its delta by an aggregation, and counts once, but for the    *)
(* runs that FeedbackIsExact excepts.                                      *)
(***************************************************************************)
THEOREM FeedbackAlwaysExact == Spec => []FeedbackIsExact
<1>1. TypeInv /\ Account => FeedbackIsExact
  <2> SUFFICES ASSUME TypeInv, Account, mark = {}, NEW a \in Agents, NEW k \in Coords
               PROVE  /\ w[a][k] + lost[a][k] <= trained[a][k]
                      /\ pc \in {"ready", "closing"} /\ ~cfg.dp =>
                           w[a][k] + residual[a][k] + lost[a][k] = trained[a][k]
    BY DEF FeedbackIsExact
  <2>1. pc \in {"ready", "closing"} => Due(a, k) = 0 /\ Coming = w
    BY DEF Due, Coming, Pending
  <2> QED
    BY <2>1, Numbers DEF Account
<1> QED
  BY <1>1, TypeInit, TypeStep, AccountInit, AccountStep, PTL DEF Spec

-------------------------------------------------------------------------------
(***************************************************************************)
(* The checkpoints of a run.  What round r came to is explained, in memory *)
(* as on disk: Explains for one round, Chain for all of them while the     *)
(* driver lives.  Once it is dead only the files count.                    *)
(***************************************************************************)
Changed(new, old) == {a \in Agents : new[a] # old[a]}

Explains(r, new) ==
  /\ input[r] # None /\ agentAudit[r] # None /\ districtAudit[r] # None
  /\ \A a \in Changed(new, input[r]) : agentAudit[r][a]
  /\ \A d \in Districts : Cardinality(Changed(new, input[r]) \cap District(d)) <= districtAudit[r][d]
  /\ history[r].input = input[r]
  /\ history[r].rejected => Changed(new, input[r]) = {}

PendingExplained ==
  /\ Pending =>
       /\ \A a \in Changed(outcome.model, w) : a \notin NoData
       /\ \A d \in Districts :
            Cardinality(Changed(outcome.model, w) \cap District(d)) <= outcome.accepted[d]
       /\ outcome.rejected => Changed(outcome.model, w) = {}
  /\ pc \in {"half audited", "audited"} => agentAudit[round] = [a \in Agents |-> a \notin NoData]
  /\ pc = "audited" => districtAudit[round] = outcome.accepted

Chain ==
  /\ pc = "tasks" \/ Pending => input[round] = w
  /\ \A r \in Rounds : r > round \/ (r = round /\ pc \in {"ready", "closing", "measured"})
       => input[r] = None
  /\ final = None /\ metrics = (IF pc = "measured" THEN history ELSE None)
  /\ \A r \in Rounds : r < round => Explains(r, IF r + 1 = round THEN w ELSE input[r + 1])
  /\ PendingExplained

ChainInv == "shared" \notin mark => IF pc = "off" THEN AuditExplainsModel ELSE Chain

LEMMA RoundsType ==
  ASSUME TypeOK
  PROVE  /\ round \in Int /\ \A r \in Rounds : r \in Int /\ r >= 0
         /\ \A r \in Rounds : r < round /\ r + 1 # round => r + 1 \in Rounds
         /\ pc \in {"ready", "tasks"} \/ Pending => round \in Rounds
<1>1. MaxRounds \in Nat
  BY SparkAssumption
<1>2. round \in 0 .. MaxRounds /\ (pc \in {"ready", "tasks"} \/ Pending => round < MaxRounds)
  BY DEF TypeOK
<1> QED
  BY <1>1, <1>2 DEF Rounds

\* While the driver lives, what is in its memory explains what is on disk.
LEMMA ChainExplains ==
  ASSUME TypeInv, Chain, pc # "off"
  PROVE  AuditExplainsModel
<1> SUFFICES ASSUME NEW r \in Rounds, CameOut(r) # None
             PROVE  /\ input[r] # None /\ agentAudit[r] # None /\ districtAudit[r] # None
                    /\ \A a \in Changed(CameOut(r), input[r]) : agentAudit[r][a]
                    /\ \A d \in Districts :
                         Cardinality(Changed(CameOut(r), input[r]) \cap District(d)) <= districtAudit[r][d]
                    /\ metrics # None => /\ metrics[r].input = input[r]
                                         /\ metrics[r].rejected => Changed(CameOut(r), input[r]) = {}
  BY DEF AuditExplainsModel, Changed
<1>1. r + 1 \in Rounds /\ input[r + 1] # None /\ CameOut(r) = input[r + 1]
  BY DEF CameOut, Chain
<1>0. r \in Int /\ round \in Int
  BY RoundsType DEF TypeInv
<1>2. r + 1 <= round
  BY <1>0, <1>1 DEF Chain
<1>3. r + 1 = round => w = input[r + 1]
  BY <1>0, <1>1, <1>2 DEF Chain, TypeInv, TypeOK, Pending
<1>4. Explains(r, CameOut(r))
  BY <1>0, <1>1, <1>2, <1>3 DEF Chain
<1>5. metrics # None => metrics = history
  BY DEF Chain
<1> QED
  BY <1>4, <1>5 DEF Explains

LEMMA ChainStep == TypeInv /\ ChainInv /\ [Next]_vars => ChainInv'
<1> SUFFICES ASSUME TypeInv, ChainInv, [Next]_vars, "shared" \notin mark'
             PROVE  IF pc' = "off" THEN AuditExplainsModel' ELSE Chain'
  BY DEF ChainInv
<1> DEFINE Goal == IF pc' = "off" THEN AuditExplainsModel' ELSE Chain'
<1> USE DEF driverVars, taskVars, auditVars, fileVars, ghostVars
<1>0. TypeOK
  BY DEF TypeInv
<1>a. /\ round \in Int /\ \A r \in Rounds : r \in Int /\ r >= 0
      /\ \A r \in Rounds : r < round /\ r + 1 # round => r + 1 \in Rounds
      /\ pc \in {"ready", "tasks"} \/ Pending => round \in Rounds
  BY <1>0, RoundsType
<1>1. ASSUME NEW c \in Configs, NEW same \in BOOLEAN, Launch(c, same) PROVE Goal
  <2>1. ~same /\ pc' \in {"ready", "closing"} /\ input' = NoRounds /\ final' = None /\ metrics' = None
    BY <1>1 DEF Launch, Directory
  <2>2. \A r \in Rounds : input'[r] = None
    BY <2>1 DEF NoRounds
  <2>3. round' = 0
    BY <1>1, <2>2, SparkAssumption DEF Launch, Prior, Rounds
  <2> QED
    <3>1. PendingExplained' /\ ~(pc' = "tasks" \/ Pending')
      BY <2>1 DEF PendingExplained, Pending
    <3>2. \A r \in Rounds : ~(r < round')
      BY <1>a, <2>3
    <3>3. final' = None /\ metrics' = (IF pc' = "measured" THEN history' ELSE None)
      BY <2>1
    <3> QED
      BY <2>1, <2>2, <3>1, <3>2, <3>3 DEF Chain
<1>2. ASSUME NEW trainings \in [Agents \ NoData -> Trainings], StartRound(trainings) PROVE Goal
  <2>1. /\ input' = [input EXCEPT ![round] = w] /\ round \in Rounds /\ pc = "ready" /\ pc' = "tasks"
        /\ UNCHANGED <<round, w, auditVars, history, mark>> /\ Chain
    BY <1>a, <1>2 DEF StartRound, ChainInv
  <2>2. input'[round] = w /\ \A r \in Rounds : r # round => input'[r] = input[r]
    BY <1>0, <2>1 DEF TypeOK
  <2>3. ASSUME NEW r \in Rounds, r < round
        PROVE  Explains(r, IF r + 1 = round THEN w ELSE input[r + 1])'
    <3>1. r + 1 # round => r + 1 \in Rounds /\ input'[r + 1] = input[r + 1]
      BY <1>a, <2>2, <2>3
    <3>2. Explains(r, IF r + 1 = round THEN w ELSE input[r + 1]) /\ input'[r] = input[r]
      BY <1>a, <2>1, <2>2, <2>3 DEF Chain
    <3> QED
      BY <2>1, <3>1, <3>2 DEF Explains, Changed
  <2> QED
    BY <1>a, <2>1, <2>2, <2>3 DEF Chain, PendingExplained, Pending
<1>3. ASSUME NEW a \in Agents, Train(a) \/ Carry(a) \/ Report(a) \/ TaskFails(a) PROVE Goal
  <2>1. pc = "tasks" /\ UNCHANGED <<driverVars, input, auditVars>> /\ "shared" \notin mark
    BY <1>3 DEF Train, Carry, Report, TaskFails
  <2> QED
    BY <2>1 DEF ChainInv, Chain, PendingExplained, Pending, Explains, Changed
<1>4. ASSUME RunFails \/ AggregationRaises PROVE Goal
  <2>1. pc # "off" /\ pc' = "off" /\ UNCHANGED <<round, input, auditVars, mark>>
    BY <1>4 DEF RunFails, AggregationRaises, Dies
  <2>2. AuditExplainsModel
    BY <2>1, ChainExplains DEF ChainInv
  <2> QED
    BY <2>1, <2>2 DEF AuditExplainsModel, CameOut
<1>5. ASSUME NEW accepted \in SUBSET Agents, NEW rejected \in BOOLEAN,
             NEW cut \in [accepted -> [Coords -> Cuts]], Aggregate(accepted, cut, rejected)
      PROVE  Goal
  <2>1. /\ pc = "tasks" /\ pc' = "aggregated" /\ Chain
        /\ UNCHANGED <<round, w, history, input, auditVars>>
        /\ outcome' = [model    |-> Outcome(accepted, cut, rejected),
                       accepted |-> [d \in Districts |-> Cardinality(accepted \cap District(d))],
                       rejected |-> rejected]
        /\ \A a \in accepted, k \in Coords : cut[a][k] <= delta[a][k]
    BY <1>5 DEF Aggregate, ChainInv
  <2>2. \A a \in accepted : delta[a] # None
    BY <1>5, AcceptedHasDelta DEF Aggregate
  <2>3. /\ \A a \in Agents : a \notin accepted \/ rejected => outcome'.model[a] = w[a]
    BY ZenonT(60), <1>0, <2>1, <2>2, AggregateSplits
  <2>4. Changed(outcome'.model, w) \subseteq accepted /\ (rejected => Changed(outcome'.model, w) = {})
    BY <2>3 DEF Changed
  <2>5. \A a \in accepted : a \notin NoData
    BY <2>1, <2>2 DEF TypeInv, Fresh
  <2>6. ASSUME NEW d \in Districts
        PROVE  Cardinality(Changed(outcome'.model, w) \cap District(d)) <= outcome'.accepted[d]
    <3>1. Changed(outcome'.model, w) \cap District(d) \subseteq accepted \cap District(d)
      BY <2>4
    <3>2. IsFiniteSet(accepted \cap District(d)) /\ outcome'.accepted[d] = Cardinality(accepted \cap District(d))
      BY <2>1, AgentsFinite
    <3> QED
      BY <3>1, <3>2, FS_Subset
  <2>7. PendingExplained'
    BY <2>1, <2>4, <2>5, <2>6 DEF PendingExplained, Pending, Changed
  <2> QED
    BY ZenonT(60), <2>1, <2>7 DEF Chain, Pending, Explains, Changed
<1>6. ASSUME AuditAgents PROVE Goal
  <2>1. /\ pc = "aggregated" /\ pc' = "half audited" /\ Chain
        /\ UNCHANGED <<round, w, history, outcome, input, districtAudit, metrics, final>>
        /\ agentAudit' = [agentAudit EXCEPT ![round] = [a \in Agents |-> a \notin NoData]]
        /\ round \in Rounds
    <3>1. round \in Rounds
      BY <1>a, <1>6 DEF AuditAgents, Pending
    <3> QED
      BY <1>6, <3>1 DEF AuditAgents, ChainInv
  <2>2. /\ agentAudit'[round] = [a \in Agents |-> a \notin NoData]
        /\ \A r \in Rounds : r # round => agentAudit'[r] = agentAudit[r]
    BY <1>0, <2>1, Zenon DEF TypeOK
  <2>3. ASSUME NEW r \in Rounds, r < round
        PROVE  Explains(r, IF r + 1 = round THEN w ELSE input[r + 1])'
    <3>1. Explains(r, IF r + 1 = round THEN w ELSE input[r + 1])
      BY <2>1, <2>3 DEF Chain
    <3>3. r # round
      BY <1>a, <2>3
    <3>2. agentAudit'[r] = agentAudit[r] /\ districtAudit'[r] = districtAudit[r]
      BY <2>1, <2>2, <3>3, Zenon
    <3> QED
      BY <2>1, <3>1, <3>2 DEF Explains, Changed
  <2>4. PendingExplained'
    BY <2>1, <2>2 DEF Chain, PendingExplained, Pending, Changed
  <2> QED
    BY <2>1, <2>3, <2>4 DEF Chain, Pending
<1>7. ASSUME AuditDistricts PROVE Goal
  <2>1. /\ pc = "half audited" /\ pc' = "audited" /\ Chain
        /\ UNCHANGED <<round, w, history, outcome, input, agentAudit, metrics, final>>
        /\ districtAudit' = [districtAudit EXCEPT ![round] = outcome.accepted]
        /\ round \in Rounds
    <3>1. round \in Rounds
      BY <1>a, <1>7 DEF AuditDistricts, Pending
    <3> QED
      BY <1>7, <3>1 DEF AuditDistricts, ChainInv
  <2>2. /\ districtAudit'[round] = outcome.accepted
        /\ \A r \in Rounds : r # round => districtAudit'[r] = districtAudit[r]
    BY <1>0, <2>1 DEF TypeOK
  <2>3. ASSUME NEW r \in Rounds, r < round
        PROVE  Explains(r, IF r + 1 = round THEN w ELSE input[r + 1])'
    <3>1. Explains(r, IF r + 1 = round THEN w ELSE input[r + 1])
      BY <2>1, <2>3 DEF Chain
    <3>3. r # round
      BY <1>a, <2>3
    <3>2. agentAudit'[r] = agentAudit[r] /\ districtAudit'[r] = districtAudit[r]
      BY <2>1, <2>2, <3>3, Zenon
    <3> QED
      BY <2>1, <3>1, <3>2 DEF Explains, Changed
  <2>4. PendingExplained'
    BY <2>1, <2>2 DEF Chain, PendingExplained, Pending, Changed
  <2> QED
    BY <2>1, <2>3, <2>4 DEF Chain, Pending
<1>8. ASSUME NEW small \in BOOLEAN, Adopt(small) PROVE Goal
  <2>1. /\ pc = "audited" /\ pc' \in {"ready", "closing"} /\ Chain /\ Pending
        /\ UNCHANGED <<input, auditVars>>
        /\ round' = round + 1 /\ w' = outcome.model
        /\ history' = [history EXCEPT ![round] = [input |-> input[round], rejected |-> outcome.rejected]]
    BY <1>8 DEF Adopt, ChainInv, Pending
  <2>0. round \in Rounds
    BY <1>a, <2>1
  <2>2. /\ history'[round] = [input |-> input[round], rejected |-> outcome.rejected]
        /\ \A r \in Rounds : r # round => history'[r] = history[r]
    BY <1>0, <2>0, <2>1, Zenon DEF TypeOK
  <2>3. ASSUME NEW r \in Rounds, r = round PROVE Explains(r, w)'
    <3>1. input[round] = w /\ w # None
      BY <1>0, <2>1, SparkAssumption DEF Chain, TypeOK, Model
    <3>2. agentAudit[round] = [a \in Agents |-> a \notin NoData] /\ agentAudit[round] # None
      BY <2>1, SparkAssumption DEF Chain, PendingExplained
    <3>3. districtAudit[round] = outcome.accepted /\ districtAudit[round] # None
      BY <1>0, <2>1, SparkAssumption DEF Chain, PendingExplained, TypeOK
    <3>4. /\ \A a \in Changed(w', w) : agentAudit[round][a]
          /\ \A d \in Districts : Cardinality(Changed(w', w) \cap District(d)) <= districtAudit[round][d]
          /\ outcome.rejected => Changed(w', w) = {}
      BY <2>1, <3>2, <3>3 DEF Chain, PendingExplained, Changed
    <3> QED
      BY <2>1, <2>2, <2>3, <3>1, <3>2, <3>3, <3>4 DEF Explains, Changed
  <2>4. ASSUME NEW r \in Rounds, r < round
        PROVE  Explains(r, input[r + 1])'
    <3>1. Explains(r, IF r + 1 = round THEN w ELSE input[r + 1])
      BY <2>1, <2>4 DEF Chain
    <3>2. r + 1 = round => input[r + 1] = w
      BY <2>1 DEF Chain
    <3>3. history'[r] = history[r]
      BY <1>a, <2>1, <2>2, <2>4
    <3> QED
      BY <2>1, <3>1, <3>2, <3>3 DEF Explains, Changed
  <2>5. ASSUME NEW r \in Rounds, r < round'
        PROVE  Explains(r, IF r + 1 = round THEN w ELSE input[r + 1])'
    <3>1. CASE r = round
      <4>1. Explains(r, w)' /\ r + 1 = round'
        BY <2>1, <2>3, <3>1
      <4> QED
        BY <4>1 DEF Explains, Changed
    <3>2. CASE r # round
      <4>1. r < round /\ r + 1 # round'
        BY <1>a, <2>1, <2>5, <3>2
      <4> QED
        BY <2>4, <4>1 DEF Explains, Changed
    <3> QED
      BY <3>1, <3>2
  <2>6. \A r \in Rounds : r >= round' => input'[r] = None
    BY <1>a, <2>1 DEF Chain
  <2>7. PendingExplained' /\ ~(pc' = "tasks" \/ Pending')
    BY <2>1 DEF PendingExplained, Pending
  <2>8. final' = None /\ metrics' = (IF pc' = "measured" THEN history' ELSE None)
    BY <2>1 DEF Chain
  <2>9. \A r \in Rounds : r > round' \/ (r = round' /\ pc' \in {"ready", "closing", "measured"})
          => input'[r] = None
    BY <1>a, <2>1, <2>6
  <2> QED
    BY <2>1, <2>5, <2>7, <2>8, <2>9 DEF Chain
<1>9. ASSUME Measure PROVE Goal
  <2>1. /\ pc = "closing" /\ pc' = "measured" /\ Chain /\ metrics' = history
        /\ UNCHANGED <<round, w, history, outcome, input, agentAudit, districtAudit, final>>
    BY <1>9 DEF Measure, ChainInv
  <2> QED
    BY <2>1 DEF Chain, PendingExplained, Pending, Explains, Changed
<1>10. ASSUME Finish PROVE Goal
  <2>1. /\ pc = "measured" /\ pc' = "off" /\ Chain /\ final' = w /\ metrics = history
        /\ UNCHANGED <<round, w, history, input, agentAudit, districtAudit, metrics>>
    BY <1>10 DEF Finish, ChainInv, Chain
  <2> SUFFICES ASSUME NEW r \in Rounds, CameOut(r)' # None
               PROVE  Explains(r, CameOut(r)')
    BY <2>1 DEF AuditExplainsModel, Explains, Changed
  <2>2. round \in Int
    BY <1>a
  <2>3. CASE r + 1 \in Rounds /\ input[r + 1] # None
    <3>1. CameOut(r)' = input[r + 1]
      BY <2>1, <2>3 DEF CameOut
    <3>2. r + 1 < round
      BY <1>a, <2>1, <2>2, <2>3 DEF Chain
    <3> QED
      BY <1>a, <2>1, <2>2, <3>1, <3>2 DEF Chain
  <2>4. CASE ~(r + 1 \in Rounds /\ input[r + 1] # None)
    <3>1. r + 1 = round /\ CameOut(r)' = w
      BY <2>1, <2>4 DEF CameOut
    <3> QED
      BY <1>a, <2>1, <2>2, <3>1 DEF Chain
  <2> QED
    BY <2>3, <2>4
<1>11. ASSUME UNCHANGED vars PROVE Goal
  <2>1. UNCHANGED <<driverVars, input, auditVars, mark>> /\ "shared" \notin mark
    BY <1>11 DEF vars
  <2>2. CASE pc = "off"
    <3>1. pc' = "off" /\ UNCHANGED <<round, input, auditVars, mark>> /\ AuditExplainsModel
      BY <2>1, <2>2 DEF ChainInv
    <3> QED
      BY <3>1 DEF AuditExplainsModel, CameOut
  <2>3. CASE pc # "off"
    <3>1. pc' # "off" /\ UNCHANGED <<driverVars, input, auditVars>> /\ Chain
      BY <2>1, <2>3 DEF ChainInv
    <3>2. PendingExplained'
      BY <3>1 DEF Chain, PendingExplained, Pending, Changed
    <3>3. ASSUME NEW r \in Rounds, r < round
          PROVE  Explains(r, IF r + 1 = round THEN w ELSE input[r + 1])'
      <4>1. Explains(r, IF r + 1 = round THEN w ELSE input[r + 1])
        BY <3>1, <3>3 DEF Chain
      <4> QED
        BY <3>1, <4>1 DEF Explains, Changed
    <3> QED
      BY <3>1, <3>2, <3>3 DEF Chain, Pending
  <2> QED
    BY <2>2, <2>3
<1> HIDE DEF Goal
<1>12. Goal
  BY <1>1, <1>2, <1>3, <1>4, <1>5, <1>6, <1>7, <1>8, <1>9, <1>10, <1>11 DEF Next
<1> QED
  BY <1>12 DEF Goal

(***************************************************************************)
(* Wherever the driver dies, a model on disk is explained by the audit of  *)
(* the round it came out of: who may have changed it, how many of each     *)
(* district did, and, once the run is over, whether it was rejected.       *)
(***************************************************************************)
THEOREM AuditAlwaysExplains == Spec => []AuditExplainsModel
<1>1. Init => ChainInv
  BY DEF Init, ChainInv, AuditExplainsModel, CameOut, NoRounds
<1>2. TypeInv /\ ChainInv => AuditExplainsModel
  BY ChainExplains DEF ChainInv, AuditExplainsModel
<1> QED
  BY <1>1, <1>2, TypeInit, TypeStep, ChainStep, PTL DEF Spec

===============================================================================
