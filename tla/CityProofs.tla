------------------------------ MODULE CityProofs ------------------------------
(***************************************************************************)
(* Proofs about City, for any set of districts, any number of threads,     *)
(* any bounds, with every fault switched on, and whether or not a district *)
(* repeats its calls.                                                      *)
(***************************************************************************)
EXTENDS City, FiniteSetTheorems, TLAPS

-------------------------------------------------------------------------------
(***************************************************************************)
(* Type correctness, one step per action.                                  *)
(***************************************************************************)
LEMMA TypeInit == Init => TypeOK
  BY CityAssumption DEF Init, TypeOK, Rounds, Cohort, Empty

LEMMA EmptyIsCohort == Empty \in Cohort
  BY DEF Empty, Cohort

LEMMA FinishType ==
  ASSUME TypeOK, NEW t \in Threads, Finish(t)
  PROVE  /\ pc' \in [Threads -> {"idle", "checked", "aggregate"}]
         /\ request' \in [Threads -> Request \cup {None}]
         /\ \A u \in Threads : pc'[u] # "idle" => request'[u] \in Request
         /\ snapshot' \in [Threads -> Cohort]
  BY EmptyIsCohort DEF TypeOK, Finish

LEMMA AcknowledgeType ==
  ASSUME TypeOK, NEW r \in Rounds, NEW d \in Districts, Acknowledge(r, d)
  PROVE  acked' \subseteq Rounds \X Districts
  BY DEF TypeOK, Acknowledge

LEMMA RequestType ==
  ASSUME TypeOK, NEW t \in Threads, pc[t] # "idle"
  PROVE  /\ request[t].round \in 0 .. MaxRound - 1
         /\ request[t].round \in Rounds
         /\ request[t].round + 1 \in Rounds
         /\ request[t].district \in Districts
         /\ request[t].payload \in Payloads
  BY CityAssumption DEF TypeOK, Request, Rounds

LEMMA RememberType ==
  ASSUME TypeOK, NEW t \in Threads, pc[t] # "idle", Remember(request[t])
  PROVE  /\ pending' \in [Rounds -> Cohort]
         /\ offered' \subseteq Rounds \X Districts \X Payloads
<1> DEFINE q == request[t]
<1>1. q.round \in Rounds /\ q.district \in Districts /\ q.payload \in Payloads
  BY RequestType
<1>2. [pending[q.round] EXCEPT ![q.district] = q.payload] \in Cohort
  BY <1>1 DEF TypeOK, Cohort
<1>3. pending' = [pending EXCEPT ![q.round] = [pending[q.round] EXCEPT ![q.district] = q.payload]]
  BY DEF Remember
<1> QED
  BY <1>1, <1>2, <1>3 DEF TypeOK, Remember

LEMMA PersistType ==
  ASSUME TypeOK, NEW t \in Threads, pc[t] # "idle", Persist(request[t])
  PROVE  storePending' \in [Rounds -> Cohort]
<1> DEFINE q == request[t]
<1>1. q.round \in Rounds /\ q.district \in Districts /\ q.payload \in Payloads
  BY RequestType
<1>2. [storePending[q.round] EXCEPT ![q.district] = q.payload] \in Cohort
  BY <1>1 DEF TypeOK, Cohort
<1>3. storePending' = [storePending EXCEPT ![q.round] =
                         [storePending[q.round] EXCEPT ![q.district] = q.payload]]
  BY DEF Persist
<1> QED
  BY <1>2, <1>3 DEF TypeOK

LEMMA TypeStep == TypeOK /\ [Next]_vars => TypeOK'
<1> SUFFICES ASSUME TypeOK, [Next]_vars PROVE TypeOK'
  OBVIOUS
<1> USE DEF storeVars, memoryVars, threadVars, auxVars
<1>1. ASSUME NEW t \in Threads, NEW r \in Rounds, NEW d \in Districts,
             NEW version \in Rounds, NEW p \in Payloads, Receive(t, r, d, version, p)
      PROVE  TypeOK'
  <2>1. [round |-> r, district |-> d, payload |-> p] \in Request
    BY <1>1, CityAssumption DEF Receive, Request, Rounds
  <2> QED
    BY <1>1, <2>1 DEF Receive, TypeOK
<1>2. ASSUME NEW t \in Threads, NEW r \in Rounds, NEW d \in Districts, ReceiveStale(t, r, d)
      PROVE  TypeOK'
  BY <1>2, AcknowledgeType DEF ReceiveStale, TypeOK
<1>3. ASSUME NEW t \in Threads, JournalStale(t) PROVE TypeOK'
  BY <1>3, FinishType, AcknowledgeType, RequestType DEF JournalStale, TypeOK
<1>4. ASSUME NEW t \in Threads, Journal(t) PROVE TypeOK'
  <2>1. pc[t] # "idle"
    BY <1>4 DEF Journal
  <2>2. acked' \subseteq Rounds \X Districts
    BY <1>4, <2>1, AcknowledgeType, RequestType DEF Journal
  <2> QED
    BY <1>4, <2>1, <2>2, FinishType, RememberType, PersistType DEF Journal, TypeOK
<1>5. ASSUME NEW t \in Threads, JournalLast(t) PROVE TypeOK'
  <2>1. pc[t] # "idle" /\ request[t].round \in Rounds
    BY <1>5, RequestType DEF JournalLast
  <2>2. pending' \in [Rounds -> Cohort] /\ offered' \subseteq Rounds \X Districts \X Payloads
    BY <1>5, <2>1, RememberType DEF JournalLast
  <2>3. snapshot' \in [Threads -> Cohort]
    BY <1>5, <2>1, <2>2 DEF JournalLast, TypeOK
  <2>4. /\ pc' \in [Threads -> {"idle", "checked", "aggregate"}]
        /\ \A u \in Threads : pc'[u] # "idle" => request'[u] \in Request
        /\ aggregating' \subseteq Rounds
    BY <1>5, <2>1 DEF JournalLast, TypeOK
  <2> QED
    BY <1>5, <2>1, <2>2, <2>3, <2>4, PersistType DEF JournalLast, TypeOK
<1>6. ASSUME NEW t \in Threads, JournalFails(t) PROVE TypeOK'
  BY <1>6, FinishType, RememberType DEF JournalFails, TypeOK
<1>7. ASSUME NEW t \in Threads, AggregateFails(t) PROVE TypeOK'
  BY <1>7, FinishType DEF AggregateFails, Unmark, TypeOK
<1>8. ASSUME NEW t \in Threads, Reject(t) PROVE TypeOK'
  BY <1>8, FinishType DEF Reject, Unmark, TypeOK
<1>9. ASSUME NEW t \in Threads, CandidateRaises(t) PROVE TypeOK'
  BY <1>9, FinishType DEF CandidateRaises, TypeOK, Escape
<1>10. ASSUME NEW t \in Threads, NEW isCalm \in BOOLEAN, Commit(t, isCalm) PROVE TypeOK'
  <2>1. pc[t] # "idle"
    BY <1>10 DEF Commit
  <2>2. acked' \subseteq Rounds \X Districts
    BY <1>10, <2>1, AcknowledgeType, RequestType DEF Commit
  <2>3. stable' \in Nat /\ calm' \in Seq(BOOLEAN) /\ history' \in Seq(Cohort)
    BY <1>10 DEF Commit, Monitored, TypeOK
  <2>4. pending' \in [Rounds -> Cohort] /\ storePending' \in [Rounds -> Cohort]
    BY <1>10, <2>1, RequestType, EmptyIsCohort DEF Commit, StoreRound, TypeOK
  <2>5. round' \in Rounds /\ storeRound' \in Rounds /\ aggregating' \subseteq Rounds
    BY <1>10, <2>1, RequestType DEF Commit, StoreRound, Unmark, TypeOK
  <2> QED
    BY <1>10, <2>1, <2>2, <2>3, <2>4, <2>5, FinishType DEF Commit, StoreRound, TypeOK
<1>11. ASSUME NEW t \in Threads, NEW isCalm \in BOOLEAN, CommitFails(t, isCalm) PROVE TypeOK'
  <2>1. stable' \in Nat /\ history' \in Seq(Cohort)
    BY <1>11 DEF CommitFails, Monitored, TypeOK
  <2> QED
    BY <1>11, <2>1, FinishType DEF CommitFails, TypeOK, Escape
<1>12. CASE PollDistillation
  BY <1>12 DEF PollDistillation, TypeOK
<1>13. ASSUME NEW teacher \in BOOLEAN, Restart(teacher) PROVE TypeOK'
  BY <1>13, EmptyIsCohort, CityAssumption DEF Restart, TypeOK
<1>14. CASE UNCHANGED vars
  BY <1>14 DEF vars, TypeOK
<1> QED
  BY <1>1, <1>2, <1>3, <1>4, <1>5, <1>6, <1>7, <1>8, <1>9, <1>10, <1>11, <1>12, <1>13, <1>14
  DEF Next, Handle

(***************************************************************************)
(* Every variable of the City has its type in every reachable state.       *)
(***************************************************************************)
THEOREM TypeCorrect == Spec => []TypeOK
  BY TypeInit, TypeStep, PTL DEF Spec

-------------------------------------------------------------------------------
(***************************************************************************)
(* One aggregation at a time.  SingleFlight alone is not inductive: a      *)
(* commit moves the round on, so no other thread may be aggregating it,    *)
(* and only the open round is ever marked.                                 *)
(***************************************************************************)
FlightInv ==
  /\ round = storeRound
  /\ aggregating \subseteq {round}
  /\ \A t \in Threads : pc[t] # "idle" => request[t].round <= round
  /\ SingleFlight

LEMMA FlightStep == TypeOK /\ FlightInv /\ [Next]_vars => FlightInv'
<1> SUFFICES ASSUME TypeOK, FlightInv, [Next]_vars PROVE FlightInv'
  OBVIOUS
<1> USE DEF storeVars, memoryVars, threadVars, auxVars
<1>0. round \in Nat /\ round' \in Nat
  BY TypeStep DEF TypeOK, Rounds
<1>1. ASSUME NEW t \in Threads, NEW r \in Rounds, NEW d \in Districts,
             NEW version \in Rounds, NEW p \in Payloads, Receive(t, r, d, version, p)
      PROVE  FlightInv'
  BY <1>0, <1>1 DEF Receive, FlightInv, SingleFlight, TypeOK
<1>2. ASSUME NEW t \in Threads, NEW r \in Rounds, NEW d \in Districts, ReceiveStale(t, r, d)
      PROVE  FlightInv'
  BY <1>2 DEF ReceiveStale, FlightInv, SingleFlight
<1>3. ASSUME NEW t \in Threads, JournalStale(t) PROVE FlightInv'
  BY <1>3 DEF JournalStale, Finish, FlightInv, SingleFlight, TypeOK
<1>4. ASSUME NEW t \in Threads, Journal(t) PROVE FlightInv'
  BY <1>4 DEF Journal, Finish, FlightInv, SingleFlight, TypeOK
<1>5. ASSUME NEW t \in Threads, JournalLast(t) PROVE FlightInv'
  <2>1. \A u \in Threads : pc[u] # "aggregate"
    BY <1>5 DEF JournalLast, Ready, FlightInv, SingleFlight
  <2> QED
    BY <1>5, <2>1 DEF JournalLast, Persist, FlightInv, SingleFlight, TypeOK
<1>6. ASSUME NEW t \in Threads, JournalFails(t) PROVE FlightInv'
  BY <1>6 DEF JournalFails, Finish, FlightInv, SingleFlight, TypeOK
<1>7. ASSUME NEW t \in Threads, AggregateFails(t) PROVE FlightInv'
  BY <1>7 DEF AggregateFails, Unmark, Finish, FlightInv, SingleFlight, TypeOK
<1>8. ASSUME NEW t \in Threads, Reject(t) PROVE FlightInv'
  BY <1>8 DEF Reject, Unmark, Finish, FlightInv, SingleFlight, TypeOK
<1>9. ASSUME NEW t \in Threads, CandidateRaises(t) PROVE FlightInv'
  BY <1>9 DEF CandidateRaises, Finish, FlightInv, SingleFlight, TypeOK, Escape
<1>10. ASSUME NEW t \in Threads, NEW isCalm \in BOOLEAN, Commit(t, isCalm) PROVE FlightInv'
  <2>1. /\ request[t].round = round
        /\ round' = round + 1 /\ storeRound' = round + 1
        /\ aggregating' = {}
    BY <1>10 DEF Commit, StoreRound, Unmark, FlightInv
  <2>2. \A u \in Threads : pc'[u] # "aggregate"
    BY <1>10 DEF Commit, Finish, FlightInv, SingleFlight, TypeOK
  <2>3. \A u \in Threads : pc'[u] # "idle" => request'[u].round <= round + 1
    BY SMTT(30), <1>0, <1>10, RequestType DEF Commit, Finish, FlightInv, TypeOK, Rounds
  <2> QED
    BY <2>1, <2>2, <2>3 DEF FlightInv, SingleFlight
<1>11. ASSUME NEW t \in Threads, NEW isCalm \in BOOLEAN, CommitFails(t, isCalm)
       PROVE  FlightInv'
  BY <1>11 DEF CommitFails, Finish, FlightInv, SingleFlight, TypeOK, Escape
<1>12. CASE PollDistillation
  BY <1>12 DEF PollDistillation, FlightInv, SingleFlight
<1>13. ASSUME NEW teacher \in BOOLEAN, Restart(teacher) PROVE FlightInv'
  BY <1>13 DEF Restart, FlightInv, SingleFlight
<1>14. CASE UNCHANGED vars
  BY <1>14 DEF vars, FlightInv, SingleFlight
<1> QED
  BY <1>1, <1>2, <1>3, <1>4, <1>5, <1>6, <1>7, <1>8, <1>9, <1>10, <1>11, <1>12, <1>13, <1>14
  DEF Next, Handle

LEMMA FlightAlways == Spec => [](TypeOK /\ FlightInv)
<1>1. Init => FlightInv
  BY DEF Init, FlightInv, SingleFlight
<1> QED
  BY <1>1, TypeInit, TypeStep, FlightStep, PTL DEF Spec

(***************************************************************************)
(* However many threads serve however many repeated calls, and whatever    *)
(* raises, one thread at most aggregates, and it aggregates the open       *)
(* round.                                                                  *)
(***************************************************************************)
THEOREM OneAggregation == Spec => []SingleFlight
<1>1. FlightInv => SingleFlight
  BY DEF FlightInv
<1> QED
  BY <1>1, FlightAlways, PTL

-------------------------------------------------------------------------------
(***************************************************************************)
(* The durable state implements the ledger of rounds, when the districts   *)
(* are exactly the expected ones.  The refinement rests on five facts: the *)
(* model in memory is the durable one unless a failed commit left the      *)
(* round marked; the round counts the cohorts; a cohort that is folded is  *)
(* full; what is pending, in memory or in the journal, was offered; and    *)
(* the cohort a thread holds is full and was offered for the open round.   *)
(***************************************************************************)
Full(c) == \A d \in Districts : c[d] # None

WasOffered(r, c) == \A d \in Districts : c[d] # None => <<r, d, c[d]>> \in offered

DurableInv ==
  /\ round \notin aggregating => history = storeHistory
  /\ \A t \in Threads : pc[t] = "aggregate" => history = storeHistory
  /\ Len(storeHistory) = storeRound
  /\ \A i \in 1 .. Len(storeHistory) : Full(storeHistory[i])
  /\ \A r \in Rounds : WasOffered(r, pending[r]) /\ WasOffered(r, storePending[r])
  /\ \A t \in Threads : pc[t] = "aggregate" =>
       Full(snapshot[t]) /\ WasOffered(round, snapshot[t])
  /\ AckedIsOwned

LEMMA EnoughIsFull ==
  ASSUME ExactMembership, NEW c \in Cohort, Cardinality(Contributors(c)) >= ExpectedDistricts
  PROVE  Full(c)
<1>1. Contributors(c) \in SUBSET Districts
  BY DEF Contributors
<1>2. Contributors(c) = Districts
  <2>1. /\ Cardinality(Contributors(c)) <= Cardinality(Districts)
        /\ Cardinality(Districts) = Cardinality(Contributors(c)) => Districts = Contributors(c)
    BY <1>1, FS_Subset, CityAssumption
  <2>2. Cardinality(Contributors(c)) \in Nat /\ Cardinality(Districts) \in Nat
    BY <1>1, FS_Subset, FS_CardinalityType, CityAssumption
  <2> QED
    BY <2>1, <2>2 DEF ExactMembership
<1> QED
  BY <1>2 DEF Contributors, Full

LEMMA FullIsEnough ==
  ASSUME ExactMembership, NEW c \in Cohort, Full(c)
  PROVE  Cardinality(Contributors(c)) >= ExpectedDistricts
<1>1. Contributors(c) = Districts
  BY DEF Contributors, Full
<1> QED
  BY <1>1, FS_CardinalityType, CityAssumption DEF ExactMembership

LEMMA DurableInit == Init => DurableInv
  BY DEF Init, DurableInv, AckedIsOwned, WasOffered, Empty

\* An upload that is remembered (and persisted) stays an offered one.
LEMMA RememberOffered ==
  ASSUME TypeOK, DurableInv, NEW t \in Threads, pc[t] # "idle", Remember(request[t])
  PROVE  \A r \in Rounds : WasOffered(r, pending[r])'
<1>1. /\ request[t].round \in Rounds /\ request[t].district \in Districts
  BY RequestType
<1> QED
  BY <1>1 DEF Remember, WasOffered, DurableInv, TypeOK, Cohort

LEMMA PersistOffered ==
  ASSUME TypeOK, DurableInv, NEW t \in Threads, pc[t] # "idle",
         Remember(request[t]), Persist(request[t])
  PROVE  \A r \in Rounds : WasOffered(r, storePending[r])'
<1>1. request[t].round \in Rounds /\ request[t].district \in Districts
  BY RequestType
<1> QED
  BY <1>1 DEF Remember, Persist, WasOffered, DurableInv, TypeOK, Cohort

\* Journalling a row takes nobody's row away.
LEMMA PersistKeepsOwned ==
  ASSUME TypeOK, DurableInv, NEW t \in Threads, pc[t] # "idle", Persist(request[t]),
         UNCHANGED <<storeRound, storeHistory>>,
         request[t].round = storeRound, Acknowledge(request[t].round, request[t].district)
         \/ acked' = acked
  PROVE  AckedIsOwned'
<1> DEFINE q == request[t]
<1>1. q.round \in Rounds /\ q.district \in Districts /\ q.payload \in Payloads /\ q.payload # None
  BY RequestType, CityAssumption
<1>2. /\ storePending'[q.round][q.district] # None
      /\ \A r \in Rounds, d \in Districts :
           storePending[r][d] # None => storePending'[r][d] # None
  BY <1>1 DEF Persist, TypeOK, Cohort
<1>3. \A a \in acked' : a \in acked \/ a = <<q.round, q.district>>
  BY DEF Acknowledge
<1>4. acked \subseteq Rounds \X Districts
  BY DEF TypeOK
<1>5. storeRound \in Nat
  BY DEF TypeOK, Rounds
<1>6. ASSUME NEW a \in acked
      PROVE  IF a[1] < storeRound THEN storeHistory[a[1] + 1][a[2]] # None
             ELSE storePending'[a[1]][a[2]] # None
  BY <1>2, <1>4, <1>6 DEF DurableInv, AckedIsOwned
<1> QED
  BY <1>1, <1>2, <1>3, <1>5, <1>6 DEF AckedIsOwned

\* A district told "stale" is in the cohort of the closed round.
LEMMA ClosedIsOwned ==
  ASSUME TypeOK, FlightInv, DurableInv, NEW r \in Rounds, NEW d \in Districts, r < round,
         Acknowledge(r, d), UNCHANGED <<storeRound, storeHistory, storePending>>
  PROVE  AckedIsOwned' /\ Ledger!Folded(r, d)
<1>1. storeHistory[r + 1][d] # None /\ r \in 0 .. Len(storeHistory) - 1
  BY DEF DurableInv, Full, FlightInv, TypeOK, Rounds
<1>2. r < storeRound
  BY DEF FlightInv
<1>3. \A a \in acked' : a \in acked \/ a = <<r, d>>
  BY DEF Acknowledge
<1> QED
  BY <1>1, <1>2, <1>3 DEF AckedIsOwned, DurableInv, Ledger!Folded, Ledger!Round

\* A step that leaves the journal and the districts' knowledge alone.
LEMMA QuietStep ==
  ASSUME TypeOK, FlightInv, DurableInv, NEW t \in Threads, pc[t] # "idle", Finish(t),
         UNCHANGED <<storeVars, pending, offered, acked, round>>,
         aggregating' = aggregating => history' = history \/ round \in aggregating,
         aggregating' # aggregating => history' = history /\ pc[t] = "aggregate",
         \A u \in Threads : pc'[u] = "aggregate" => history' = history
  PROVE  DurableInv'
<1>1. \A u \in Threads : pc'[u] = "aggregate" =>
        pc[u] = "aggregate" /\ snapshot'[u] = snapshot[u]
  BY DEF Finish, TypeOK
<1>2. round' \notin aggregating' => history' = storeHistory'
  BY DEF DurableInv, storeVars
<1>3. AckedIsOwned'
  BY DEF DurableInv, AckedIsOwned, storeVars
<1> QED
  BY <1>1, <1>2, <1>3 DEF DurableInv, WasOffered, Full, storeVars

LEMMA CommitFacts ==
  ASSUME TypeOK, FlightInv, DurableInv, NEW t \in Threads, NEW isCalm \in BOOLEAN,
         Commit(t, isCalm)
  PROVE  /\ storeHistory' = Append(storeHistory, snapshot[t])
         /\ history' = storeHistory'
         /\ storeRound \in Nat /\ Len(storeHistory) = storeRound
         /\ request[t].round = storeRound /\ request[t].round \in Rounds
         /\ request[t].district \in Districts
         /\ storeRound' = storeRound + 1
         /\ Len(storeHistory') = storeRound + 1
         /\ \A i \in 1 .. storeRound : storeHistory'[i] = storeHistory[i]
         /\ storeHistory'[storeRound + 1] = snapshot[t]
         /\ snapshot[t] \in Cohort /\ Full(snapshot[t]) /\ WasOffered(storeRound, snapshot[t])
<1>1. history = storeHistory /\ storeHistory \in Seq(Cohort) /\ snapshot[t] \in Cohort
  BY DEF Commit, DurableInv, TypeOK
<1>2. storeHistory' = Append(storeHistory, snapshot[t]) /\ history' = storeHistory'
  BY <1>1 DEF Commit, StoreRound
<1>3. request[t].round = storeRound /\ storeRound' = storeRound + 1 /\ storeRound \in Nat
  BY DEF Commit, StoreRound, FlightInv, TypeOK, Rounds
<1>4. Full(snapshot[t]) /\ WasOffered(storeRound, snapshot[t])
  BY DEF Commit, DurableInv, FlightInv
<1>5. request[t].round \in Rounds /\ request[t].district \in Districts
  BY RequestType DEF Commit
<1> QED
  BY <1>1, <1>2, <1>3, <1>4, <1>5 DEF DurableInv

LEMMA CommitDurable ==
  ASSUME TypeOK, FlightInv, DurableInv, NEW t \in Threads, NEW isCalm \in BOOLEAN,
         Commit(t, isCalm)
  PROVE  DurableInv'
<1> DEFINE r == storeRound
<1>1. \A u \in Threads : pc'[u] # "aggregate"
  BY DEF Commit, Finish, FlightInv, SingleFlight, TypeOK
<1>2. \A i \in 1 .. Len(storeHistory') : Full(storeHistory'[i])
  <2>1. ASSUME NEW i \in 1 .. r + 1 PROVE Full(storeHistory'[i])
    BY CommitFacts DEF DurableInv
  <2> QED
    BY <2>1, CommitFacts
<1>3. offered' = offered
  BY DEF Commit
<1>4. ASSUME NEW i \in Rounds
      PROVE  WasOffered(i, pending[i])' /\ WasOffered(i, storePending[i])'
  <2>1. pending' = [pending EXCEPT ![r] = Empty] /\ storePending' = [storePending EXCEPT ![r] = Empty]
    BY CommitFacts DEF Commit, StoreRound
  <2> QED
    BY <2>1, <1>3 DEF DurableInv, WasOffered, Empty, TypeOK
<1>5. AckedIsOwned'
  <2>1. \A a \in acked' : a \in acked \/ a = <<r, request[t].district>>
    BY CommitFacts DEF Commit, Acknowledge
  <2>2. acked \subseteq Rounds \X Districts
    BY DEF TypeOK
  <2>3. ASSUME NEW a \in Rounds \X Districts, a[1] = r
        PROVE  storeHistory'[a[1] + 1][a[2]] # None
    BY <2>3, CommitFacts DEF Full
  <2>4. ASSUME NEW a \in acked, a[1] < r
        PROVE  storeHistory'[a[1] + 1][a[2]] # None
    <3>1. a[1] \in Nat /\ storeHistory[a[1] + 1][a[2]] # None
      BY <2>2, <2>4 DEF DurableInv, AckedIsOwned, Rounds
    <3> QED
      BY <3>1, <2>4, CommitFacts
  <2>5. ASSUME NEW a \in acked, a[1] > r
        PROVE  storePending'[a[1]][a[2]] # None
    <3>1. a[1] \in Rounds /\ a[1] # r /\ storePending[a[1]][a[2]] # None
      BY <2>2, <2>5, CommitFacts DEF DurableInv, AckedIsOwned, Rounds
    <3> QED
      BY <3>1, CommitFacts DEF Commit, StoreRound, TypeOK
  <2>6. \A a \in acked' : a \in Rounds \X Districts
    BY <2>1, <2>2, CommitFacts
  <2>7. ASSUME NEW a \in acked'
        PROVE  IF a[1] < storeRound' THEN storeHistory'[a[1] + 1][a[2]] # None
               ELSE storePending'[a[1]][a[2]] # None
    <3>1. a[1] \in Nat /\ r \in Nat /\ storeRound' = r + 1
      BY <2>6, CommitFacts DEF Rounds
    <3>2. CASE a[1] = r
      BY <3>1, <3>2, <2>3, <2>6
    <3>3. CASE a[1] < r
      BY <3>1, <3>3, <2>1, <2>4
    <3>4. CASE a[1] > r
      BY <3>1, <3>4, <2>1, <2>5
    <3> QED
      BY <3>1, <3>2, <3>3, <3>4
  <2> QED
    BY <2>7 DEF AckedIsOwned
<1> QED
  BY <1>1, <1>2, <1>4, <1>5, CommitFacts DEF DurableInv

LEMMA DurableStep ==
  ASSUME ExactMembership, TypeOK, FlightInv, DurableInv, [Next]_vars
  PROVE  DurableInv'
<1> USE DEF storeVars, memoryVars, threadVars, auxVars
<1>1. ASSUME NEW t \in Threads, NEW r \in Rounds, NEW d \in Districts,
             NEW version \in Rounds, NEW p \in Payloads, Receive(t, r, d, version, p)
      PROVE  DurableInv'
  <2>1. \A u \in Threads : pc'[u] = "aggregate" => pc[u] = "aggregate"
    BY <1>1 DEF Receive, TypeOK
  <2> QED
    BY <1>1, <2>1 DEF Receive, DurableInv, WasOffered, Full, AckedIsOwned
<1>2. ASSUME NEW t \in Threads, NEW r \in Rounds, NEW d \in Districts, ReceiveStale(t, r, d)
      PROVE  DurableInv'
  BY <1>2, ClosedIsOwned DEF ReceiveStale, DurableInv, WasOffered, Full
<1>3. ASSUME NEW t \in Threads, JournalStale(t) PROVE DurableInv'
  <2>1. \A u \in Threads : pc'[u] = "aggregate" =>
          pc[u] = "aggregate" /\ snapshot'[u] = snapshot[u]
    BY <1>3 DEF JournalStale, Finish, TypeOK
  <2>2. AckedIsOwned'
    BY <1>3, ClosedIsOwned, RequestType DEF JournalStale
  <2> QED
    BY <1>3, <2>1, <2>2 DEF JournalStale, DurableInv, WasOffered, Full
<1>4. ASSUME NEW t \in Threads, Journal(t) PROVE DurableInv'
  <2>1. pc[t] # "idle" /\ request[t].round = storeRound
    BY <1>4 DEF Journal, FlightInv
  <2>2. \A u \in Threads : pc'[u] = "aggregate" =>
          pc[u] = "aggregate" /\ snapshot'[u] = snapshot[u]
    BY <1>4 DEF Journal, Finish, TypeOK
  <2>3. AckedIsOwned'
    BY <1>4, <2>1, PersistKeepsOwned DEF Journal
  <2>4. \A r \in Rounds : WasOffered(r, pending[r])' /\ WasOffered(r, storePending[r])'
    BY <1>4, <2>1, RememberOffered, PersistOffered DEF Journal
  <2>5. offered \subseteq offered'
    BY <1>4 DEF Journal, Remember
  <2> QED
    BY <1>4, <2>2, <2>3, <2>4, <2>5 DEF Journal, DurableInv, WasOffered, Full
<1>5. ASSUME NEW t \in Threads, JournalLast(t) PROVE DurableInv'
  <2>1. pc[t] # "idle" /\ request[t].round = storeRound /\ round \in Rounds
    BY <1>5 DEF JournalLast, FlightInv, TypeOK
  <2>2. AckedIsOwned'
    BY <1>5, <2>1, PersistKeepsOwned DEF JournalLast
  <2>3. \A r \in Rounds : WasOffered(r, pending[r])' /\ WasOffered(r, storePending[r])'
    BY <1>5, <2>1, RememberOffered, PersistOffered DEF JournalLast
  <2>4. offered \subseteq offered'
    BY <1>5 DEF JournalLast, Remember
  <2>5. history = storeHistory
    BY <1>5 DEF JournalLast, Ready, DurableInv
  <2>6. snapshot'[t] = pending'[round] /\ Full(pending'[round])
    <3>1. pending'[round] \in Cohort
      BY <1>5, <2>1, RememberType DEF JournalLast
    <3> QED
      BY <1>5, <3>1, EnoughIsFull DEF JournalLast, Ready, TypeOK
  <2>7. \A u \in Threads : u # t => pc'[u] = pc[u] /\ snapshot'[u] = snapshot[u]
    BY <1>5 DEF JournalLast, TypeOK
  <2>8. ASSUME NEW u \in Threads, pc'[u] = "aggregate"
        PROVE  Full(snapshot'[u]) /\ WasOffered(round, snapshot[u])'
    <3>1. CASE u = t
      BY <3>1, <2>1, <2>3, <2>6, <1>5 DEF WasOffered, JournalLast
    <3>2. CASE u # t
      BY <3>2, <2>7, <2>8, <2>4, <1>5 DEF JournalLast, DurableInv, WasOffered, Full
    <3> QED
      BY <3>1, <3>2
  <2> QED
    BY <1>5, <2>2, <2>3, <2>5, <2>8 DEF JournalLast, DurableInv, WasOffered, Full
<1>6. ASSUME NEW t \in Threads, JournalFails(t) PROVE DurableInv'
  <2>1. pc[t] # "idle"
    BY <1>6 DEF JournalFails
  <2>2. \A u \in Threads : pc'[u] = "aggregate" =>
          pc[u] = "aggregate" /\ snapshot'[u] = snapshot[u]
    BY <1>6 DEF JournalFails, Finish, TypeOK
  <2>3. \A r \in Rounds : WasOffered(r, pending[r])'
    BY <1>6, <2>1, RememberOffered DEF JournalFails
  <2>4. offered \subseteq offered'
    BY <1>6 DEF JournalFails, Remember
  <2> QED
    BY <1>6, <2>2, <2>3, <2>4 DEF JournalFails, DurableInv, WasOffered, Full, AckedIsOwned
<1>7. ASSUME NEW t \in Threads, AggregateFails(t) PROVE DurableInv'
  BY <1>7, QuietStep DEF AggregateFails, Unmark
<1>8. ASSUME NEW t \in Threads, Reject(t) PROVE DurableInv'
  BY <1>8, QuietStep DEF Reject, Unmark
<1>9. ASSUME NEW t \in Threads, CandidateRaises(t) PROVE DurableInv'
  BY <1>9, QuietStep DEF CandidateRaises, Escape
<1>10. ASSUME NEW t \in Threads, NEW isCalm \in BOOLEAN, Commit(t, isCalm) PROVE DurableInv'
  BY <1>10, CommitDurable
<1>11. ASSUME NEW t \in Threads, NEW isCalm \in BOOLEAN, CommitFails(t, isCalm)
       PROVE  DurableInv'
  <2>1. \A u \in Threads : pc'[u] # "aggregate"
    BY <1>11 DEF CommitFails, Finish, FlightInv, SingleFlight, TypeOK, Escape
  <2>2. round \in aggregating
    BY <1>11 DEF CommitFails, FlightInv, SingleFlight, Escape
  <2> QED
    BY <1>11, <2>1, <2>2, QuietStep DEF CommitFails, Escape
<1>12. CASE PollDistillation
  BY <1>12 DEF PollDistillation, DurableInv, WasOffered, Full, AckedIsOwned
<1>13. ASSUME NEW teacher \in BOOLEAN, Restart(teacher) PROVE DurableInv'
  BY <1>13 DEF Restart, DurableInv, WasOffered, Full, AckedIsOwned
<1>14. CASE UNCHANGED vars
  BY <1>14 DEF vars, DurableInv, WasOffered, Full, AckedIsOwned
<1> QED
  BY <1>1, <1>2, <1>3, <1>4, <1>5, <1>6, <1>7, <1>8, <1>9, <1>10, <1>11, <1>12, <1>13, <1>14
  DEF Next, Handle

(***************************************************************************)
(* Steps of the City as steps of the ledger.                               *)
(***************************************************************************)
\* Telling a district "stale" confirms what a closed round contains.
LEMMA StaleIsLedgerStep ==
  ASSUME TypeOK, FlightInv, DurableInv, NEW r \in Rounds, NEW d \in Districts, r < round,
         Acknowledge(r, d), UNCHANGED <<storeRound, storeHistory, storePending, offered>>
  PROVE  Ledger!Receive
<1>1. Ledger!Folded(r, d)
  BY ClosedIsOwned
<1>2. \A a \in acked' : a \in acked \/ a = <<r, d>>
  BY DEF Acknowledge
<1>3. acked \subseteq acked' /\ acked' \subseteq Nat \X Districts
  BY AcknowledgeType DEF Acknowledge, Rounds
<1> QED
  BY <1>1, <1>2, <1>3 DEF Ledger!Receive, Ledger!Welcome

\* Taking an upload for the open round, confirmed or not.
LEMMA UploadIsLedgerStep ==
  ASSUME TypeOK, FlightInv, DurableInv, NEW t \in Threads, pc[t] # "idle",
         request[t].round = round, Remember(request[t]), storeHistory' = storeHistory,
         Acknowledge(request[t].round, request[t].district) \/ acked' = acked
  PROVE  Ledger!Receive
<1> DEFINE q == request[t]
<1>1. /\ q.round \in Rounds /\ q.district \in Districts /\ q.payload \in Payloads
      /\ q.round = Ledger!Round
  BY RequestType DEF FlightInv, DurableInv, Ledger!Round
<1>2. offered' = offered \cup {<<q.round, q.district, q.payload>>}
  BY DEF Remember
<1>3. \A a \in acked' : a \in acked \/ a = <<q.round, q.district>>
  BY DEF Acknowledge
<1>4. acked \subseteq acked' /\ acked' \subseteq Nat \X Districts
  BY <1>1, AcknowledgeType DEF Acknowledge, Rounds, TypeOK
<1>5. \A o \in offered' \ offered : Ledger!Welcome(o[1], o[2]) /\ o[3] \in Payloads
  BY <1>1, <1>2 DEF Ledger!Welcome
<1>6. \A a \in acked' \ acked :
        Ledger!Welcome(a[1], a[2]) /\ \E p \in Payloads : <<a[1], a[2], p>> \in offered'
  BY <1>1, <1>2, <1>3 DEF Ledger!Welcome
<1> QED
  BY <1>2, <1>4, <1>5, <1>6 DEF Ledger!Receive

LEMMA CommitIsLedgerStep ==
  ASSUME ExactMembership, TypeOK, FlightInv, DurableInv, NEW t \in Threads,
         NEW isCalm \in BOOLEAN, Commit(t, isCalm)
  PROVE  Ledger!Fold(snapshot[t]) /\ snapshot[t] \in Ledger!Cohort
<1> DEFINE c == snapshot[t]
<1>1. c \in Cohort /\ Full(c) /\ storeHistory' = Append(storeHistory, c)
  BY CommitFacts
<1>2. Ledger!Contributors(c) \in FullCohorts
  BY <1>1, FullIsEnough DEF Contributors, Ledger!Contributors, FullCohorts
<1>3. /\ \A m \in Ledger!Contributors(c) : <<Ledger!Round, m, c[m]>> \in offered
      /\ \A m \in Districts : c[m] # None
  BY CommitFacts DEF Full, WasOffered, Ledger!Round, Ledger!Contributors
<1>4. acked \subseteq acked' /\ acked' \subseteq Nat \X Districts
  <2>1. Acknowledge(request[t].round, request[t].district)
    BY DEF Commit
  <2>2. acked' \subseteq Rounds \X Districts
    BY <2>1, CommitFacts, AcknowledgeType
  <2> QED
    BY <2>1, <2>2 DEF Acknowledge, Rounds
<1>5. ASSUME NEW a \in acked' \ acked PROVE Ledger!Folded(a[1], a[2])'
  <2>1. a = <<request[t].round, request[t].district>>
    BY <1>5 DEF Commit, Acknowledge
  <2>2. a[1] = storeRound /\ a[2] \in Districts
    BY <2>1, CommitFacts
  <2> QED
    BY <2>2, CommitFacts DEF Ledger!Folded, Ledger!Round, Full
<1>6. offered' = offered
  BY DEF Commit
<1> QED
  BY <1>1, <1>2, <1>3, <1>4, <1>5, <1>6 DEF Ledger!Fold, Ledger!Cohort, Cohort, FullCohorts

LEMMA StepIsLedgerStep ==
  ASSUME ExactMembership, TypeOK, FlightInv, DurableInv, [Next]_vars
  PROVE  [Ledger!Next]_(Ledger!ledgerVars)
<1> USE DEF storeVars, memoryVars, threadVars, auxVars
<1>1. ASSUME NEW t \in Threads, NEW r \in Rounds, NEW d \in Districts, ReceiveStale(t, r, d)
      PROVE  Ledger!Next
  BY <1>1, StaleIsLedgerStep DEF ReceiveStale, Ledger!Next
<1>2. ASSUME NEW t \in Threads, JournalStale(t) PROVE Ledger!Next
  BY <1>2, StaleIsLedgerStep, RequestType DEF JournalStale, Ledger!Next
<1>3. ASSUME NEW t \in Threads, Journal(t) \/ JournalLast(t) \/ JournalFails(t)
      PROVE  Ledger!Next
  BY <1>3, UploadIsLedgerStep DEF Journal, JournalLast, JournalFails, Ledger!Next
<1>4. ASSUME NEW t \in Threads, NEW isCalm \in BOOLEAN, Commit(t, isCalm)
      PROVE  Ledger!Next
  BY <1>4, CommitIsLedgerStep DEF Ledger!Next
<1>5. ASSUME \/ \E t \in Threads, r \in Rounds, d \in Districts, v \in Rounds, p \in Payloads :
                  Receive(t, r, d, v, p)
             \/ \E t \in Threads : AggregateFails(t) \/ Reject(t) \/ CandidateRaises(t)
             \/ \E t \in Threads, isCalm \in BOOLEAN : CommitFails(t, isCalm)
             \/ PollDistillation
             \/ \E teacher \in BOOLEAN : Restart(teacher)
             \/ UNCHANGED vars
      PROVE  UNCHANGED Ledger!ledgerVars
  BY <1>5 DEF Receive, AggregateFails, Reject, CandidateRaises, CommitFails, Escape, PollDistillation,
              Restart, vars, Ledger!ledgerVars
<1> QED
  BY <1>1, <1>2, <1>3, <1>4, <1>5 DEF Next, Handle

(***************************************************************************)
(* The City is a ledger of rounds: for every number of districts, threads, *)
(* repeated calls, crashes and failing writes, its database goes through   *)
(* the rounds one full cohort at a time, and an upload that was accepted   *)
(* is never left out of its round.                                         *)
(***************************************************************************)
THEOREM CityIsLedger ==
  ASSUME ExactMembership
  PROVE  Spec => ImplementsLedger
<1>1. Init => Ledger!Init
  BY DEF Init, Ledger!Init
<1>2. DurableInv /\ TypeOK /\ FlightInv /\ [Next]_vars
        => DurableInv' /\ [Ledger!Next]_(Ledger!ledgerVars)
  BY DurableStep, StepIsLedgerStep
<1> QED
  BY <1>1, <1>2, DurableInit, FlightAlways, PTL DEF Spec, ImplementsLedger, Ledger!Spec

(***************************************************************************)
(* A district that saw success has a row in the journal of the open round  *)
(* or a place in the cohort of the closed one.                             *)
(***************************************************************************)
THEOREM AcceptedIsNotLost ==
  ASSUME ExactMembership
  PROVE  Spec => []AckedIsOwned
<1>1. DurableInv /\ TypeOK /\ FlightInv /\ [Next]_vars => DurableInv'
  BY DurableStep
<1>2. DurableInv => AckedIsOwned
  BY DEF DurableInv
<1> QED
  BY <1>1, <1>2, DurableInit, FlightAlways, PTL DEF Spec

-------------------------------------------------------------------------------
(***************************************************************************)
(* Marks.  Only the open round is marked (FlightInv), and whoever is       *)
(* aggregating aggregates the open round, so a mark that is left without   *)
(* a worker has lost it to an exception.                                   *)
(***************************************************************************)
LEMMA MarkStep == TypeOK /\ FlightInv /\ MarkHasWorker /\ [Next]_vars => MarkHasWorker'
<1> SUFFICES ASSUME TypeOK, FlightInv, MarkHasWorker, [Next]_vars PROVE MarkHasWorker'
  OBVIOUS
<1> USE DEF storeVars, memoryVars, threadVars, auxVars
<1>1. ASSUME UNCHANGED <<aggregating, escaped>>,
             \A u \in Threads : pc[u] = "aggregate" =>
               pc'[u] = "aggregate" /\ request'[u] = request[u]
      PROVE  MarkHasWorker'
  BY <1>1 DEF MarkHasWorker
<1>2. ASSUME NEW t \in Threads, NEW r \in Rounds, NEW d \in Districts,
             NEW version \in Rounds, NEW p \in Payloads, Receive(t, r, d, version, p)
      PROVE  MarkHasWorker'
  BY <1>1, <1>2 DEF Receive, TypeOK
<1>3. ASSUME NEW t \in Threads, JournalStale(t) \/ Journal(t) \/ JournalFails(t)
      PROVE  MarkHasWorker'
  BY <1>1, <1>3 DEF JournalStale, Journal, JournalFails, Finish, TypeOK
<1>4. ASSUME NEW t \in Threads, JournalLast(t) PROVE MarkHasWorker'
  <2>1. /\ pc'[t] = "aggregate" /\ request'[t].round = round
        /\ aggregating' \subseteq {round}
    BY <1>4 DEF JournalLast, FlightInv, TypeOK
  <2> QED
    BY <2>1 DEF MarkHasWorker
<1>5. ASSUME NEW t \in Threads,
             AggregateFails(t) \/ Reject(t) \/ \E isCalm \in BOOLEAN : Commit(t, isCalm)
      PROVE  MarkHasWorker'
  <2>1. aggregating' = {}
    BY <1>5 DEF AggregateFails, Reject, Commit, Unmark, FlightInv, SingleFlight
  <2> QED
    BY <2>1 DEF MarkHasWorker
<1>6. ASSUME NEW t \in Threads,
             CandidateRaises(t) \/ \E isCalm \in BOOLEAN : CommitFails(t, isCalm)
      PROVE  MarkHasWorker'
  BY <1>6 DEF CandidateRaises, CommitFails, Escape, MarkHasWorker
<1>7. ASSUME NEW teacher \in BOOLEAN, Restart(teacher) PROVE MarkHasWorker'
  BY <1>7 DEF Restart, MarkHasWorker
<1>8. CASE \/ \E t \in Threads, r \in Rounds, d \in Districts : ReceiveStale(t, r, d)
           \/ PollDistillation \/ UNCHANGED vars
  BY <1>1, <1>8 DEF ReceiveStale, PollDistillation, vars
<1> QED
  BY <1>2, <1>3, <1>4, <1>5, <1>6, <1>7, <1>8 DEF Next, Handle

(***************************************************************************)
(* A mark is never left behind: every way out of an aggregation but an     *)
(* exception in section C takes the mark away, so no round is stuck.       *)
(***************************************************************************)
THEOREM NoMarkIsLeftBehind == Spec => []MarkHasWorker
<1>1. Init => MarkHasWorker
  BY DEF Init, MarkHasWorker
<1> QED
  BY <1>1, FlightAlways, MarkStep, PTL DEF Spec

-------------------------------------------------------------------------------
(***************************************************************************)
(* What is served.  As long as every commit has succeeded, the model in    *)
(* memory is the durable one and the drift of each of its rounds is known; *)
(* what has been served is a beginning of both.  The properties look at    *)
(* served alone and say nothing of the model that is served next.          *)
(***************************************************************************)
Beginning(s, n) == [i \in 1 .. n |-> s[i]]

CalmSince(n, count) == \A r \in n - count + 1 .. n : calm[r]

ServedInv ==
  "commit" \notin escaped =>
    /\ history = storeHistory /\ stable = storeStable
    /\ Len(history) = round /\ Len(calm) = round
    /\ stable <= round /\ CalmSince(round, stable)
    /\ \A s \in served :
         /\ s.version \in 0 .. round
         /\ s.model = Beginning(history, s.version)
         /\ s.converged => s.version >= Patience /\ CalmSince(s.version, Patience)

LEMMA ServedStep == TypeOK /\ FlightInv /\ ServedInv /\ [Next]_vars => ServedInv'
<1> SUFFICES ASSUME TypeOK, FlightInv, ServedInv, [Next]_vars, "commit" \notin escaped'
             PROVE  ServedInv'
  BY DEF ServedInv
<1> USE DEF storeVars, memoryVars, threadVars, auxVars
<1>0. /\ round \in Nat /\ stable \in Nat /\ Patience \in Nat
      /\ history \in Seq(Cohort) /\ calm \in Seq(BOOLEAN)
  BY CityAssumption DEF TypeOK, Rounds
<1>1. ASSUME UNCHANGED <<history, storeHistory, stable, storeStable, round, calm, served>>,
             escaped \subseteq escaped'
      PROVE  ServedInv'
  BY <1>1 DEF ServedInv, Beginning, CalmSince
<1>2. ASSUME NEW t \in Threads, NEW isCalm \in BOOLEAN, Commit(t, isCalm) PROVE ServedInv'
  <2>1. /\ history' = Append(history, snapshot[t]) /\ storeHistory' = history'
        /\ stable' = Monitored(isCalm) /\ storeStable' = stable'
        /\ calm' = Append(calm, isCalm)
        /\ round' = round + 1
        /\ served' = served /\ escaped' = escaped
        /\ snapshot[t] \in Cohort
    BY <1>2 DEF Commit, StoreRound, TypeOK
  <2>2. Len(history) = round /\ Len(calm) = round /\ stable <= round
    BY <2>1 DEF ServedInv
  <2>3. /\ Len(history') = round' /\ Len(calm') = round'
        /\ \A i \in 1 .. round : history'[i] = history[i] /\ calm'[i] = calm[i]
        /\ calm'[round + 1] = isCalm
    BY <1>0, <2>1, <2>2
  <2>4. stable' <= round' /\ CalmSince(round, stable)'
    <3>1. CASE ~isCalm
      BY <1>0, <2>1, <3>1 DEF Monitored, CalmSince
    <3>2. CASE isCalm
      <4>1. stable' = stable + 1
        BY <2>1, <3>2 DEF Monitored
      <4>2. \A r \in round - stable + 1 .. round : calm[r] /\ r \in 1 .. round
        BY <1>0, <2>1, <2>2 DEF ServedInv, CalmSince
      <4>3. \A r \in round' - stable' + 1 .. round' :
              r \in round - stable + 1 .. round \/ r = round + 1
        BY <1>0, <2>1, <4>1
      <4>4. ASSUME NEW r \in round' - stable' + 1 .. round' PROVE calm'[r]
        <5>1. CASE r = round + 1
          <6>1. calm'[r] = isCalm
            BY <2>3, <5>1
          <6> QED
            BY <3>2, <6>1
        <5>2. CASE r \in round - stable + 1 .. round
          <6>1. calm[r] /\ calm'[r] = calm[r]
            BY <2>3, <4>2, <5>2
          <6> QED
            BY <6>1
        <5> QED
          BY <4>3, <4>4, <5>1, <5>2
      <4> QED
        BY <1>0, <2>1, <2>2, <4>1, <4>4 DEF CalmSince
    <3> QED
      BY <3>1, <3>2
  <2>5. ASSUME NEW s \in served'
        PROVE  /\ s.version \in 0 .. round'
               /\ s.model = Beginning(history', s.version)
               /\ s.converged => s.version >= Patience /\ CalmSince(s.version, Patience)'
    <3>1. /\ s.version \in 0 .. round
          /\ s.model = Beginning(history, s.version)
          /\ s.converged => s.version >= Patience /\ CalmSince(s.version, Patience)
      BY <2>1, <2>5 DEF ServedInv
    <3>2. \A i \in 1 .. s.version : i \in 1 .. round
      BY <1>0, <3>1
    <3>3. Beginning(history, s.version) = Beginning(history', s.version)
      BY <2>3, <3>2 DEF Beginning
    <3>4. s.version >= Patience =>
            \A r \in s.version - Patience + 1 .. s.version : r \in 1 .. round
      BY <1>0, <3>1
    <3> QED
      BY <1>0, <2>1, <2>3, <3>1, <3>3, <3>4 DEF CalmSince
  <2> QED
    BY <2>1, <2>3, <2>4, <2>5 DEF ServedInv
<1>3. CASE PollDistillation
  <2>1. /\ served' = served \cup {Checkpoint}
        /\ UNCHANGED <<history, storeHistory, stable, storeStable, round, calm, escaped>>
    BY <1>3 DEF PollDistillation
  <2>2. /\ history = Beginning(history, round)
        /\ Checkpoint.version = round /\ Checkpoint.model = history
        /\ Checkpoint.converged = (stable >= Patience)
    BY <1>0, <2>1 DEF ServedInv, Beginning, Checkpoint
  <2>3. stable >= Patience => round >= Patience /\ CalmSince(round, Patience)
    BY <1>0, <2>1 DEF ServedInv, CalmSince
  <2>4. ASSUME NEW s \in served'
        PROVE  /\ s.version \in 0 .. round
               /\ s.model = Beginning(history, s.version)
               /\ s.converged => s.version >= Patience /\ CalmSince(s.version, Patience)
    <3>1. CASE s \in served
      BY <2>1, <3>1 DEF ServedInv
    <3>2. CASE s = Checkpoint
      <4>1. s.version = round /\ s.model = history /\ s.converged = (stable >= Patience)
        BY <2>2, <3>2, Zenon
      <4>2. s.version \in 0 .. round
        BY <1>0, <4>1
      <4>3. s.model = Beginning(history, s.version)
        BY <2>2, <4>1, Zenon
      <4>4. s.converged => s.version >= Patience /\ CalmSince(s.version, Patience)
        BY <2>3, <4>1, Zenon
      <4> QED
        BY <4>2, <4>3, <4>4
    <3> QED
      BY <2>1, <3>1, <3>2
  <2> QED
    BY <2>1, <2>4 DEF ServedInv, Beginning, CalmSince
<1>4. ASSUME NEW teacher \in BOOLEAN, Restart(teacher) PROVE ServedInv'
  BY <1>4 DEF Restart, ServedInv, Beginning, CalmSince, FlightInv
<1>5. ASSUME NEW t \in Threads, NEW isCalm \in BOOLEAN, CommitFails(t, isCalm)
      PROVE  ServedInv'
  BY <1>5 DEF CommitFails, Escape
<1>6. ASSUME NEW t \in Threads,
             \/ JournalStale(t) \/ Journal(t) \/ JournalLast(t) \/ JournalFails(t)
             \/ AggregateFails(t) \/ Reject(t) \/ CandidateRaises(t)
      PROVE  ServedInv'
  BY <1>1, <1>6 DEF JournalStale, Journal, JournalLast, JournalFails, AggregateFails, Reject,
                    CandidateRaises, Escape, Persist
<1>7. ASSUME NEW t \in Threads, NEW r \in Rounds, NEW d \in Districts,
             \/ \E version \in Rounds, p \in Payloads : Receive(t, r, d, version, p)
             \/ ReceiveStale(t, r, d)
      PROVE  ServedInv'
  BY <1>1, <1>7 DEF Receive, ReceiveStale
<1>8. CASE UNCHANGED vars
  BY <1>1, <1>8 DEF vars
<1> QED
  BY <1>2, <1>3, <1>4, <1>5, <1>6, <1>7, <1>8 DEF Next, Handle

LEMMA ServedAlways == Spec => []ServedInv
<1>1. Init => ServedInv
  BY DEF Init, ServedInv, CalmSince
<1> QED
  BY <1>1, FlightAlways, ServedStep, PTL DEF Spec

(***************************************************************************)
(* "city-round-<r>" names one model: whatever was polled under this name,  *)
(* before and after any number of crashes, was the same model, until a     *)
(* commit fails.                                                           *)
(***************************************************************************)
THEOREM VersionsAreUnique == Spec => []CommittedVersionNamesOneModel
<1>1. ServedInv => CommittedVersionNamesOneModel
  BY DEF ServedInv, CommittedVersionNamesOneModel, VersionNamesOneModel
<1> QED
  BY <1>1, ServedAlways, PTL

(***************************************************************************)
(* Convergence is announced only after Patience calm rounds in a row, also *)
(* when the process died between them, until a commit fails.               *)
(***************************************************************************)
THEOREM ConvergenceIsTrue == Spec => []ConvergenceIsEarned
<1>1. ServedInv => ConvergenceIsEarned
  BY DEF ServedInv, ConvergenceIsEarned, CalmSince
<1> QED
  BY <1>1, ServedAlways, PTL

================================================================================
