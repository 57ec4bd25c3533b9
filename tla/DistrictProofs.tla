---------------------------- MODULE DistrictProofs ----------------------------
(***************************************************************************)
(* Proofs about District, for any set of agents, any number of threads,    *)
(* any bounds, with failing Spark jobs and crashes, whether or not an      *)
(* agent repeats its calls.                                                *)
(***************************************************************************)
EXTENDS District, FiniteSetTheorems, TLAPS

-------------------------------------------------------------------------------
(***************************************************************************)
(* Type correctness, one step per action.                                  *)
(***************************************************************************)
LEMMA EmptyIsCohort == Empty \in Cohort
  BY DEF Empty, Cohort

LEMMA TypeInit == Init => TypeOK
  BY DistrictAssumption, EmptyIsCohort DEF Init, TypeOK, Rounds

LEMMA ContributorsFinite ==
  ASSUME NEW c \in Cohort
  PROVE  /\ Contributors(c) \subseteq Agents
         /\ IsFiniteSet(Contributors(c))
         /\ Cardinality(Contributors(c)) \in Nat
<1>1. Contributors(c) \subseteq Agents
  BY DEF Contributors
<1> QED
  BY <1>1, FS_Subset, FS_CardinalityType, DistrictAssumption

LEMMA FinishType ==
  ASSUME TypeOK, NEW t \in Threads, Finish(t)
  PROVE  /\ pc' \in [Threads -> {"idle", "append", "recheck", "lock", "aggregate", "flush"}]
         /\ request' \in [Threads -> Request \cup {None}]
         /\ \A u \in Threads : pc'[u] # "idle" => request'[u] \in Request
         /\ count' \in [Threads -> Nat]
         /\ snapshot' \in [Threads -> Cohort]
  BY EmptyIsCohort DEF TypeOK, Finish, Goto

LEMMA AcknowledgeType ==
  ASSUME TypeOK, NEW r \in Rounds, NEW a \in Agents, Acknowledge(r, a)
  PROVE  acked' \subseteq Rounds \X Agents
  BY DEF TypeOK, Acknowledge

LEMMA RequestType ==
  ASSUME TypeOK, NEW t \in Threads, pc[t] # "idle"
  PROVE  /\ request[t].round \in 0 .. MaxRound - 1
         /\ request[t].round \in Rounds
         /\ request[t].round + 1 \in Rounds
         /\ request[t].agent \in Agents
         /\ request[t].payload \in Payloads
         /\ request[t].payload # None
  BY DistrictAssumption DEF TypeOK, Request, Rounds

\* What append_upload does to the rows: the others stay, its own is there.
LEMMA AppendRows ==
  ASSUME TypeOK, NEW t \in Threads, AppendUpload(t)
  PROVE  /\ uploads' \in [Rounds -> Cohort]
         /\ uploads'[request[t].round][request[t].agent] = request[t].payload
         /\ \A r \in Rounds, a \in Agents :
              r # request[t].round \/ a # request[t].agent => uploads'[r][a] = uploads[r][a]
         /\ \A r \in Rounds : r # request[t].round => uploads'[r] = uploads[r]
<1> DEFINE q == request[t]
<1>1. q.round \in Rounds /\ q.agent \in Agents /\ q.payload \in Payloads
  BY RequestType DEF AppendUpload
<1>2. [uploads[q.round] EXCEPT ![q.agent] = q.payload] \in Cohort
  BY <1>1 DEF TypeOK, Cohort
<1>3. uploads' = [uploads EXCEPT ![q.round] = [uploads[q.round] EXCEPT ![q.agent] = q.payload]]
  BY DEF AppendUpload
<1>4. uploads' \in [Rounds -> Cohort]
  BY <1>2, <1>3 DEF TypeOK
<1> QED
  BY <1>1, <1>3, <1>4 DEF TypeOK, Cohort

LEMMA TypeStep == TypeOK /\ [Next]_vars => TypeOK'
<1> SUFFICES ASSUME TypeOK, [Next]_vars PROVE TypeOK'
  OBVIOUS
<1> USE DEF storeVars, threadVars, auxVars
<1>1. ASSUME NEW t \in Threads, NEW r \in Rounds, NEW a \in Agents, NEW p \in Payloads,
             Receive(t, r, a, p)
      PROVE  TypeOK'
  <2>1. [round |-> r, agent |-> a, payload |-> p] \in Request
    BY <1>1, DistrictAssumption DEF Receive, Request, Rounds
  <2> QED
    BY <1>1, <2>1 DEF Receive, Goto, TypeOK
<1>2. ASSUME NEW t \in Threads, NEW r \in Rounds, NEW a \in Agents, ReceiveStale(t, r, a)
      PROVE  TypeOK'
  BY <1>2, AcknowledgeType DEF ReceiveStale, TypeOK
<1>3. ASSUME NEW t \in Threads, AppendUpload(t) PROVE TypeOK'
  <2>1. pc[t] # "idle" /\ request[t].round \in Rounds
    BY <1>3, RequestType DEF AppendUpload
  <2>2. uploads' \in [Rounds -> Cohort]
    BY <1>3, AppendRows
  <2>3. Counted(request[t].round) \in Nat
    <3>1. uploads'[request[t].round] \in Cohort
      BY <2>1, <2>2
    <3> QED
      BY <3>1, ContributorsFinite DEF Counted
  <2>4. offered' \subseteq Rounds \X Agents \X Payloads
    BY <1>3, <2>1, RequestType DEF AppendUpload, TypeOK
  <2>5. count' \in [Threads -> Nat]
    BY <1>3, <2>3 DEF AppendUpload, TypeOK
  <2>6. /\ pc' \in [Threads -> {"idle", "append", "recheck", "lock", "aggregate", "flush"}]
        /\ \A u \in Threads : pc'[u] # "idle" => request'[u] \in Request
    BY <1>3 DEF AppendUpload, Goto, TypeOK
  <2> QED
    BY <1>3, <2>2, <2>4, <2>5, <2>6 DEF AppendUpload, TypeOK
<1>4. ASSUME NEW t \in Threads, Received(t) PROVE TypeOK'
  BY <1>4, FinishType, AcknowledgeType, RequestType DEF Received, TypeOK
<1>5. ASSUME NEW t \in Threads, Contend(t) PROVE TypeOK'
  BY <1>5 DEF Contend, Goto, TypeOK
<1>6. ASSUME NEW t \in Threads, Superseded(t) PROVE TypeOK'
  BY <1>6, FinishType, AcknowledgeType, RequestType DEF Superseded, TypeOK
<1>7. ASSUME NEW t \in Threads, TakeSnapshot(t) PROVE TypeOK'
  BY <1>7, RequestType DEF TakeSnapshot, Goto, TypeOK
<1>8. ASSUME NEW t \in Threads, AggregationFails(t) PROVE TypeOK'
  BY <1>8, FinishType DEF AggregationFails, TypeOK
<1>9. ASSUME NEW t \in Threads, Finalize(t) PROVE TypeOK'
  <2>1. /\ request[t].round \in Rounds /\ request[t].round + 1 \in Rounds
        /\ storeRound = request[t].round /\ snapshot[t] \in Cohort
    BY <1>9, RequestType DEF Finalize, TypeOK
  <2>2. /\ storeRound' \in Rounds /\ outbox' \subseteq Rounds
        /\ uploads' \in [Rounds -> Cohort]
    BY <1>9, <2>1, EmptyIsCohort DEF Finalize, CloseRound, TypeOK
  <2>3. completed' \in Seq(Cohort) /\ storeRound' = Len(completed')
    <3>1. completed' = Append(completed, snapshot[t]) /\ storeRound' = storeRound + 1
      BY <1>9, <2>1 DEF Finalize, CloseRound
    <3>2. completed \in Seq(Cohort) /\ storeRound = Len(completed) /\ snapshot[t] \in Cohort
      BY <2>1 DEF TypeOK
    <3> QED
      BY <3>1, <3>2
  <2> QED
    BY <1>9, <2>2, <2>3 DEF Finalize, Goto, TypeOK
<1>10. ASSUME NEW t \in Threads, Aggregated(t) PROVE TypeOK'
  <2>1. outbox' \subseteq Rounds /\ delivered' \subseteq Rounds
    BY <1>10 DEF Aggregated, Flush, TypeOK
  <2> QED
    BY <1>10, <2>1, FinishType, AcknowledgeType, RequestType DEF Aggregated, TypeOK
<1>11. CASE PollFlush
  <2>1. outbox' \subseteq Rounds /\ delivered' \subseteq Rounds
    BY <1>11 DEF PollFlush, Flush, TypeOK
  <2> QED
    BY <1>11, <2>1 DEF PollFlush, TypeOK
<1>12. CASE Restart
  BY <1>12, EmptyIsCohort, DistrictAssumption DEF Restart, TypeOK
<1>13. CASE UNCHANGED vars
  BY <1>13 DEF vars, TypeOK
<1> QED
  BY <1>1, <1>2, <1>3, <1>4, <1>5, <1>6, <1>7, <1>8, <1>9, <1>10, <1>11, <1>12, <1>13
  DEF Next, Handle

(***************************************************************************)
(* Every variable of the District has its type in every reachable state.   *)
(***************************************************************************)
THEOREM TypeCorrect == Spec => []TypeOK
  BY TypeInit, TypeStep, PTL DEF Spec

-------------------------------------------------------------------------------
(***************************************************************************)
(* The lock and the round.  LockedRound is inductive once it is known that *)
(* no call is for a round that has not begun.                              *)
(***************************************************************************)
LockInv ==
  /\ LockedRound
  /\ \A t \in Threads : pc[t] # "idle" => request[t].round <= storeRound
  /\ \A t \in Threads : pc[t] = "flush" => request[t].round < storeRound

LEMMA LockStep == TypeOK /\ LockInv /\ [Next]_vars => LockInv'
<1> SUFFICES ASSUME TypeOK, LockInv, [Next]_vars PROVE LockInv'
  OBVIOUS
<1> USE DistrictAssumption DEF storeVars, threadVars, auxVars
<1>0. storeRound \in Nat /\ \A t \in Threads : pc[t] # "idle" => request[t].round \in Nat
  BY RequestType DEF TypeOK, Rounds
<1>1. ASSUME NEW t \in Threads, NEW r \in Rounds, NEW a \in Agents, NEW p \in Payloads,
             Receive(t, r, a, p)
      PROVE  LockInv'
  BY <1>0, <1>1 DEF Receive, Goto, LockInv, LockedRound, TypeOK
<1>2. ASSUME NEW t \in Threads, NEW r \in Rounds, NEW a \in Agents, ReceiveStale(t, r, a)
      PROVE  LockInv'
  BY <1>2 DEF ReceiveStale, LockInv, LockedRound
<1>3. ASSUME NEW t \in Threads, AppendUpload(t) PROVE LockInv'
  BY <1>3 DEF AppendUpload, Goto, LockInv, LockedRound, TypeOK
<1>4. ASSUME NEW t \in Threads, Received(t) PROVE LockInv'
  BY <1>4 DEF Received, Finish, Goto, LockInv, LockedRound, TypeOK
<1>5. ASSUME NEW t \in Threads, Contend(t) PROVE LockInv'
  BY <1>5 DEF Contend, Goto, LockInv, LockedRound, TypeOK
<1>6. ASSUME NEW t \in Threads, Superseded(t) PROVE LockInv'
  BY <1>6 DEF Superseded, Finish, Goto, LockInv, LockedRound, TypeOK
<1>7. ASSUME NEW t \in Threads, TakeSnapshot(t) PROVE LockInv'
  BY <1>7 DEF TakeSnapshot, Goto, LockInv, LockedRound, TypeOK
<1>8. ASSUME NEW t \in Threads, AggregationFails(t) PROVE LockInv'
  BY <1>8 DEF AggregationFails, Finish, Goto, LockInv, LockedRound, TypeOK
<1>9. ASSUME NEW t \in Threads, Finalize(t) PROVE LockInv'
  <2>1. storeRound' = storeRound + 1 /\ request[t].round = storeRound
    BY <1>9 DEF Finalize, CloseRound
  <2>2. \A u \in Threads : pc'[u] # "aggregate"
    BY <1>9 DEF Finalize, Goto, LockInv, LockedRound, TypeOK
  <2>3. ASSUME NEW u \in Threads, pc'[u] # "idle"
        PROVE  request'[u].round <= storeRound
    BY <1>9, <2>1, <2>3, <1>0 DEF Finalize, Goto, LockInv, TypeOK
  <2>4. \A u \in Threads : pc'[u] = "flush" => request'[u].round < storeRound'
    BY <1>9, <2>1, <1>0 DEF Finalize, Goto, LockInv, TypeOK
  <2>5. \A u \in Threads : pc'[u] # "idle" => request'[u].round <= storeRound'
    BY <1>9, <2>1, <2>3, <1>0 DEF Finalize, Goto, TypeOK
  <2>6. lock' = None
    BY <1>9 DEF Finalize
  <2> QED
    BY <2>2, <2>4, <2>5, <2>6 DEF LockInv, LockedRound
<1>10. ASSUME NEW t \in Threads, Aggregated(t) PROVE LockInv'
  BY <1>10 DEF Aggregated, Finish, Goto, LockInv, LockedRound, TypeOK
<1>11. CASE PollFlush
  BY <1>11 DEF PollFlush, LockInv, LockedRound
<1>12. CASE Restart
  BY <1>12 DEF Restart, LockInv, LockedRound
<1>13. CASE UNCHANGED vars
  BY <1>13 DEF vars, LockInv, LockedRound
<1> QED
  BY <1>1, <1>2, <1>3, <1>4, <1>5, <1>6, <1>7, <1>8, <1>9, <1>10, <1>11, <1>12, <1>13
  DEF Next, Handle

LEMMA LockAlways == Spec => [](TypeOK /\ LockInv)
<1>1. Init => LockInv
  BY DEF Init, LockInv, LockedRound
<1> QED
  BY <1>1, TypeInit, TypeStep, LockStep, PTL DEF Spec

(***************************************************************************)
(* One thread aggregates at a time, the round it aggregates cannot close   *)
(* under it, and no way out of the aggregation keeps the lock.             *)
(***************************************************************************)
THEOREM AggregationIsLocked == Spec => []LockedRound
<1>1. LockInv => LockedRound
  BY DEF LockInv
<1> QED
  BY <1>1, LockAlways, PTL

-------------------------------------------------------------------------------
(***************************************************************************)
(* The outbox.                                                             *)
(***************************************************************************)
LEMMA OutboxStep == TypeOK /\ LockInv /\ SummariesInOrder /\ [Next]_vars => SummariesInOrder'
<1> SUFFICES ASSUME TypeOK, LockInv, SummariesInOrder, [Next]_vars PROVE SummariesInOrder'
  OBVIOUS
<1> USE DEF storeVars, threadVars, auxVars
<1>1. storeRound \in Nat /\ outbox \subseteq Nat /\ delivered \subseteq Nat
  BY DEF TypeOK, Rounds
<1>2. CASE UNCHANGED <<storeRound, outbox, delivered>>
  BY <1>2 DEF SummariesInOrder
<1>3. ASSUME Flush, UNCHANGED storeRound PROVE SummariesInOrder'
  BY <1>1, <1>3 DEF Flush, SummariesInOrder
<1>4. ASSUME NEW t \in Threads, Finalize(t) PROVE SummariesInOrder'
  <2>1. /\ storeRound' = storeRound + 1 /\ outbox' = outbox \cup {storeRound}
        /\ delivered' = delivered
    BY <1>4 DEF Finalize, CloseRound
  <2> QED
    BY <1>1, <2>1 DEF SummariesInOrder
<1> QED
  BY <1>2, <1>3, <1>4 DEF Next, Handle, Receive, ReceiveStale, AppendUpload, Received, Contend,
     Superseded, TakeSnapshot, AggregationFails, Aggregated, PollFlush, Restart, vars

(***************************************************************************)
(* No closed round loses its summary, and the summaries go up in order:    *)
(* the outbox row is written by the transaction that closes the round.     *)
(***************************************************************************)
THEOREM OutboxInOrder == Spec => []SummariesInOrder
<1>1. Init => SummariesInOrder
  BY DEF Init, SummariesInOrder
<1> QED
  BY <1>1, OutboxStep, LockAlways, PTL DEF Spec

-------------------------------------------------------------------------------
(***************************************************************************)
(* The rows of the open round.  A cohort that was once complete stays      *)
(* complete until the round closes, and the agent whose row completed it   *)
(* has not seen success: its own calls all counted a complete cohort, so   *)
(* none of them is answered "received".                                    *)
(***************************************************************************)
Rows(u, r) == Cardinality(Contributors(u[r]))

Owed(a) ==
  /\ a \in Contributors(uploads[storeRound])
  /\ <<storeRound, a>> \notin acked
  /\ \A t \in Threads :
       pc[t] = "recheck" /\ request[t].round = storeRound /\ request[t].agent = a
         => count[t] >= ExpectedAgents

RowInv ==
  /\ \A r \in Rounds : r > storeRound => uploads[r] = Empty
  /\ \A a \in acked : a[1] <= storeRound
  /\ \A a \in Agents : <<storeRound, a>> \in acked => uploads[storeRound][a] # None
  /\ \A t \in Threads :
       pc[t] \in {"recheck", "lock"} /\ request[t].round = storeRound
         => uploads[storeRound][request[t].agent] # None /\ count[t] <= Rows(uploads, storeRound)
  /\ \A t \in Threads : pc[t] = "lock" => count[t] >= ExpectedAgents
  /\ SnapshotIsFull
  /\ Rows(uploads, storeRound) >= ExpectedAgents => \E a \in Agents : Owed(a)

\* A round in which nobody has a row is not complete.
LEMMA EmptyIsShort == Cardinality(Contributors(Empty)) < ExpectedAgents
<1>1. Contributors(Empty) = {}
  BY DEF Contributors, Empty
<1> QED
  BY <1>1, FS_EmptySet, DistrictAssumption

\* The count of append_upload never falls behind the rows of its round.
LEMMA AppendCounts ==
  ASSUME TypeOK, NEW t \in Threads, AppendUpload(t), NEW r \in Rounds
  PROVE  /\ Rows(uploads, r) \in Nat /\ Rows(uploads', r) \in Nat
         /\ Rows(uploads, r) <= Rows(uploads', r)
         /\ r = request[t].round => count'[t] = Rows(uploads', r)
         /\ Contributors(uploads[r]) \subseteq Contributors(uploads'[r])
<1>1. uploads[r] \in Cohort /\ uploads'[r] \in Cohort
  BY AppendRows DEF TypeOK
<1>2. Contributors(uploads[r]) \subseteq Contributors(uploads'[r])
  BY AppendRows, RequestType DEF Contributors, AppendUpload
<1>3. IsFiniteSet(Contributors(uploads'[r]))
  BY <1>1, ContributorsFinite
<1>4. Rows(uploads', r) = Cardinality(Contributors(uploads'[r]))
  BY DEF Rows, Contributors
<1>5. Cardinality(Contributors(uploads[r])) <= Cardinality(Contributors(uploads'[r]))
  BY <1>2, <1>3, FS_Subset
<1>6. count'[t] = Cardinality(Contributors(uploads'[request[t].round]))
  BY DEF AppendUpload, Counted, TypeOK
<1> QED
  BY <1>1, <1>2, <1>4, <1>5, <1>6, ContributorsFinite DEF Rows

\* A step that leaves the rows of the open round alone and tells nobody of it.
LEMMA QuietRows ==
  ASSUME TypeOK, RowInv, UNCHANGED <<storeRound, uploads>>,
         acked' \subseteq Rounds \X Agents,
         \A a \in acked' : a \in acked \/ a[1] < storeRound,
         \A t \in Threads :
           /\ pc'[t] \in {"recheck", "lock"} =>
                /\ pc[t] = pc'[t] \/ (pc[t] = "recheck" /\ count[t] >= ExpectedAgents)
                /\ request'[t] = request[t] /\ count'[t] = count[t]
           /\ pc'[t] = "aggregate" => pc[t] = "aggregate" /\ snapshot'[t] = snapshot[t]
  PROVE  RowInv'
<1>0. storeRound \in Nat /\ \A a \in acked' : a \in acked \/ a[1] # storeRound
  BY DEF TypeOK, Rounds
<1>1. \A a \in acked' : a[1] <= storeRound
  BY <1>0 DEF RowInv, Rounds
<1>2. \A a \in Agents : <<storeRound, a>> \in acked' => <<storeRound, a>> \in acked
  BY <1>0
<1>3. \A a \in Agents : Owed(a) => Owed(a)'
  BY <1>2 DEF Owed, Contributors
<1>4. Rows(uploads', storeRound') = Rows(uploads, storeRound)
  BY DEF Rows, Contributors
<1>5. SnapshotIsFull'
  BY DEF RowInv, SnapshotIsFull, Contributors
<1>6. \A t \in Threads : pc'[t] = "lock" => count'[t] >= ExpectedAgents
  BY DEF RowInv
<1> QED
  BY <1>1, <1>2, <1>3, <1>4, <1>5, <1>6 DEF RowInv

LEMMA AppendKeepsRows ==
  ASSUME TypeOK, LockInv, RowInv, NEW t \in Threads, AppendUpload(t)
  PROVE  RowInv'
<1> DEFINE q == request[t]
<1>0. /\ pc[t] = "append" /\ q.round \in Rounds /\ q.round <= storeRound /\ q.agent \in Agents
      /\ q.payload # None /\ storeRound \in Rounds /\ storeRound \in Nat /\ q.round \in Nat
  BY RequestType DEF AppendUpload, LockInv, TypeOK, Rounds
<1>1. /\ storeRound' = storeRound /\ UNCHANGED <<acked, request, snapshot>>
      /\ pc' = [pc EXCEPT ![t] = "recheck"]
      /\ \A u \in Threads : u # t => pc'[u] = pc[u] /\ count'[u] = count[u]
      /\ pc'[t] = "recheck"
  BY DEF AppendUpload, Goto, TypeOK
<1>10. /\ Rows(uploads, storeRound) \in Nat /\ Rows(uploads', storeRound) \in Nat
       /\ Rows(uploads, storeRound) <= Rows(uploads', storeRound)
       /\ q.round = storeRound => count'[t] = Rows(uploads', storeRound)
       /\ Contributors(uploads[storeRound]) \subseteq Contributors(uploads'[storeRound])
  BY <1>0, AppendCounts
<1>2. \A r \in Rounds : r > storeRound => uploads'[r] = Empty
  BY <1>0, AppendRows DEF RowInv, Rounds
<1>3. \A a \in Agents : uploads[storeRound][a] # None => uploads'[storeRound][a] # None
  BY <1>0, AppendRows
<1>4. \A u \in Threads :
        pc'[u] \in {"recheck", "lock"} /\ request[u].round = storeRound
          => uploads'[storeRound][request[u].agent] # None /\ count'[u] <= Rows(uploads', storeRound)
  <2>1. q.round = storeRound => uploads'[storeRound][q.agent] # None /\ count'[t] <= Rows(uploads', storeRound)
    BY <1>0, AppendRows, <1>10
  <2>2. ASSUME NEW u \in Threads, u # t, pc[u] \in {"recheck", "lock"}, request[u].round = storeRound
        PROVE  uploads'[storeRound][request[u].agent] # None /\ count[u] <= Rows(uploads', storeRound)
    <3>1. count[u] \in Nat /\ request[u].agent \in Agents
      BY <2>2, RequestType DEF TypeOK
    <3>2. count[u] <= Rows(uploads, storeRound) /\ uploads[storeRound][request[u].agent] # None
      BY <2>2 DEF RowInv
    <3> QED
      BY <3>1, <3>2, <1>0, <1>3, <1>10
  <2> QED
    BY <1>1, <2>1, <2>2
<1>5. \A u \in Threads : pc'[u] = "lock" => count'[u] >= ExpectedAgents
  BY <1>1 DEF RowInv
<1>6. SnapshotIsFull'
  BY <1>1 DEF RowInv, SnapshotIsFull, Contributors
<1>7. ASSUME Rows(uploads', storeRound) >= ExpectedAgents
      PROVE  \E a \in Agents : Owed(a)'
  <2>1. CASE Rows(uploads, storeRound) >= ExpectedAgents
    <3>1. PICK a \in Agents : Owed(a)
      BY <2>1 DEF RowInv
    <3>2. a \in Contributors(uploads'[storeRound])
      BY <3>1, <1>0, <1>10 DEF Owed
    <3>3. q.round = storeRound => count'[t] >= ExpectedAgents
      BY <1>0, <1>7, <1>10
    <3> QED
      BY <3>1, <3>2, <3>3, <1>1 DEF Owed, Contributors
  <2>2. CASE ~(Rows(uploads, storeRound) >= ExpectedAgents)
    <3>1. q.round = storeRound
      <4>1. q.round # storeRound => uploads'[storeRound] = uploads[storeRound]
        BY <1>0, AppendRows
      <4> QED
        BY <4>1, <1>7, <2>2, <1>1 DEF Rows, Contributors
    <3>2. uploads[storeRound][q.agent] = None
      <4>1. SUFFICES ASSUME uploads[storeRound][q.agent] # None
                     PROVE  Contributors(uploads'[storeRound]) = Contributors(uploads[storeRound])
        BY <1>7, <2>2, <1>1 DEF Rows, Contributors
      <4> QED
        BY <4>1, <3>1, <1>0, AppendRows DEF Contributors
    <3>3. <<storeRound, q.agent>> \notin acked
      BY <3>2, <1>0 DEF RowInv
    <3>4. \A u \in Threads : u # t /\ pc[u] = "recheck" /\ request[u].round = storeRound
            => request[u].agent # q.agent
      BY <3>2 DEF RowInv
    <3>5. q.agent \in Contributors(uploads'[storeRound])
      BY <3>1, <1>0, AppendRows DEF Contributors
    <3>6. count'[t] >= ExpectedAgents
      BY <3>1, <1>0, <1>7, <1>10
    <3> QED
      BY <3>3, <3>4, <3>5, <3>6, <1>0, <1>1 DEF Owed, Contributors
  <2> QED
    BY <2>1, <2>2
<1>8. \A a \in acked' : a[1] <= storeRound
  BY <1>1 DEF RowInv
<1>9. \A a \in Agents : <<storeRound, a>> \in acked' => uploads'[storeRound][a] # None
  BY <1>1, <1>3 DEF RowInv
<1> QED
  BY <1>1, <1>2, <1>4, <1>5, <1>6, <1>7, <1>8, <1>9 DEF RowInv

\* Closing the round leaves an open round without rows.
LEMMA FinalizeKeepsRows ==
  ASSUME TypeOK, LockInv, RowInv, NEW t \in Threads, Finalize(t)
  PROVE  RowInv'
<1>1. /\ storeRound \in Nat /\ storeRound' = storeRound + 1 /\ storeRound' \in Rounds
      /\ storeRound \in Rounds /\ acked' = acked
      /\ uploads' = [uploads EXCEPT ![storeRound] = Empty]
  <2>1. /\ request[t].round = storeRound /\ pc[t] # "idle"
        /\ CloseRound(request[t].round, snapshot[t]) /\ acked' = acked
    BY DEF Finalize, auxVars
  <2>2. storeRound + 1 \in Rounds /\ storeRound \in Rounds /\ storeRound \in Nat
    BY <2>1, RequestType DEF TypeOK, Rounds
  <2> QED
    BY <2>1, <2>2 DEF CloseRound
<1>2. \A r \in Rounds : r >= storeRound' => uploads'[r] = Empty
  BY <1>1 DEF RowInv, TypeOK, Rounds
<1>3. \A a \in acked : a[1] <= storeRound /\ a[1] \in Nat
  BY DEF RowInv, TypeOK, Rounds
<1>4. \A u \in Threads : pc'[u] # "aggregate"
  BY DEF Finalize, Goto, LockInv, LockedRound, TypeOK
<1>5. \A u \in Threads : pc'[u] \in {"recheck", "lock"} =>
        pc[u] = pc'[u] /\ request'[u].round # storeRound' /\ count'[u] = count[u]
  <2>1. ASSUME NEW u \in Threads, pc'[u] \in {"recheck", "lock"}
        PROVE  /\ pc[u] = pc'[u] /\ request'[u] = request[u] /\ count'[u] = count[u]
               /\ request[u].round <= storeRound /\ request[u].round \in Nat
    BY <2>1, RequestType DEF Finalize, Goto, LockInv, TypeOK, Rounds
  <2> QED
    BY <2>1, <1>1
<1>6. Rows(uploads', storeRound') < ExpectedAgents
  BY <1>1, <1>2, EmptyIsShort DEF Rows
<1>7. \A a \in acked' : a[1] <= storeRound'
  BY <1>1, <1>3
<1>8. \A a \in Agents : <<storeRound', a>> \notin acked'
  BY <1>1, <1>3
<1>9. Rows(uploads', storeRound') \in Nat
  BY <1>1, <1>2, ContributorsFinite, EmptyIsCohort DEF Rows
<1>10. \A u \in Threads : pc'[u] = "lock" => count'[u] >= ExpectedAgents
  BY <1>5 DEF RowInv
<1>11. ~(Rows(uploads', storeRound') >= ExpectedAgents)
  BY <1>6, <1>9, DistrictAssumption
<1>12. \A r \in Rounds : r > storeRound' => uploads'[r] = Empty
  BY <1>1, <1>2 DEF Rounds
<1> QED
  BY <1>4, <1>5, <1>7, <1>8, <1>10, <1>11, <1>12 DEF RowInv, SnapshotIsFull

LEMMA RowStep == TypeOK /\ LockInv /\ RowInv /\ [Next]_vars => RowInv'
<1> SUFFICES ASSUME TypeOK, LockInv, RowInv, [Next]_vars PROVE RowInv'
  OBVIOUS
<1> USE DEF storeVars, threadVars, auxVars
<1>0. storeRound \in Nat /\ acked' \subseteq Rounds \X Agents /\ acked \subseteq Rounds \X Agents
  BY TypeStep DEF TypeOK, Rounds
<1>1. ASSUME NEW t \in Threads, NEW r \in Rounds, NEW a \in Agents, NEW p \in Payloads,
             Receive(t, r, a, p)
      PROVE  RowInv'
  <2>1. \A u \in Threads : pc'[u] \in {"recheck", "lock", "aggregate"} =>
          pc'[u] = pc[u] /\ request'[u] = request[u]
    BY <1>1 DEF Receive, Goto, TypeOK
  <2> QED
    BY <1>0, <1>1, <2>1, QuietRows DEF Receive
<1>2. ASSUME NEW t \in Threads, NEW r \in Rounds, NEW a \in Agents, ReceiveStale(t, r, a)
      PROVE  RowInv'
  BY <1>0, <1>2, QuietRows DEF ReceiveStale, Acknowledge
<1>3. ASSUME NEW t \in Threads, AppendUpload(t) PROVE RowInv'
  BY <1>3, AppendKeepsRows
<1>4. ASSUME NEW t \in Threads, Finish(t) PROVE
        \A u \in Threads : pc'[u] # "idle" =>
          /\ pc'[u] = pc[u] /\ request'[u] = request[u]
          /\ count'[u] = count[u] /\ snapshot'[u] = snapshot[u]
  BY <1>4 DEF Finish, Goto, TypeOK
<1>5. ASSUME NEW t \in Threads, Received(t) PROVE RowInv'
  <2> DEFINE q == request[t]
  <2>1. /\ pc[t] = "recheck" /\ q.round \in Rounds /\ q.round <= storeRound /\ q.agent \in Agents
        /\ UNCHANGED <<storeRound, uploads>> /\ ~Complete(t) /\ Finish(t)
        /\ Acknowledge(q.round, q.agent)
    BY <1>5, RequestType DEF Received, LockInv
  <2>2. CASE q.round # storeRound
    <3>1. \A a \in acked' : a \in acked \/ a[1] < storeRound
      BY <2>1, <2>2, <1>0 DEF Acknowledge, Rounds
    <3> QED
      BY <2>1, <3>1, <1>0, <1>4, QuietRows
  <2>3. CASE q.round = storeRound
    <3>1. count[t] < ExpectedAgents /\ count[t] \in Nat
      BY <2>1, <2>3, DistrictAssumption DEF Complete, TypeOK
    <3>2. \A a \in acked' : a \in acked \/ a = <<storeRound, q.agent>>
      BY <2>1, <2>3 DEF Acknowledge
    <3>3. uploads[storeRound][q.agent] # None
      BY <2>1, <2>3 DEF RowInv
    <3>4. \A a \in Agents : Owed(a) => a # q.agent
      BY <2>1, <2>3, <3>1, DistrictAssumption DEF Owed
    <3>5. \A a \in Agents : Owed(a) => Owed(a)'
      BY <2>1, <3>2, <3>4, <1>4 DEF Owed, Contributors
    <3>6. /\ \A a \in acked' : a[1] <= storeRound
          /\ \A a \in Agents : <<storeRound, a>> \in acked' => uploads[storeRound][a] # None
      BY <3>2, <3>3, <1>0 DEF RowInv
    <3>7. SnapshotIsFull'
      BY ZenonT(60), <2>1, <1>4 DEF RowInv, SnapshotIsFull, Contributors
    <3> QED
      BY <2>1, <3>5, <3>6, <3>7, <1>4 DEF RowInv
  <2> QED
    BY <2>2, <2>3
<1>6. ASSUME NEW t \in Threads, Contend(t) PROVE RowInv'
  <2>1. \A u \in Threads :
          /\ pc'[u] \in {"recheck", "lock"} =>
               pc[u] = pc'[u] \/ (pc[u] = "recheck" /\ count[u] >= ExpectedAgents)
          /\ pc'[u] = "aggregate" => pc[u] = "aggregate"
    BY <1>6 DEF Contend, Complete, Goto, TypeOK
  <2> QED
    BY <1>0, <1>6, <2>1, QuietRows DEF Contend
<1>7. ASSUME NEW t \in Threads, Superseded(t) PROVE RowInv'
  <2>1. request[t].round < storeRound
    BY <1>0, <1>7, RequestType DEF Superseded, LockInv, Rounds
  <2>2. \A a \in acked' : a \in acked \/ a[1] < storeRound
    BY <2>1, <1>7 DEF Superseded, Acknowledge
  <2> QED
    BY <1>0, <1>4, <1>7, <2>2, QuietRows DEF Superseded
<1>8. ASSUME NEW t \in Threads, TakeSnapshot(t) PROVE RowInv'
  <2>1. /\ UNCHANGED <<storeRound, uploads, acked, request, count>>
        /\ \A u \in Threads : u # t => pc'[u] = pc[u] /\ snapshot'[u] = snapshot[u]
        /\ pc'[t] = "aggregate" /\ snapshot'[t] = uploads[storeRound]
        /\ pc[t] = "lock" /\ request[t].round = storeRound /\ storeRound \in Rounds
    BY <1>8 DEF TakeSnapshot, Goto, TypeOK
  <2>2. Cardinality(Contributors(uploads[storeRound])) >= ExpectedAgents
    <3>1. count[t] >= ExpectedAgents /\ count[t] <= Rows(uploads, storeRound) /\ count[t] \in Nat
      BY <2>1 DEF RowInv, TypeOK
    <3>2. Cardinality(Contributors(uploads[storeRound])) \in Nat
      BY <2>1, ContributorsFinite DEF TypeOK
    <3> QED
      BY <3>1, <3>2, DistrictAssumption DEF Rows
  <2>3. ASSUME NEW u \in Threads, pc'[u] = "aggregate"
        PROVE  Cardinality(Contributors(snapshot'[u])) >= ExpectedAgents
    <3>1. CASE u = t
      BY <3>1, <2>1, <2>2
    <3>2. CASE u # t
      BY <3>2, <2>1, <2>3 DEF RowInv, SnapshotIsFull
    <3> QED
      BY <3>1, <3>2
  <2>4. \A a \in Agents : Owed(a) => Owed(a)'
    BY <2>1 DEF Owed, Contributors
  <2> QED
    BY <2>1, <2>3, <2>4 DEF RowInv, SnapshotIsFull, Contributors
<1>9. ASSUME NEW t \in Threads, AggregationFails(t) PROVE RowInv'
  BY <1>0, <1>4, <1>9, QuietRows DEF AggregationFails
<1>10. ASSUME NEW t \in Threads, Finalize(t) PROVE RowInv'
  BY <1>10, FinalizeKeepsRows
<1>11. ASSUME NEW t \in Threads, Aggregated(t) PROVE RowInv'
  <2>1. request[t].round < storeRound
    BY <1>11 DEF Aggregated, LockInv
  <2>2. \A a \in acked' : a \in acked \/ a[1] < storeRound
    BY <2>1, <1>11 DEF Aggregated, Acknowledge
  <2> QED
    BY <1>0, <1>4, <1>11, <2>2, QuietRows DEF Aggregated
<1>12. CASE PollFlush
  BY <1>0, <1>12, QuietRows DEF PollFlush
<1>13. CASE Restart
  <2>1. \A u \in Threads : pc'[u] = "idle"
    BY <1>13 DEF Restart
  <2> QED
    BY <1>0, <1>13, <2>1, QuietRows DEF Restart
<1>14. CASE UNCHANGED vars
  BY <1>0, <1>14, QuietRows DEF vars
<1> QED
  BY <1>1, <1>2, <1>3, <1>5, <1>6, <1>7, <1>8, <1>9, <1>10, <1>11, <1>12, <1>13, <1>14
  DEF Next, Handle

LEMMA RowAlways == Spec => [](TypeOK /\ LockInv /\ RowInv)
<1>1. Init => RowInv
  <2> SUFFICES ASSUME Init PROVE RowInv
    OBVIOUS
  <2>1. /\ storeRound = 0 /\ acked = {} /\ \A r \in Rounds : uploads[r] = Empty
        /\ 0 \in Rounds /\ \A t \in Threads : pc[t] = "idle"
    BY DistrictAssumption DEF Init, Rounds
  <2>2. Rows(uploads, storeRound) < ExpectedAgents /\ Rows(uploads, storeRound) \in Nat
    BY <2>1, EmptyIsShort, ContributorsFinite, EmptyIsCohort DEF Rows
  <2> QED
    BY <2>1, <2>2, DistrictAssumption DEF RowInv, SnapshotIsFull
<1> QED
  BY <1>1, LockAlways, RowStep, PTL DEF Spec

(***************************************************************************)
(* The re-check of the snapshot's size in SendGradient never fails: an     *)
(* aggregation always has a complete cohort.                               *)
(***************************************************************************)
THEOREM SnapshotNeverShort == Spec => []SnapshotIsFull
<1>1. RowInv => SnapshotIsFull
  BY DEF RowInv
<1> QED
  BY <1>1, RowAlways, PTL

(***************************************************************************)
(* A complete round never waits for nobody: however calls overlap, repeat, *)
(* fail or die, an agent with a row in it has not seen success and will    *)
(* call again.                                                             *)
(***************************************************************************)
THEOREM FullRoundHasCaller == Spec => []FullRoundIsOwed
<1>1. RowInv => FullRoundIsOwed
  BY DEF RowInv, Rows, Owed, FullRoundIsOwed
<1> QED
  BY <1>1, RowAlways, PTL

-------------------------------------------------------------------------------
(***************************************************************************)
(* The journal implements the ledger of rounds, when the agents are        *)
(* exactly the expected ones: the round counts the closed cohorts, these   *)
(* are full, and a row or a snapshot holds what was offered for its round. *)
(***************************************************************************)
Full(c) == \A a \in Agents : c[a] # None

WasOffered(r, c) == \A a \in Agents : c[a] # None => <<r, a, c[a]>> \in offered

DurableInv ==
  /\ Len(completed) = storeRound
  /\ \A i \in 1 .. Len(completed) : Full(completed[i])
  /\ \A r \in Rounds : WasOffered(r, uploads[r])
  /\ \A t \in Threads : pc[t] = "aggregate" => WasOffered(storeRound, snapshot[t])

LEMMA EnoughIsFull ==
  ASSUME ExactMembership, NEW c \in Cohort, Cardinality(Contributors(c)) >= ExpectedAgents
  PROVE  Full(c)
<1>1. /\ Contributors(c) \subseteq Agents
      /\ Cardinality(Contributors(c)) <= Cardinality(Agents)
      /\ Cardinality(Agents) = Cardinality(Contributors(c)) => Agents = Contributors(c)
  BY ContributorsFinite, FS_Subset, DistrictAssumption
<1>2. Contributors(c) = Agents
  BY <1>1, ContributorsFinite, FS_CardinalityType, DistrictAssumption DEF ExactMembership
<1> QED
  BY <1>2 DEF Contributors, Full

LEMMA DurableInit == Init => DurableInv
  BY DEF Init, DurableInv, WasOffered, Empty

\* A step that leaves the journal alone and takes no snapshot.
LEMMA QuietStep ==
  ASSUME DurableInv, UNCHANGED <<storeRound, uploads, completed, offered>>,
         \A t \in Threads :
           pc'[t] = "aggregate" => pc[t] = "aggregate" /\ snapshot'[t] = snapshot[t]
  PROVE  DurableInv'
  BY DEF DurableInv, WasOffered, Full

\* What closing a round does to the journal.
LEMMA FinalizeFacts ==
  ASSUME ExactMembership, TypeOK, LockInv, RowInv, DurableInv, NEW t \in Threads, Finalize(t)
  PROVE  /\ storeRound \in Rounds /\ storeRound \in Nat /\ storeRound' = storeRound + 1
         /\ completed' = Append(completed, snapshot[t]) /\ completed \in Seq(Cohort)
         /\ uploads' = [uploads EXCEPT ![storeRound] = Empty]
         /\ UNCHANGED <<offered, acked>>
         /\ snapshot[t] \in Cohort /\ Full(snapshot[t]) /\ WasOffered(storeRound, snapshot[t])
<1>1. pc[t] = "aggregate" /\ storeRound = request[t].round
  BY DEF Finalize
<1>2. snapshot[t] \in Cohort /\ Full(snapshot[t]) /\ WasOffered(storeRound, snapshot[t])
  BY <1>1, EnoughIsFull DEF TypeOK, RowInv, SnapshotIsFull, DurableInv
<1> QED
  BY <1>1, <1>2 DEF Finalize, CloseRound, TypeOK, Rounds, auxVars

LEMMA DurableStep ==
  ASSUME ExactMembership, TypeOK, LockInv, RowInv, DurableInv, [Next]_vars
  PROVE  DurableInv'
<1> USE DEF storeVars, threadVars, auxVars
<1>1. ASSUME NEW t \in Threads, AppendUpload(t) PROVE DurableInv'
  <2>1. \A r \in Rounds : WasOffered(r, uploads[r])'
    <3>1. /\ request[t].round \in Rounds /\ request[t].agent \in Agents
          /\ offered' = offered \cup {<<request[t].round, request[t].agent, request[t].payload>>}
      BY <1>1, RequestType DEF AppendUpload
    <3> QED
      BY <3>1, <1>1, AppendRows DEF DurableInv, WasOffered
  <2>2. /\ UNCHANGED <<storeRound, completed, snapshot>> /\ offered \subseteq offered'
        /\ \A u \in Threads : pc'[u] = "aggregate" => pc[u] = "aggregate"
    BY <1>1 DEF AppendUpload, Goto, TypeOK
  <2> QED
    BY <2>1, <2>2 DEF DurableInv, WasOffered, Full
<1>2. ASSUME NEW t \in Threads, TakeSnapshot(t) PROVE DurableInv'
  <2>1. /\ UNCHANGED <<storeRound, uploads, completed, offered>> /\ storeRound \in Rounds
        /\ \A u \in Threads : u # t => pc'[u] = pc[u] /\ snapshot'[u] = snapshot[u]
        /\ snapshot'[t] = uploads[storeRound]
    BY <1>2 DEF TakeSnapshot, Goto, TypeOK
  <2>2. ASSUME NEW u \in Threads, pc'[u] = "aggregate"
        PROVE  WasOffered(storeRound, snapshot'[u])
    BY <2>1, <2>2 DEF DurableInv
  <2> QED
    BY <2>1, <2>2 DEF DurableInv, WasOffered, Full
<1>3. ASSUME NEW t \in Threads, Finalize(t) PROVE DurableInv'
  <2>1. Len(completed') = storeRound' /\ \A i \in 1 .. Len(completed') : Full(completed'[i])
    <3>1. /\ Len(completed) = storeRound /\ Len(completed') = storeRound + 1
          /\ \A i \in 1 .. storeRound : completed'[i] = completed[i] /\ Full(completed[i])
          /\ completed'[storeRound + 1] = snapshot[t]
      BY <1>3, FinalizeFacts DEF DurableInv
    <3>2. ASSUME NEW i \in 1 .. storeRound + 1 PROVE Full(completed'[i])
      <4>1. CASE i \in 1 .. storeRound
        BY <3>1, <4>1
      <4>2. CASE i = storeRound + 1
        BY <1>3, <3>1, <4>2, FinalizeFacts
      <4> QED
        BY <1>3, <4>1, <4>2, FinalizeFacts
    <3> QED
      BY <1>3, <3>1, <3>2, FinalizeFacts
  <2>2. \A r \in Rounds : WasOffered(r, uploads[r])'
    BY SMTT(30), <1>3, FinalizeFacts DEF DurableInv, WasOffered, Empty, TypeOK
  <2>3. \A u \in Threads : pc'[u] # "aggregate"
    BY <1>3 DEF Finalize, Goto, LockInv, LockedRound, TypeOK
  <2> QED
    BY <2>1, <2>2, <2>3 DEF DurableInv, Full
<1>4. ASSUME UNCHANGED <<storeRound, uploads, completed, offered>>,
             \A u \in Threads :
               pc'[u] = "aggregate" => pc[u] = "aggregate" /\ snapshot'[u] = snapshot[u]
      PROVE  DurableInv'
  BY <1>4, QuietStep
<1>5. ASSUME NEW t \in Threads, Finish(t)
      PROVE  \A u \in Threads :
               pc'[u] = "aggregate" => pc[u] = "aggregate" /\ snapshot'[u] = snapshot[u]
  BY <1>5 DEF Finish, Goto, TypeOK
<1>6. ASSUME NEW t \in Threads,
             Received(t) \/ Superseded(t) \/ AggregationFails(t) \/ Aggregated(t)
      PROVE  DurableInv'
  BY <1>4, <1>5, <1>6 DEF Received, Superseded, AggregationFails, Aggregated
<1>7. ASSUME NEW t \in Threads, Contend(t) PROVE DurableInv'
  BY <1>4, <1>7 DEF Contend, Goto, TypeOK
<1>8. ASSUME NEW t \in Threads, NEW r \in Rounds, NEW a \in Agents, NEW p \in Payloads,
             Receive(t, r, a, p)
      PROVE  DurableInv'
  BY <1>4, <1>8 DEF Receive, Goto, TypeOK
<1>9. ASSUME NEW t \in Threads, NEW r \in Rounds, NEW a \in Agents, ReceiveStale(t, r, a)
      PROVE  DurableInv'
  BY <1>4, <1>9 DEF ReceiveStale
<1>10. CASE PollFlush \/ Restart \/ UNCHANGED vars
  BY <1>4, <1>10 DEF PollFlush, Restart, vars
<1> QED
  BY <1>1, <1>2, <1>3, <1>6, <1>7, <1>8, <1>9, <1>10 DEF Next, Handle

LEMMA DurableAlways ==
  ASSUME ExactMembership
  PROVE  Spec => [](TypeOK /\ LockInv /\ RowInv /\ DurableInv)
<1>1. TypeOK /\ LockInv /\ RowInv /\ DurableInv /\ [Next]_vars => DurableInv'
  BY DurableStep
<1> QED
  BY <1>1, DurableInit, RowAlways, PTL DEF Spec

(***************************************************************************)
(* "Receipt means the District durably owns this round's update": an agent *)
(* that saw success has a row in the journal or a place in the closed      *)
(* cohort.                                                                 *)
(***************************************************************************)
THEOREM ReceiptIsDurable ==
  ASSUME ExactMembership
  PROVE  Spec => []AckedIsOwned
<1>1. TypeOK /\ RowInv /\ DurableInv => AckedIsOwned
  <2> SUFFICES ASSUME TypeOK, RowInv, DurableInv, NEW a \in acked
               PROVE  IF a[1] < storeRound THEN completed[a[1] + 1][a[2]] # None
                      ELSE uploads[a[1]][a[2]] # None
    BY DEF AckedIsOwned
  <2>1. a[1] \in Nat /\ a[2] \in Agents /\ a[1] <= storeRound /\ storeRound \in Nat
        /\ a = <<a[1], a[2]>>
    BY DEF TypeOK, RowInv, Rounds
  <2>2. CASE a[1] < storeRound
    BY <2>1, <2>2 DEF DurableInv, Full
  <2>3. CASE a[1] = storeRound
    BY <2>1, <2>3 DEF RowInv
  <2> QED
    BY <2>1, <2>2, <2>3
<1> QED
  BY <1>1, DurableAlways, PTL

\* Telling an agent of success for a round that is closed.
LEMMA ClosedIsLedgerStep ==
  ASSUME TypeOK, DurableInv, NEW r \in Rounds, NEW a \in Agents, r < storeRound,
         Acknowledge(r, a), UNCHANGED <<completed, offered>>
  PROVE  Ledger!Receive
<1>1. Ledger!Folded(r, a)
  BY DEF DurableInv, Full, Rounds, Ledger!Folded, Ledger!Round
<1>2. \A x \in acked' : x \in acked \/ x = <<r, a>>
  BY DEF Acknowledge
<1>3. acked \subseteq acked' /\ acked' \subseteq Nat \X Agents
  BY AcknowledgeType DEF Acknowledge, Rounds
<1> QED
  BY <1>1, <1>2, <1>3 DEF Ledger!Receive, Ledger!Welcome

\* An upload written to the journal, of the open round or of a closed one.
LEMMA AppendIsLedgerStep ==
  ASSUME TypeOK, LockInv, DurableInv, NEW t \in Threads, AppendUpload(t)
  PROVE  Ledger!Receive
<1> DEFINE q == request[t]
<1>1. /\ q.round \in Nat /\ q.agent \in Agents /\ q.payload \in Payloads
      /\ q.round <= storeRound /\ storeRound \in Nat /\ Len(completed) = storeRound
  BY RequestType DEF AppendUpload, LockInv, DurableInv, TypeOK, Rounds
<1>2. Ledger!Welcome(q.round, q.agent)
  <2>1. CASE q.round = storeRound
    BY <1>1, <2>1 DEF Ledger!Welcome, Ledger!Round
  <2>2. CASE q.round < storeRound
    BY <1>1, <2>2 DEF DurableInv, Full, Ledger!Welcome, Ledger!Folded, Ledger!Round
  <2> QED
    BY <1>1, <2>1, <2>2
<1>3. /\ offered' = offered \cup {<<q.round, q.agent, q.payload>>}
      /\ UNCHANGED <<acked, completed>>
  BY DEF AppendUpload
<1>4. acked' \subseteq Nat \X Agents
  BY <1>3 DEF TypeOK, Rounds
<1> QED
  BY <1>1, <1>2, <1>3, <1>4 DEF Ledger!Receive

\* "received": the row is there, so it was offered.
LEMMA ReceivedIsLedgerStep ==
  ASSUME TypeOK, LockInv, RowInv, DurableInv, NEW t \in Threads, Received(t)
  PROVE  Ledger!Receive
<1> DEFINE q == request[t]
<1>1. /\ q.round \in Rounds /\ q.agent \in Agents /\ q.round <= storeRound
      /\ storeRound \in Nat /\ Len(completed) = storeRound /\ pc[t] = "recheck"
      /\ Acknowledge(q.round, q.agent) /\ UNCHANGED <<completed, offered>>
  BY RequestType DEF Received, LockInv, DurableInv, TypeOK, Rounds, storeVars
<1>2. CASE q.round < storeRound
  BY <1>1, <1>2, ClosedIsLedgerStep
<1>3. CASE q.round = storeRound
  <2>1. uploads[storeRound][q.agent] # None /\ uploads[storeRound] \in Cohort
    BY <1>1, <1>3 DEF RowInv, TypeOK
  <2>2. \E p \in Payloads : <<storeRound, q.agent, p>> \in offered
    BY <1>1, <1>3, <2>1 DEF DurableInv, WasOffered, Cohort
  <2>3. \A x \in acked' : x \in acked \/ x = <<storeRound, q.agent>>
    BY <1>1, <1>3 DEF Acknowledge
  <2>4. acked \subseteq acked' /\ acked' \subseteq Nat \X Agents
    BY <1>1, AcknowledgeType DEF Acknowledge, Rounds
  <2> QED
    BY <1>1, <2>2, <2>3, <2>4 DEF Ledger!Receive, Ledger!Welcome, Ledger!Round
<1> QED
  BY <1>1, <1>2, <1>3 DEF Rounds

LEMMA FinalizeIsLedgerStep ==
  ASSUME ExactMembership, TypeOK, LockInv, RowInv, DurableInv, NEW t \in Threads, Finalize(t)
  PROVE  Ledger!Fold(snapshot[t]) /\ snapshot[t] \in Ledger!Cohort
<1> DEFINE c == snapshot[t]
<1>1. Ledger!Contributors(c) \in FullCohorts
  <2>1. Contributors(c) \subseteq Agents /\ Cardinality(Contributors(c)) >= ExpectedAgents
    BY FinalizeFacts DEF Finalize, Contributors, RowInv, SnapshotIsFull
  <2> QED
    BY <2>1 DEF Contributors, Ledger!Contributors, FullCohorts
<1>2. /\ \A m \in Ledger!Contributors(c) : <<Ledger!Round, m, c[m]>> \in offered
      /\ \A m \in Agents : c[m] # None
  BY FinalizeFacts DEF DurableInv, Full, WasOffered, Ledger!Round, Ledger!Contributors
<1>3. acked' = acked /\ acked' \subseteq Nat \X Agents
  BY FinalizeFacts DEF TypeOK, Rounds
<1> QED
  BY <1>1, <1>2, <1>3, FinalizeFacts DEF Ledger!Fold, Ledger!Cohort, Cohort

LEMMA StepIsLedgerStep ==
  ASSUME ExactMembership, TypeOK, LockInv, RowInv, DurableInv, [Next]_vars
  PROVE  [Ledger!Next]_(Ledger!ledgerVars)
<1> USE DEF storeVars, threadVars, auxVars
<1>1. ASSUME NEW t \in Threads, NEW r \in Rounds, NEW a \in Agents, ReceiveStale(t, r, a)
      PROVE  Ledger!Next
  BY <1>1, ClosedIsLedgerStep DEF ReceiveStale, Ledger!Next
<1>2. ASSUME NEW t \in Threads, AppendUpload(t) PROVE Ledger!Next
  BY <1>2, AppendIsLedgerStep DEF Ledger!Next
<1>3. ASSUME NEW t \in Threads, Received(t) PROVE Ledger!Next
  BY <1>3, ReceivedIsLedgerStep DEF Ledger!Next
<1>4. ASSUME NEW t \in Threads, Superseded(t) \/ Aggregated(t) PROVE Ledger!Next
  <2>1. /\ request[t].round \in Rounds /\ request[t].agent \in Agents
        /\ Acknowledge(request[t].round, request[t].agent) /\ UNCHANGED <<completed, offered>>
    BY <1>4, RequestType DEF Superseded, Aggregated
  <2>2. request[t].round < storeRound
    BY <1>4, <2>1 DEF Superseded, Aggregated, LockInv, TypeOK, Rounds
  <2> QED
    BY <2>1, <2>2, ClosedIsLedgerStep DEF Ledger!Next
<1>5. ASSUME NEW t \in Threads, Finalize(t) PROVE Ledger!Next
  BY <1>5, FinalizeIsLedgerStep DEF Ledger!Next
<1>6. ASSUME \/ \E t \in Threads, r \in Rounds, a \in Agents, p \in Payloads : Receive(t, r, a, p)
             \/ \E t \in Threads : Contend(t) \/ TakeSnapshot(t) \/ AggregationFails(t)
             \/ PollFlush \/ Restart \/ UNCHANGED vars
      PROVE  UNCHANGED Ledger!ledgerVars
  BY <1>6 DEF Receive, Contend, TakeSnapshot, AggregationFails, PollFlush, Restart, vars,
              Ledger!ledgerVars
<1> QED
  BY <1>1, <1>2, <1>3, <1>4, <1>5, <1>6 DEF Next, Handle

(***************************************************************************)
(* The District is a ledger of rounds too: its journal goes through the    *)
(* rounds one full cohort at a time, and an update that was accepted is    *)
(* never left out of its round.                                            *)
(***************************************************************************)
THEOREM DistrictIsLedger ==
  ASSUME ExactMembership
  PROVE  Spec => ImplementsLedger
<1>1. Init => Ledger!Init
  BY DEF Init, Ledger!Init
<1>2. TypeOK /\ LockInv /\ RowInv /\ DurableInv /\ [Next]_vars => [Ledger!Next]_(Ledger!ledgerVars)
  BY StepIsLedgerStep
<1> QED
  BY <1>1, <1>2, DurableAlways, PTL DEF Spec, ImplementsLedger, Ledger!Spec

===============================================================================
