--------------------------------- MODULE City ---------------------------------
(***************************************************************************)
(* The City tier: the gRPC servicer CityAggregator (src/tiers/city.py)     *)
(* with its SQLite journal CityStateStore (src/tiers/city_store.py) and    *)
(* its ConvergenceMonitor (src/federated/convergence.py).                  *)
(*                                                                         *)
(* A pool of handler threads serves SendGradient.  A call goes through     *)
(* three sections under the servicer's lock and two stretches without it:  *)
(*                                                                         *)
(*   Receive  (lock A)  look at the round, then check the request          *)
(*   Journal  (lock B)  remember and persist the upload; the call that     *)
(*                      completes the cohort takes a snapshot of it        *)
(*   Commit   (lock C)  fold the aggregate into the global model           *)
(*                                                                         *)
(* A section is one action: every reader and writer of the memory it       *)
(* touches holds the same lock, and a crash in the middle of a section is  *)
(* a crash before or after it, since only the database outlives it.        *)
(*                                                                         *)
(* Tensors are left out.  A global model is the teacher plus the sequence  *)
(* of cohorts folded into it, so two models are equal in the specification *)
(* exactly when the same updates went into them in the same order.         *)
(***************************************************************************)
EXTENDS Integers, Sequences, FiniteSets

CONSTANTS
  Districts,          \* the district agents that may upload
  ExpectedDistricts,  \* expected_districts
  Payloads,           \* contents of an upload
  None,               \* no upload, no request
  Threads,            \* the workers of the gRPC thread pool
  Patience,           \* rounds of small drift that mean convergence
  MaxRound,           \* bound: the last round of a behaviour
  MaxCrashes,         \* bound: how often the process may die
  Faults,             \* what may go wrong inside a call, see below
  SerialOutbox        \* a district has one call in progress, see below

(***************************************************************************)
(* SerialOutbox: a district makes one call at a time and stops when it     *)
(* sees success.  The District's handler threads share one outbox and      *)
(* flush it without a lock (src/tiers/district.py), and a call that passed *)
(* its deadline goes on here, so the code does not guarantee it.           *)
(*                                                                         *)
(* Faults: "candidate" the acceptance tests refuse an aggregate, "cohort"  *)
(* the uploads cannot be averaged together, "raise" a test of the          *)
(* candidate raises, "journal" and "commit" the database write raises.     *)
(***************************************************************************)
ASSUME CityAssumption ==
  /\ IsFiniteSet(Districts)
  /\ ExpectedDistricts \in Nat \ {0}
  /\ None \notin Payloads
  /\ Patience \in Nat \ {0}
  /\ MaxRound \in Nat
  /\ MaxCrashes \in Nat
  /\ Faults \subseteq {"candidate", "cohort", "raise", "journal", "commit"}
  /\ SerialOutbox \in BOOLEAN

\* Deployment: the agents allowed to upload are the expected ones.
ExactMembership == Cardinality(Districts) = ExpectedDistricts

VARIABLES
  storeRound,     \* city_state.current_round
  storeHistory,   \* city_state.global_blob: the cohorts folded into the model
  storeBaseline,  \* city_state.global_blob is not NULL
  storePending,   \* city_pending: round -> district -> payload or None
  storeStable     \* city_state.stable_rounds

VARIABLES
  round,          \* self.current_round
  history,        \* self.global_state
  baseline,       \* self.global_state is not None
  pending,        \* self._pending
  aggregating,    \* self._aggregating_rounds
  stable          \* self.monitor._stable_rounds

VARIABLES
  pc,             \* where each thread is in SendGradient
  request,        \* the call each thread serves
  snapshot        \* the cohort a thread took in section B

\* What the districts know, and what the properties need to remember.
VARIABLES
  acked,          \* <<round, district>> whose district saw success
  offered,        \* <<round, district, payload>> taken into memory
  served,         \* the checkpoints PollDistillation has handed out
  calm,           \* calm[r + 1]: the drift of round r was below epsilon
  escaped,        \* the faults of section C that have happened
  crashes         \* how often the process died

storeVars  == <<storeRound, storeHistory, storeBaseline, storePending, storeStable>>
memoryVars == <<round, history, baseline, pending, aggregating, stable>>
threadVars == <<pc, request, snapshot>>
auxVars    == <<acked, offered, served, calm, escaped, crashes>>
vars       == <<storeVars, memoryVars, threadVars, auxVars>>

Rounds  == 0 .. MaxRound
Cohort  == [Districts -> Payloads \cup {None}]
Request == [round : 0 .. MaxRound - 1, district : Districts, payload : Payloads]

Empty == [d \in Districts |-> None]

Contributors(c) == {d \in Districts : c[d] # None}

Init ==
  /\ storeRound = 0
  /\ storeHistory = <<>>
  /\ storeBaseline \in BOOLEAN
  /\ storePending = [r \in Rounds |-> Empty]
  /\ storeStable = 0
  /\ round = 0
  /\ history = <<>>
  /\ baseline = storeBaseline
  /\ pending = [r \in Rounds |-> Empty]
  /\ aggregating = {}
  /\ stable = 0
  /\ pc = [t \in Threads |-> "idle"]
  /\ request = [t \in Threads |-> None]
  /\ snapshot = [t \in Threads |-> Empty]
  /\ offered = {}
  /\ acked = {}
  /\ served = {}
  /\ calm = <<>>
  /\ escaped = {}
  /\ crashes = 0

-------------------------------------------------------------------------------
(***************************************************************************)
(* SendGradient                                                            *)
(***************************************************************************)
Serving(d) == \E t \in Threads : pc[t] # "idle" /\ request[t].district = d

Finish(t) ==
  /\ pc' = [pc EXCEPT ![t] = "idle"]
  /\ request' = [request EXCEPT ![t] = None]
  /\ snapshot' = [snapshot EXCEPT ![t] = Empty]

\* An answer the district counts as success; the network may lose it.
Acknowledge(r, d) ==
  \/ acked' = acked \cup {<<r, d>>}
  \/ acked' = acked

\* An exception leaves section C, for the gRPC server to report.
Escape(fault) ==
  /\ escaped' = escaped \cup {fault}
  /\ UNCHANGED <<acked, offered, served, calm, crashes>>

(***************************************************************************)
(* Section A, for a request the checks let through.  A request of a later  *)
(* round, an empty or malformed one, or one whose delta was not computed   *)
(* against checkpoint "city-round-<current>" is refused and changes        *)
(* nothing.                                                                *)
(***************************************************************************)
Receive(t, r, d, version, p) ==
  /\ pc[t] = "idle"
  /\ SerialOutbox => ~Serving(d) /\ <<r, d>> \notin acked
  /\ r = round /\ round < MaxRound
  /\ version = round
  /\ pc' = [pc EXCEPT ![t] = "checked"]
  /\ request' = [request EXCEPT ![t] = [round |-> r, district |-> d, payload |-> p]]
  /\ UNCHANGED <<storeVars, memoryVars, snapshot, auxVars>>

(***************************************************************************)
(* "stale round": for the district's outbox this means the upload is       *)
(* already part of a committed round (src/ismcc/communication.py).         *)
(***************************************************************************)
ReceiveStale(t, r, d) ==
  /\ pc[t] = "idle"
  /\ r < round
  /\ Acknowledge(r, d)
  /\ UNCHANGED <<storeVars, memoryVars, threadVars, offered, served, calm, escaped, crashes>>

\* Section B when another thread committed the round since section A.
JournalStale(t) ==
  LET q == request[t] IN
  /\ pc[t] = "checked"
  /\ q.round < round
  /\ Finish(t)
  /\ Acknowledge(q.round, q.district)
  /\ UNCHANGED <<storeVars, memoryVars, offered, served, calm, escaped, crashes>>

Remember(q) ==
  /\ pending' = [pending EXCEPT ![q.round][q.district] = q.payload]
  /\ offered' = offered \cup {<<q.round, q.district, q.payload>>}

\* Mutant of Persist: an upload is kept in memory only.
PersistNothing(q) == UNCHANGED storePending

Persist(q) ==
  storePending' = [storePending EXCEPT ![q.round][q.district] = q.payload]

\* Mutants of Ready: no look at the mark; one district short; the count
\* taken before the upload is in.
ReadyUnmarked(q) ==
  Cardinality(Contributors(pending'[q.round])) >= ExpectedDistricts

ReadyEarly(q) ==
  /\ Cardinality(Contributors(pending'[q.round])) + 1 >= ExpectedDistricts
  /\ q.round \notin aggregating

ReadyLate(q) ==
  /\ Cardinality(Contributors(pending[q.round])) >= ExpectedDistricts
  /\ q.round \notin aggregating

\* Does the upload q complete the cohort of a round nobody is aggregating?
Ready(q) ==
  /\ Cardinality(Contributors(pending'[q.round])) >= ExpectedDistricts
  /\ q.round \notin aggregating

\* Section B, cohort incomplete or already being aggregated: "received".
Journal(t) ==
  LET q == request[t] IN
  /\ pc[t] = "checked"
  /\ q.round = round
  /\ Remember(q)
  /\ Persist(q)
  /\ ~Ready(q)
  /\ Finish(t)
  /\ Acknowledge(q.round, q.district)
  /\ UNCHANGED <<storeRound, storeHistory, storeBaseline, storeStable,
                 round, history, baseline, aggregating, stable,
                 served, calm, escaped, crashes>>

\* Section B, cohort complete: this thread takes the snapshot to aggregate.
JournalLast(t) ==
  LET q == request[t] IN
  /\ pc[t] = "checked"
  /\ q.round = round
  /\ Remember(q)
  /\ Persist(q)
  /\ Ready(q)
  /\ aggregating' = aggregating \cup {q.round}
  /\ snapshot' = [snapshot EXCEPT ![t] = pending'[q.round]]
  /\ pc' = [pc EXCEPT ![t] = "aggregate"]
  /\ UNCHANGED <<storeRound, storeHistory, storeBaseline, storeStable,
                 round, history, baseline, stable, request,
                 acked, served, calm, escaped, crashes>>

\* Section B, append_pending raises: the upload stays in memory only.
JournalFails(t) ==
  LET q == request[t] IN
  /\ "journal" \in Faults
  /\ pc[t] = "checked"
  /\ q.round = round
  /\ Remember(q)
  /\ Finish(t)
  /\ UNCHANGED <<storeVars, round, history, baseline, aggregating, stable,
                 acked, served, calm, escaped, crashes>>

\* Mutant of Unmark: the round stays marked.
LeaveMarked(r) == aggregating' = aggregating

Unmark(r) == aggregating' = aggregating \ {r}

\* The uploads cannot be averaged: the round may be aggregated again.
AggregateFails(t) ==
  /\ "cohort" \in Faults
  /\ pc[t] = "aggregate"
  /\ Unmark(request[t].round)
  /\ Finish(t)
  /\ UNCHANGED <<storeVars, round, history, baseline, pending, stable, auxVars>>

(***************************************************************************)
(* Section C.  There is no model to add a delta to, or the candidate does  *)
(* not pass the schema, size and validator tests: refused, and the cohort  *)
(* stays pending.                                                          *)
(***************************************************************************)
Reject(t) ==
  /\ pc[t] = "aggregate"
  /\ request[t].round = round
  /\ ~baseline \/ "candidate" \in Faults
  /\ Unmark(request[t].round)
  /\ Finish(t)
  /\ UNCHANGED <<storeVars, round, history, baseline, pending, stable, auxVars>>

\* Section C, a test of the candidate raises before anything is assigned.
CandidateRaises(t) ==
  /\ "raise" \in Faults
  /\ pc[t] = "aggregate"
  /\ request[t].round = round
  /\ baseline
  /\ Escape("raise")
  /\ Finish(t)
  /\ UNCHANGED <<storeVars, memoryVars>>

\* Mutant of Monitored: a large drift does not start the count again.
MonitoredForgiving(isCalm) == IF isCalm THEN stable + 1 ELSE stable

\* ConvergenceMonitor.update, given whether the drift is below epsilon.
Monitored(isCalm) == IF isCalm THEN stable + 1 ELSE 0

\* Mutant of StoreRound: the model is written as it was before the round.
StoreOldModel(r) ==
  /\ storeRound' = r + 1
  /\ storeHistory' = history
  /\ storeStable' = stable'
  /\ storePending' = [storePending EXCEPT ![r] = Empty]

\* CityStateStore.commit_round: one transaction.
StoreRound(r) ==
  /\ storeRound' = r + 1
  /\ storeHistory' = history'
  /\ storeStable' = stable'
  /\ storePending' = [storePending EXCEPT ![r] = Empty]

\* Section C, the model moves and the round is committed: "aggregated".
Commit(t, isCalm) ==
  LET q == request[t] IN
  /\ pc[t] = "aggregate"
  /\ q.round = round
  /\ baseline
  /\ history' = Append(history, snapshot[t])
  /\ stable' = Monitored(isCalm)
  /\ calm' = Append(calm, isCalm)
  /\ StoreRound(q.round)
  /\ pending' = [pending EXCEPT ![q.round] = Empty]
  /\ Unmark(q.round)
  /\ round' = q.round + 1
  /\ Finish(t)
  /\ Acknowledge(q.round, q.district)
  /\ UNCHANGED <<storeBaseline, baseline, offered, served, escaped, crashes>>

(***************************************************************************)
(* Section C, commit_round raises.  The memory has already been changed,   *)
(* and the line that releases the round is never reached.                  *)
(***************************************************************************)
CommitFails(t, isCalm) ==
  LET q == request[t] IN
  /\ "commit" \in Faults
  /\ pc[t] = "aggregate"
  /\ q.round = round
  /\ baseline
  /\ history' = Append(history, snapshot[t])
  /\ stable' = Monitored(isCalm)
  /\ Escape("commit")
  /\ Finish(t)
  /\ UNCHANGED <<storeVars, round, baseline, pending, aggregating>>

-------------------------------------------------------------------------------
\* PollDistillation hands out the model under the name of the open round.
Checkpoint == [version |-> round, model |-> history, converged |-> stable >= Patience]

PollDistillation ==
  /\ baseline
  /\ served' = served \cup {Checkpoint}
  /\ UNCHANGED <<storeVars, memoryVars, threadVars, offered, acked, calm, escaped, crashes>>

(***************************************************************************)
(* The process dies and comes back: calls in progress are lost and the     *)
(* constructor rebuilds the memory from the database.  It loads the        *)
(* teacher, if it is given one, only when the database has no model.       *)
(* Nothing can happen while the process is down, so this is one step.      *)
(***************************************************************************)
Restart(teacher) ==
  /\ crashes < MaxCrashes
  /\ crashes' = crashes + 1
  /\ storeBaseline' = (storeBaseline \/ teacher)
  /\ baseline' = storeBaseline'
  /\ round' = storeRound
  /\ history' = storeHistory
  /\ pending' = storePending
  /\ aggregating' = {}
  /\ stable' = storeStable
  /\ pc' = [t \in Threads |-> "idle"]
  /\ request' = [t \in Threads |-> None]
  /\ snapshot' = [t \in Threads |-> Empty]
  /\ UNCHANGED <<storeRound, storeHistory, storePending, storeStable,
                 offered, acked, served, calm, escaped>>

Handle(t) ==
  \/ JournalStale(t)
  \/ Journal(t)
  \/ JournalLast(t)
  \/ JournalFails(t)
  \/ AggregateFails(t)
  \/ Reject(t)
  \/ CandidateRaises(t)
  \/ \E isCalm \in BOOLEAN : Commit(t, isCalm) \/ CommitFails(t, isCalm)

Next ==
  \/ \E t \in Threads, r \in Rounds, d \in Districts :
       \/ \E version \in Rounds, p \in Payloads : Receive(t, r, d, version, p)
       \/ ReceiveStale(t, r, d)
  \/ \E t \in Threads : Handle(t)
  \/ PollDistillation
  \/ \E teacher \in BOOLEAN : Restart(teacher)

Spec == Init /\ [][Next]_vars

(***************************************************************************)
(* A district sends the update of the open round until it learns of a      *)
(* success; gRPC's executor takes calls in the order they arrive, so a     *)
(* call that is repeated is eventually handled; a handler that runs        *)
(* finishes.                                                               *)
(***************************************************************************)
Resend(d) ==
  /\ <<round, d>> \notin acked
  /\ \E t \in Threads, p \in Payloads : Receive(t, round, d, round, p)

Proceed(t) ==
  \/ JournalStale(t)
  \/ Journal(t)
  \/ JournalLast(t)
  \/ \E isCalm \in BOOLEAN : Commit(t, isCalm)

Fairness ==
  /\ \A d \in Districts : SF_vars(Resend(d))
  /\ \A t \in Threads : WF_vars(Proceed(t))

FairSpec == Spec /\ Fairness

-------------------------------------------------------------------------------
(***************************************************************************)
(* Properties                                                              *)
(***************************************************************************)
TypeOK ==
  /\ storeRound \in Rounds
  /\ storeHistory \in Seq(Cohort)
  /\ storeBaseline \in BOOLEAN
  /\ storePending \in [Rounds -> Cohort]
  /\ storeStable \in Nat
  /\ round \in Rounds
  /\ history \in Seq(Cohort)
  /\ baseline \in BOOLEAN
  /\ pending \in [Rounds -> Cohort]
  /\ aggregating \subseteq Rounds
  /\ stable \in Nat
  /\ pc \in [Threads -> {"idle", "checked", "aggregate"}]
  /\ request \in [Threads -> Request \cup {None}]
  /\ \A t \in Threads : pc[t] # "idle" => request[t] \in Request
  /\ snapshot \in [Threads -> Cohort]
  /\ offered \subseteq Rounds \X Districts \X Payloads
  /\ acked \subseteq Rounds \X Districts
  /\ calm \in Seq(BOOLEAN)
  /\ escaped \subseteq Faults
  /\ crashes \in 0 .. MaxCrashes

(***************************************************************************)
(* At most one thread aggregates, it aggregates the open round, and the    *)
(* round is marked.  The branch "superseded" of section C and the branch   *)
(* "future round" of section B are dead code because of this, and the      *)
(* commit cannot lose its race against another thread.                     *)
(***************************************************************************)
SingleFlight ==
  \A t \in Threads : pc[t] = "aggregate" =>
    /\ request[t].round = round
    /\ round \in aggregating
    /\ \A u \in Threads \ {t} : pc[u] # "aggregate"

(***************************************************************************)
(* The other direction: a round that is marked is being worked on, unless  *)
(* an exception has left section C.  A mark without a worker keeps every   *)
(* later call from aggregating.                                            *)
(***************************************************************************)
MarkHasWorker ==
  escaped = {} => \A r \in aggregating : \E t \in Threads :
    pc[t] = "aggregate" /\ request[t].round = r

(***************************************************************************)
(* The servicer's durable state implements the ledger of rounds, through   *)
(* repeated calls, crashes and failed writes.                              *)
(***************************************************************************)
FullCohorts == {S \in SUBSET Districts : Cardinality(S) >= ExpectedDistricts}

Ledger == INSTANCE RoundLedger
            WITH Members <- Districts, Quorums <- FullCohorts,
                 history <- storeHistory

ImplementsLedger == Ledger!Spec

(***************************************************************************)
(* A district that saw success for a round has either a row in the journal *)
(* of the open round or a place in the cohort that closed it: no crash     *)
(* loses an upload that was accepted.                                      *)
(***************************************************************************)
AckedIsOwned ==
  \A a \in acked :
    IF a[1] < storeRound
    THEN storeHistory[a[1] + 1][a[2]] # None
    ELSE storePending[a[1]][a[2]] # None

(***************************************************************************)
(* "city-round-<r>" names one model: every poll that was answered with     *)
(* this version, before or after a crash, was given the same weights.      *)
(* Section A relies on it when it takes equal versions for equal bases.    *)
(***************************************************************************)
VersionNamesOneModel ==
  \A a, b \in served : a.version = b.version => a.model = b.model

(***************************************************************************)
(* The same for a process whose every commit_round has succeeded.          *)
(***************************************************************************)
CommittedVersionNamesOneModel == "commit" \notin escaped => VersionNamesOneModel

(***************************************************************************)
(* Convergence is announced only after Patience consecutive calm rounds,   *)
(* also when the process died between them; a commit that failed may have  *)
(* been counted.                                                           *)
(***************************************************************************)
ConvergenceIsEarned ==
  "commit" \notin escaped =>
    \A s \in served : s.converged =>
      /\ s.version >= Patience
      /\ \A r \in s.version - Patience + 1 .. s.version : calm[r]

(***************************************************************************)
(* Every round is committed in the end, if the process stops dying.        *)
(***************************************************************************)
RoundsComplete == baseline ~> (storeRound = MaxRound)

================================================================================
