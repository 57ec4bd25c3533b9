-------------------------------- MODULE District --------------------------------
(***************************************************************************)
(* The District tier, upload side: DistrictOrchestrator.SendGradient       *)
(* (src/tiers/district.py) over the SQLite journal PendingStore            *)
(* (src/tiers/pending_store.py).                                           *)
(*                                                                         *)
(* A handler thread looks at the round, appends the upload to the journal, *)
(* looks at the round again and, when the cohort is complete, aggregates   *)
(* under a lock.  Only the aggregation is under the lock: between two      *)
(* accesses to the journal any other thread may run, and each access is    *)
(* one transaction.  All of the state is in the journal, so a crash loses  *)
(* nothing but the calls in progress.                                      *)
(*                                                                         *)
(* The way of a summary up to the City is module DistrictUplink; here a    *)
(* flush hands over the oldest row of the outbox or does not.              *)
(***************************************************************************)
EXTENDS Integers, Sequences, FiniteSets

CONSTANTS
  Agents,             \* the building agents that may upload
  ExpectedAgents,     \* expected_agents
  Payloads,           \* contents of an upload
  None,               \* no upload, no request, no holder of the lock
  Threads,            \* the workers of the gRPC thread pool
  Byzantine,          \* f_byzantine
  MaxRound,           \* bound: the last round of a behaviour
  MaxCrashes,         \* bound: how often the process may die
  SparkMayFail        \* may the Spark job of an aggregation fail?

ASSUME DistrictAssumption ==
  /\ IsFiniteSet(Agents)
  /\ ExpectedAgents \in Nat \ {0}
  /\ None \notin Payloads
  /\ None \notin Threads
  /\ Byzantine \in Nat
  /\ MaxRound \in Nat
  /\ MaxCrashes \in Nat
  /\ SparkMayFail \in BOOLEAN

\* Deployment: the agents allowed to upload are the expected ones.
ExactMembership == Cardinality(Agents) = ExpectedAgents

VARIABLES
  storeRound,     \* round_state.current_round
  uploads,        \* pending_uploads: round -> agent -> payload or None
  completed,      \* completed_rounds: completed[r + 1] is the cohort of r
  outbox          \* pending_uplinks: the rounds whose summary must go up

VARIABLES
  lock,           \* the thread that holds self._aggr_lock, or None
  pc,             \* where each thread is in SendGradient
  request,        \* the call each thread serves
  count,          \* n_in_round, as append_upload returned it
  snapshot        \* the cohort a thread aggregates

\* What the agents know, and what the properties need to remember.
VARIABLES
  acked,          \* <<round, agent>> whose agent saw success
  offered,        \* <<round, agent, payload>> written to the journal
  delivered,      \* the rounds whose summary went up
  crashes         \* how often the process died

storeVars  == <<storeRound, uploads, completed, outbox>>
threadVars == <<pc, request, count, snapshot>>
auxVars    == <<acked, offered, delivered, crashes>>
vars       == <<storeVars, lock, threadVars, auxVars>>

Rounds  == 0 .. MaxRound
Cohort  == [Agents -> Payloads \cup {None}]
Request == [round : 0 .. MaxRound - 1, agent : Agents, payload : Payloads]

Empty == [a \in Agents |-> None]

Contributors(c) == {a \in Agents : c[a] # None}

Init ==
  /\ storeRound = 0
  /\ uploads = [r \in Rounds |-> Empty]
  /\ completed = <<>>
  /\ outbox = {}
  /\ lock = None
  /\ pc = [t \in Threads |-> "idle"]
  /\ request = [t \in Threads |-> None]
  /\ count = [t \in Threads |-> 0]
  /\ snapshot = [t \in Threads |-> Empty]
  /\ acked = {}
  /\ offered = {}
  /\ delivered = {}
  /\ crashes = 0

-------------------------------------------------------------------------------
Goto(t, label) == pc' = [pc EXCEPT ![t] = label]

Finish(t) ==
  /\ Goto(t, "idle")
  /\ request' = [request EXCEPT ![t] = None]
  /\ count' = [count EXCEPT ![t] = 0]
  /\ snapshot' = [snapshot EXCEPT ![t] = Empty]

\* An answer the agent counts as success; the network may lose it.
Acknowledge(r, a) ==
  \/ acked' = acked \cup {<<r, a>>}
  \/ acked' = acked

(***************************************************************************)
(* The first look at the round, for a request the checks let through; a    *)
(* request of a later round, an empty or a malformed one is refused and    *)
(* changes nothing.                                                        *)
(***************************************************************************)
Receive(t, r, a, p) ==
  /\ pc[t] = "idle"
  /\ r = storeRound /\ storeRound < MaxRound
  /\ Goto(t, "append")
  /\ request' = [request EXCEPT ![t] = [round |-> r, agent |-> a, payload |-> p]]
  /\ UNCHANGED <<storeVars, lock, count, snapshot, auxVars>>

\* "stale round" is success for the client (src/ismcc/communication.py).
ReceiveStale(t, r, a) ==
  /\ pc[t] = "idle"
  /\ r < storeRound
  /\ Acknowledge(r, a)
  /\ UNCHANGED <<storeVars, lock, threadVars, offered, delivered, crashes>>

\* Mutant of Counted: the rows counted before the write.
CountedBefore(r) == Cardinality(Contributors(uploads[r]))

\* append_upload counts the rows of the round in the writing transaction.
Counted(r) == Cardinality(Contributors(uploads'[r]))

\* PendingStore.append_upload: the last write of an agent wins.
AppendUpload(t) ==
  LET q == request[t] IN
  /\ pc[t] = "append"
  /\ uploads' = [uploads EXCEPT ![q.round][q.agent] = q.payload]
  /\ offered' = offered \cup {<<q.round, q.agent, q.payload>>}
  /\ count' = [count EXCEPT ![t] = Counted(q.round)]
  /\ Goto(t, "recheck")
  /\ UNCHANGED <<storeRound, completed, outbox, lock, request, snapshot,
                 acked, delivered, crashes>>

\* Mutant of Complete: one upload short.
CompleteEarly(t) == request[t].round = storeRound /\ count[t] + 1 >= ExpectedAgents

\* The second look: is this call to aggregate the round?
Complete(t) == request[t].round = storeRound /\ count[t] >= ExpectedAgents

\* "received".
Received(t) ==
  /\ pc[t] = "recheck"
  /\ ~Complete(t)
  /\ Finish(t)
  /\ Acknowledge(request[t].round, request[t].agent)
  /\ UNCHANGED <<storeVars, lock, offered, delivered, crashes>>

Contend(t) ==
  /\ pc[t] = "recheck"
  /\ Complete(t)
  /\ Goto(t, "lock")
  /\ UNCHANGED <<storeVars, lock, request, count, snapshot, auxVars>>

\* The lock is ours, but another thread closed the round: "superseded".
Superseded(t) ==
  /\ pc[t] = "lock"
  /\ lock = None
  /\ storeRound # request[t].round
  /\ Finish(t)
  /\ Acknowledge(request[t].round, request[t].agent)
  /\ UNCHANGED <<storeVars, lock, offered, delivered, crashes>>

\* Mutant of TakeSnapshot: no third look at the round under the lock.
TakeSnapshotUnchecked(t) ==
  /\ pc[t] = "lock"
  /\ lock = None
  /\ lock' = t
  /\ snapshot' = [snapshot EXCEPT ![t] = uploads[request[t].round]]
  /\ Goto(t, "aggregate")
  /\ UNCHANGED <<storeVars, request, count, auxVars>>

\* Take the lock and, as the round cannot close meanwhile, the snapshot.
TakeSnapshot(t) ==
  /\ pc[t] = "lock"
  /\ lock = None
  /\ storeRound = request[t].round
  /\ lock' = t
  /\ snapshot' = [snapshot EXCEPT ![t] = uploads[request[t].round]]
  /\ Goto(t, "aggregate")
  /\ UNCHANGED <<storeVars, request, count, auxVars>>

\* krum_scores refuses a cohort that is too small for f.
KrumRefuses(c) == Byzantine > 0 /\ Cardinality(Contributors(c)) < 2 * Byzantine + 3

(***************************************************************************)
(* run_spark_byzantine_round raises: the lock is released, the journal is  *)
(* as it was, and the agent sees an RPC error.                             *)
(***************************************************************************)
AggregationFails(t) ==
  /\ pc[t] = "aggregate"
  /\ SparkMayFail \/ KrumRefuses(snapshot[t])
  /\ lock' = None
  /\ Finish(t)
  /\ UNCHANGED <<storeVars, auxVars>>

\* Mutants of CloseRound: the round is not advanced; the outbox row is not part
\* of the transaction.
CloseRoundStays(r, c) ==
  /\ completed' = Append(completed, c)
  /\ uploads' = [uploads EXCEPT ![r] = Empty]
  /\ storeRound' = storeRound
  /\ outbox' = outbox \cup {r}

CloseRoundSilently(r, c) ==
  /\ completed' = Append(completed, c)
  /\ uploads' = [uploads EXCEPT ![r] = Empty]
  /\ storeRound' = storeRound + 1
  /\ outbox' = outbox

\* PendingStore.finalize_round: one transaction.
CloseRound(r, c) ==
  /\ completed' = Append(completed, c)
  /\ uploads' = [uploads EXCEPT ![r] = Empty]
  /\ storeRound' = storeRound + 1
  /\ outbox' = outbox \cup {r}

\* The round is closed, then the lock released.
Finalize(t) ==
  /\ pc[t] = "aggregate"
  /\ ~KrumRefuses(snapshot[t])
  /\ storeRound = request[t].round
  /\ CloseRound(request[t].round, snapshot[t])
  /\ lock' = None
  /\ Goto(t, "flush")
  /\ UNCHANGED <<request, count, snapshot, auxVars>>

\* _flush_uplink hands over the oldest row, or the City does not take it.
Flush ==
  \/ \E r \in outbox :
       /\ \A s \in outbox : r <= s
       /\ outbox' = outbox \ {r}
       /\ delivered' = delivered \cup {r}
  \/ UNCHANGED <<outbox, delivered>>

\* "aggregated".
Aggregated(t) ==
  /\ pc[t] = "flush"
  /\ Flush
  /\ Finish(t)
  /\ Acknowledge(request[t].round, request[t].agent)
  /\ UNCHANGED <<storeRound, uploads, completed, lock, offered, crashes>>

\* A poll flushes too; what it answers is part of DistrictUplink.
PollFlush ==
  /\ Flush
  /\ UNCHANGED <<storeRound, uploads, completed, lock, threadVars,
                 acked, offered, crashes>>

\* The process dies and comes back; recover() only reads.
Restart ==
  /\ crashes < MaxCrashes
  /\ crashes' = crashes + 1
  /\ lock' = None
  /\ pc' = [t \in Threads |-> "idle"]
  /\ request' = [t \in Threads |-> None]
  /\ count' = [t \in Threads |-> 0]
  /\ snapshot' = [t \in Threads |-> Empty]
  /\ UNCHANGED <<storeVars, acked, offered, delivered>>

Handle(t) ==
  \/ AppendUpload(t)
  \/ Received(t)
  \/ Contend(t)
  \/ Superseded(t)
  \/ TakeSnapshot(t)
  \/ AggregationFails(t)
  \/ Finalize(t)
  \/ Aggregated(t)

Next ==
  \/ \E t \in Threads, r \in Rounds, a \in Agents :
       \/ \E p \in Payloads : Receive(t, r, a, p)
       \/ ReceiveStale(t, r, a)
  \/ \E t \in Threads : Handle(t)
  \/ PollFlush
  \/ Restart

Spec == Init /\ [][Next]_vars

(***************************************************************************)
(* An agent sends its update of the open round at every federation tick    *)
(* until it sees success; gRPC's executor takes calls in the order they    *)
(* arrive; a handler that can run does; a Spark job that may succeed does, *)
(* if it is run again and again.                                           *)
(***************************************************************************)
Resend(a) ==
  /\ <<storeRound, a>> \notin acked
  /\ \E t \in Threads, p \in Payloads : Receive(t, storeRound, a, p)

Fairness ==
  /\ \A a \in Agents : SF_vars(Resend(a))
  /\ \A t \in Threads : WF_vars(Handle(t))
  /\ SF_vars(\E t \in Threads : Finalize(t))

FairSpec == Spec /\ Fairness

-------------------------------------------------------------------------------
(***************************************************************************)
(* Properties                                                              *)
(***************************************************************************)
TypeOK ==
  /\ storeRound \in Rounds
  /\ uploads \in [Rounds -> Cohort]
  /\ completed \in Seq(Cohort) /\ storeRound = Len(completed)
  /\ outbox \subseteq Rounds
  /\ lock \in Threads \cup {None}
  /\ pc \in [Threads -> {"idle", "append", "recheck", "lock", "aggregate", "flush"}]
  /\ request \in [Threads -> Request \cup {None}]
  /\ \A t \in Threads : pc[t] # "idle" => request[t] \in Request
  /\ count \in [Threads -> Nat]
  /\ snapshot \in [Threads -> Cohort]
  /\ acked \subseteq Rounds \X Agents
  /\ offered \subseteq Rounds \X Agents \X Payloads
  /\ delivered \subseteq Rounds
  /\ crashes \in 0 .. MaxCrashes

(***************************************************************************)
(* Exactly the thread that holds the lock aggregates, and the round it     *)
(* aggregates is still the open one when finalize_round compares them: the *)
(* "lost a race" error of the journal cannot happen in one process, and no *)
(* exception leaves the lock behind.                                       *)
(***************************************************************************)
LockedRound ==
  /\ \A t \in Threads : pc[t] = "aggregate" =>
       lock = t /\ storeRound = request[t].round
  /\ lock # None => pc[lock] = "aggregate"

(***************************************************************************)
(* The snapshot is never short: the "last-minute uploads" branch of        *)
(* SendGradient is dead code, since rows leave the open round only when it *)
(* closes.                                                                 *)
(***************************************************************************)
SnapshotIsFull ==
  \A t \in Threads : pc[t] = "aggregate" =>
    Cardinality(Contributors(snapshot[t])) >= ExpectedAgents

\* The journal implements the ledger of rounds.
FullCohorts == {S \in SUBSET Agents : Cardinality(S) >= ExpectedAgents}

Ledger == INSTANCE RoundLedger
            WITH Members <- Agents, Quorums <- FullCohorts,
                 history <- completed

(***************************************************************************)
(* The District's durable state implements the ledger of rounds, through   *)
(* repeated calls, failing aggregations and crashes.                       *)
(***************************************************************************)
ImplementsLedger == Ledger!Spec

(***************************************************************************)
(* "Receipt means the District durably owns this round's update": an agent *)
(* that saw success has a row in the journal of the open round or a place  *)
(* in the cohort that closed it.                                           *)
(***************************************************************************)
AckedIsOwned ==
  \A a \in acked :
    IF a[1] < storeRound
    THEN completed[a[1] + 1][a[2]] # None
    ELSE uploads[a[1]][a[2]] # None

(***************************************************************************)
(* A round whose cohort is complete is still owed an answer: some agent    *)
(* with a row in it has not seen success, so it will call again, and that  *)
(* call aggregates.  Without this, a failed aggregation or a crash after   *)
(* the last upload would leave a full round that nobody ever closes.       *)
(***************************************************************************)
FullRoundIsOwed ==
  Cardinality(Contributors(uploads[storeRound])) >= ExpectedAgents =>
    \E a \in Contributors(uploads[storeRound]) : <<storeRound, a>> \notin acked

(***************************************************************************)
(* Every closed round has its summary in the outbox or handed over, never  *)
(* both, and summaries go up in the order of the rounds.                   *)
(***************************************************************************)
SummariesInOrder ==
  /\ outbox \cup delivered = 0 .. storeRound - 1
  /\ \A r \in delivered, s \in outbox : r < s

\* Every round closes in the end, if the process stops dying.
RoundsComplete == <>(storeRound = MaxRound)

================================================================================
