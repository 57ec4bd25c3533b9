----------------------------- MODULE AgentProofs -----------------------------
(***************************************************************************)
(* Theorems of module Agent: the privacy budget, the order of advice, what *)
(* the memories hold, what the model is trained on and what a decision     *)
(* sheds, for buffers, files, intervals and budgets of any size, any       *)
(* readings and forecasts, and any number of launches.                     *)
(***************************************************************************)
EXTENDS Agent, SequenceTheorems, FiniteSetTheorems, WellFoundedInduction, TLAPS

-------------------------------------------------------------------------------
(***************************************************************************)
(* The budget.  An event that is recorded is one ahead of the file, an     *)
(* upload that may go is in the file and has not been counted.             *)
(***************************************************************************)
BudgetInv ==
  /\ events \in Nat /\ accounted \in Nat /\ released \in Nat
  /\ released <= accounted /\ accounted <= Budget
  /\ pc = "recorded" => events = accounted + 1 /\ events <= Budget
  /\ pc = "saved" => released < accounted
  /\ pc \notin {"off", "recorded"} => events = accounted

LEMMA BudgetStart == Init => BudgetInv
BY AgentAssumption DEF Init, BudgetInv

LEMMA BudgetStep == BudgetInv /\ [Next]_vars => BudgetInv'
<1> SUFFICES ASSUME BudgetInv, [Next]_vars
             PROVE  BudgetInv'
  OBVIOUS
<1> USE AgentAssumption DEF BudgetInv
<1>1. CASE Launch
  BY <1>1 DEF Launch, diskVars
<1>2. CASE NoUpload
  BY <1>2 DEF NoUpload, diskVars, ghostVars
<1>3. CASE Record
  BY <1>3 DEF Record, diskVars, ghostVars
<1>4. CASE Blocked
  BY <1>4 DEF Blocked, diskVars, ghostVars
<1>5. CASE Save
  BY <1>5 DEF Save, ghostVars
<1>6. CASE Release
  BY <1>6 DEF Release, MaySend, diskVars
<1>7. CASE Sense
  BY <1>7 DEF Sense, ghostVars
<1>8. ASSUME NEW next, NEW scheduled, NEW drifting, NEW solver,
             Act(next, scheduled, drifting, solver)
      PROVE  BudgetInv'
  BY <1>8 DEF Act
<1>9. ASSUME NEW outcome, WorkerEnds(outcome)
      PROVE  BudgetInv'
  BY <1>9 DEF WorkerEnds, diskVars, ghostVars
<1>10. CASE Stop
  BY <1>10 DEF Stop, diskVars
<1>11. CASE UNCHANGED vars
  BY <1>11 DEF vars, diskVars, ghostVars
<1>12. QED
  BY <1>1, <1>2, <1>3, <1>4, <1>5, <1>6, <1>7, <1>8, <1>9, <1>10, <1>11 DEF Next

(***************************************************************************)
(* Every noisy upload that has left the agent is in the accountant's file, *)
(* and they are within the budget, however often the agent dies between    *)
(* recording, saving and sending (upload_delta, communication.py).         *)
(***************************************************************************)
THEOREM BudgetIsKept == Spec => []BudgetHolds
<1>1. BudgetInv => BudgetHolds
  BY DEF BudgetInv, BudgetHolds
<1>2. QED
  BY <1>1, BudgetStart, BudgetStep, PTL DEF Spec

-------------------------------------------------------------------------------
(***************************************************************************)
(* Advice.  What is handed out is older than the job, and the job older    *)
(* than the tick to come.                                                  *)
(***************************************************************************)
Jobs == [for : Nat, is : {"running", "done", "raised"}]

AdviceInv ==
  /\ tick \in Nat
  /\ handed \in Seq(Nat)
  /\ job # None => job \in Jobs
  /\ job # None => job.for <= tick /\ job.for % RecommendEvery = 0
  /\ \A i \in DOMAIN handed : handed[i] % RecommendEvery = 0 /\ handed[i] < tick
  /\ \A i, j \in DOMAIN handed : i < j => handed[i] < handed[j]
  /\ job # None => \A i \in DOMAIN handed : handed[i] < job.for

LEMMA AdviceStart == Init => AdviceInv
BY DEF Init, AdviceInv

\* A job of the recommender's thread keeps what it is for.
LEMMA OutcomeOfJob ==
  ASSUME NEW j \in Jobs, NEW o \in {"done", "raised"}
  PROVE  [j EXCEPT !.is = o] \in Jobs /\ [j EXCEPT !.is = o].for = j.for
BY DEF Jobs

\* What a tick hands out is appended; nothing else changes the list.
LEMMA HandedGrows ==
  ASSUME AdviceInv, NEW next, NEW scheduled, NEW drifting, NEW solver,
         Act(next, scheduled, drifting, solver)
  PROVE  /\ handed' \in Seq(Nat)
         /\ \A i \in DOMAIN handed' : handed'[i] % RecommendEvery = 0 /\ handed'[i] < tick'
         /\ \A i, j \in DOMAIN handed' : i < j => handed'[i] < handed'[j]
         /\ \A i \in DOMAIN handed' : handed'[i] <= tick
         /\ Collected # None => \A i \in DOMAIN handed' : handed'[i] < job.for
<1>1. tick' = tick + 1 /\ tick \in Nat
  BY DEF Act, AdviceInv
<1>2. CASE job # None /\ job.is = "done"
  <2>1. handed' = Append(handed, job.for) /\ Collected = None
    BY <1>2 DEF Act, Collected
  <2>2. /\ handed \in Seq(Nat) /\ job.for \in Nat
        /\ handed' \in Seq(Nat) /\ DOMAIN handed' = 1 .. Len(handed) + 1
        /\ handed'[Len(handed) + 1] = job.for
        /\ \A i \in DOMAIN handed : handed'[i] = handed[i]
        /\ DOMAIN handed = 1 .. Len(handed) /\ Len(handed) \in Nat
    <3>1. handed \in Seq(Nat) /\ job.for \in Nat
      BY <1>2 DEF AdviceInv, Jobs
    <3>2. QED
      BY <2>1, <3>1
  <2>3. /\ job.for <= tick /\ job.for % RecommendEvery = 0
        /\ \A i \in DOMAIN handed : handed[i] < job.for
        /\ \A i \in DOMAIN handed : handed[i] % RecommendEvery = 0 /\ handed[i] < tick
        /\ \A i, j \in DOMAIN handed : i < j => handed[i] < handed[j]
    BY <1>2 DEF AdviceInv
  <2>4. \A i \in DOMAIN handed' : i \in DOMAIN handed \/ i = Len(handed) + 1
    BY <2>2
  <2>5. \A i \in DOMAIN handed : handed[i] \in Nat
    BY <2>2
  <2>6. \A i \in DOMAIN handed' : handed'[i] % RecommendEvery = 0 /\ handed'[i] <= tick
    BY <1>1, <2>2, <2>3, <2>4, <2>5
  <2>7. \A i, j \in DOMAIN handed' : i < j => handed'[i] < handed'[j]
    <3> SUFFICES ASSUME NEW i \in DOMAIN handed', NEW j \in DOMAIN handed', i < j
                 PROVE  handed'[i] < handed'[j]
      OBVIOUS
    <3>1. i \in DOMAIN handed
      BY <2>2
    <3>2. QED
      BY <2>2, <2>3, <2>4, <3>1
  <2>8. \A i \in DOMAIN handed' : handed'[i] \in Nat
    BY <2>2
  <2>9. QED
    BY <1>1, <2>1, <2>2, <2>6, <2>7, <2>8
<1>3. CASE ~(job # None /\ job.is = "done")
  <2>1. handed' = handed
    BY <1>3 DEF Act
  <2>2. Collected # None => job # None
    BY DEF Collected
  <2>3. \A i \in DOMAIN handed : handed[i] \in Nat
    BY DEF AdviceInv
  <2>4. QED
    BY <1>1, <2>1, <2>2, <2>3 DEF AdviceInv
<1>4. QED
  BY <1>2, <1>3

LEMMA AdviceStep == AdviceInv /\ [Next]_vars => AdviceInv'
<1> SUFFICES ASSUME AdviceInv, [Next]_vars
             PROVE  AdviceInv'
  OBVIOUS
<1>1. ASSUME UNCHANGED <<tick, handed, job>>
      PROVE  AdviceInv'
  BY <1>1 DEF AdviceInv
<1>2. CASE Launch \/ NoUpload \/ Record \/ Blocked \/ Save \/ Release \/ Sense \/ UNCHANGED vars
  BY <1>1, <1>2 DEF Launch, NoUpload, Record, Blocked, Save, Release, Sense, vars, ghostVars
<1>3. ASSUME NEW next, NEW scheduled, NEW drifting, NEW solver,
             Act(next, scheduled, drifting, solver)
      PROVE  AdviceInv'
  <2>1. tick' = tick + 1 /\ tick \in Nat
    BY <1>3 DEF Act, AdviceInv
  <2>2. \/ job' = [for |-> tick + 1, is |-> "running"] /\ (tick + 1) % RecommendEvery = 0
        \/ job' = Collected
    BY <1>3 DEF Act
  <2>3. CASE job' = [for |-> tick + 1, is |-> "running"] /\ (tick + 1) % RecommendEvery = 0
    <3>1. /\ [for |-> tick + 1, is |-> "running"] \in Jobs
          /\ [for |-> tick + 1, is |-> "running"].for = tick + 1
      BY <2>1 DEF Jobs
    <3>2. job' \in Jobs /\ job'.for = tick + 1
      BY <2>3, <3>1, Zenon
    <3>3. \A i \in DOMAIN handed' : handed'[i] < job'.for
      <4>1. \A i \in DOMAIN handed' : handed'[i] \in Nat /\ handed'[i] <= tick
        BY HandedGrows, <1>3
      <4>2. QED
        BY <2>1, <3>2, <4>1
    <3>4. QED
      BY HandedGrows, <1>3, <2>1, <2>3, <3>2, <3>3 DEF AdviceInv
  <2>4. CASE job' = Collected
    <3>1. job' # None => job' = job /\ job # None
      BY <2>4 DEF Collected
    <3>2. job' # None => job' \in Jobs /\ job'.for <= tick' /\ job'.for % RecommendEvery = 0
      <4>1. job # None => job \in Jobs /\ job.for \in Nat /\ job.for <= tick
        BY DEF AdviceInv, Jobs
      <4>2. job # None => job.for <= tick' /\ job.for % RecommendEvery = 0
        BY <2>1, <4>1 DEF AdviceInv
      <4>3. QED
        BY <3>1, <4>1, <4>2, Zenon
    <3>3. job' # None => \A i \in DOMAIN handed' : handed'[i] < job'.for
      BY HandedGrows, <1>3, <2>4, <3>1
    <3>4. QED
      BY HandedGrows, <1>3, <2>1, <3>2, <3>3 DEF AdviceInv
  <2>5. QED
    BY <2>2, <2>3, <2>4
<1>4. ASSUME NEW outcome \in {"done", "raised"}, WorkerEnds(outcome)
      PROVE  AdviceInv'
  <2>1. job # None /\ job' = [job EXCEPT !.is = outcome] /\ UNCHANGED <<tick, handed>>
    BY <1>4 DEF WorkerEnds, ghostVars
  <2>2. job \in Jobs
    BY <2>1 DEF AdviceInv
  <2>3. job' \in Jobs /\ job'.for = job.for
    BY <2>1, <2>2, OutcomeOfJob, Zenon
  <2>4. QED
    BY <2>1, <2>3 DEF AdviceInv
<1>5. CASE Stop
  BY <1>5 DEF Stop, AdviceInv
<1>6. QED
  BY <1>2, <1>3, <1>4, <1>5 DEF Next

(***************************************************************************)
(* Advice is handed out once, in the order it was asked for, and by a      *)
(* later tick than it is about, whenever the recommender's thread ends     *)
(* (AgentCore.tick, agent_core.py).                                        *)
(***************************************************************************)
THEOREM AdviceComesInTurn == Spec => []AdviceInTurn
<1>1. AdviceInv => AdviceInTurn
  BY DEF AdviceInv, AdviceInTurn
<1>2. QED
  BY <1>1, AdviceStart, AdviceStep, PTL DEF Spec

-------------------------------------------------------------------------------
(***************************************************************************)
(* Lemmas about runs of readings and deques.                               *)
(***************************************************************************)
LEMMA RunIs ==
  ASSUME NEW n \in Nat, NEW last \in Int
  PROVE  /\ Run(n, last) \in Seq(Int) /\ Len(Run(n, last)) = n
         /\ \A i \in 1 .. n : Run(n, last)[i] = last - n + i
<1> DEFINE r == Run(n, last)
<1>1. r \in [1 .. n -> Int]
  BY DEF Run
<1>2. r \in Seq(Int)
  BY <1>1, SeqDef
<1>3. Len(r) \in Nat /\ 1 .. Len(r) = 1 .. n
  BY <1>1, <1>2, LenProperties
<1>4. Len(r) = n
  <2>1. n \in 1 .. n \/ n = 0
    OBVIOUS
  <2>2. Len(r) \in 1 .. Len(r) \/ Len(r) = 0
    BY <1>3
  <2> QED
    BY <1>3, <2>1, <2>2
<1> QED
  BY <1>2, <1>4 DEF Run

LEMMA RunGrows ==
  ASSUME NEW n \in Nat, NEW last \in Int
  PROVE  Append(Run(n, last), last + 1) = Run(n + 1, last + 1)
<1> DEFINE s == Append(Run(n, last), last + 1)
           t == Run(n + 1, last + 1)
<1>1. /\ Run(n, last) \in Seq(Int) /\ Len(Run(n, last)) = n
      /\ \A i \in 1 .. n : Run(n, last)[i] = last - n + i
  BY RunIs
<1>2. /\ s \in Seq(Int) /\ Len(s) = n + 1
      /\ \A i \in 1 .. n : s[i] = last - n + i
      /\ s[n + 1] = last + 1
  BY <1>1, AppendProperties
<1>3. n + 1 \in Nat /\ last + 1 \in Int
  OBVIOUS
<1>4. /\ t \in Seq(Int) /\ Len(t) = n + 1
      /\ \A i \in 1 .. n + 1 : t[i] = (last + 1) - (n + 1) + i
  BY <1>3, RunIs
<1>5. \A i \in 1 .. n + 1 : s[i] = t[i]
  <2> SUFFICES ASSUME NEW i \in 1 .. n + 1 PROVE s[i] = t[i]
    OBVIOUS
  <2>1. CASE i \in 1 .. n
    BY <1>2, <1>4, <2>1
  <2>2. CASE i = n + 1
    BY <1>2, <1>4, <2>2
  <2>3. i \in 1 .. n \/ i = n + 1
    OBVIOUS
  <2> QED
    BY <2>1, <2>2, <2>3
<1> HIDE DEF s, t
<1>6. s = t
  BY <1>2, <1>4, <1>5, SeqEqual
<1> QED
  BY <1>6 DEF s, t

LEMMA RunPart ==
  ASSUME NEW n \in Nat, NEW last \in Int, NEW from \in 1 .. n + 1, NEW to \in from - 1 .. n
  PROVE  SubSeq(Run(n, last), from, to) = Run(to - from + 1, last - n + to)
<1> DEFINE s == SubSeq(Run(n, last), from, to)
           t == Run(to - from + 1, last - n + to)
<1>1. /\ Run(n, last) \in Seq(Int) /\ Len(Run(n, last)) = n
      /\ \A i \in 1 .. n : Run(n, last)[i] = last - n + i
  BY RunIs
<1>2. \A i \in from .. to : Run(n, last)[i] \in Int
  BY <1>1
<1>3. /\ s \in Seq(Int) /\ Len(s) = to - from + 1
      /\ \A i \in 1 .. to - from + 1 : s[i] = Run(n, last)[from + i - 1]
  BY <1>2, SubSeqProperties
<1>4. to - from + 1 \in Nat /\ last - n + to \in Int
  OBVIOUS
<1>5. /\ t \in Seq(Int) /\ Len(t) = to - from + 1
      /\ \A i \in 1 .. to - from + 1 : t[i] = (last - n + to) - (to - from + 1) + i
  BY <1>4, RunIs
<1>6. \A i \in 1 .. to - from + 1 : s[i] = t[i]
  BY <1>1, <1>3, <1>5
<1> HIDE DEF s, t
<1>7. s = t
  BY <1>3, <1>5, <1>6, SeqEqual
<1> QED
  BY <1>7 DEF s, t

\* The newest of a run are a run.
LEMMA RunLatest ==
  ASSUME NEW n \in Nat, NEW last \in Int, NEW k \in 0 .. n
  PROVE  Latest(Run(n, last), k) = Run(k, last)
<1>1. Len(Run(n, last)) = n
  BY RunIs
<1>2. n - k + 1 \in 1 .. n + 1 /\ n \in (n - k + 1) - 1 .. n
      /\ n - (n - k + 1) + 1 = k /\ last - n + n = last
  OBVIOUS
<1>3. SubSeq(Run(n, last), n - k + 1, n) = Run(n - (n - k + 1) + 1, last - n + n)
  BY <1>2, RunPart
<1> QED
  BY <1>1, <1>2, <1>3 DEF Latest

LEMMA RunFront ==
  ASSUME NEW n \in Nat, NEW last \in Int
  PROVE  Front(Run(n + 1, last)) = Run(n, last - 1)
<1>1. n + 1 \in Nat /\ 1 \in 1 .. (n + 1) + 1 /\ n \in 1 - 1 .. n + 1
      /\ n - 1 + 1 = n /\ last - (n + 1) + n = last - 1 /\ (n + 1) - 1 = n
  OBVIOUS
<1>2. Len(Run(n + 1, last)) = n + 1
  BY <1>1, RunIs
<1>3. SubSeq(Run(n + 1, last), 1, n) = Run(n - 1 + 1, last - (n + 1) + n)
  BY <1>1, RunPart
<1> QED
  BY <1>1, <1>2, <1>3 DEF Front

\* A deque of c readings that has seen m of them.
LEMMA PushRun ==
  ASSUME NEW m \in Nat, NEW c \in Nat \ {0}
  PROVE  Push(Run(Least(m, c), m), m + 1, c) = Run(Least(m + 1, c), m + 1)
<1> DEFINE n == Least(m, c)
<1>1. n \in Nat /\ n <= c /\ (n = m \/ n = c) /\ n <= m
  BY DEF Least
<1>2. Len(Run(n, m)) = n /\ Append(Run(n, m), m + 1) = Run(n + 1, m + 1)
  <2> HIDE DEF n
  <2>1. m \in Int
    OBVIOUS
  <2> QED
    BY <1>1, <2>1, RunIs, RunGrows
<1>3. CASE n < c
  <2>1. Least(m + 1, c) = n + 1
    BY <1>1, <1>3 DEF Least
  <2> QED
    BY <1>2, <1>3, <2>1 DEF Push
<1>4. CASE n = c
  <2>1. Least(m + 1, c) = c
    BY <1>1, <1>4 DEF Least
  <2>2. c + 1 \in Nat /\ c \in 0 .. c + 1 /\ m + 1 \in Int
    OBVIOUS
  <2>3. Latest(Run(c + 1, m + 1), c) = Run(c, m + 1)
    BY <2>2, RunLatest
  <2>4. ~(Len(Run(n, m)) < c)
    BY <1>2, <1>4
  <2>5. Push(Run(n, m), m + 1, c) = Latest(Append(Run(n, m), m + 1), c)
    BY <2>4 DEF Push
  <2> QED
    BY <1>2, <1>4, <2>1, <2>3, <2>5
<1> QED
  BY <1>1, <1>3, <1>4

-------------------------------------------------------------------------------
(***************************************************************************)
(* The short-term memory holds the newest readings, and the last forecast  *)
(* was made from those up to the last tick.                                *)
(***************************************************************************)
Places == {"off", "idle", "recorded", "saved", "sense", "act"}

Ticks ==
  /\ tick \in Nat /\ pc \in Places
  /\ pc = "off" => tick = 0
  /\ tick <= MaxTicks /\ (pc \in Places \ {"off", "idle"} => tick < MaxTicks)

StmInv == Ticks /\ stm = Run(Least(Newest, StmCapacity), Newest)

WindowInv ==
  /\ StmInv
  /\ forecastFrom # None => SeqLen <= tick /\ forecastFrom = Run(SeqLen, tick)

LEMMA EmptyRun == \A last \in Int : Run(0, last) = <<>>
<1> TAKE last \in Int
<1>1. Run(0, last) \in Seq(Int) /\ Len(Run(0, last)) = 0
  BY RunIs
<1> QED
  BY <1>1, EmptySeq, SeqEqual

LEMMA NewestType == Ticks => Newest \in Nat
  BY DEF Ticks, Newest

\* Of what is not a reading, a forecast or an end, only the place moves.
LEMMA TicksStep ==
  ASSUME Ticks, [Next]_vars
  PROVE  Ticks'
<1> USE AgentAssumption DEF Ticks, Places
<1>1. CASE Launch \/ NoUpload \/ Record \/ Blocked \/ Save \/ Release \/ Sense \/ Stop
  BY <1>1 DEF Launch, NoUpload, Record, Blocked, Save, Release, MaySend, Sense, Stop
<1>2. ASSUME NEW next, NEW scheduled, NEW drifting, NEW solver,
             Act(next, scheduled, drifting, solver)
      PROVE  Ticks'
  BY <1>2 DEF Act
<1>3. ASSUME NEW outcome, WorkerEnds(outcome)
      PROVE  Ticks'
  BY <1>3 DEF WorkerEnds
<1>4. CASE UNCHANGED vars
  BY <1>4 DEF vars
<1> QED
  BY <1>1, <1>2, <1>3, <1>4 DEF Next

LEMMA NewestStep ==
  ASSUME Ticks, [Next]_vars
  PROVE  /\ Sense => Newest' = Newest + 1 /\ Newest = tick
         /\ Stop => Newest' = 0
         /\ ~Sense /\ ~Stop => Newest' = Newest
<1> USE DEF Ticks, Places, Newest
<1>1. Sense => Newest' = Newest + 1 /\ Newest = tick
  BY DEF Sense
<1>2. Stop => Newest' = 0
  BY DEF Stop
<1>3. CASE Launch \/ NoUpload \/ Record \/ Blocked \/ Save \/ Release
  BY <1>1, <1>2, <1>3 DEF Launch, NoUpload, Record, Blocked, Save, Release, MaySend
<1>4. ASSUME NEW next, NEW scheduled, NEW drifting, NEW solver,
             Act(next, scheduled, drifting, solver)
      PROVE  Newest' = Newest
  BY <1>4 DEF Act
<1>5. ASSUME NEW outcome, WorkerEnds(outcome)
      PROVE  Newest' = Newest
  BY <1>5 DEF WorkerEnds
<1>6. CASE UNCHANGED vars
  BY <1>1, <1>2, <1>6 DEF vars
<1> QED
  BY <1>1, <1>2, <1>3, <1>4, <1>5, <1>6 DEF Next

LEMMA StmStep == StmInv /\ [Next]_vars => StmInv'
<1> SUFFICES ASSUME StmInv, [Next]_vars
             PROVE  stm' = Run(Least(Newest', StmCapacity), Newest')
  BY TicksStep DEF StmInv
<1>1. Ticks /\ Newest \in Nat /\ stm = Run(Least(Newest, StmCapacity), Newest)
  BY NewestType DEF StmInv
<1>2. StmCapacity \in Nat \ {0}
  BY AgentAssumption
<1>3. CASE Sense
  <2>1. stm' = Push(stm, Newest + 1, StmCapacity) /\ Newest' = Newest + 1
    BY <1>1, <1>3, NewestStep DEF Sense
  <2> QED
    BY <1>1, <1>2, <2>1, PushRun
<1>4. CASE Stop
  <2>1. stm' = <<>> /\ Newest' = 0 /\ Least(0, StmCapacity) = 0
    BY <1>1, <1>2, <1>4, NewestStep DEF Stop, Least
  <2> QED
    BY <2>1, EmptyRun
<1>5. CASE ~Sense /\ ~Stop
  <2>1. stm' = stm
    BY <1>5 DEF Next, Launch, NoUpload, Record, Blocked, Save, Release, Act, WorkerEnds,
       coreVars, vars
  <2> QED
    BY <1>1, <1>5, <2>1, NewestStep
<1> QED
  BY <1>3, <1>4, <1>5

\* What the tick has for a window, once there are enough readings.
LEMMA Windows ==
  ASSUME StmInv, pc = "act"
  PROVE  /\ Len(stm) >= SeqLen => SeqLen <= tick + 1 /\ ForecastWindow = Run(SeqLen, tick + 1)
         /\ SeqLen <= tick => /\ Len(stm) > SeqLen
                              /\ TrainWindow = Run(SeqLen + 1, tick + 1)
<1> DEFINE n == Least(tick + 1, StmCapacity)
<1>1. tick \in Nat /\ Newest = tick + 1 /\ tick + 1 \in Nat
  BY DEF StmInv, Ticks, Newest
<1>2. StmCapacity \in Nat /\ SeqLen \in Nat /\ StmCapacity > SeqLen
  BY AgentAssumption
<1>3. n \in Nat /\ n <= tick + 1 /\ (n = tick + 1 \/ n = StmCapacity)
  BY <1>1, <1>2 DEF Least
<1>4. stm = Run(n, tick + 1) /\ Len(stm) = n
  BY <1>1, <1>3, RunIs DEF StmInv
<1>5. ASSUME n >= SeqLen
      PROVE  SeqLen <= tick + 1 /\ ForecastWindow = Run(SeqLen, tick + 1)
  <2>1. SeqLen \in 0 .. n
    BY <1>2, <1>3, <1>5
  <2> QED
    BY <1>1, <1>3, <1>4, <2>1, RunLatest DEF ForecastWindow
<1>6. ASSUME SeqLen <= tick
      PROVE  n > SeqLen /\ TrainWindow = Run(SeqLen + 1, tick + 1)
  <2>1. n > SeqLen /\ SeqLen + 1 \in 0 .. n
    BY <1>1, <1>2, <1>3, <1>6
  <2> QED
    BY <1>1, <1>3, <1>4, <2>1, RunLatest DEF TrainWindow
<1> QED
  BY <1>4, <1>5, <1>6

LEMMA WindowStart == Init => WindowInv
<1> SUFFICES ASSUME Init PROVE WindowInv
  OBVIOUS
<1>1. Ticks /\ Newest = 0
  BY AgentAssumption DEF Init, Ticks, Places, Newest
<1>2. Least(0, StmCapacity) = 0
  BY AgentAssumption DEF Least
<1> QED
  BY <1>1, <1>2, EmptyRun DEF Init, WindowInv, StmInv

LEMMA WindowStep == WindowInv /\ [Next]_vars => WindowInv'
<1> SUFFICES ASSUME WindowInv, [Next]_vars, forecastFrom' # None
             PROVE  SeqLen <= tick' /\ forecastFrom' = Run(SeqLen, tick')
  BY StmStep DEF WindowInv
<1>1. ASSUME NEW next, NEW scheduled, NEW drifting, NEW solver,
             Act(next, scheduled, drifting, solver)
      PROVE  SeqLen <= tick' /\ forecastFrom' = Run(SeqLen, tick')
  <2>1. /\ pc = "act" /\ tick' = tick + 1
        /\ forecastFrom' = IF Len(stm) >= SeqLen THEN ForecastWindow ELSE None
    BY <1>1 DEF Act
  <2> QED
    BY <2>1, Windows DEF WindowInv
<1>2. CASE Stop
  BY <1>2 DEF Stop
<1>3. CASE UNCHANGED <<forecastFrom, tick>>
  BY <1>3 DEF WindowInv
<1>4. CASE Launch \/ NoUpload \/ Record \/ Blocked \/ Save \/ Release \/ Sense
           \/ (\E outcome \in {"done", "raised"} : WorkerEnds(outcome)) \/ UNCHANGED vars
  BY <1>3, <1>4 DEF Launch, NoUpload, Record, Blocked, Save, Release, Sense, WorkerEnds,
     coreVars, vars
<1> QED
  BY <1>1, <1>2, <1>4 DEF Next

(***************************************************************************)
(* The input of a training step is the window of the forecast one tick     *)
(* ago, its target the reading that came then: for any seq_len that fits   *)
(* in the memory (ComputationModule.train_step and forecast).              *)
(***************************************************************************)
THEOREM TrainsOnForecast == Spec => TrainsWhatItForecast
<1>1. WindowInv /\ [Next]_vars
        => [tick' = tick + 1 /\ forecastFrom # None =>
              trainedOn' = [input |-> forecastFrom, target |-> tick']]_vars
  <2> SUFFICES ASSUME WindowInv, [Next]_vars, tick' = tick + 1, forecastFrom # None, ~UNCHANGED vars
               PROVE  trainedOn' = [input |-> forecastFrom, target |-> tick']
    OBVIOUS
  <2>1. tick \in Nat /\ SeqLen \in Nat
    BY AgentAssumption DEF WindowInv, StmInv, Ticks
  <2>2. SeqLen <= tick /\ forecastFrom = Run(SeqLen, tick) /\ StmInv
    BY DEF WindowInv
  <2>3. PICK next, scheduled, drifting, solver : Act(next, scheduled, drifting, solver)
    BY <2>1 DEF Next, Launch, NoUpload, Record, Blocked, Save, Release, Sense, WorkerEnds, Stop
  <2>4. pc = "act" /\ trainedOn' = IF Len(stm) <= SeqLen THEN None
           ELSE [input |-> Front(TrainWindow), target |-> TrainWindow[SeqLen + 1]]
    BY <2>3 DEF Act
  <2>5. Len(stm) > SeqLen /\ TrainWindow = Run(SeqLen + 1, tick + 1)
    BY <2>2, <2>4, Windows
  <2>6. ~(Len(stm) <= SeqLen)
    <3>1. Len(stm) \in Nat
      <4>1. Least(Newest, StmCapacity) \in Nat /\ Newest \in Int
        BY <2>2, NewestType, AgentAssumption DEF StmInv, Least
      <4> QED
        BY <2>2, <4>1, RunIs DEF StmInv
    <3> QED
      BY <2>1, <2>5, <3>1
  <2>7. Front(TrainWindow) = Run(SeqLen, tick)
    <3>1. tick + 1 \in Int /\ (tick + 1) - 1 = tick
      BY <2>1
    <3> QED
      BY <2>1, <2>5, <3>1, RunFront
  <2>8. TrainWindow[SeqLen + 1] = tick'
    <3>1. SeqLen + 1 \in Nat /\ SeqLen + 1 \in 1 .. SeqLen + 1 /\ tick + 1 \in Int
          /\ (tick + 1) - (SeqLen + 1) + (SeqLen + 1) = tick + 1
      BY <2>1
    <3> QED
      BY <2>5, <3>1, RunIs
  <2> QED
    BY <2>2, <2>4, <2>6, <2>7, <2>8
<1> QED
  BY <1>1, WindowStart, WindowStep, PTL DEF Spec, TrainsWhatItForecast

-------------------------------------------------------------------------------
(***************************************************************************)
(* The memories behind the short-term one.  The open block has the newest  *)
(* readings and the pool those before it.  A reading not yet sensed by     *)
(* this process has fewer rows than there were launches.                   *)
(***************************************************************************)
Pooled == Newest - Len(block)

\* The at most k blocks of q are the readings up to the last one, without a gap.
Blocks(q, k, size, last) ==
  /\ Len(q) <= k
  /\ \A b \in 1 .. Len(q) : q[b] = Run(size, last - (Len(q) - b) * size)
  /\ Len(q) < k => last = Len(q) * size

PoolInv ==
  /\ Len(block) \in 0 .. PoolBlock - 1 /\ block = Run(Len(block), Newest)
  /\ pool \in Seq(Seq(Int)) /\ Blocks(pool, PoolCapacity, PoolBlock, Pooled)

RowsInv ==
  /\ rows \in [1 .. MaxTicks -> Nat] /\ launches \in Nat
  /\ \A p \in 1 .. MaxTicks :
       /\ p <= Newest => rows[p] >= 1
       /\ rows[p] <= launches
       /\ p > Newest /\ pc # "off" => rows[p] < launches

EpisodesInv ==
  /\ episodes \in Seq(1 .. MaxTicks) /\ Len(episodes) <= EpisodeCapacity /\ journal \subseteq 1 .. MaxTicks
  /\ \A p \in Range(episodes) \cup journal : rows[p] >= 1

MemoryInv == StmInv /\ PoolInv /\ RowsInv /\ EpisodesInv

\* A deque with room.
LEMMA PushIn ==
  ASSUME NEW S, NEW s \in Seq(S), NEW x \in S, NEW n \in Nat \ {0}, Len(s) < n
  PROVE  /\ Push(s, x, n) \in Seq(S) /\ Len(Push(s, x, n)) = Len(s) + 1
         /\ \A i \in 1 .. Len(s) : Push(s, x, n)[i] = s[i]
         /\ Push(s, x, n)[Len(s) + 1] = x
<1>1. Push(s, x, n) = Append(s, x)
  BY DEF Push
<1> QED
  BY <1>1, AppendProperties

\* u is the n elements of s without its oldest one, and x behind them.
Shifted(u, s, x, n) ==
  /\ Len(u) = n
  /\ \A i \in 1 .. n - 1 : u[i] = s[i + 1]
  /\ u[n] = x

\* A full one loses its oldest element.
LEMMA PushOut ==
  ASSUME NEW S, NEW s \in Seq(S), NEW x \in S, NEW n \in Nat \ {0}, Len(s) = n
  PROVE  Push(s, x, n) \in Seq(S) /\ Shifted(Push(s, x, n), s, x, n)
<1> DEFINE t == Append(s, x)
<1>1. /\ t \in Seq(S) /\ Len(t) = n + 1
      /\ \A i \in 1 .. n : t[i] = s[i]
      /\ t[n + 1] = x
  BY AppendProperties
<1>2. Push(s, x, n) = SubSeq(t, (n + 1) - n + 1, n + 1)
  BY <1>1 DEF Push, Latest
<1>3. (n + 1) - n + 1 = 2 /\ n + 1 \in Int /\ 2 <= n + 1 /\ n + 1 - 2 + 1 = n
  OBVIOUS
<1> HIDE DEF t
<1>4. \A i \in 2 .. n + 1 : t[i] \in S
  BY <1>1, ElementOfSeq
<1>5. /\ SubSeq(t, 2, n + 1) \in Seq(S) /\ Len(SubSeq(t, 2, n + 1)) = n
      /\ \A i \in 1 .. n : SubSeq(t, 2, n + 1)[i] = t[2 + i - 1]
  BY <1>3, <1>4, SubSeqProperties
<1>6. \A i \in 1 .. n - 1 : 2 + i - 1 = i + 1 /\ i \in 1 .. n /\ i + 1 \in 1 .. n
  OBVIOUS
<1>7. 2 + n - 1 = n + 1 /\ n \in 1 .. n
  OBVIOUS
<1> QED
  BY <1>1, <1>2, <1>3, <1>5, <1>6, <1>7 DEF Shifted

\* Nothing gets into a deque but what is pushed.
LEMMA PushRange ==
  ASSUME NEW S, NEW s \in Seq(S), NEW x \in S, NEW n \in Nat \ {0}, Len(s) <= n
  PROVE  Push(s, x, n) \in Seq(S) /\ Range(Push(s, x, n)) \subseteq Range(s) \cup {x}
         /\ Len(Push(s, x, n)) <= n
<1> DEFINE u == Push(s, x, n)
<1>1. Len(s) \in Nat /\ DOMAIN s = 1 .. Len(s)
  BY LenProperties
<1>2. CASE Len(s) < n
  <2>1. /\ u \in Seq(S) /\ Len(u) = Len(s) + 1
        /\ \A i \in 1 .. Len(s) : u[i] = s[i]
        /\ u[Len(s) + 1] = x
    BY <1>2, PushIn
  <2> HIDE DEF u
  <2>2. DOMAIN u = 1 .. Len(s) + 1
    BY <2>1, LenProperties
  <2>3. \A i \in DOMAIN u : i \in DOMAIN s \/ i = Len(s) + 1
    BY <1>1, <2>2
  <2>4. \A i \in DOMAIN u : u[i] \in Range(s) \cup {x}
    BY <1>1, <2>1, <2>3 DEF Range
  <2> QED
    BY <1>1, <1>2, <2>1, <2>4 DEF u, Range
<1>3. CASE Len(s) = n
  <2>0. u \in Seq(S) /\ Shifted(u, s, x, n)
    BY <1>3, PushOut
  <2>1. /\ u \in Seq(S) /\ Len(u) = n
        /\ \A i \in 1 .. n - 1 : u[i] = s[i + 1]
        /\ u[n] = x
    BY <2>0 DEF Shifted
  <2> HIDE DEF u
  <2>2. DOMAIN u = 1 .. n
    BY <2>1, LenProperties
  <2>3. \A i \in DOMAIN u : (i \in 1 .. n - 1 /\ i + 1 \in DOMAIN s) \/ i = n
    BY <1>1, <1>3, <2>2
  <2>4. \A i \in DOMAIN u : u[i] \in Range(s) \cup {x}
    BY <1>1, <2>1, <2>3 DEF Range
  <2> QED
    BY <1>1, <1>3, <2>1, <2>4 DEF u, Range
<1>4. Len(s) < n \/ Len(s) = n
  <2>1. Len(s) \in Nat
    BY <1>1
  <2> QED
    BY <2>1
<1> QED
  BY <1>2, <1>3, <1>4, Zenon

\* A block that is full goes to the pool, behind those before it.
LEMMA PoolGrows ==
  ASSUME NEW T, NEW q \in Seq(T), NEW k \in Nat \ {0}, NEW size \in Nat \ {0}, NEW last \in Int,
         Blocks(q, k, size, last),
         NEW full \in T, full = Run(size, last + size),
         NEW r, r = Push(q, full, k)
  PROVE  r \in Seq(T) /\ Blocks(r, k, size, last + size)
<1>1. Len(q) \in Nat
  BY LenProperties
<1>2. CASE Len(q) < k
  <2>0. /\ Push(q, full, k) \in Seq(T) /\ Len(Push(q, full, k)) = Len(q) + 1
        /\ \A b \in 1 .. Len(q) : Push(q, full, k)[b] = q[b]
        /\ Push(q, full, k)[Len(q) + 1] = full
    BY <1>1, <1>2, PushIn
  <2>1. /\ r \in Seq(T) /\ Len(r) = Len(q) + 1
        /\ \A b \in 1 .. Len(q) : r[b] = q[b]
        /\ r[Len(q) + 1] = full
    BY <2>0, Zenon
  <2>2. ASSUME NEW b \in 1 .. Len(r)
        PROVE  r[b] = Run(size, last + size - (Len(r) - b) * size)
    <3>1. CASE b \in 1 .. Len(q)
      <4>1. last - (Len(q) - b) * size = last + size - ((Len(q) + 1) - b) * size
        BY <1>1
      <4> QED
        BY <2>1, <3>1, <4>1 DEF Blocks
    <3>2. CASE b = Len(q) + 1
      <4>1. last + size - ((Len(q) + 1) - b) * size = last + size
        BY <1>1, <3>2
      <4> QED
        BY <2>1, <3>2, <4>1
    <3>3. b \in 1 .. Len(q) \/ b = Len(q) + 1
      BY <1>1, <2>1
    <3> QED
      BY <3>1, <3>2, <3>3
  <2>3. last + size = (Len(q) + 1) * size
    <3>1. last = Len(q) * size
      BY <1>2 DEF Blocks
    <3> QED
      BY <1>1, <3>1
  <2>4. Len(r) <= k
    BY <1>1, <1>2, <2>1
  <2>5. last + size = Len(r) * size
    BY <2>1, <2>3
  <2> QED
    BY <2>1, <2>2, <2>4, <2>5 DEF Blocks
<1>3. CASE Len(q) = k
  <2>0. ASSUME NEW y \in T, NEW m \in Nat \ {0}, Len(q) = m
        PROVE  Push(q, y, m) \in Seq(T) /\ Shifted(Push(q, y, m), q, y, m)
    BY <2>0, PushOut
  <2>1. r \in Seq(T) /\ Shifted(r, q, full, k)
    BY <1>3, <2>0, Zenon
  <2>2. /\ r \in Seq(T) /\ Len(r) = k
        /\ \A b \in 1 .. k - 1 : r[b] = q[b + 1]
        /\ r[k] = full
    BY <2>1 DEF Shifted
  <2>3. ASSUME NEW b \in 1 .. k
        PROVE  r[b] = Run(size, last + size - (k - b) * size)
    <3>1. CASE b \in 1 .. k - 1
      <4>1. r[b] = q[b + 1] /\ b + 1 \in 1 .. Len(q) /\ b + 1 \in 1 .. k
        BY <1>3, <2>2, <3>1
      <4>2. q[b + 1] = Run(size, last - (k - (b + 1)) * size)
        BY <1>3, <4>1 DEF Blocks
      <4>3. last - (k - (b + 1)) * size = last + size - (k - b) * size
        OBVIOUS
      <4> QED
        BY <4>1, <4>2, <4>3
    <3>2. CASE b = k
      <4>1. last + size - (k - b) * size = last + size
        BY <3>2
      <4> QED
        BY <2>2, <3>2, <4>1
    <3>3. b \in 1 .. k - 1 \/ b = k
      OBVIOUS
    <3> QED
      BY <3>1, <3>2, <3>3
  <2>4. Blocks(r, k, size, last + size)
    BY <2>2, <2>3 DEF Blocks
  <2> QED
    BY <2>2, <2>4
<1>4. Len(q) < k \/ Len(q) = k
  BY <1>1 DEF Blocks
<1> QED
  BY <1>2, <1>3, <1>4

LEMMA SensePool ==
  ASSUME StmInv, PoolInv, Sense
  PROVE  PoolInv'
<1> DEFINE n == Len(block)
<1>1. /\ tick \in Nat /\ Newest = tick /\ Newest' = Newest + 1 /\ Newest \in Nat
      /\ PoolBlock \in Nat \ {0} /\ PoolCapacity \in Nat \ {0}
  BY AgentAssumption DEF StmInv, Ticks, Newest, Sense
<1>2. n \in Nat /\ n + 1 <= PoolBlock /\ block = Run(n, Newest)
  BY <1>1 DEF PoolInv
<1>3. Append(block, tick + 1) = Run(n + 1, Newest + 1) /\ Len(Run(n + 1, Newest + 1)) = n + 1
  <2> HIDE DEF n
  <2>1. n + 1 \in Nat /\ Newest \in Int /\ Newest + 1 \in Int
    BY <1>1, <1>2
  <2>2. Append(Run(n, Newest), Newest + 1) = Run(n + 1, Newest + 1)
    BY <1>2, <2>1, RunGrows
  <2>3. Len(Run(n + 1, Newest + 1)) = n + 1
    BY <2>1, RunIs
  <2> QED
    BY <1>1, <1>2, <2>2, <2>3
<1>4. CASE n + 1 < PoolBlock
  <2>1. block' = Run(n + 1, Newest + 1) /\ pool' = pool
    BY <1>3, <1>4 DEF Sense
  <2>2. Len(block') = n + 1 /\ Len(block') \in 0 .. PoolBlock - 1
    BY <1>1, <1>2, <1>3, <1>4, <2>1
  <2>3. Pooled' = Pooled
    BY <1>1, <1>2, <2>2 DEF Pooled
  <2>4. block' = Run(Len(block'), Newest')
    BY <1>1, <2>1, <2>2
  <2>5. Blocks(pool, PoolCapacity, PoolBlock, Pooled)'
    BY <2>1, <2>3 DEF PoolInv, Blocks
  <2> QED
    BY <2>1, <2>2, <2>4, <2>5 DEF PoolInv
<1>5. CASE n + 1 = PoolBlock
  <2>1. block' = <<>> /\ pool' = Push(pool, Run(PoolBlock, Newest + 1), PoolCapacity)
    <3>1. ~(Len(block) + 1 < PoolBlock)
      BY <1>1, <1>5
    <3>2. block' = <<>> /\ pool' = NewPool(Append(block, tick + 1))
      BY <3>1 DEF Sense
    <3>3. Append(block, tick + 1) = Run(PoolBlock, Newest + 1)
      BY <1>3, <1>5
    <3> QED
      BY <3>2, <3>3, Zenon DEF NewPool
  <2>2. Len(block') = 0 /\ block' = Run(0, Newest')
    BY <1>1, <2>1, EmptyRun, EmptySeq
  <2>3. Pooled' = Newest + 1 /\ Pooled \in Int /\ Pooled + PoolBlock = Newest + 1
    BY <1>1, <1>2, <1>5, <2>2 DEF Pooled
  <2>4. pool' = Push(pool, Run(PoolBlock, Pooled + PoolBlock), PoolCapacity)
    BY <2>1, <2>3
  <2>5. Run(PoolBlock, Pooled + PoolBlock) \in Seq(Int)
    BY <1>1, <2>3, RunIs
  <2>6. pool' \in Seq(Seq(Int)) /\ Blocks(pool', PoolCapacity, PoolBlock, Pooled + PoolBlock)
    <3> DEFINE T == Seq(Int)
    <3>1. pool \in Seq(T) /\ Run(PoolBlock, Pooled + PoolBlock) \in T
      BY <2>5 DEF PoolInv
    <3> HIDE DEF T
    <3>2. Blocks(pool, PoolCapacity, PoolBlock, Pooled)
      BY DEF PoolInv
    <3>3. pool' \in Seq(T) /\ Blocks(pool', PoolCapacity, PoolBlock, Pooled + PoolBlock)
      BY <1>1, <2>3, <2>4, <3>1, <3>2, PoolGrows
    <3> QED
      BY <3>3 DEF T
  <2>7. Pooled' = Pooled + PoolBlock /\ Len(block') \in 0 .. PoolBlock - 1
    BY <1>1, <2>2, <2>3
  <2>8. Blocks(pool, PoolCapacity, PoolBlock, Pooled)'
    BY <2>6, <2>7 DEF Blocks
  <2> QED
    BY <2>2, <2>6, <2>7, <2>8 DEF PoolInv
<1> QED
  BY <1>1, <1>2, <1>4, <1>5

\* Of the memories behind the short-term one, only a reading and the end touch these.
LEMMA Untouched ==
  ASSUME [Next]_vars, ~Sense, ~Stop
  PROVE  UNCHANGED <<block, pool, rows>>
  BY DEF Next, Launch, NoUpload, Record, Blocked, Save, Release, Act, WorkerEnds,
     coreVars, diskVars, vars

LEMMA PoolStep == StmInv /\ PoolInv /\ [Next]_vars => PoolInv'
<1> SUFFICES ASSUME StmInv, PoolInv, [Next]_vars PROVE PoolInv'
  OBVIOUS
<1>1. Ticks /\ PoolBlock \in Nat \ {0} /\ PoolCapacity \in Nat \ {0}
  BY AgentAssumption DEF StmInv
<1>2. CASE Sense
  BY <1>2, SensePool
<1>3. CASE Stop
  <2>1. block' = <<>> /\ pool' = <<>> /\ Newest' = 0
    BY <1>1, <1>3, NewestStep DEF Stop
  <2>2. Len(block') = 0 /\ block' = Run(0, 0) /\ Len(pool') = 0 /\ pool' \in Seq(Seq(Int))
    <3>1. Run(0, 0) = <<>> /\ Len(<<>>) = 0 /\ <<>> \in Seq(Seq(Int))
      BY EmptyRun, EmptySeq
    <3>2. Len(block') = Len(<<>>) /\ Len(pool') = Len(<<>>)
      BY <2>1, Zenon
    <3> QED
      BY <2>1, <3>1, <3>2, Zenon
  <2>3. Pooled' = 0 /\ 0 * PoolBlock = 0
    <3>1. Pooled' = Newest' - Len(block') /\ Newest' = 0 /\ Len(block') = 0
      BY <2>1, <2>2, Zenon DEF Pooled
    <3>2. Pooled' = 0
      BY <3>1
    <3>3. 0 * PoolBlock = 0
      BY <1>1
    <3> QED
      BY <3>2, <3>3
  <2>4. Blocks(pool, PoolCapacity, PoolBlock, Pooled)'
    BY <1>1, <2>2, <2>3 DEF Blocks
  <2>5. Len(block') \in 0 .. PoolBlock - 1 /\ block' = Run(Len(block'), Newest')
    BY <1>1, <2>1, <2>2
  <2> QED
    BY <2>2, <2>4, <2>5 DEF PoolInv
<1>4. CASE ~Sense /\ ~Stop
  <2>1. UNCHANGED <<block, pool, Newest>>
    BY <1>1, <1>4, Untouched, NewestStep
  <2> QED
    BY <2>1 DEF PoolInv, Blocks, Pooled
<1> QED
  BY <1>2, <1>3, <1>4

LEMMA RowsStep == StmInv /\ RowsInv /\ [Next]_vars => RowsInv'
<1> SUFFICES ASSUME StmInv, RowsInv, [Next]_vars PROVE RowsInv'
  OBVIOUS
<1>1. Ticks /\ Newest \in Nat /\ MaxTicks \in Nat
  BY AgentAssumption, NewestType DEF StmInv
<1>2. CASE Sense
  <2>1. /\ Newest = tick /\ Newest' = tick + 1 /\ tick + 1 \in 1 .. MaxTicks /\ tick \in Nat
        /\ pc # "off" /\ UNCHANGED launches
        /\ rows' = [rows EXCEPT ![tick + 1] = @ + 1]
    BY <1>1, <1>2, NewestStep DEF Sense, Stored, Ticks, Places, ghostVars
  <2>2. rows' \in [1 .. MaxTicks -> Nat] /\ launches' \in Nat
    BY <2>1 DEF RowsInv
  <2>3. ASSUME NEW p \in 1 .. MaxTicks
        PROVE  /\ p <= Newest' => rows'[p] >= 1
               /\ rows'[p] <= launches'
               /\ p > Newest' /\ pc' # "off" => rows'[p] < launches'
    <3>1. /\ rows[p] \in Nat /\ launches \in Nat
          /\ p <= Newest => rows[p] >= 1
          /\ rows[p] <= launches
          /\ p > Newest => rows[p] < launches
      BY <2>1 DEF RowsInv
    <3>2. rows'[p] = IF p = tick + 1 THEN rows[p] + 1 ELSE rows[p]
      BY <2>1 DEF RowsInv
    <3>3. CASE p = tick + 1
      BY <2>1, <3>1, <3>2, <3>3
    <3>4. CASE p # tick + 1
      BY <2>1, <3>1, <3>2, <3>4
    <3> QED
      BY <3>3, <3>4
  <2> QED
    BY <2>2, <2>3 DEF RowsInv
<1>3. CASE Stop
  <2>1. UNCHANGED <<rows, launches>> /\ Newest' = 0 /\ pc' = "off"
    BY <1>1, <1>3, NewestStep DEF Stop, diskVars
  <2> QED
    BY <2>1 DEF RowsInv
<1>4. CASE Launch
  <2>1. UNCHANGED rows /\ launches' = launches + 1 /\ Newest' = Newest
    BY <1>1, <1>4, NewestStep DEF Launch, Sense, Stop, diskVars
  <2> QED
    BY <2>1 DEF RowsInv
<1>5. CASE ~Launch /\ ~Sense /\ ~Stop
  <2>1. UNCHANGED <<rows, Newest>>
    BY <1>1, <1>5, Untouched, NewestStep
  <2>2. UNCHANGED launches /\ (pc' # "off" => pc # "off")
    BY <1>5 DEF Next, NoUpload, Record, Blocked, Save, Release, MaySend, Act, WorkerEnds,
       ghostVars, vars
  <2> QED
    BY <2>1, <2>2 DEF RowsInv
<1> QED
  BY <1>2, <1>3, <1>4, <1>5

LEMMA RowsOnlyGrow ==
  ASSUME StmInv, RowsInv, [Next]_vars, NEW p \in 1 .. MaxTicks, rows[p] >= 1
  PROVE  rows'[p] >= 1
<1>1. CASE Sense
  <2>1. rows' = [rows EXCEPT ![tick + 1] = @ + 1]
    BY <1>1 DEF Sense, Stored
  <2> QED
    BY <2>1 DEF RowsInv
<1>2. CASE ~Sense
  BY <1>2 DEF Next, Launch, NoUpload, Record, Blocked, Save, Release, Act, WorkerEnds, Stop,
     diskVars, vars
<1> QED
  BY <1>1, <1>2

\* An episode is about the reading of its own tick, which is in SQLite by then.
LEMMA EpisodesStep == StmInv /\ RowsInv /\ EpisodesInv /\ [Next]_vars => EpisodesInv'
<1> SUFFICES ASSUME StmInv, RowsInv, EpisodesInv, [Next]_vars PROVE EpisodesInv'
  OBVIOUS
<1>1. ASSUME UNCHANGED <<episodes, journal>>
      PROVE  EpisodesInv'
  <2>1. \A p \in Range(episodes) \cup journal : p \in 1 .. MaxTicks
    <3>1. DOMAIN episodes = 1 .. Len(episodes) /\ \A i \in 1 .. Len(episodes) : episodes[i] \in 1 .. MaxTicks
      BY LenProperties, ElementOfSeq DEF EpisodesInv
    <3> QED
      BY <3>1 DEF EpisodesInv, Range
  <2>2. \A p \in Range(episodes) \cup journal : rows'[p] >= 1
    BY <2>1, RowsOnlyGrow DEF EpisodesInv
  <2>3. Range(episodes') = Range(episodes)
    BY <1>1
  <2> QED
    BY <1>1, <2>2, <2>3 DEF EpisodesInv
<1>2. ASSUME NEW next, NEW scheduled, NEW drifting, NEW solver,
             Act(next, scheduled, drifting, solver)
      PROVE  EpisodesInv'
  <2>1. /\ tick + 1 \in 1 .. MaxTicks /\ Newest = tick + 1 /\ rows[tick + 1] >= 1
        /\ UNCHANGED rows /\ EpisodeCapacity \in Nat \ {0}
    <3>1. tick \in Nat /\ tick < MaxTicks /\ pc = "act" /\ UNCHANGED rows
      BY <1>2 DEF Act, StmInv, Ticks, Places
    <3> QED
      BY <3>1, AgentAssumption DEF Newest, RowsInv
  <2>2. CASE UNCHANGED <<episodes, journal>>
    BY <1>1, <2>2
  <2>3. CASE episodes' = Push(episodes, tick + 1, EpisodeCapacity)
             /\ \E reward : journal' = Journaled(tick + 1, reward)
    <3>1. /\ episodes' \in Seq(1 .. MaxTicks) /\ Len(episodes') <= EpisodeCapacity
          /\ Range(episodes') \subseteq Range(episodes) \cup {tick + 1}
      BY <2>1, <2>3, PushRange DEF EpisodesInv
    <3>2. journal' \subseteq journal \cup {tick + 1}
      BY <2>3 DEF Journaled
    <3>3. journal' \subseteq 1 .. MaxTicks
      BY <2>1, <3>2 DEF EpisodesInv
    <3>4. \A p \in Range(episodes') \cup journal' : rows'[p] >= 1
      BY <2>1, <3>1, <3>2 DEF EpisodesInv
    <3> QED
      BY <3>1, <3>3, <3>4 DEF EpisodesInv
  <2> QED
    BY <1>2, <2>2, <2>3 DEF Act
<1>3. CASE Stop
  <2>1. episodes' = <<>> /\ UNCHANGED <<journal, rows>>
    BY <1>3 DEF Stop, diskVars
  <2>2. /\ episodes' \in Seq(1 .. MaxTicks) /\ Len(episodes') = 0 /\ Range(episodes') = {}
        /\ EpisodeCapacity \in Nat
    BY <2>1, EmptySeq, AgentAssumption DEF Range
  <2> QED
    BY <2>1, <2>2 DEF EpisodesInv
<1>4. CASE Launch \/ NoUpload \/ Record \/ Blocked \/ Save \/ Release \/ Sense
           \/ (\E outcome \in {"done", "raised"} : WorkerEnds(outcome)) \/ UNCHANGED vars
  BY <1>1, <1>4 DEF Launch, NoUpload, Record, Blocked, Save, Release, Sense, WorkerEnds,
     coreVars, diskVars, vars
<1> QED
  BY <1>2, <1>3, <1>4 DEF Next

LEMMA MemoryStart == Init => MemoryInv
<1> SUFFICES ASSUME Init PROVE MemoryInv
  OBVIOUS
<1>1. Ticks /\ Newest = 0
  BY AgentAssumption DEF Init, Ticks, Places, Newest
<1>2. StmInv
  BY WindowStart DEF WindowInv
<1>3. PoolInv
  <2>1. Len(block) = 0 /\ block = Run(0, 0) /\ Len(pool) = 0 /\ pool \in Seq(Seq(Int))
    BY EmptyRun, EmptySeq DEF Init
  <2>2. PoolBlock \in Nat \ {0} /\ PoolCapacity \in Nat \ {0}
    BY AgentAssumption
  <2>3. Pooled = 0 /\ 0 * PoolBlock = 0
    BY <1>1, <2>1, <2>2 DEF Pooled
  <2>4. Blocks(pool, PoolCapacity, PoolBlock, Pooled)
    BY <2>1, <2>2, <2>3 DEF Blocks
  <2>5. Len(block) \in 0 .. PoolBlock - 1 /\ block = Run(Len(block), Newest)
    BY <1>1, <2>1, <2>2
  <2> QED
    BY <2>1, <2>4, <2>5 DEF PoolInv
<1>4. RowsInv
  BY <1>1 DEF Init, RowsInv
<1>5. EpisodesInv
  BY EmptySeq, AgentAssumption DEF Init, EpisodesInv, Range
<1> QED
  BY <1>2, <1>3, <1>4, <1>5 DEF MemoryInv

(***************************************************************************)
(* What the memories hold is one unbroken run of readings up to the newest *)
(* and in SQLite, none of it there more often than the agent was started:  *)
(* for deques and blocks of any size (stm.py, ltm.py, episodic.py).        *)
(***************************************************************************)
THEOREM MemoriesAreBacked == Spec => []MemoryIsBacked
<1>1. MemoryInv /\ [Next]_vars => MemoryInv'
  BY StmStep, PoolStep, RowsStep, EpisodesStep DEF MemoryInv
<1>2. MemoryInv => MemoryIsBacked
  <2> SUFFICES ASSUME MemoryInv PROVE MemoryIsBacked
    OBVIOUS
  <2>1. DOMAIN pool = 1 .. Len(pool)
    BY LenProperties DEF MemoryInv, PoolInv
  <2>2. \A p \in 1 .. MaxTicks : (p <= Newest => rows[p] >= 1) /\ rows[p] <= launches
    BY DEF MemoryInv, RowsInv
  <2>3. /\ \A b \in DOMAIN pool :
             pool[b] = Run(PoolBlock, Newest - Len(block) - (Len(pool) - b) * PoolBlock)
        /\ Len(pool) < PoolCapacity => Newest - Len(block) = Len(pool) * PoolBlock
    BY <2>1 DEF MemoryInv, PoolInv, Blocks, Pooled
  <2> QED
    BY <2>2, <2>3 DEF MemoryInv, StmInv, PoolInv, EpisodesInv, MemoryIsBacked
<1> QED
  BY <1>1, <1>2, MemoryStart, PTL DEF Spec

-------------------------------------------------------------------------------
(***************************************************************************)
(* The capacity.  The percentile of the readings is between two of them,   *)
(* so that the capacity is a number, and never below half a kWh.           *)
(***************************************************************************)
LEMMA Minimum ==
  ASSUME NEW T \in SUBSET Nat, T # {}
  PROVE  \E m \in T : \A n \in T : m <= n
<1> DEFINE R == {ss \in Nat \X Nat : ss[1] < ss[2]}
<1>1. IsWellFoundedOn(R, Nat)
  BY NatLessThanWellFounded DEF OpToRel
<1>2. \A m, n \in Nat : n < m => <<n, m>> \in R
  OBVIOUS
<1> HIDE DEF R
<1>3. PICK m \in T : \A n \in T : <<n, m>> \notin R
  BY <1>1, WFMin
<1>4. ASSUME NEW n \in T PROVE m <= n
  <2>1. m \in Nat /\ n \in Nat /\ <<n, m>> \notin R
    BY <1>3
  <2>2. ~(n < m)
    BY <1>2, <2>1
  <2> QED
    BY <2>1, <2>2
<1> QED
  BY <1>4

\* The values of a sequence have a bound.
LEMMA Bounded ==
  ASSUME NEW s \in Seq(Nat)
  PROVE  \E b \in Nat : \A i \in DOMAIN s : s[i] <= b
<1>1. Len(s) \in Nat /\ DOMAIN s = 1 .. Len(s) /\ \A i \in 1 .. Len(s) : s[i] \in Nat
  BY LenProperties, ElementOfSeq
<1> DEFINE Has(n) == \E b \in Nat : \A i \in 1 .. n : s[i] <= b
           T == {n \in 0 .. Len(s) : ~Has(n)}
<1>2. SUFFICES T = {}
  <2>1. Len(s) \in 0 .. Len(s)
    BY <1>1
  <2> QED
    BY <1>1, <2>1
<1>3. SUFFICES ASSUME T # {} PROVE FALSE
  OBVIOUS
<1>4. PICK m \in T : \A n \in T : m <= n
  <2>1. T \in SUBSET Nat
    OBVIOUS
  <2> HIDE DEF T
  <2> QED
    BY <1>3, <2>1, Minimum
<1>5. m \in Nat /\ m <= Len(s) /\ ~Has(m)
  BY <1>1
<1>6. m # 0
  <2>1. Has(0)
    <3>1. 0 \in Nat /\ \A i \in 1 .. 0 : s[i] <= 0
      OBVIOUS
    <3> QED
      BY <3>1
  <2> QED
    BY <1>5, <2>1
<1>7. Has(m - 1)
  <2>1. m - 1 \in 0 .. Len(s) /\ ~(m <= m - 1)
    BY <1>1, <1>5, <1>6
  <2> QED
    BY <1>4, <2>1
<1>8. PICK b \in Nat : \A i \in 1 .. m - 1 : s[i] <= b
  BY <1>7
<1>9. m \in 1 .. Len(s) /\ s[m] \in Nat
  BY <1>1, <1>5, <1>6
<1> HIDE DEF T
<1>10. b + s[m] \in Nat /\ \A i \in 1 .. m : s[i] <= b + s[m]
  <2> DEFINE last == s[m]
  <2>0. last \in Nat /\ b + last \in Nat
    BY <1>9
  <2> HIDE DEF last
  <2> SUFFICES ASSUME NEW i \in 1 .. m PROVE s[i] <= b + last
    BY <2>0 DEF last
  <2>1. CASE i = m
    <3>1. s[i] = last
      BY <2>1 DEF last
    <3> QED
      BY <2>0, <3>1
  <2>2. CASE i # m
    <3>1. i \in 1 .. m - 1 /\ i \in 1 .. Len(s)
      BY <1>1, <1>9, <2>2
    <3>2. s[i] <= b /\ s[i] \in Nat
      BY <1>1, <1>8, <3>1
    <3> QED
      BY <2>0, <3>2
  <2> QED
    BY <2>1, <2>2
<1>11. Has(m)
  BY <1>10, Zenon
<1> QED
  BY <1>5, <1>11, Zenon

\* The k-th smallest of a sequence is one of its values.
LEMMA KthIs ==
  ASSUME NEW s \in Seq(Nat), NEW k \in 1 .. Len(s)
  PROVE  Kth(s, k) \in Range(s) /\ Kth(s, k) \in Nat
<1> DEFINE Below(v) == {i \in DOMAIN s : s[i] < v}
           Upto(v) == {i \in DOMAIN s : s[i] <= v}
           T == {v \in Nat : k <= Cardinality(Upto(v))}
<1>1. Len(s) \in Nat /\ DOMAIN s = 1 .. Len(s) /\ \A i \in DOMAIN s : s[i] \in Nat
  BY LenProperties, ElementOfSeq
<1>2. IsFiniteSet(DOMAIN s) /\ Cardinality(DOMAIN s) = Len(s)
  <2>1. IsFiniteSet(1 .. Len(s)) /\ Cardinality(1 .. Len(s)) = IF 1 > Len(s) THEN 0 ELSE Len(s) - 1 + 1
    BY <1>1, FS_Interval
  <2> QED
    BY <1>1, <2>1
<1>3. \A v : Cardinality(Below(v)) \in Nat /\ Cardinality(Upto(v)) \in Nat
  <2> TAKE v
  <2>1. Below(v) \in SUBSET DOMAIN s /\ Upto(v) \in SUBSET DOMAIN s
    OBVIOUS
  <2> HIDE DEF Below, Upto
  <2> QED
    BY <1>2, <2>1, FS_Subset, FS_CardinalityType
<1>4. T # {}
  <2>1. PICK b \in Nat : \A i \in DOMAIN s : s[i] <= b
    BY Bounded
  <2>2. Upto(b) = DOMAIN s
    BY <2>1
  <2>3. k <= Cardinality(Upto(b))
    <3> HIDE DEF Upto
    <3> QED
      BY <1>1, <1>2, <2>2
  <2> QED
    BY <2>3
<1>5. PICK v \in T : \A w \in T : v <= w
  <2>1. T \in SUBSET Nat
    OBVIOUS
  <2> HIDE DEF T
  <2> QED
    BY <1>4, <2>1, Minimum
<1>6. v \in Nat /\ k <= Cardinality(Upto(v))
  OBVIOUS
<1>7. Cardinality(Below(v)) < k
  <2>1. CASE v = 0
    <3>1. Below(v) = {}
      BY <1>1, <2>1
    <3>2. Cardinality(Below(v)) = 0
      BY <3>1, FS_EmptySet, Zenon
    <3> HIDE DEF Below
    <3> QED
      BY <1>1, <3>2
  <2>2. CASE v # 0
    <3>1. v - 1 \in Nat /\ ~(v <= v - 1)
      BY <1>6, <2>2
    <3>2. ~(k <= Cardinality(Upto(v - 1)))
      BY <1>5, <3>1
    <3>3. Below(v) = Upto(v - 1)
      BY <1>1, <1>6
    <3>4. Cardinality(Upto(v - 1)) \in Nat
      BY <1>3
    <3> HIDE DEF Below, Upto
    <3> QED
      BY <1>1, <3>2, <3>3, <3>4
  <2> QED
    BY <2>1, <2>2
<1>8. v \in Range(s)
  <2> SUFFICES ASSUME v \notin Range(s) PROVE FALSE
    OBVIOUS
  <2>1. \A i \in DOMAIN s : s[i] # v
    BY DEF Range
  <2>2. Below(v) = Upto(v)
    BY <1>1, <1>6, <2>1
  <2>3. Cardinality(Upto(v)) \in Nat
    BY <1>3
  <2> HIDE DEF Below, Upto
  <2> QED
    BY <1>1, <1>6, <1>7, <2>2, <2>3
<1>9. Kth(s, k) \in Range(s)
  BY <1>6, <1>7, <1>8 DEF Kth
<1>10. Range(s) \subseteq Nat
  BY <1>1 DEF Range
<1> QED
  BY <1>9, <1>10

\* The rank of the percentile lies between two places of the sequence.
LEMMA RankIs ==
  ASSUME NEW n \in Nat \ {0}, NEW at \in Int, at = 95 * (n - 1)
  PROVE  /\ at % 100 \in Int /\ at \div 100 + 1 \in 1 .. n
         /\ at % 100 # 0 => at \div 100 + 2 \in 1 .. n
<1>1. at \in Nat
  OBVIOUS
<1> QED
  BY <1>1

LEMMA PercentileIs ==
  ASSUME NEW s \in Seq(Nat), Len(s) # 0
  PROVE  Percentile95(s) \in Int
<1> DEFINE at == 95 * (Len(s) - 1)
           lo == Kth(s, at \div 100 + 1)
           hi == IF at % 100 = 0 THEN lo ELSE Kth(s, at \div 100 + 2)
<1>1. Len(s) \in Nat \ {0}
  BY LenProperties
<1>2. at \in Int
  BY <1>1
<1>3. /\ at % 100 \in Int /\ at \div 100 + 1 \in 1 .. Len(s)
      /\ at % 100 # 0 => at \div 100 + 2 \in 1 .. Len(s)
  BY <1>1, <1>2, RankIs
<1>4. lo \in Int
  BY <1>3, KthIs
<1>5. hi \in Int
  BY <1>3, <1>4, KthIs
<1> HIDE DEF at, lo, hi
<1>6. (at % 100) * (hi - lo) \in Int
  <2>1. \A m, n \in Int : m * n \in Int
    OBVIOUS
  <2>2. hi - lo \in Int
    BY <1>4, <1>5
  <2> QED
    BY <1>3, <2>1, <2>2, Zenon
<1>7. lo + ((at % 100) * (hi - lo)) \div 100 \in Int
  BY <1>4, <1>6
<1> QED
  BY <1>7 DEF at, lo, hi, Percentile95

LEMMA CapacityIs ==
  ASSUME NEW h \in Seq(Nat), AdaptAfter \in Nat \ {0}, AdaptWindow \in Nat \ {0},
         capacity \in Int, capacity >= 500
  PROVE  Capacity(h) \in Int /\ Capacity(h) >= 500
<1> DEFINE recent == IF Len(h) > AdaptWindow THEN Latest(h, AdaptWindow) ELSE h
           v == Percentile95(recent)
<1>1. CASE Len(h) < AdaptAfter
  BY <1>1 DEF Capacity
<1>2. CASE ~(Len(h) < AdaptAfter)
  <2>1. Len(h) \in Nat /\ Len(h) # 0
    BY <1>2, LenProperties
  <2>2. recent \in Seq(Nat) /\ Len(recent) # 0
    <3>1. CASE Len(h) > AdaptWindow
      <4>1. /\ Len(h) - AdaptWindow + 1 \in 1 .. Len(h) + 1
            /\ \A i \in Len(h) - AdaptWindow + 1 .. Len(h) : h[i] \in Nat
        BY <2>1, <3>1, ElementOfSeq
      <4>2. SubSeq(h, Len(h) - AdaptWindow + 1, Len(h)) \in Seq(Nat)
            /\ Len(SubSeq(h, Len(h) - AdaptWindow + 1, Len(h))) =
                 IF Len(h) - AdaptWindow + 1 <= Len(h) THEN Len(h) - (Len(h) - AdaptWindow + 1) + 1 ELSE 0
        BY <2>1, <4>1, SubSeqProperties
      <4> QED
        BY <2>1, <3>1, <4>2 DEF Latest
    <3>2. CASE ~(Len(h) > AdaptWindow)
      BY <2>1, <3>2
    <3> QED
      BY <3>1, <3>2
  <2> HIDE DEF recent
  <2>3. v \in Int
    BY <2>2, PercentileIs
  <2>4. Capacity(h) = IF v > 500 THEN v ELSE 500
    BY <1>2 DEF Capacity, recent
  <2> HIDE DEF v
  <2> QED
    BY <2>3, <2>4
<1> QED
  BY <1>1, <1>2

-------------------------------------------------------------------------------
(***************************************************************************)
(* The decision.  A load whose shed is too small to be worth an action is  *)
(* the last one that is asked, as the capacity is not below half a kWh.    *)
(***************************************************************************)
\* What a plan sheds: no load more than it carries, and less than ten Wh too little.
LEMMA PlanIs ==
  ASSUME NEW next \in Int, NEW limit \in Int, limit >= 500,
         next > limit, 10 * (next - limit) <= 9 * next,
         NEW ev \in Int, NEW hvac \in Int, NEW light \in Int,
         ev = Least(3 * next, 10 * (next - limit)),
         hvac = Least(4 * next, 10 * (next - limit) - ev),
         light = 10 * (next - limit) - ev - hvac
  PROVE  /\ ev <= 3 * next /\ hvac <= 4 * next /\ light <= 2 * next
         /\ ev <= 100 => hvac <= 0 /\ light <= 0
         /\ hvac <= 100 => light <= 0
         /\ ev >= 0 /\ hvac >= 0 /\ light >= 0
BY DEF Least

\* What a decision takes from a load.
Takes(d, load) == IF load \in DOMAIN d.shed THEN d.shed[load] ELSE 0

LEMMA OptimiseIs ==
  ASSUME NEW next \in Int, NEW limit \in Int, limit >= 500, NEW solver \in BOOLEAN,
         NEW d, d = Optimise(next, limit, solver)
  PROVE  /\ d.next = next
         /\ d.is = "CRITICAL_SHED" =>
              next - limit > 0 /\ (d.solver => 10 * (next - limit) > 9 * next)
         /\ d.is # "CRITICAL_SHED" =>
              /\ 10 * (next - limit) - Takes(d, "SHED_EV") - Takes(d, "CURTAIL_HVAC")
                   - Takes(d, "DIM_LIGHTING") <= 100
              /\ \A load \in DOMAIN d.shed : Takes(d, load) <= Share[load] * next
              /\ next - limit <= 0 \/ d.solver
<1> DEFINE required == next - limit
           plan     == Plan(next, required)
           worth    == {a \in DOMAIN plan : plan[a] > 100}
           most     == [a \in worth |-> plan[a]]
<1>1. CASE required <= 0
  <2>1. d = [next |-> next, shed |-> <<>>, is |-> "MAINTAIN"]
    BY <1>1 DEF Optimise
  <2>2. d.next = next /\ d.is = "MAINTAIN" /\ d.shed = <<>> /\ DOMAIN d.shed = {}
    BY <2>1
  <2>3. \A load : Takes(d, load) = 0
    BY <2>2 DEF Takes
  <2> QED
    BY <1>1, <2>2, <2>3
<1>2. CASE required > 0 /\ ~(solver /\ Feasible(next, required))
  <2>1. d = [next |-> next, shed |-> <<>>, is |-> "CRITICAL_SHED", solver |-> solver]
    BY <1>2 DEF Optimise
  <2>2. d.next = next /\ d.is = "CRITICAL_SHED" /\ d.solver = solver
    BY <2>1
  <2>3. solver => 10 * (next - limit) > 9 * next
    BY <1>2 DEF Feasible
  <2>4. next - limit > 0
    BY <1>2
  <2> QED
    BY <2>2, <2>3, <2>4, Zenon
<1>3. CASE required > 0 /\ solver /\ Feasible(next, required)
  <2> DEFINE ev    == Least(3 * next, 10 * required)
             hvac  == Least(4 * next, 10 * required - ev)
             light == 10 * required - ev - hvac
  <2>1. d = [next |-> next, shed |-> most,
             is |-> IF worth = {} THEN "MAINTAIN" ELSE "SHED", solver |-> solver]
    BY <1>3 DEF Optimise
  <2>2. d.next = next /\ d.is # "CRITICAL_SHED" /\ d.shed = most /\ d.solver = solver
    BY <2>1
  <2>3. required > 0 /\ 10 * required <= 9 * next
    BY <1>3 DEF Feasible
  <2>4. ev \in Int /\ hvac \in Int /\ light \in Int
    BY DEF Least
  <2>5. plan = [SHED_EV |-> ev, CURTAIL_HVAC |-> hvac, DIM_LIGHTING |-> light]
    BY DEF Plan
  <2>6. /\ DOMAIN plan = {"SHED_EV", "CURTAIL_HVAC", "DIM_LIGHTING"}
        /\ plan["SHED_EV"] = ev /\ plan["CURTAIL_HVAC"] = hvac /\ plan["DIM_LIGHTING"] = light
    BY <2>5
  <2>7. \A load \in DOMAIN plan :
          /\ plan[load] > 100 => load \in DOMAIN d.shed /\ Takes(d, load) = plan[load]
          /\ ~(plan[load] > 100) => Takes(d, load) = 0
    BY <2>2 DEF Takes
  <2>8. /\ ev <= 3 * next /\ hvac <= 4 * next /\ light <= 2 * next
        /\ ev <= 100 => hvac <= 0 /\ light <= 0
        /\ hvac <= 100 => light <= 0
        /\ ev >= 0 /\ hvac >= 0 /\ light >= 0
    <3>1. next > limit /\ 10 * (next - limit) <= 9 * next
      BY <2>3
    <3> QED
      BY <2>4, <3>1, PlanIs
  <2>9. light = 10 * (next - limit) - ev - hvac
    OBVIOUS
  <2> HIDE DEF ev, hvac, light, plan
  <2>10. /\ Takes(d, "SHED_EV") = IF ev > 100 THEN ev ELSE 0
         /\ Takes(d, "CURTAIL_HVAC") = IF hvac > 100 THEN hvac ELSE 0
         /\ Takes(d, "DIM_LIGHTING") = IF light > 100 THEN light ELSE 0
    BY <2>6, <2>7, Zenon
  <2>11. 10 * (next - limit) - Takes(d, "SHED_EV") - Takes(d, "CURTAIL_HVAC")
           - Takes(d, "DIM_LIGHTING") <= 100
    BY <2>4, <2>8, <2>9, <2>10
  <2>12. \A load \in DOMAIN d.shed : Takes(d, load) <= Share[load] * next
    <3> SUFFICES ASSUME NEW load \in DOMAIN d.shed PROVE Takes(d, load) <= Share[load] * next
      OBVIOUS
    <3>1. load \in DOMAIN plan /\ plan[load] > 100
      BY <2>2
    <3>2. Takes(d, load) = plan[load]
      BY <2>7, <3>1
    <3>3. CASE load = "SHED_EV"
      BY <2>4, <2>6, <2>8, <3>2, <3>3 DEF Share
    <3>4. CASE load = "CURTAIL_HVAC"
      BY <2>4, <2>6, <2>8, <3>2, <3>4 DEF Share
    <3>5. CASE load = "DIM_LIGHTING"
      BY <2>4, <2>6, <2>8, <3>2, <3>5 DEF Share
    <3> QED
      BY <2>6, <3>1, <3>3, <3>4, <3>5
  <2>13. d.solver
    BY <1>3, <2>2, Zenon
  <2> QED
    BY <2>2, <2>11, <2>12, <2>13, Zenon
<1>4. required <= 0 \/ required > 0
  OBVIOUS
<1> HIDE DEF required
<1> QED
  BY <1>1, <1>2, <1>3, <1>4, Zenon

ShedInv ==
  /\ csv \in [1 .. MaxTicks -> Readings]
  /\ history \in Seq(Nat)
  /\ capacity \in Int /\ capacity >= 500
  /\ ShedIsEnough

LEMMA ShedStart == Init => ShedInv
BY AgentAssumption DEF Init, ShedInv, ShedIsEnough

LEMMA ShedStep == Ticks /\ ShedInv /\ [Next]_vars => ShedInv'
<1> SUFFICES ASSUME Ticks, ShedInv, [Next]_vars PROVE ShedInv'
  OBVIOUS
<1>1. ASSUME UNCHANGED <<csv, history, capacity, decision>>
      PROVE  ShedInv'
  BY <1>1 DEF ShedInv, ShedIsEnough, Shed
<1>2. CASE Launch \/ NoUpload \/ Record \/ Blocked \/ Save \/ Release \/ Sense
           \/ (\E outcome \in {"done", "raised"} : WorkerEnds(outcome)) \/ UNCHANGED vars
  BY <1>1, <1>2 DEF Launch, NoUpload, Record, Blocked, Save, Release, Sense, WorkerEnds,
     coreVars, vars
<1>3. CASE Stop
  BY <1>3, EmptySeq DEF Stop, ShedInv, ShedIsEnough
<1>4. ASSUME NEW next \in Forecasts, NEW scheduled, NEW drifting, NEW solver \in BOOLEAN,
             Act(next, scheduled, drifting, solver)
      PROVE  ShedInv'
  <2> DEFINE now  == csv[tick + 1]
             warm == Len(stm) >= SeqLen
  <2>1. next \in Int /\ AdaptAfter \in Nat \ {0} /\ AdaptWindow \in Nat \ {0}
    BY AgentAssumption
  <2>2. now \in Nat
    <3>1. tick + 1 \in 1 .. MaxTicks
      BY <1>4, AgentAssumption DEF Act, Ticks, Places
    <3> QED
      BY <3>1, AgentAssumption DEF ShedInv
  <2>3. /\ csv' = csv
        /\ history' = IF warm THEN Append(history, now) ELSE history
        /\ capacity' = IF warm THEN Capacity(history') ELSE capacity
        /\ decision' = IF warm THEN Optimise(next, capacity', solver)
                       ELSE [next |-> None, is |-> "MONITOR"]
    BY <1>4 DEF Act
  <2> HIDE DEF now, warm
  <2>4. csv' \in [1 .. MaxTicks -> Readings]
    BY <2>3 DEF ShedInv
  <2>5. history' \in Seq(Nat)
    <3>1. history \in Seq(Nat)
      BY DEF ShedInv
    <3>2. Append(history, now) \in Seq(Nat)
      BY <2>2, <3>1, AppendProperties
    <3> QED
      BY <2>3, <3>1, <3>2, Zenon
  <2>6. capacity' \in Int /\ capacity' >= 500
    <3>1. capacity \in Int /\ capacity >= 500
      BY DEF ShedInv
    <3>2. Capacity(history') \in Int /\ Capacity(history') >= 500
      BY <2>1, <2>5, <3>1, CapacityIs
    <3> QED
      BY <2>3, <3>1, <3>2, Zenon
  <2>7. ShedIsEnough'
    <3>1. CASE warm
      <4>1. decision' = Optimise(next, capacity', solver)
        BY <2>3, <3>1, Zenon
      <4>2. /\ decision'.next = next
            /\ decision'.is = "CRITICAL_SHED" =>
                 /\ next - capacity' > 0
                 /\ decision'.solver => 10 * (next - capacity') > 9 * next
            /\ decision'.is # "CRITICAL_SHED" =>
                 /\ 10 * (next - capacity') - Takes(decision', "SHED_EV")
                      - Takes(decision', "CURTAIL_HVAC") - Takes(decision', "DIM_LIGHTING") <= 100
                 /\ \A load \in DOMAIN decision'.shed :
                      Takes(decision', load) <= Share[load] * next
                 /\ next - capacity' <= 0 \/ decision'.solver
        BY <2>1, <2>6, <4>1, OptimiseIs
      <4> QED
        BY <4>2, Zenon DEF ShedIsEnough, Shed, Takes
    <3>2. CASE ~warm
      <4>1. decision'.next = None
        BY <2>3, <3>2
      <4> QED
        BY <4>1 DEF ShedIsEnough
    <3> QED
      BY <3>1, <3>2
  <2> QED
    BY <2>4, <2>5, <2>6, <2>7 DEF ShedInv
<1> QED
  BY <1>2, <1>3, <1>4 DEF Next

(***************************************************************************)
(* Every decision meets the capacity of its own tick but for ten Wh, takes *)
(* from no load more than it carries, and is an emergency only above the   *)
(* capacity and, where there is a solver to ask, only if nothing less      *)
(* would do: for any readings, forecasts and windows (optimise_action and  *)
(* update_capacity, computation.py).                                       *)
(***************************************************************************)
THEOREM DecisionsAreEnough == Spec => []ShedIsEnough
<1>1. Init => Ticks
  BY WindowStart DEF WindowInv, StmInv
<1>2. ShedInv => ShedIsEnough
  BY DEF ShedInv
<1> QED
  BY <1>1, <1>2, TicksStep, ShedStart, ShedStep, PTL DEF Spec

==============================================================================
