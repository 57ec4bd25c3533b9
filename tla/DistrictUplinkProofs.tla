------------------------- MODULE DistrictUplinkProofs -------------------------
(***************************************************************************)
(* Theorems about DistrictUplink, for any number of handler threads that   *)
(* overlap in any way, any number of rounds, timeouts and crashes.         *)
(***************************************************************************)
EXTENDS DistrictUplink, TLAPS

(***************************************************************************)
(* What a thread waits for: an upload on the wire that still has a caller  *)
(* is the only one of this caller, and the caller waits for it.            *)
(***************************************************************************)
WireInv ==
  /\ \A m \in wire : m.caller # None => pc[m.caller] = "wait"
  /\ \A m, n \in wire : m.caller = n.caller /\ m.caller # None => m = n

TypeInv == TypeOK /\ WireInv

(***************************************************************************)
(* A thread between reading a row and completing it has read a row that    *)
(* was the oldest, and it has stayed so: only newer rows are added.        *)
(***************************************************************************)
OrderInv ==
  /\ outbox \subseteq 0 .. closed - 1
  /\ \A t \in Threads : pc[t] \in WithRow =>
       row[t] < closed /\ \A s \in outbox : row[t] <= s

\* The part of TypeOK that is about the threads.
ThreadsOK ==
  /\ pc \in [Threads -> Labels]
  /\ polls \in [Threads -> BOOLEAN]
  /\ row \in [Threads -> RowRounds \cup {None}]
  /\ \A t \in Threads : pc[t] \in WithRow => row[t] \in RowRounds
  /\ encoded \in [Threads -> Int \cup {None}]
  /\ \A t \in Threads : pc[t] = "send" => encoded[t] \in Int
  /\ answer \in [Threads -> Answer \cup {None}]
  /\ \A t \in Threads : pc[t] \in WithAnswer => answer[t] \in Answer

LEMMA FlushedType ==
  ASSUME ThreadsOK, NEW t \in Threads, Flushed(t)
  PROVE  /\ ThreadsOK'
         /\ pc'[t] \in {"idle", "poll"}
         /\ \A u \in Threads : u # t => pc'[u] = pc[u] /\ row'[u] = row[u]
<1>1. /\ pc' = [pc EXCEPT ![t] = IF polls[t] THEN "poll" ELSE "idle"]
      /\ polls' = [polls EXCEPT ![t] = FALSE]
      /\ row' = [row EXCEPT ![t] = None]
      /\ encoded' = [encoded EXCEPT ![t] = None]
      /\ answer' = [answer EXCEPT ![t] = None]
  BY DEF Flushed, Forget, Goto
<1>2. /\ pc' \in [Threads -> Labels] /\ pc'[t] \in {"idle", "poll"}
      /\ polls' \in [Threads -> BOOLEAN]
      /\ row' \in [Threads -> RowRounds \cup {None}]
      /\ encoded' \in [Threads -> Int \cup {None}]
      /\ answer' \in [Threads -> Answer \cup {None}]
  BY <1>1 DEF ThreadsOK, Labels
<1>3. \A u \in Threads : u # t =>
        pc'[u] = pc[u] /\ row'[u] = row[u] /\ encoded'[u] = encoded[u]
                       /\ answer'[u] = answer[u]
  BY <1>1 DEF ThreadsOK
<1>4. \A u \in Threads : u # t =>
        /\ pc'[u] \in WithRow => row'[u] \in RowRounds
        /\ pc'[u] = "send" => encoded'[u] \in Int
        /\ pc'[u] \in WithAnswer => answer'[u] \in Answer
  BY <1>3 DEF ThreadsOK
<1>5. pc'[t] \notin WithRow \cup WithAnswer /\ pc'[t] # "send"
  BY <1>2 DEF WithRow, WithAnswer
<1> QED
  BY <1>2, <1>3, <1>4, <1>5 DEF ThreadsOK

LEMMA MixesRows ==
  ASSUME TypeOK, NEW t \in Threads, Mixes(t)
  PROVE  mixed \subseteq mixed' /\ mixed' \subseteq RowRounds
  BY DEF Mixes, TypeOK, WithRow

LEMMA TypeInit == Init => TypeInv
  BY UplinkAssumption
  DEF Init, TypeInv, TypeOK, WireInv, Labels, WithRow, WithAnswer, RowRounds, NoModel

LEMMA TypeStep == TypeInv /\ [Next]_vars => TypeInv'
<1> SUFFICES ASSUME TypeInv, [Next]_vars PROVE TypeInv'
  OBVIOUS
<1> USE UplinkAssumption DEF TypeInv, Labels, WithRow, WithAnswer, districtVars, clientVars,
        threadVars, cityVars
<1>1. ASSUME NEW t \in Threads, CloseRound(t) PROVE TypeInv'
  BY <1>1 DEF CloseRound, QueueSummary, Goto, TypeOK, WireInv, RowRounds
<1>2. ASSUME NEW t \in Threads, StartPoll(t) PROVE TypeInv'
  BY <1>2 DEF StartPoll, Goto, TypeOK, WireInv
<1>3. ASSUME NEW t \in Threads, NothingToFlush(t) PROVE TypeInv'
  <2>1. ThreadsOK
    BY DEF TypeOK, ThreadsOK
  <2>2. ThreadsOK' /\ \A u \in Threads : u # t => pc'[u] = pc[u]
    BY <1>3, <2>1, FlushedType DEF NothingToFlush
  <2>3. TypeOK'
    BY <1>3, <2>2 DEF NothingToFlush, TypeOK, ThreadsOK
  <2>4. WireInv'
    BY <1>3, <2>2 DEF NothingToFlush, TypeOK, WireInv, Upload
  <2> QED
    BY <2>3, <2>4
<1>4. ASSUME NEW t \in Threads, ReadRow(t) PROVE TypeInv'
  BY <1>4 DEF ReadRow, Goto, TypeOK, WireInv
<1>5. ASSUME NEW t \in Threads, StampClient(t) PROVE TypeInv'
  <2>1. mixed' \subseteq RowRounds
    BY <1>5, MixesRows DEF StampClient
  <2>2. clientRound' \in Nat /\ clientVersion' \in Int
    BY <1>5 DEF StampClient, Stamp, TypeOK, RowRounds
  <2> QED
    BY <1>5, <2>1, <2>2 DEF StampClient, Goto, TypeOK, WireInv
<1>6. ASSUME NEW t \in Threads, Encode(t) PROVE TypeInv'
  BY <1>6 DEF Encode, Goto, TypeOK, WireInv
<1>7. ASSUME NEW t \in Threads, Send(t) PROVE TypeInv'
  BY <1>7 DEF Send, Goto, TypeOK, WireInv, Upload
<1>8. ASSUME NEW t \in Threads, Refused(t) PROVE TypeInv'
  <2>1. ThreadsOK
    BY DEF TypeOK, ThreadsOK
  <2>2. ThreadsOK' /\ \A u \in Threads : u # t => pc'[u] = pc[u]
    BY <1>8, <2>1, FlushedType DEF Refused
  <2>3. TypeOK'
    BY <1>8, <2>2 DEF Refused, TypeOK, ThreadsOK
  <2>4. WireInv'
    BY <1>8, <2>2 DEF Refused, TypeOK, WireInv, Upload
  <2> QED
    BY <2>3, <2>4
<1>9. ASSUME NEW t \in Threads, Succeeded(t) PROVE TypeInv'
  BY <1>9, MixesRows DEF Succeeded, Later, Goto, TypeOK, WireInv, Answer
<1>10. ASSUME NEW t \in Threads, CompleteUplink(t) PROVE TypeInv'
  <2>1. ThreadsOK
    BY DEF TypeOK, ThreadsOK
  <2>2. ThreadsOK' /\ \A u \in Threads : u # t => pc'[u] = pc[u]
    BY <1>10, <2>1, FlushedType DEF CompleteUplink
  <2>3. TypeOK'
    BY <1>10, <2>2 DEF CompleteUplink, TypeOK, ThreadsOK
  <2>4. WireInv'
    BY <1>10, <2>2 DEF CompleteUplink, TypeOK, WireInv, Upload
  <2> QED
    BY <2>3, <2>4
<1>11. ASSUME NEW t \in Threads, CityAnswersPoll(t) PROVE TypeInv'
  BY <1>11 DEF CityAnswersPoll, Goto, TypeOK, WireInv, Answer
<1>12. ASSUME NEW t \in Threads, PollFails(t) PROVE TypeInv'
  BY <1>12 DEF PollFails, Goto, TypeOK, WireInv
<1>13. ASSUME NEW t \in Threads, OldNews(t) PROVE TypeInv'
  BY <1>13 DEF OldNews, Forget, Goto, TypeOK, WireInv
<1>14. ASSUME NEW t \in Threads, ApplyRound(t) PROVE TypeInv'
  BY <1>14, MixesRows DEF ApplyRound, Later, Goto, TypeOK, WireInv, Answer
<1>15. ASSUME NEW t \in Threads, ApplyVersion(t) PROVE TypeInv'
  BY <1>15, MixesRows DEF ApplyVersion, Goto, TypeOK, WireInv, Answer
<1>16. ASSUME NEW t \in Threads, Adopt(t) PROVE TypeInv'
  BY <1>16 DEF Adopt, Forget, Goto, TypeOK, WireInv, Answer
<1>17. ASSUME NEW t \in Threads, Serve(t) PROVE TypeInv'
  BY <1>17 DEF Serve, Goto, TypeOK, WireInv
<1>18. ASSUME NEW t \in Threads, TimesOut(t) PROVE TypeInv'
  <2>1. ThreadsOK
    BY DEF TypeOK, ThreadsOK
  <2>2. ThreadsOK' /\ \A u \in Threads : u # t => pc'[u] = pc[u]
    BY <1>18, <2>1, FlushedType DEF TimesOut
  <2>3. wire \subseteq Upload
    BY DEF TypeOK
  <2>4. CASE wire' = {m \in wire : m.caller # t}
    <3>1. TypeOK'
      BY <1>18, <2>2, <2>4 DEF TimesOut, TypeOK, ThreadsOK
    <3>2. WireInv'
      BY <2>2, <2>3, <2>4 DEF WireInv, Upload
    <3> QED
      BY <3>1, <3>2
  <2>5. CASE wire' = {[m EXCEPT !.caller = IF @ = t THEN None ELSE @] : m \in wire}
    <3>1. \A m \in wire' : \E n \in wire :
            m = [n EXCEPT !.caller = IF @ = t THEN None ELSE @]
      BY <2>5
    <3>2. wire' \subseteq Upload
      BY <2>3, <3>1 DEF Upload
    <3>3. TypeOK'
      BY <1>18, <2>2, <3>2 DEF TimesOut, TypeOK, ThreadsOK
    <3>4. WireInv'
      <4>1. ASSUME NEW m \in wire', m.caller # None PROVE m \in wire /\ m.caller # t
        <5>1. PICK n \in wire : m = [n EXCEPT !.caller = IF @ = t THEN None ELSE @]
          BY <3>1
        <5>2. n \in Upload
          BY <2>3
        <5>3. n.caller # t
          BY <4>1, <5>1, <5>2 DEF Upload
        <5>4. m = n
          BY <5>1, <5>2, <5>3 DEF Upload
        <5> QED
          BY <5>3, <5>4
      <4> QED
        BY <2>2, <2>3, <4>1 DEF WireInv, Upload
    <3> QED
      BY <3>3, <3>4
  <2> QED
    BY <1>18, <2>4, <2>5 DEF TimesOut
<1>19. ASSUME NEW m \in wire, CityHandles(m) PROVE TypeInv'
  <2>1. m \in Upload /\ cityRound \in Nat
    BY DEF TypeOK
  <2>2. wire' \subseteq wire /\ m \notin wire'
    BY <1>19 DEF CityHandles
  <2>3. held' \in RowRounds \cup {None}
    BY <1>19, <2>1 DEF CityHandles, TypeOK, Upload
  <2>4. CASE m.caller = None
    BY <1>19, <2>2, <2>3, <2>4 DEF CityHandles, TypeOK, WireInv
  <2>5. CASE m.caller # None
    <3>1. m.caller \in Threads /\ pc[m.caller] = "wait"
      BY <2>1, <2>5 DEF WireInv, Upload
    <3>2. Verdict(m) \in {"accepted", "stale", "refused"}
      BY DEF Verdict
    <3>3. [verdict |-> Verdict(m), round |-> cityRound] \in Answer
      BY <2>1, <3>2 DEF Answer
    <3>4. pc' = [pc EXCEPT ![m.caller] = "answered"]
      BY <1>19, <2>5 DEF CityHandles, Goto
    <3>5. answer' = [answer EXCEPT ![m.caller] =
                       [verdict |-> Verdict(m), round |-> cityRound]]
      BY <1>19, <2>5 DEF CityHandles
    <3>6. ThreadsOK'
      BY <1>19, <3>1, <3>3, <3>4, <3>5 DEF CityHandles, TypeOK, ThreadsOK
    <3>7. TypeOK'
      BY <1>19, <2>2, <2>3, <3>6 DEF CityHandles, TypeOK, ThreadsOK
    <3>8. WireInv'
      BY <2>2, <2>5, <3>1, <3>4 DEF TypeOK, WireInv, Upload
    <3> QED
      BY <3>7, <3>8
  <2> QED
    BY <2>4, <2>5
<1>20. ASSUME CityCommits PROVE TypeInv'
  BY <1>20 DEF CityCommits, TypeOK, WireInv
<1>21. ASSUME Restart PROVE TypeInv'
  <2>1. ASSUME NEW m \in wire' PROVE m \in Upload /\ m.caller = None
    <3>1. PICK n \in wire : m = [n EXCEPT !.caller = None]
      BY <1>21 DEF Restart
    <3>2. n \in Upload
      BY DEF TypeOK
    <3> QED
      BY <3>1, <3>2 DEF Upload
  <2>2. TypeOK'
    BY <1>21, <2>1 DEF Restart, TypeOK, NoModel
  <2> QED
    BY <2>1, <2>2 DEF WireInv
<1>22. ASSUME UNCHANGED vars PROVE TypeInv'
  BY <1>22 DEF vars, TypeOK, WireInv
<1> QED
  BY <1>1, <1>2, <1>3, <1>4, <1>5, <1>6, <1>7, <1>8, <1>9, <1>10, <1>11, <1>12, <1>13,
     <1>14, <1>15, <1>16, <1>17, <1>18, <1>19, <1>20, <1>21, <1>22 DEF Next, Handle

(***************************************************************************)
(* Types, and that an answer finds exactly the thread that waits for it.   *)
(***************************************************************************)
THEOREM TypeCorrect == Spec => []TypeOK
<1>1. TypeInv => TypeOK
  BY DEF TypeInv
<1> QED
  BY TypeInit, TypeStep, <1>1, PTL DEF Spec

-------------------------------------------------------------------------------
LEMMA OrderInit == Init => OrderInv
  BY DEF Init, OrderInv, WithRow

LEMMA FlushedOrder ==
  ASSUME TypeOK, OrderInv, NEW t \in Threads, Flushed(t),
         closed' = closed, outbox' \subseteq outbox
  PROVE  OrderInv'
<1>1. ThreadsOK
  BY DEF TypeOK, ThreadsOK
<1>2. /\ pc'[t] \in {"idle", "poll"}
      /\ \A u \in Threads : u # t => pc'[u] = pc[u] /\ row'[u] = row[u]
  BY <1>1, FlushedType
<1> QED
  BY <1>2 DEF OrderInv, WithRow

LEMMA OrderStep == TypeInv /\ OrderInv /\ [Next]_vars => OrderInv'
<1> SUFFICES ASSUME TypeOK, WireInv, OrderInv, [Next]_vars PROVE OrderInv'
  BY DEF TypeInv
<1> USE DEF WithRow, districtVars, clientVars, threadVars, cityVars
<1>1. ASSUME NEW t \in Threads, CloseRound(t) PROVE OrderInv'
  <2>1. closed \in Nat /\ closed' = closed + 1 /\ outbox' = outbox \cup {closed}
    BY <1>1 DEF CloseRound, QueueSummary, TypeOK
  <2>2. outbox' \subseteq 0 .. closed' - 1
    BY <2>1 DEF OrderInv
  <2>3. ASSUME NEW u \in Threads, pc'[u] \in WithRow
        PROVE  row'[u] < closed' /\ \A s \in outbox' : row'[u] <= s
    <3>1. pc[u] \in WithRow /\ row'[u] = row[u]
      BY <1>1, <2>3 DEF CloseRound, Goto, TypeOK
    <3>2. row[u] \in Int /\ row[u] < closed /\ \A s \in outbox : row[u] <= s
      BY <3>1 DEF OrderInv, TypeOK, RowRounds
    <3> QED
      BY <2>1, <3>1, <3>2
  <2> QED
    BY <2>2, <2>3 DEF OrderInv
<1>2. ASSUME NEW t \in Threads, ReadRow(t) PROVE OrderInv'
  <2>1. PICK r \in outbox : IsNext(r) /\ row' = [row EXCEPT ![t] = r]
    BY <1>2 DEF ReadRow
  <2>2. r < closed /\ \A s \in outbox : r <= s
    BY <2>1 DEF OrderInv, IsNext, TypeOK
  <2> QED
    BY <1>2, <2>1, <2>2 DEF ReadRow, Goto, OrderInv, TypeOK
<1>3. ASSUME NEW t \in Threads,
             \/ NothingToFlush(t) \/ Refused(t) \/ CompleteUplink(t) \/ TimesOut(t)
      PROVE  OrderInv'
  <2>1. Flushed(t) /\ closed' = closed /\ outbox' \subseteq outbox
    BY <1>3 DEF NothingToFlush, Refused, CompleteUplink, TimesOut
  <2> QED
    BY <2>1, FlushedOrder
<1>4. ASSUME NEW t \in Threads, StartPoll(t) PROVE OrderInv'
  BY <1>4 DEF StartPoll, Goto, OrderInv, TypeOK
<1>5. ASSUME NEW t \in Threads, StampClient(t) \/ Encode(t) \/ Send(t) \/ Succeeded(t)
      PROVE  OrderInv'
  BY <1>5 DEF StampClient, Encode, Send, Succeeded, Goto, OrderInv, TypeOK
<1>6. ASSUME NEW t \in Threads,
             \/ CityAnswersPoll(t) \/ PollFails(t) \/ OldNews(t) \/ ApplyRound(t)
             \/ ApplyVersion(t) \/ Adopt(t)
      PROVE  OrderInv'
  BY ZenonT(60), <1>6 DEF CityAnswersPoll, PollFails, OldNews, ApplyRound, ApplyVersion,
                          Adopt, Forget, Goto, OrderInv, TypeOK
<1>7. ASSUME NEW t \in Threads, Serve(t) PROVE OrderInv'
  BY <1>7 DEF Serve, Goto, OrderInv, TypeOK
<1>8. ASSUME NEW m \in wire, CityHandles(m) PROVE OrderInv'
  <2>1. CASE m.caller = None
    BY <1>8, <2>1 DEF CityHandles, OrderInv
  <2>2. CASE m.caller # None
    <3>1. m.caller \in Threads /\ pc[m.caller] = "wait"
      BY <2>2 DEF WireInv, TypeOK, Upload
    <3>2. pc' = [pc EXCEPT ![m.caller] = "answered"]
      BY <1>8, <2>2 DEF CityHandles, Goto
    <3> QED
      BY <1>8, <3>1, <3>2 DEF CityHandles, OrderInv, TypeOK
  <2> QED
    BY <2>1, <2>2
<1>9. ASSUME CityCommits PROVE OrderInv'
  BY <1>9 DEF CityCommits, OrderInv
<1>10. ASSUME Restart PROVE OrderInv'
  BY <1>10 DEF Restart, OrderInv
<1>11. ASSUME UNCHANGED vars PROVE OrderInv'
  BY <1>11 DEF vars, OrderInv
<1> QED
  BY <1>1, <1>2, <1>3, <1>4, <1>5, <1>6, <1>7, <1>8, <1>9, <1>10, <1>11 DEF Next, Handle

(***************************************************************************)
(* A thread completes a row that is the oldest of the outbox, or one that  *)
(* another thread has completed before.                                    *)
(***************************************************************************)
LEMMA CompleteOldest ==
  ASSUME TypeOK, OrderInv, NEW t \in Threads, CompleteUplink(t)
  PROVE  \/ outbox' = outbox
         \/ \E r \in outbox : outbox' = outbox \ {r} /\ \A s \in outbox : r <= s
<1>1. pc[t] \in WithRow /\ outbox' = outbox \ {row[t]}
  BY DEF CompleteUplink, WithRow
<1>2. \A s \in outbox : row[t] <= s
  BY <1>1 DEF OrderInv
<1>3. CASE row[t] \in outbox
  BY <1>1, <1>2, <1>3
<1>4. CASE row[t] \notin outbox
  BY <1>1, <1>4
<1> QED
  BY <1>3, <1>4

(***************************************************************************)
(* The outbox is worked off from its oldest row: no thread can delete a    *)
(* summary while an older one waits, however the handlers overlap.         *)
(***************************************************************************)
THEOREM OldestFirst == Spec => OutboxShrinksInOrder
<1> DEFINE Step ==
      \/ outbox' = outbox
      \/ outbox' = outbox \cup {closed} /\ closed' = closed + 1
      \/ \E r \in outbox : outbox' = outbox \ {r} /\ \A s \in outbox : r <= s
<1>1. TypeInv /\ OrderInv /\ [Next]_vars => [Step]_vars
  <2> SUFFICES ASSUME TypeOK, OrderInv, [Next]_vars PROVE Step
    BY DEF TypeInv
  <2>1. ASSUME NEW t \in Threads, CloseRound(t) PROVE Step
    BY <2>1 DEF CloseRound, QueueSummary
  <2>2. ASSUME NEW t \in Threads, CompleteUplink(t) PROVE Step
    BY <2>2, CompleteOldest
  <2>3. ASSUME ~ \E t \in Threads : CloseRound(t) \/ CompleteUplink(t) PROVE Step
    BY <2>3 DEF Next, Handle, StartPoll, NothingToFlush, ReadRow, StampClient, Encode,
                Send, Refused, Succeeded, CityAnswersPoll, OldNews, ApplyRound,
                ApplyVersion, Adopt, Serve, TimesOut, PollFails, CityHandles,
                CityCommits, Restart, vars, districtVars
  <2> QED
    BY <2>1, <2>2, <2>3
<1> QED
  BY TypeInit, TypeStep, OrderInit, OrderStep, <1>1, PTL DEF Spec, OutboxShrinksInOrder

-------------------------------------------------------------------------------
(***************************************************************************)
(* Delivery, however the handlers overlap.  Stamped follows round and      *)
(* version from the row through the client to the wire, for a row whose    *)
(* stamp no other handler has changed: the steps that change one put the   *)
(* row into mixed, so the claim about it ends there.  Late uploads have no *)
(* caller, and Labelled holds for them as well.  Settled says what an      *)
(* answer is worth, Accounted where a closed round's summary is.           *)
(***************************************************************************)
Stamped ==
  \A t \in Threads : row[t] \notin mixed =>
    /\ pc[t] \in {"encode", "send"} => clientRound = row[t]
    /\ pc[t] = "encode" => clientVersion = row[t]
    /\ pc[t] = "send" => encoded[t] = row[t]

Labelled ==
  \A m \in wire :
    /\ m.row \notin mixed => m.round = m.row /\ m.version = m.row
    /\ m.caller # None => m.row = row[m.caller]

\* The City has a row for round r.
Arrived(r) == r < cityRound \/ (r = cityRound /\ held # None)

Settled ==
  \A t \in Threads : row[t] \notin mixed =>
    /\ pc[t] = "complete" => Arrived(row[t])
    /\ pc[t] = "answered" /\ answer[t].verdict \in {"accepted", "stale"} => Arrived(row[t])

Accounted == \A r \in 0 .. closed - 1 : r \in outbox \cup mixed \/ Arrived(r)

DeliveryInv == Stamped /\ Labelled /\ Settled /\ Accounted /\ SummaryInItsRound

LEMMA DeliveryInit == Init => DeliveryInv
  BY DEF Init, DeliveryInv, Stamped, Labelled, Settled, Accounted, SummaryInItsRound

\* What a step keeps that leaves the City and the journal alone.
LEMMA SameCity ==
  ASSUME TypeOK, DeliveryInv, mixed \subseteq mixed',
         UNCHANGED <<cityRound, held, taken, closed, outbox>>
  PROVE  Accounted' /\ SummaryInItsRound' /\ \A r : Arrived(r)' <=> Arrived(r)
  BY DEF DeliveryInv, Accounted, Arrived, SummaryInItsRound

(***************************************************************************)
(* A handler that writes the client changes the stamp of no other row than *)
(* those that become mixed.                                                *)
(***************************************************************************)
LEMMA OthersStamped ==
  ASSUME TypeOK, Stamped, NEW t \in Threads, Mixes(t),
         NEW u \in Threads, u # t, row[u] \notin mixed',
         pc'[u] = pc[u], row'[u] = row[u], encoded'[u] = encoded[u]
  PROVE  /\ pc'[u] \in {"encode", "send"} => clientRound' = row'[u]
         /\ pc'[u] = "encode" => clientVersion' = row'[u]
         /\ pc'[u] = "send" => encoded'[u] = row'[u]
<1>1. row[u] \notin mixed
  BY MixesRows
<1>2. /\ pc[u] = "encode" => clientVersion' = clientVersion
      /\ pc[u] \in {"encode", "send"} => clientRound' = clientRound
  BY DEF Mixes
<1> QED
  BY <1>1, <1>2 DEF Stamped

\* The last step of a flush: the handler has nothing left but its poll.
LEMMA FlushedDelivery ==
  ASSUME TypeOK, DeliveryInv, NEW t \in Threads, Flushed(t),
         UNCHANGED <<clientVars, held, taken, cityRound, closed>>,
         \A m \in wire' : /\ m.row \notin mixed => m.round = m.row /\ m.version = m.row
                          /\ m.caller # None => m \in wire /\ m.caller # t,
         \A r \in outbox : r \in outbox' \cup mixed \/ Arrived(r)
  PROVE  DeliveryInv'
<1>1. ThreadsOK
  BY DEF TypeOK, ThreadsOK
<1>2. /\ pc'[t] \in {"idle", "poll"}
      /\ \A u \in Threads : u # t => pc'[u] = pc[u] /\ row'[u] = row[u]
  BY <1>1, FlushedType
<1>3. \A u \in Threads : u # t => encoded'[u] = encoded[u] /\ answer'[u] = answer[u]
  BY <1>1 DEF Flushed, Forget, ThreadsOK
<1>4. Stamped' /\ Settled'
  BY <1>2, <1>3 DEF DeliveryInv, Stamped, Settled, Arrived, clientVars
<1>5. Labelled'
  <2>1. ASSUME NEW m \in wire', m.caller # None PROVE m.row = row'[m.caller]
    <3>1. m \in wire /\ m.caller # t /\ m.caller \in Threads
      BY <2>1 DEF TypeOK, Upload
    <3>2. m.row = row[m.caller]
      BY <2>1, <3>1 DEF DeliveryInv, Labelled
    <3> QED
      BY <1>2, <3>1, <3>2
  <2> QED
    BY <2>1 DEF Labelled, clientVars
<1>6. Accounted' /\ SummaryInItsRound'
  BY DEF DeliveryInv, Accounted, Arrived, SummaryInItsRound, clientVars
<1> QED
  BY <1>4, <1>5, <1>6 DEF DeliveryInv

LEMMA DeliveryStep ==
  ASSUME TypeInv, DeliveryInv, [Next]_vars
  PROVE  DeliveryInv'
<1> USE UplinkAssumption
<1> USE DEF districtVars, clientVars, threadVars, cityVars
<1>0. TypeOK /\ WireInv /\ TypeOK'
  BY TypeStep DEF TypeInv
<1>1. ASSUME NEW t \in Threads, CloseRound(t) PROVE DeliveryInv'
  <2>1. /\ pc[t] = "idle" /\ pc' = [pc EXCEPT ![t] = "read"]
        /\ UNCHANGED <<clientVars, row, encoded, answer, cityVars>>
        /\ outbox' = outbox \cup {closed} /\ closed' = closed + 1
    BY <1>1 DEF CloseRound, QueueSummary, Goto
  <2>2. pc'[t] = "read" /\ \A u \in Threads : u # t => pc'[u] = pc[u]
    BY <1>0, <2>1 DEF TypeOK
  <2>3. Stamped' /\ Settled'
    BY <2>1, <2>2 DEF DeliveryInv, Stamped, Settled, Arrived
  <2>4. Accounted'
    BY <1>0, <2>1 DEF TypeOK, DeliveryInv, Accounted, Arrived
  <2>5. Labelled' /\ SummaryInItsRound'
    BY <2>1 DEF DeliveryInv, Labelled, SummaryInItsRound
  <2> QED
    BY <2>3, <2>4, <2>5 DEF DeliveryInv
<1>2. ASSUME NEW t \in Threads,
             \/ StartPoll(t) \/ CityAnswersPoll(t) \/ PollFails(t) \/ OldNews(t)
             \/ Adopt(t) \/ Serve(t)
      PROVE  DeliveryInv'
  <2>1. /\ pc[t] \in {"idle", "poll", "polled", "adopt", "serve"}
        /\ \E l \in {"read", "polled", "serve", "idle"} : pc' = [pc EXCEPT ![t] = l]
        /\ UNCHANGED <<districtVars, clientRound, clientVersion, mixed, cityVars>>
    BY <1>2 DEF StartPoll, CityAnswersPoll, PollFails, OldNews, Adopt, Serve, Goto
  <2>2. \A u \in Threads : u # t =>
          row'[u] = row[u] /\ encoded'[u] = encoded[u] /\ answer'[u] = answer[u]
    BY <1>0, <1>2 DEF StartPoll, CityAnswersPoll, PollFails, OldNews, Adopt, Serve, Forget,
                      TypeOK
  <2>3. /\ pc'[t] \in {"read", "polled", "serve", "idle"}
        /\ \A u \in Threads : u # t => pc'[u] = pc[u]
    BY <1>0, <2>1 DEF TypeOK
  <2>4. Stamped' /\ Settled'
    BY <2>1, <2>2, <2>3 DEF DeliveryInv, Stamped, Settled, Arrived
  <2>5. Labelled'
    <3>1. ASSUME NEW m \in wire', m.caller # None PROVE m.row = row'[m.caller]
      <4>1. m \in wire /\ m.caller \in Threads /\ pc[m.caller] = "wait"
        BY <1>0, <2>1, <3>1 DEF TypeOK, Upload, WireInv
      <4>2. m.caller # t
        BY <2>1, <4>1
      <4> QED
        BY <2>2, <3>1, <4>1, <4>2 DEF DeliveryInv, Labelled
    <3> QED
      BY <2>1, <3>1 DEF DeliveryInv, Labelled
  <2>6. Accounted' /\ SummaryInItsRound'
    BY <1>0, <2>1, SameCity
  <2> QED
    BY <2>4, <2>5, <2>6 DEF DeliveryInv
<1>3. ASSUME NEW t \in Threads, NothingToFlush(t) \/ Refused(t) PROVE DeliveryInv'
  <2>1. \A m \in wire' : /\ m.row \notin mixed => m.round = m.row /\ m.version = m.row
                         /\ m.caller # None => m \in wire /\ m.caller # t
    BY <1>0, <1>3 DEF NothingToFlush, Refused, DeliveryInv, Labelled, WireInv
  <2> QED
    BY <1>0, <1>3, <2>1, FlushedDelivery DEF NothingToFlush, Refused
<1>4. ASSUME NEW t \in Threads, ReadRow(t) PROVE DeliveryInv'
  <2>1. /\ pc[t] = "read" /\ pc' = [pc EXCEPT ![t] = "stamp"]
        /\ \E r \in outbox : row' = [row EXCEPT ![t] = r]
        /\ UNCHANGED <<districtVars, clientVars, encoded, answer, cityVars>>
    BY <1>4 DEF ReadRow, Goto
  <2>2. \A m \in wire : m.caller # t
    BY <1>0, <2>1 DEF WireInv
  <2>3. pc'[t] = "stamp" /\ \A u \in Threads : u # t => pc'[u] = pc[u] /\ row'[u] = row[u]
    BY <1>0, <2>1 DEF TypeOK
  <2>4. Stamped' /\ Settled'
    BY <2>1, <2>3 DEF DeliveryInv, Stamped, Settled, Arrived
  <2>5. Labelled'
    BY <1>0, <2>1, <2>2, <2>3 DEF TypeOK, Upload, DeliveryInv, Labelled
  <2>6. Accounted' /\ SummaryInItsRound'
    BY <1>0, <2>1, SameCity
  <2> QED
    BY <2>4, <2>5, <2>6 DEF DeliveryInv
<1>5. ASSUME NEW t \in Threads, StampClient(t) PROVE DeliveryInv'
  <2>1. /\ pc[t] = "stamp" /\ pc' = [pc EXCEPT ![t] = "encode"] /\ Mixes(t)
        /\ clientRound' = row[t] /\ clientVersion' = row[t]
        /\ UNCHANGED <<districtVars, row, encoded, answer, cityVars>>
    BY <1>5 DEF StampClient, Stamp, Goto
  <2>2. mixed \subseteq mixed'
    BY <1>0, <2>1, MixesRows
  <2>3. pc'[t] = "encode" /\ \A u \in Threads : u # t => pc'[u] = pc[u]
    BY <1>0, <2>1 DEF TypeOK
  <2>4. Stamped'
    BY <1>0, <2>1, <2>3, OthersStamped DEF DeliveryInv, Stamped
  <2>5. Settled'
    BY <2>1, <2>2, <2>3 DEF DeliveryInv, Settled, Arrived
  <2>6. Labelled' /\ Accounted' /\ SummaryInItsRound'
    BY <1>0, <2>1, <2>2, SameCity DEF DeliveryInv, Labelled
  <2> QED
    BY <2>4, <2>5, <2>6 DEF DeliveryInv
<1>6. ASSUME NEW t \in Threads, Encode(t) PROVE DeliveryInv'
  <2>1. /\ pc[t] = "encode" /\ pc' = [pc EXCEPT ![t] = "send"]
        /\ encoded' = [encoded EXCEPT ![t] = clientVersion]
        /\ UNCHANGED <<districtVars, clientVars, row, answer, cityVars>>
    BY <1>6 DEF Encode, Goto
  <2>2. /\ pc'[t] = "send" /\ encoded'[t] = clientVersion
        /\ \A u \in Threads : u # t => pc'[u] = pc[u] /\ encoded'[u] = encoded[u]
    BY <1>0, <2>1 DEF TypeOK
  <2>3. Stamped' /\ Settled'
    BY <2>1, <2>2 DEF DeliveryInv, Stamped, Settled, Arrived
  <2>4. Labelled' /\ Accounted' /\ SummaryInItsRound'
    BY <1>0, <2>1, SameCity DEF DeliveryInv, Labelled
  <2> QED
    BY <2>3, <2>4 DEF DeliveryInv
<1>7. ASSUME NEW t \in Threads, Send(t) PROVE DeliveryInv'
  <2>1. /\ pc[t] = "send" /\ pc' = [pc EXCEPT ![t] = "wait"]
        /\ encoded' = [encoded EXCEPT ![t] = None]
        /\ wire' = wire \cup {[row |-> row[t], round |-> clientRound,
                               version |-> encoded[t], caller |-> t]}
        /\ UNCHANGED <<districtVars, clientVars, row, answer, cityRound, held, taken>>
    BY <1>7 DEF Send, Goto
  <2>2. row[t] \notin mixed => clientRound = row[t] /\ encoded[t] = row[t]
    BY <2>1 DEF DeliveryInv, Stamped
  <2>3. Labelled'
    BY <2>1, <2>2 DEF DeliveryInv, Labelled
  <2>4. pc'[t] = "wait" /\ \A u \in Threads : u # t => pc'[u] = pc[u] /\ encoded'[u] = encoded[u]
    BY <1>0, <2>1 DEF TypeOK
  <2>5. Stamped' /\ Settled'
    BY <2>1, <2>4 DEF DeliveryInv, Stamped, Settled, Arrived
  <2>6. Accounted' /\ SummaryInItsRound'
    BY <1>0, <2>1, SameCity
  <2> QED
    BY <2>3, <2>5, <2>6 DEF DeliveryInv
<1>8. ASSUME NEW t \in Threads, Succeeded(t) PROVE DeliveryInv'
  <2>1. /\ pc[t] = "answered" /\ pc' = [pc EXCEPT ![t] = "complete"] /\ Mixes(t)
        /\ answer[t].verdict \in {"accepted", "stale"}
        /\ UNCHANGED <<districtVars, row, encoded, answer, cityVars>>
    BY <1>8 DEF Succeeded, Goto
  <2>2. mixed \subseteq mixed'
    BY <1>0, <2>1, MixesRows
  <2>3. pc'[t] = "complete" /\ \A u \in Threads : u # t => pc'[u] = pc[u]
    BY <1>0, <2>1 DEF TypeOK
  <2>4. Stamped'
    BY <1>0, <2>1, <2>3, OthersStamped DEF DeliveryInv, Stamped
  <2>5. Settled'
    BY <2>1, <2>2, <2>3 DEF DeliveryInv, Settled, Arrived
  <2>6. Labelled' /\ Accounted' /\ SummaryInItsRound'
    BY <1>0, <2>1, <2>2, SameCity DEF DeliveryInv, Labelled
  <2> QED
    BY <2>4, <2>5, <2>6 DEF DeliveryInv
<1>9. ASSUME NEW t \in Threads, CompleteUplink(t) PROVE DeliveryInv'
  <2>1. row[t] \in mixed \/ Arrived(row[t])
    BY <1>9 DEF CompleteUplink, DeliveryInv, Settled
  <2>2. \A m \in wire' : /\ m.row \notin mixed => m.round = m.row /\ m.version = m.row
                         /\ m.caller # None => m \in wire /\ m.caller # t
    BY <1>0, <1>9 DEF CompleteUplink, DeliveryInv, Labelled, WireInv
  <2>3. \A r \in outbox : r \in outbox' \cup mixed \/ Arrived(r)
    BY <1>9, <2>1 DEF CompleteUplink
  <2> QED
    BY <1>0, <1>9, <2>2, <2>3, FlushedDelivery DEF CompleteUplink
<1>10. ASSUME NEW t \in Threads, TimesOut(t) PROVE DeliveryInv'
  <2>1. ASSUME NEW m \in wire'
        PROVE  /\ m.row \notin mixed => m.round = m.row /\ m.version = m.row
               /\ m.caller # None => m \in wire /\ m.caller # t
    <3>1. CASE wire' = {n \in wire : n.caller # t}
      BY <3>1 DEF DeliveryInv, Labelled
    <3>2. CASE wire' = {[n EXCEPT !.caller = IF @ = t THEN None ELSE @] : n \in wire}
      <4>1. PICK n \in wire : m = [n EXCEPT !.caller = IF @ = t THEN None ELSE @]
        BY <3>2
      <4>2. n \in Upload /\ (n.row \notin mixed => n.round = n.row /\ n.version = n.row)
        BY <1>0 DEF TypeOK, DeliveryInv, Labelled
      <4>3. /\ m.row = n.row /\ m.round = n.round /\ m.version = n.version
            /\ n.caller = t => m.caller = None
        BY <4>1, <4>2 DEF Upload
      <4>4. n.caller # t => m = n
        BY <4>1, <4>2 DEF Upload
      <4> QED
        BY <4>2, <4>3, <4>4
    <3> QED
      BY <1>10, <3>1, <3>2 DEF TimesOut
  <2> QED
    BY <1>0, <1>10, <2>1, FlushedDelivery DEF TimesOut
<1>11. ASSUME NEW t \in Threads, ApplyRound(t) \/ ApplyVersion(t) PROVE DeliveryInv'
  <2>1. /\ pc[t] \in {"polled", "decode"} /\ Mixes(t)
        /\ \E l \in {"decode", "adopt"} : pc' = [pc EXCEPT ![t] = l]
        /\ UNCHANGED <<districtVars, row, encoded, answer, cityVars>>
    BY <1>11 DEF ApplyRound, ApplyVersion, Goto
  <2>2. mixed \subseteq mixed'
    BY <1>0, <2>1, MixesRows
  <2>3. pc'[t] \in {"decode", "adopt"} /\ \A u \in Threads : u # t => pc'[u] = pc[u]
    BY <1>0, <2>1 DEF TypeOK
  <2>4. Stamped'
    BY <1>0, <2>1, <2>3, OthersStamped DEF DeliveryInv, Stamped
  <2>5. Settled'
    BY <2>1, <2>2, <2>3 DEF DeliveryInv, Settled, Arrived
  <2>6. Labelled' /\ Accounted' /\ SummaryInItsRound'
    BY <1>0, <2>1, <2>2, SameCity DEF DeliveryInv, Labelled
  <2> QED
    BY <2>4, <2>5, <2>6 DEF DeliveryInv
<1>12. ASSUME NEW m \in wire, CityHandles(m) PROVE DeliveryInv'
  <2>1. /\ m \in Upload /\ cityRound \in Nat /\ mixed' = mixed
        /\ m.row \notin mixed => m.round = m.row /\ m.version = m.row
        /\ m.caller # None => /\ m.caller \in Threads /\ pc[m.caller] = "wait"
                              /\ m.row = row[m.caller]
    <3>1. m \in Upload /\ cityRound \in Nat
      BY <1>0 DEF TypeOK
    <3>2. /\ m.row \notin mixed => m.round = m.row /\ m.version = m.row
          /\ m.caller # None => m.row = row[m.caller] /\ pc[m.caller] = "wait"
      BY <1>0 DEF DeliveryInv, Labelled, WireInv
    <3> QED
      BY <1>12, <3>1, <3>2 DEF CityHandles, Upload
  <2>2. /\ Verdict(m) = "accepted" => m.round = cityRound /\ held' = m.row
        /\ Verdict(m) # "accepted" => held' = held
        /\ Verdict(m) = "stale" => m.round < cityRound
    BY <1>12, <2>1 DEF CityHandles, Verdict
  <2>3. /\ cityRound' = cityRound /\ taken' = taken
        /\ \A r : Arrived(r) => Arrived(r)'
    BY <1>12, <2>1, <2>2 DEF CityHandles, Arrived, Upload, RowRounds
  <2>4. Labelled' /\ SummaryInItsRound'
    BY <1>12, <2>1, <2>2, <2>3 DEF CityHandles, DeliveryInv, Labelled, SummaryInItsRound
  <2>5. Accounted'
    BY <1>12, <2>3 DEF CityHandles, DeliveryInv, Accounted
  <2>6. m.row \notin mixed /\ Verdict(m) \in {"accepted", "stale"} => Arrived(m.row)'
    <3>1. m.row # None /\ cityRound' = cityRound
      BY <2>1, <2>3 DEF Upload, RowRounds
    <3>2. ASSUME m.row \notin mixed, Verdict(m) = "accepted" PROVE Arrived(m.row)'
      <4>1. m.row = cityRound' /\ held' # None
        BY <2>1, <2>2, <3>1, <3>2
      <4> QED
        BY <4>1 DEF Arrived
    <3>3. ASSUME m.row \notin mixed, Verdict(m) = "stale" PROVE Arrived(m.row)'
      <4>1. m.row < cityRound'
        BY <2>1, <2>2, <3>1, <3>3
      <4> QED
        BY <4>1 DEF Arrived
    <3> QED
      BY <3>2, <3>3
  <2>7. CASE m.caller = None
    <3>1. UNCHANGED <<pc, answer, row, encoded, clientVars>>
      BY <1>12, <2>7 DEF CityHandles
    <3>2. Stamped' /\ Settled'
      BY <2>3, <3>1 DEF DeliveryInv, Stamped, Settled, Arrived
    <3> QED
      BY <2>4, <2>5, <3>2 DEF DeliveryInv
  <2>8. CASE m.caller # None
    <3>1. /\ pc' = [pc EXCEPT ![m.caller] = "answered"]
          /\ answer' = [answer EXCEPT ![m.caller] = [verdict |-> Verdict(m), round |-> cityRound]]
          /\ UNCHANGED <<row, encoded, clientVars>>
      BY <1>12, <2>8 DEF CityHandles, Goto
    <3>2. /\ pc'[m.caller] = "answered" /\ answer'[m.caller].verdict = Verdict(m)
          /\ \A u \in Threads : u # m.caller => pc'[u] = pc[u] /\ answer'[u] = answer[u]
      BY <1>0, <2>1, <2>8, <3>1 DEF TypeOK
    <3>3. Stamped'
      BY <3>1, <3>2 DEF DeliveryInv, Stamped
    <3>4. Settled'
      <4>1. ASSUME NEW u \in Threads, u # m.caller, row'[u] \notin mixed',
                   \/ pc'[u] = "complete"
                   \/ pc'[u] = "answered" /\ answer'[u].verdict \in {"accepted", "stale"}
            PROVE  Arrived(row[u])
        BY <2>1, <3>1, <3>2, <4>1 DEF DeliveryInv, Settled
      <4>2. ASSUME NEW u \in Threads, row'[u] \notin mixed',
                   \/ pc'[u] = "complete"
                   \/ pc'[u] = "answered" /\ answer'[u].verdict \in {"accepted", "stale"}
            PROVE  Arrived(row[u])'
        <5>1. CASE u = m.caller
          <6>1. m.row = row'[u] /\ row' = row /\ mixed' = mixed
            BY <2>1, <2>8, <3>1, <5>1
          <6>2. m.row \notin mixed /\ Verdict(m) \in {"accepted", "stale"}
            BY <3>2, <4>2, <5>1, <6>1
          <6>3. m.row < cityRound' \/ (m.row = cityRound' /\ held' # None)
            BY <2>6, <6>2 DEF Arrived
          <6> QED
            BY <6>1, <6>3 DEF Arrived
        <5>2. CASE u # m.caller
          <6>1. Arrived(row[u])
            BY <4>1, <4>2, <5>2
          <6> QED
            BY <2>3, <3>1, <6>1 DEF Arrived
        <5> QED
          BY <5>1, <5>2
      <4> QED
        BY <4>2 DEF Settled
    <3> QED
      BY <2>4, <2>5, <3>3, <3>4 DEF DeliveryInv
  <2> QED
    BY <2>7, <2>8
<1>13. CASE CityCommits
  <2>1. /\ held # None /\ cityRound = Len(taken) /\ cityRound \in Nat
        /\ taken' = Append(taken, held) /\ cityRound' = cityRound + 1 /\ held' = None
        /\ taken \in Seq(RowRounds) /\ held \in mixed \cup {cityRound} /\ mixed' = mixed
    BY <1>0, <1>13 DEF CityCommits, TypeOK, DeliveryInv, SummaryInItsRound
  <2>2. SummaryInItsRound'
    <3>1. ASSUME NEW i \in 1 .. Len(taken') PROVE taken'[i] \in mixed' \cup {i - 1}
      BY <2>1 DEF DeliveryInv, SummaryInItsRound
    <3> QED
      BY <2>1, <3>1 DEF SummaryInItsRound
  <2>3. \A r \in Int : Arrived(r) => Arrived(r)'
    <3>1. cityRound \in Nat /\ cityRound' = cityRound + 1
      BY <2>1
    <3> QED
      BY <3>1 DEF Arrived
  <2>4. \A t \in Threads : pc[t] \in WithRow => row[t] \in Int
    BY <1>0 DEF TypeOK, RowRounds
  <2>5. Settled' /\ Accounted'
    BY <1>0, <1>13, <2>3, <2>4 DEF CityCommits, TypeOK, DeliveryInv, Settled, Arrived, Accounted, WithRow
  <2> QED
    BY <1>13, <2>2, <2>5 DEF CityCommits, DeliveryInv, Stamped, Labelled
<1>14. CASE Restart
  <2>1. ASSUME NEW m \in wire'
        PROVE  m.caller = None /\ (m.row \notin mixed => m.round = m.row /\ m.version = m.row)
    <3>1. PICK n \in wire : m = [n EXCEPT !.caller = None]
      BY <1>14 DEF Restart
    <3>2. n \in Upload /\ (n.row \notin mixed => n.round = n.row /\ n.version = n.row)
      BY <1>0 DEF TypeOK, DeliveryInv, Labelled
    <3> QED
      BY <3>1, <3>2 DEF Upload
  <2>2. Labelled'
    BY <1>14, <2>1 DEF Restart, Labelled
  <2>3. \A t \in Threads : pc'[t] = "idle"
    BY <1>14 DEF Restart
  <2>4. Stamped' /\ Settled'
    BY <2>3 DEF Stamped, Settled
  <2>5. Accounted' /\ SummaryInItsRound'
    BY <1>0, <1>14, SameCity DEF Restart
  <2> QED
    BY <2>2, <2>4, <2>5 DEF DeliveryInv
<1>15. CASE UNCHANGED vars
  BY <1>15 DEF vars, DeliveryInv, Stamped, Labelled, Settled, Accounted, Arrived,
     SummaryInItsRound
<1> QED
  BY <1>1, <1>2, <1>3, <1>4, <1>5, <1>6, <1>7, <1>8, <1>9, <1>10, <1>11, <1>12, <1>13, <1>14,
     <1>15 DEF Next, Handle

LEMMA DeliveryAlways == Spec => [](TypeInv /\ DeliveryInv)
<1>1. TypeInv /\ DeliveryInv /\ [Next]_vars => DeliveryInv'
  BY DeliveryStep
<1> QED
  BY <1>1, TypeInit, TypeStep, DeliveryInit, PTL DEF Spec

(***************************************************************************)
(* The summary of round r is folded in round r of the City, exactly once,  *)
(* through overlapping handlers, timeouts, late uploads and crashes, but   *)
(* for the rows whose stamp another handler changed before it was used.    *)
(***************************************************************************)
THEOREM EverySummaryInItsRound == Spec => []SummaryInItsRound
<1>1. DeliveryInv => SummaryInItsRound
  BY DEF DeliveryInv
<1> QED
  BY <1>1, DeliveryAlways, PTL

(***************************************************************************)
(* A row leaves the outbox only when the City has it, whether the answer   *)
(* was "accepted" or "stale" (complete_uplink); what is lost is a row      *)
(* whose stamp was changed, or one whose place such a row has taken.       *)
(***************************************************************************)
THEOREM OnlyMixedIsDropped == Spec => []OnlyMixedDropped
<1>1. TypeInv /\ DeliveryInv => OnlyMixedDropped
  <2> SUFFICES ASSUME TypeInv, DeliveryInv, NEW r \in 0 .. closed - 1, r \notin outbox \cup mixed
               PROVE  RowOf(r) \in mixed \cup {r}
    BY DEF OnlyMixedDropped
  <2>1. Arrived(r) /\ r \in Nat /\ cityRound = Len(taken) /\ Len(taken) \in Nat
    BY DEF TypeInv, TypeOK, DeliveryInv, Accounted
  <2>2. CASE r < cityRound
    <3>1. r + 1 \in 1 .. Len(taken) /\ RowOf(r) = taken[r + 1]
      BY <2>1, <2>2 DEF RowOf
    <3>2. taken[r + 1] \in mixed \cup {(r + 1) - 1}
      BY <3>1 DEF DeliveryInv, SummaryInItsRound
    <3> QED
      BY <2>1, <3>1, <3>2
  <2>3. CASE r = cityRound /\ held # None
    BY <2>1, <2>3 DEF RowOf, DeliveryInv, SummaryInItsRound
  <2> QED
    BY <2>1, <2>2, <2>3 DEF Arrived
<1> QED
  BY <1>1, DeliveryAlways, PTL

===============================================================================
