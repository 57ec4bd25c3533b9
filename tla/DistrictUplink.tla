----------------------------- MODULE DistrictUplink -----------------------------
(***************************************************************************)
(* The District between the City and its buildings: _flush_uplink and      *)
(* PollDistillation of DistrictOrchestrator (src/tiers/district.py), over  *)
(* upload_delta and pull_global of the one CommunicationModule             *)
(* (src/ismcc/communication.py) that all handler threads share.            *)
(*                                                                         *)
(* The client has no lock, and handlers overlap.  A flush writes the row's *)
(* round and version into the client, and upload_delta reads them again    *)
(* further on; other flushes, the answer to a poll and a "stale" answer    *)
(* write the same fields.  Each stretch between two of these accesses is   *)
(* one action.                                                             *)
(*                                                                         *)
(* The City is what module City shows of it, for one district: it takes    *)
(* an upload for the open round only, with the version of the open round,  *)
(* the last one wins, and then it commits.  "City-round-r" names one       *)
(* model, so a model is a number.  The buildings are one building that     *)
(* polls and whose update closes the round.                                *)
(***************************************************************************)
EXTENDS Integers, Sequences

CONSTANTS
  Threads,        \* the workers of the District's gRPC thread pool
  None,           \* no row, no call, no answer
  MaxRound,       \* bound: the rounds the District closes
  MaxFaults       \* bound: how often the District dies or a call to the City times out

ASSUME UplinkAssumption ==
  /\ MaxRound \in Nat
  /\ MaxFaults \in Nat
  /\ None \notin Int /\ None \notin Threads

NoModel == -1

Later(a, b) == IF a > b THEN a ELSE b

\* The District's journal.
VARIABLES
  closed,         \* current_round: the rounds below it are closed
  outbox          \* pending_uplinks

\* The shared client and the model the District serves.
VARIABLES
  clientRound,    \* uplink.current_round
  clientVersion,  \* uplink.model_version
  lastApplied,    \* uplink._last_applied_round
  globalState     \* self.global_state

(***************************************************************************)
(* Not in the code, for the properties: the rows for which another handler *)
(* changed the client's fields between the stamp and their use.            *)
(***************************************************************************)
VARIABLE mixed

VARIABLES
  pc,             \* where each handler is
  polls,          \* is the call a PollDistillation?
  row,            \* the row _flush_uplink has read
  encoded,        \* the version in the encoded update
  answer          \* what the City answered

\* The City and the wire to it.
VARIABLES
  wire,           \* uploads on their way
  cityRound,      \* the City's open round
  held,           \* this district's row in the journal of the open round
  taken           \* taken[r + 1] is the row folded in round r

VARIABLES
  buildingRound,  \* comms.current_round of the building
  faults

districtVars == <<closed, outbox>>
clientVars   == <<clientRound, clientVersion, lastApplied, globalState, mixed>>
threadVars   == <<pc, polls, row, encoded, answer>>
cityVars     == <<wire, cityRound, held, taken>>
vars == <<districtVars, clientVars, threadVars, cityVars, buildingRound, faults>>

Init ==
  /\ closed = 0 /\ outbox = {}
  /\ clientRound = 0 /\ clientVersion = NoModel
  /\ lastApplied = -1 /\ globalState = NoModel /\ mixed = {}
  /\ pc = [t \in Threads |-> "idle"]
  /\ polls = [t \in Threads |-> FALSE]
  /\ row = [t \in Threads |-> None]
  /\ encoded = [t \in Threads |-> None]
  /\ answer = [t \in Threads |-> None]
  /\ wire = {} /\ cityRound = 0 /\ held = None /\ taken = <<>>
  /\ buildingRound = -1
  /\ faults = 0

-------------------------------------------------------------------------------
Goto(t, label) == pc' = [pc EXCEPT ![t] = label]

\* The local variables of a call go when they are not needed any more.
Forget(t) ==
  /\ row' = [row EXCEPT ![t] = None]
  /\ encoded' = [encoded EXCEPT ![t] = None]
  /\ answer' = [answer EXCEPT ![t] = None]

\* t writes the client: whose stamp, not yet read, does it change?
Mixes(t) ==
  mixed' = mixed \cup
    {row[u] : u \in {v \in Threads \ {t} :
       \/ pc[v] = "encode" /\ clientVersion' # clientVersion
       \/ pc[v] \in {"encode", "send"} /\ clientRound' # clientRound}}

\* Mutant of QueueSummary: the row replaces what is in the outbox.
ReplaceSummary(r) == outbox' = {r}

QueueSummary(r) == outbox' = outbox \cup {r}

\* The building's upload closes the round (module District); now flush.
CloseRound(t) ==
  /\ pc[t] = "idle"
  /\ closed < MaxRound
  /\ buildingRound = closed
  /\ QueueSummary(closed)
  /\ closed' = closed + 1
  /\ Goto(t, "read")
  /\ UNCHANGED <<clientVars, polls, row, encoded, answer, cityVars,
                 buildingRound, faults>>

StartPoll(t) ==
  /\ pc[t] = "idle"
  /\ polls' = [polls EXCEPT ![t] = TRUE]
  /\ Goto(t, "read")
  /\ UNCHANGED <<districtVars, clientVars, row, encoded, answer, cityVars,
                 buildingRound, faults>>

\* The flush is over: a poll goes on, the other call is answered.
Flushed(t) ==
  /\ Goto(t, IF polls[t] THEN "poll" ELSE "idle")
  /\ polls' = [polls EXCEPT ![t] = FALSE]
  /\ Forget(t)

NothingToFlush(t) ==
  /\ pc[t] = "read"
  /\ outbox = {}
  /\ Flushed(t)
  /\ UNCHANGED <<districtVars, clientVars, cityVars, buildingRound, faults>>

\* Mutant of IsNext: the rows are read the other way round.
IsNewest(r) == \A s \in outbox : s <= r

IsNext(r) == \A s \in outbox : r <= s

ReadRow(t) ==
  /\ pc[t] = "read"
  /\ \E r \in outbox : IsNext(r) /\ row' = [row EXCEPT ![t] = r]
  /\ Goto(t, "stamp")
  /\ UNCHANGED <<districtVars, clientVars, polls, encoded, answer, cityVars,
                 buildingRound, faults>>

\* Mutant of Stamp: the client is left as the last poll set it.
StampNothing(t) == UNCHANGED <<clientRound, clientVersion>>

Stamp(t) ==
  /\ clientRound' = row[t]
  /\ clientVersion' = row[t]

StampClient(t) ==
  /\ pc[t] = "stamp"
  /\ Stamp(t)
  /\ Mixes(t)
  /\ Goto(t, "encode")
  /\ UNCHANGED <<districtVars, lastApplied, globalState, polls, row, encoded,
                 answer, cityVars, buildingRound, faults>>

Encode(t) ==
  /\ pc[t] = "encode"
  /\ encoded' = [encoded EXCEPT ![t] = clientVersion]
  /\ Goto(t, "send")
  /\ UNCHANGED <<districtVars, clientVars, polls, row, answer, cityVars,
                 buildingRound, faults>>

Send(t) ==
  /\ pc[t] = "send"
  /\ wire' = wire \cup {[row |-> row[t], round |-> clientRound,
                         version |-> encoded[t], caller |-> t]}
  /\ encoded' = [encoded EXCEPT ![t] = None]
  /\ Goto(t, "wait")
  /\ UNCHANGED <<districtVars, clientVars, polls, row, answer,
                 cityRound, held, taken, buildingRound, faults>>

\* SendGradient of the City takes an upload of the open round's version.
Verdict(m) ==
  CASE m.round < cityRound -> "stale"
    [] m.round = cityRound /\ m.version = cityRound -> "accepted"
    [] OTHER -> "refused"

\* The City handles an upload; the answer reaches a caller that still waits.
CityHandles(m) ==
  /\ wire' = wire \ {m}
  /\ held' = IF Verdict(m) = "accepted" THEN m.row ELSE held
  /\ IF m.caller = None
     THEN UNCHANGED <<pc, answer>>
     ELSE /\ Goto(m.caller, "answered")
          /\ answer' = [answer EXCEPT ![m.caller] =
                          [verdict |-> Verdict(m), round |-> cityRound]]
  /\ UNCHANGED <<districtVars, clientVars, polls, row, encoded, cityRound,
                 taken, buildingRound, faults>>

\* The other districts are in too: the City commits the round.
CityCommits ==
  /\ held # None
  /\ taken' = Append(taken, held)
  /\ cityRound' = cityRound + 1
  /\ held' = None
  /\ UNCHANGED <<districtVars, clientVars, threadVars, wire, buildingRound, faults>>

(***************************************************************************)
(* The deadline passes, whether or not the City has handled the upload or  *)
(* still will.                                                             *)
(***************************************************************************)
TimesOut(t) ==
  /\ faults < MaxFaults
  /\ pc[t] \in {"wait", "answered"}
  /\ faults' = faults + 1
  /\ \/ wire' = {m \in wire : m.caller # t}
     \/ wire' = {[m EXCEPT !.caller = IF @ = t THEN None ELSE @] : m \in wire}
  /\ Flushed(t)
  /\ UNCHANGED <<districtVars, clientVars, cityRound, held, taken, buildingRound>>

Refused(t) ==
  /\ pc[t] = "answered"
  /\ answer[t].verdict = "refused"
  /\ Flushed(t)
  /\ UNCHANGED <<districtVars, clientVars, cityVars, buildingRound, faults>>

\* Accepted, or "stale round": success for upload_delta.
Succeeded(t) ==
  /\ pc[t] = "answered"
  /\ answer[t].verdict \in {"accepted", "stale"}
  /\ clientRound' = IF answer[t].verdict = "stale"
                    THEN Later(clientRound, answer[t].round) ELSE clientRound
  /\ UNCHANGED clientVersion
  /\ Mixes(t)
  /\ Goto(t, "complete")
  /\ UNCHANGED <<districtVars, lastApplied, globalState, polls, row, encoded,
                 answer, cityVars, buildingRound, faults>>

\* Mutant of CompleteUplink: the row stays.
KeepUplink(t) ==
  /\ pc[t] = "complete"
  /\ Flushed(t)
  /\ UNCHANGED <<districtVars, clientVars, cityVars, buildingRound, faults>>

\* complete_uplink deletes the row of the round the thread has read.
CompleteUplink(t) ==
  /\ pc[t] = "complete"
  /\ outbox' = outbox \ {row[t]}
  /\ Flushed(t)
  /\ UNCHANGED <<closed, clientVars, cityVars, buildingRound, faults>>

-------------------------------------------------------------------------------
\* pull_global asks the City; no answer leaves everything as it is.
CityAnswersPoll(t) ==
  /\ pc[t] = "poll"
  /\ answer' = [answer EXCEPT ![t] = [verdict |-> "model", round |-> cityRound]]
  /\ Goto(t, "polled")
  /\ UNCHANGED <<districtVars, clientVars, polls, row, encoded, cityVars,
                 buildingRound, faults>>

PollFails(t) ==
  /\ pc[t] = "poll"
  /\ Goto(t, "serve")
  /\ UNCHANGED <<districtVars, clientVars, polls, row, encoded, answer, cityVars,
                 buildingRound, faults>>

\* Is the model in the answer newer than the last one pulled?
News(t) == answer[t].round > lastApplied

OldNews(t) ==
  /\ pc[t] = "polled"
  /\ ~News(t)
  /\ Goto(t, "serve")
  /\ Forget(t)
  /\ UNCHANGED <<districtVars, clientVars, polls, cityVars, buildingRound, faults>>

ApplyRound(t) ==
  /\ pc[t] = "polled"
  /\ News(t)
  /\ clientRound' = Later(clientRound, answer[t].round)
  /\ lastApplied' = answer[t].round
  /\ UNCHANGED clientVersion
  /\ Mixes(t)
  /\ Goto(t, "decode")
  /\ UNCHANGED <<districtVars, globalState, polls, row, encoded, answer, cityVars,
                 buildingRound, faults>>

ApplyVersion(t) ==
  /\ pc[t] = "decode"
  /\ clientVersion' = answer[t].round
  /\ UNCHANGED clientRound
  /\ Mixes(t)
  /\ Goto(t, "adopt")
  /\ UNCHANGED <<districtVars, lastApplied, globalState, polls, row, encoded,
                 answer, cityVars, buildingRound, faults>>

\* PollDistillation stores what pull_global returned.
Adopt(t) ==
  /\ pc[t] = "adopt"
  /\ globalState' = answer[t].round
  /\ Goto(t, "serve")
  /\ Forget(t)
  /\ UNCHANGED <<districtVars, clientRound, clientVersion, lastApplied, mixed, polls,
                 cityVars, buildingRound, faults>>

(***************************************************************************)
(* The answer to the building: the model the District has, labelled with   *)
(* the District's own round.  The building takes it if the label is new to *)
(* it; the answer may also be lost, or be another building's.              *)
(***************************************************************************)
Serve(t) ==
  /\ pc[t] = "serve"
  /\ \/ /\ globalState # NoModel
        /\ closed > buildingRound
        /\ buildingRound' = closed
     \/ UNCHANGED buildingRound
  /\ Goto(t, "idle")
  /\ UNCHANGED <<districtVars, clientVars, polls, row, encoded, answer, cityVars,
                 faults>>

(***************************************************************************)
(* The District dies and comes back with its journal and a new client.     *)
(* What is on the wire still arrives, or not.                              *)
(***************************************************************************)
Restart ==
  /\ faults < MaxFaults
  /\ faults' = faults + 1
  /\ clientRound' = 0 /\ clientVersion' = NoModel
  /\ lastApplied' = -1 /\ globalState' = NoModel
  /\ pc' = [t \in Threads |-> "idle"]
  /\ polls' = [t \in Threads |-> FALSE]
  /\ row' = [t \in Threads |-> None]
  /\ encoded' = [t \in Threads |-> None]
  /\ answer' = [t \in Threads |-> None]
  /\ wire' = {[m EXCEPT !.caller = None] : m \in wire}
  /\ UNCHANGED <<districtVars, mixed, cityRound, held, taken, buildingRound>>

Handle(t) ==
  \/ NothingToFlush(t)
  \/ ReadRow(t)
  \/ StampClient(t)
  \/ Encode(t)
  \/ Send(t)
  \/ Refused(t)
  \/ Succeeded(t)
  \/ CompleteUplink(t)
  \/ CityAnswersPoll(t)
  \/ OldNews(t)
  \/ ApplyRound(t)
  \/ ApplyVersion(t)
  \/ Adopt(t)
  \/ Serve(t)

Next ==
  \/ \E t \in Threads :
       \/ CloseRound(t)
       \/ StartPoll(t)
       \/ Handle(t)
       \/ TimesOut(t)
       \/ PollFails(t)
  \/ \E m \in wire : CityHandles(m)
  \/ CityCommits
  \/ Restart

Spec == Init /\ [][Next]_vars

(***************************************************************************)
(* Buildings poll at every federation tick, handlers and the City go on,   *)
(* and the other districts' uploads come in.                               *)
(***************************************************************************)
Fairness ==
  /\ SF_vars(\E t \in Threads : StartPoll(t))
  /\ \A t \in Threads : WF_vars(Handle(t))
  /\ WF_vars(\E m \in wire : CityHandles(m))
  /\ WF_vars(CityCommits)

FairSpec == Spec /\ Fairness

-------------------------------------------------------------------------------
(***************************************************************************)
(* Properties                                                              *)
(***************************************************************************)
Labels == {"idle", "read", "stamp", "encode", "send", "wait", "answered", "complete",
           "poll", "polled", "decode", "adopt", "serve"}

WithRow    == {"stamp", "encode", "send", "wait", "answered", "complete"}
WithAnswer == {"answered", "polled", "decode", "adopt"}

RowRounds == 0 .. MaxRound - 1
Answer    == [verdict : {"accepted", "stale", "refused", "model"}, round : Nat]
Upload    == [row : RowRounds, round : Nat, version : Int, caller : Threads \cup {None}]

TypeOK ==
  /\ closed \in 0 .. MaxRound
  /\ outbox \subseteq RowRounds
  /\ clientRound \in Nat /\ mixed \subseteq RowRounds
  /\ clientVersion \in Int /\ lastApplied \in Int /\ globalState \in Int
  /\ pc \in [Threads -> Labels]
  /\ polls \in [Threads -> BOOLEAN]
  /\ row \in [Threads -> RowRounds \cup {None}]
  /\ \A t \in Threads : pc[t] \in WithRow => row[t] \in RowRounds
  /\ encoded \in [Threads -> Int \cup {None}]
  /\ \A t \in Threads : pc[t] = "send" => encoded[t] \in Int
  /\ answer \in [Threads -> Answer \cup {None}]
  /\ \A t \in Threads : pc[t] \in WithAnswer => answer[t] \in Answer
  /\ wire \subseteq Upload
  /\ taken \in Seq(RowRounds) /\ cityRound = Len(taken)
  /\ held \in RowRounds \cup {None}
  /\ buildingRound \in Int
  /\ faults \in 0 .. MaxFaults

(***************************************************************************)
(* The summary of round r is folded in round r of the City, exactly once,  *)
(* through overlapping handlers, timeouts, late uploads and crashes.  Only *)
(* a row whose stamp another handler changed can go astray.                *)
(***************************************************************************)
SummaryInItsRound ==
  /\ \A i \in 1 .. Len(taken) : taken[i] \in mixed \cup {i - 1}
  /\ held \in mixed \cup {None, cityRound}

\* The row the City has for round r, if any.
RowOf(r) ==
  IF r < Len(taken) THEN taken[r + 1] ELSE IF r = cityRound THEN held ELSE None

(***************************************************************************)
(* A row leaves the outbox only when the City has it, but for a row whose  *)
(* stamp was changed, and the row whose place such a row has taken.        *)
(***************************************************************************)
OnlyMixedDropped ==
  \A r \in 0 .. closed - 1 : r \in outbox \cup mixed \/ RowOf(r) \in mixed \cup {r}

(***************************************************************************)
(* "The server already committed this idempotent upload": a row leaves the *)
(* outbox only when the City has it.  Not so when handlers overlap.        *)
(***************************************************************************)
NothingDropped == \A r \in 0 .. closed - 1 : r \in outbox \/ RowOf(r) = r

(***************************************************************************)
(* The outbox is worked off from its oldest row, by any number of threads: *)
(* this is the Flush of module District.                                   *)
(***************************************************************************)
OutboxShrinksInOrder ==
  [][\/ outbox' = outbox
     \/ outbox' = outbox \cup {closed} /\ closed' = closed + 1
     \/ \E r \in outbox : outbox' = outbox \ {r} /\ \A s \in outbox : r <= s]_vars

(***************************************************************************)
(* "Polls the City for the latest global model [...], then serves that     *)
(* freshest state back down": once no answer is being applied, the model   *)
(* the District serves is the newest it has pulled.  Not so when two polls *)
(* overlap.                                                                *)
(***************************************************************************)
ServesFreshest ==
  (\A t \in Threads : pc[t] \notin {"decode", "adopt"}) => globalState = lastApplied

(***************************************************************************)
(* A closed round's summary reaches the City in the end, unless the stamp  *)
(* of this row or of an older one was changed.                             *)
(***************************************************************************)
SummariesArrive ==
  \A r \in 0 .. MaxRound - 1 :
    (closed > r) ~> (Len(taken) > r \/ \E s \in mixed : s <= r)

================================================================================
