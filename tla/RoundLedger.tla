------------------------------ MODULE RoundLedger ------------------------------
(***************************************************************************)
(* What a tier of the federation that owns rounds promises to the tier     *)
(* below it, whatever its threads, its journal and its crashes do.  Both   *)
(* the City (over districts) and the District (over buildings) implement   *)
(* it.                                                                     *)
(*                                                                         *)
(* A member offers a contribution for a round.  The authority may confirm  *)
(* it ("acknowledge"), and it folds one full cohort per round, in the      *)
(* order of the rounds.  The promise: a confirmed contribution is never    *)
(* left out of its round, and no round is folded twice or undone.          *)
(***************************************************************************)
EXTENDS Integers, Sequences

CONSTANTS
  Members,      \* the agents one tier below
  Payloads,     \* the updates a member may offer
  None,         \* stands for "no contribution"
  Quorums       \* the sets of members that are enough for a round

VARIABLES
  history,      \* history[r + 1] is the cohort folded in round r
  offered,      \* <<round, member, payload>> that reached the authority
  acked         \* <<round, member>> that a member knows to be accepted

ledgerVars == <<history, offered, acked>>

Cohort == [Members -> Payloads \cup {None}]

Contributors(c) == {m \in Members : c[m] # None}

Round == Len(history)

\* Member m's contribution to the closed round r was folded.
Folded(r, m) == r \in 0 .. Round - 1 /\ history[r + 1][m] # None

\* A contribution is welcome in the open round, or as a repetition.
Welcome(r, m) == m \in Members /\ (r = Round \/ Folded(r, m))

Init ==
  /\ history = <<>>
  /\ offered = {}
  /\ acked = {}

(***************************************************************************)
(* Contributions arrive and members learn that theirs was accepted.  A     *)
(* confirmation is due only for what was offered for the open round, or    *)
(* for what is already part of a closed one.                               *)
(***************************************************************************)
Receive ==
  /\ offered \subseteq offered'
  /\ \A o \in offered' \ offered : Welcome(o[1], o[2]) /\ o[3] \in Payloads
  /\ acked \subseteq acked' /\ acked' \subseteq Nat \X Members
  /\ \A a \in acked' \ acked :
       /\ Welcome(a[1], a[2])
       /\ Folded(a[1], a[2]) \/ \E p \in Payloads : <<a[1], a[2], p>> \in offered'
  /\ UNCHANGED history

(***************************************************************************)
(* Close the open round with one cohort: enough members, each with a       *)
(* payload it offered for this round, and nobody who was told "accepted"   *)
(* left out.                                                               *)
(***************************************************************************)
Fold(c) ==
  /\ Contributors(c) \in Quorums
  /\ \A m \in Contributors(c) : <<Round, m, c[m]>> \in offered
  /\ \A m \in Members : <<Round, m>> \in acked => c[m] # None
  /\ history' = Append(history, c)
  /\ offered' = offered
  /\ acked \subseteq acked' /\ acked' \subseteq Nat \X Members
  /\ \A a \in acked' \ acked : Folded(a[1], a[2])'

Next == Receive \/ \E c \in Cohort : Fold(c)

Spec == Init /\ [][Next]_ledgerVars

-------------------------------------------------------------------------------
(***************************************************************************)
(* The promise in one formula: whoever was told "accepted" for a round     *)
(* that is closed is in the cohort of that round.                          *)
(***************************************************************************)
AckedIsFolded ==
  \A a \in acked : a[1] < Round => history[a[1] + 1][a[2]] # None

================================================================================
