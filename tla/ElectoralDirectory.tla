------------------------- MODULE ElectoralDirectory -------------------------
(***************************************************************************)
(* What the electoral directory promises (README.md, "Requirements"): one  *)
(* list of voters, on which each is handed a ballot and then marked as     *)
(* having voted, once, by whichever ballot box.  Each change is one atomic *)
(* step here; VoterRegistry shows under which conditions the API servers   *)
(* and their separate SQL statements provide it.                           *)
(***************************************************************************)
EXTENDS Naturals

CONSTANTS
  Students,
  MayLose    \* whether a failure may forget that a voter has a ballot

VARIABLES
  progress,  \* how far each student is
  accepted   \* answers that told a ballot box that the student's vote counts

Stages == {"unknown", "registered", "ballot", "voted"}

Init ==
  /\ progress = [s \in Students |-> "unknown"]
  /\ accepted = [s \in Students |-> 0]

Advance(s, from, to) ==
  /\ progress[s] = from
  /\ progress' = [progress EXCEPT ![s] = to]
  /\ UNCHANGED accepted

Register(s) == Advance(s, "unknown", "registered")

HandOutBallot(s) == Advance(s, "registered", "ballot")

CastVote(s) == Advance(s, "ballot", "voted")

\* A failure concerns everybody who is at a desk of the box that fails.
LoseBallots(lost) ==
  /\ MayLose
  /\ \A s \in lost : progress[s] = "ballot"
  /\ progress' = [s \in Students |-> IF s \in lost THEN "registered" ELSE progress[s]]
  /\ UNCHANGED accepted

AcceptVote(s) ==
  /\ progress[s] = "voted"
  /\ accepted[s] = 0
  /\ accepted' = [accepted EXCEPT ![s] = 1]
  /\ UNCHANGED progress

Next ==
  \/ \E s \in Students : Register(s) \/ HandOutBallot(s) \/ CastVote(s) \/ AcceptVote(s)
  \/ \E lost \in SUBSET Students : LoseBallots(lost)

Spec == Init /\ [][Next]_<<progress, accepted>>
=============================================================================
