-------------------------------- MODULE Desk --------------------------------
(***************************************************************************)
(* The desks of the ballot boxes on the days of the election: the form in  *)
(* which a worker types a student id (voter_form.dart) and the popup with  *)
(* the status that was read then, whose one button is labelled by it       *)
(* (voter_info.dart), over the API of VoterRegistry.                       *)
(*                                                                         *)
(* The call of the button carries only the student id: the server does     *)
(* the step that the status of that moment calls for.  The code does not   *)
(* disable a button while its call runs, nor end the call when the popup   *)
(* is closed, nor keep a voter to one desk: workers press what is there.   *)
(* A handler of VoterRegistry is also the place of one call of its desk.   *)
(***************************************************************************)
EXTENDS VoterRegistry, Sequences, SequencesExt

ASSUME DeskAssumption == \A h \in Handlers : NodeOf[h] \in BallotBoxes

VARIABLES
  popups,     \* the popups that are open at each desk, the last one on top
  press,      \* the button whose call each handler serves, until its future ends
  overlapped  \* history: students of whom two voting steps ran at the same time

deskVars == <<vars, popups, press, overlapped>>

-----------------------------------------------------------------------------
(* Buttons and popups *)

None == [button |-> "none"]

Stepping(s) == \E h \in Handlers : Voting(h) /\ req[h].voter = s

\* What is known of the voter when a check begins: how many steps there were,
\* or -1 when one of them has not ended.
StepsBefore(s) == IF Stepping(s) THEN -1 ELSE steps[s]

\* A popup is on its desk until it is closed: 0 is no place.
Place(b) == Len(popups[b])

\* Navigator.pop takes the popup on top, whoever asks; calls that were begun on
\* it go on without it.
Pop(b, calls) ==
  /\ popups' = [popups EXCEPT ![b] = Front(popups[b])]
  /\ press' = [h \in Handlers |->
       IF NodeOf[h] = b /\ calls[h].button = "step" /\ calls[h].place = Place(b)
       THEN [calls[h] EXCEPT !.place = 0] ELSE calls[h]]

\* Popups are modal and cannot be dismissed by a tap beside them: the form is
\* reached when none is open.  A check may be pressed again while another runs.
PressCheck(h, s) ==
  /\ popups[NodeOf[h]] = <<>>
  /\ press[h] = None
  /\ ReceiveGetVoter(h, s)
  /\ press' = [press EXCEPT ![h] = [button |-> "check", steps |-> StepsBefore(s)]]
  /\ UNCHANGED <<popups, overlapped>>

\* A voter who was not found gets a message at the bottom of the page; when the
\* page was left, nothing can be shown.
TakeVoter(h) ==
  LET r == req[h]
      popup == [voter |-> r.voter, status |-> r.seen, steps |-> press[h].steps]
  IN /\ press[h].button = "check"
     /\ Deliver(h)
     /\ \/ r.code # -1 /\ popups' = [popups EXCEPT ![NodeOf[h]] = Append(@, popup)]
        \/ UNCHANGED popups
     /\ press' = [press EXCEPT ![h] = None]
     /\ UNCHANGED overlapped

\* The button of the popup on top, unless the voter has voted.
PressStep(h) ==
  LET b == NodeOf[h]
      popup == Last(popups[b])
  IN /\ popups[b] # <<>> /\ popup.status # 2
     /\ press[h] = None
     /\ \E isAfternoon \in Afternoons : ReceiveVotingStep(h, popup.voter, isAfternoon)
     /\ press' = [press EXCEPT ![h] = [button |-> "step", status |-> popup.status,
                                       steps |-> popup.steps, place |-> Place(b)]]
     /\ overlapped' = overlapped \cup {s \in {popup.voter} : Stepping(s)}
     /\ UNCHANGED popups

\* Whatever the answer says, it is shown and the top popup closed.  When the
\* popup of the call is closed already its context is gone, and the callback
\* throws; while it fades out the context is still there.
TakeStep(h) ==
  LET b == NodeOf[h]
      done == [press EXCEPT ![h] = None]
  IN /\ press[h].button = "step"
     /\ Deliver(h)
     /\ \/ popups[b] # <<>> /\ Pop(b, done)
        \/ press[h].place = 0 /\ press' = done /\ UNCHANGED popups
     /\ UNCHANGED overlapped

\* Mutant: an error of the check's call is awaited like an answer.
CallFailsUnseen(h) ==
  /\ press[h].button = "step"
  /\ req[h] = Idle
  /\ press' = [press EXCEPT ![h] = None]
  /\ UNCHANGED <<vars, popups, overlapped>>

\* The API ended: the form shows a message, the callback of the popup throws,
\* and the popup stays with its button.
CallFails(h) ==
  /\ press[h] # None
  /\ req[h] = Idle
  /\ press' = [press EXCEPT ![h] = None]
  /\ UNCHANGED <<vars, popups, overlapped>>

Close(b) ==
  /\ popups[b] # <<>>
  /\ Pop(b, press)
  /\ UNCHANGED <<vars, overlapped>>

-----------------------------------------------------------------------------
(* Specification *)

\* The election day begins: the voters are registered and all nodes serve.
DeskInit ==
  /\ api = [n \in Nodes |-> "up"]
  /\ users = BallotBoxes
  /\ voters \in [Students -> BallotBoxes]
  /\ statuses = [s \in Students |-> NoStatus]
  /\ stats = newStats
  /\ req = [h \in Handlers |-> Idle]
  /\ steps = [s \in Students |-> 0]
  /\ recorded = [s \in Students |-> {}]
  /\ granted = [s \in Students |-> 0]
  /\ accepted = [s \in Students |-> 0]
  /\ popups = [b \in BallotBoxes |-> <<>>]
  /\ press = [h \in Handlers |-> None]
  /\ overlapped = {}

Wait(h) == TakeVoter(h) \/ TakeStep(h) \/ CallFails(h)

Serve(h) == ~At(h, "reply") /\ Handle(h) /\ UNCHANGED <<popups, press, overlapped>>

DeskNext ==
  \/ \E h \in Handlers :
       (\E s \in Students : PressCheck(h, s)) \/ PressStep(h) \/ Wait(h) \/ Serve(h)
  \/ \E b \in BallotBoxes :
       Close(b) \/ ((BoxServes(b) \/ Crash(b)) /\ UNCHANGED <<popups, press, overlapped>>)

DeskSpec == DeskInit /\ [][DeskNext]_deskVars

\* An API that got a call works on it, and its answer is taken.
FairDeskSpec ==
  /\ DeskSpec
  /\ \A h \in Handlers : WF_deskVars(Wait(h)) /\ WF_deskVars(Serve(h))

-----------------------------------------------------------------------------
(* Properties *)

\* Whatever is pressed at whichever desk, on popups however old, and pressed
\* again after calls that failed: a vote is accepted once and is on record,
\* unless two voting steps of the voter ran at the same time.  That is the one
\* thing that RegisterVotingStep leaves to the desks, which do not see to it.
VoteCountsUnlessOverlapped ==
  \A s \in Students \ overlapped :
    accepted[s] <= 1 /\ (accepted[s] > 0 => s \in Voted)

\* The button does what it says, "give ballot" or "register vote", though the
\* label is from an earlier read and the server looks at the status anew
\* (voter_info.dart:114, 123): if no step of the voter ran when the status was
\* asked for, and none was begun since at any desk.
StepIsLabel ==
  \A h \in Handlers :
    LET r == req[h]
    IN /\ press[h].button = "step" /\ At(h, "reply") /\ r.code = 0
       /\ steps[r.voter] = press[h].steps + 1
       => r.seen = press[h].status

\* No button awaits an answer forever: the call of each press ends, with an
\* answer or, when the API ends, without.
PressEnds == \A h \in Handlers : []<>(press[h] = None)
=============================================================================
