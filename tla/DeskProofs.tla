----------------------------- MODULE DeskProofs -----------------------------
(***************************************************************************)
(* What is true of the election day although nothing keeps the desks from  *)
(* overlapping: a vote counts once and for good unless two steps of its    *)
(* voter did overlap, and a button that nobody interfered with does what   *)
(* its label says.                                                         *)
(***************************************************************************)
EXTENDS Desk, VoterRegistryProofs, SequenceTheorems

USE DEF Nodes, AllOperations, Labels, Codes

-----------------------------------------------------------------------------
(* Popups and buttons *)

Popup == [voter : Students, status : 0..2, steps : Int]

Check == [button : {"check"}, steps : Int]

Step == [button : {"step"}, status : 0..2, steps : Int, place : Nat]

DeskTypeOK ==
  /\ popups \in [BallotBoxes -> Seq(Popup)]
  /\ press \in [Handlers -> Check \cup Step \cup {None}]

DeskInv == TypeInv /\ DeskTypeOK

(* The election day begins in a state of the declared types. *)
LEMMA InitDay == DeskInit => DeskInv
<1> SUFFICES ASSUME DeskInit PROVE DeskInv
  OBVIOUS
<1>1. TypeOK
  BY NewStatsType DEF DeskInit, TypeOK, VoterStatus, NoStatus, StatusRow
<1>2. ControlOK
  BY DEF DeskInit, ControlOK, InFlight, Idle
<1>3. DeskTypeOK
  BY DEF DeskInit, DeskTypeOK
<1> QED BY <1>1, <1>2, <1>3 DEF DeskInv, TypeInv

(* The popup on top, and the popups below it. *)
LEMMA TopPopup ==
  ASSUME NEW S, NEW s \in Seq(S), s # <<>>
  PROVE  /\ Last(s) \in S /\ Len(s) \in 1..Len(s) /\ Last(s) = s[Len(s)]
         /\ Front(s) \in Seq(S) /\ Len(Front(s)) = Len(s) - 1
         /\ \A i \in 1..Len(Front(s)) : Front(s)[i] = s[i]
<1>1. Len(s) \in Nat /\ Len(s) # 0
  BY EmptySeq
<1>2. Len(s) \in 1..Len(s) /\ s[Len(s)] \in S
  BY <1>1, ElementOfSeq
<1> DEFINE n == Len(s) - 1
<1>3. n \in Nat /\ n < Len(s)
  BY <1>1
<1> HIDE DEF n
<1>4. SubSeq(s, 1, n) \in Seq(S) /\ Len(SubSeq(s, 1, n)) = n
  BY <1>3
<1>5. ASSUME NEW i \in 1..n PROVE SubSeq(s, 1, n)[i] = s[i]
  BY <1>3
<1> QED BY <1>2, <1>4, <1>5 DEF Last, Front, n

(* The last popup closes, and the calls that were begun on it lose their place. *)
LEMMA PopType ==
  ASSUME DeskTypeOK, NEW b \in BallotBoxes, popups[b] # <<>>,
         NEW calls \in [Handlers -> Check \cup Step \cup {None}], Pop(b, calls)
  PROVE  /\ DeskTypeOK'
         /\ \A d \in BallotBoxes : \A i \in 1..Len(popups'[d]) :
              i \in 1..Len(popups[d]) /\ popups'[d][i] = popups[d][i]
         /\ \A h \in Handlers :
              /\ press'[h].button = calls[h].button
              /\ calls[h].button # "none" => press'[h].steps = calls[h].steps
              /\ calls[h].button = "step" => press'[h].status = calls[h].status
<1>1. /\ popups' = [popups EXCEPT ![b] = Front(popups[b])]
      /\ Front(popups[b]) \in Seq(Popup) /\ Len(Front(popups[b])) = Len(popups[b]) - 1
      /\ \A i \in 1..Len(Front(popups[b])) : Front(popups[b])[i] = popups[b][i]
  BY TopPopup DEF Pop, DeskTypeOK
<1>2. popups' \in [BallotBoxes -> Seq(Popup)]
  BY <1>1 DEF DeskTypeOK
<1>3. ASSUME NEW d \in BallotBoxes, NEW i \in 1..Len(popups'[d])
      PROVE  i \in 1..Len(popups[d]) /\ popups'[d][i] = popups[d][i]
  <2>1. CASE d = b
    BY <1>1, <1>3, <2>1 DEF DeskTypeOK
  <2>2. CASE d # b
    BY <1>1, <1>3, <2>2 DEF DeskTypeOK
  <2> QED BY <2>1, <2>2
<1>4. ASSUME NEW h \in Handlers
      PROVE  /\ press'[h] \in Check \cup Step \cup {None}
             /\ press'[h].button = calls[h].button
             /\ calls[h].button # "none" => press'[h].steps = calls[h].steps
             /\ calls[h].button = "step" => press'[h].status = calls[h].status
  <2>1. press'[h] = calls[h] \/ (calls[h].button = "step" /\ press'[h] = [calls[h] EXCEPT !.place = 0])
    BY DEF Pop
  <2>2. CASE press'[h] = calls[h]
    BY <2>2
  <2>3. CASE calls[h].button = "step" /\ press'[h] = [calls[h] EXCEPT !.place = 0]
    <3>1. calls[h] \in Step
      BY <2>3 DEF Check, None
    <3>2. press'[h] \in Step /\ press'[h].button = "step"
          /\ press'[h].steps = calls[h].steps /\ press'[h].status = calls[h].status
      BY <2>3, <3>1 DEF Step
    <3> QED BY <2>3, <3>2
  <2> QED BY <2>1, <2>2, <2>3
<1>5. press' \in [Handlers -> Check \cup Step \cup {None}]
  BY <1>4 DEF Pop
<1> QED BY <1>2, <1>3, <1>4, <1>5 DEF DeskTypeOK

(* Whatever a desk does is a step of the registry, or none. *)
LEMMA DeskStep ==
  ASSUME DeskInv, [DeskNext]_deskVars
  PROVE  [Next]_vars
<1>1. CASE UNCHANGED deskVars
  BY <1>1 DEF deskVars
<1>2. ASSUME NEW h \in Handlers, NEW s \in Students, PressCheck(h, s) PROVE Next
  BY <1>2 DEF PressCheck, Next, Call
<1>3. ASSUME NEW h \in Handlers, PressStep(h) PROVE Next
  <2>1. Last(popups[NodeOf[h]]) \in Popup
    BY <1>3, DeskAssumption, TopPopup DEF PressStep, DeskInv, DeskTypeOK
  <2>2. Last(popups[NodeOf[h]]).voter \in Students
    BY <2>1 DEF Popup
  <2> QED BY <1>3, <2>2 DEF PressStep, Next, Call
<1>4. ASSUME NEW h \in Handlers, Wait(h) PROVE [Next]_vars
  BY <1>4 DEF Wait, TakeVoter, TakeStep, CallFails, Next, Handle
<1>5. ASSUME NEW b \in BallotBoxes, Close(b) PROVE UNCHANGED vars
  BY <1>5 DEF Close
<1>6. ASSUME NEW b \in BallotBoxes, BoxServes(b) \/ Crash(b) PROVE Next
  BY <1>6 DEF Next, Start
<1>7. ASSUME NEW h \in Handlers, Serve(h) PROVE Next
  BY <1>7 DEF Serve, Next
<1> QED BY <1>1, <1>2, <1>3, <1>4, <1>5, <1>6, <1>7 DEF DeskNext

(* Popups show what a check was told, and buttons what their popup shows. *)
LEMMA DeskInductive == DeskInv /\ [DeskNext]_deskVars => DeskInv'
<1> SUFFICES ASSUME DeskInv, [DeskNext]_deskVars PROVE DeskInv'
  OBVIOUS
<1>0. DeskTypeOK /\ TypeInv /\ TypeInv'
  BY DeskStep, TypeInductive DEF DeskInv
<1>1. \A s \in Students : StepsBefore(s) \in Int
  BY <1>0 DEF StepsBefore, TypeInv, TypeOK
<1>2. ASSUME NEW h \in Handlers, NEW s \in Students, PressCheck(h, s) PROVE DeskTypeOK'
  BY <1>0, <1>1, <1>2 DEF PressCheck, DeskTypeOK, Check
<1>3. ASSUME NEW h \in Handlers, PressStep(h) PROVE DeskTypeOK'
  <2> DEFINE b == NodeOf[h]
             popup == Last(popups[b])
             call == [button |-> "step", status |-> popup.status, steps |-> popup.steps,
                      place |-> Place(b)]
  <2>1. /\ popups' = popups /\ press' = [press EXCEPT ![h] = call]
        /\ popups[b] # <<>> /\ b \in BallotBoxes
    BY <1>3, DeskAssumption DEF PressStep
  <2>2. popup \in Popup /\ Place(b) \in Nat
    BY <1>0, <2>1, TopPopup, LenProperties DEF DeskTypeOK, Place
  <2>3. call \in Step
    BY <2>2 DEF Popup, Step
  <2> HIDE DEF call
  <2> QED BY <1>0, <2>1, <2>3 DEF DeskTypeOK
<1>4. ASSUME NEW h \in Handlers, TakeVoter(h) PROVE DeskTypeOK'
  <2> DEFINE r == req[h]
             popup == [voter |-> r.voter, status |-> r.seen, steps |-> press[h].steps]
             b == NodeOf[h]
  <2>1. press[h] \in Check
    BY <1>0, <1>4 DEF TakeVoter, DeskTypeOK, Step, None
  <2>2. r \in Request
    BY <1>0, <1>4, RequestType DEF TakeVoter, Deliver, At, InFlight, TypeInv, TypeOK
  <2>3. popup \in Popup
    BY <2>1, <2>2 DEF Check, Request, Popup
  <2>4. /\ press' = [press EXCEPT ![h] = None]
        /\ popups' = popups \/ popups' = [popups EXCEPT ![b] = Append(popups[b], popup)]
    BY <1>4 DEF TakeVoter
  <2> HIDE DEF popup
  <2>5. b \in BallotBoxes => Append(popups[b], popup) \in Seq(Popup)
    BY <1>0, <2>3, AppendProperties DEF DeskTypeOK
  <2> QED BY <1>0, <2>4, <2>5 DEF DeskTypeOK
<1>5. ASSUME NEW h \in Handlers, TakeStep(h) PROVE DeskTypeOK'
  <2> DEFINE done == [press EXCEPT ![h] = None]
  <2>1. done \in [Handlers -> Check \cup Step \cup {None}]
    BY <1>0 DEF DeskTypeOK
  <2>2. \/ popups[NodeOf[h]] # <<>> /\ Pop(NodeOf[h], done)
        \/ press' = done /\ popups' = popups
    BY <1>5 DEF TakeStep
  <2> HIDE DEF done
  <2> QED BY <1>0, <2>1, <2>2, DeskAssumption, PopType DEF DeskTypeOK
<1>6. ASSUME NEW h \in Handlers, CallFails(h) PROVE DeskTypeOK'
  BY <1>0, <1>6 DEF CallFails, DeskTypeOK
<1>7. ASSUME NEW b \in BallotBoxes, Close(b) PROVE DeskTypeOK'
  BY <1>0, <1>7, PopType DEF Close, DeskTypeOK
<1>8. ASSUME popups' = popups, press' = press PROVE DeskTypeOK'
  BY <1>0, <1>8 DEF DeskTypeOK
<1>9. DeskTypeOK'
  BY <1>2, <1>3, <1>4, <1>5, <1>6, <1>7, <1>8 DEF DeskNext, Wait, Serve, deskVars
<1> QED BY <1>0, <1>9 DEF DeskInv

-----------------------------------------------------------------------------
(* A vote counts once and for good *)

SafeApart == \A s \in Students \ overlapped : SafeFor(s)

(* Nobody has voted and nobody votes. *)
LEMMA InitApart == DeskInit => SafeApart
  BY DEF DeskInit, SafeApart, SafeFor, VotingFor, Voting, InFlight, Idle, OnceOK

(* A voter whose steps have not overlapped is safe at every desk, whichever
   popups are open and whatever is pressed on them. *)
LEMMA ApartInductive ==
  ASSUME NoLostWrite, DeskInv, SafeApart, [DeskNext]_deskVars
  PROVE  SafeApart'
<1> SUFFICES ASSUME NEW v \in Students, v \notin overlapped' PROVE SafeFor(v)'
  BY DEF SafeApart
<1>0. TypeInv /\ DeskTypeOK
  BY DEF DeskInv
<1>1. overlapped \subseteq overlapped'
  BY DEF DeskNext, PressCheck, PressStep, Wait, TakeVoter, TakeStep, CallFails, Serve, Close, deskVars
<1>2. SafeFor(v)
  BY <1>1 DEF SafeApart
<1>3. ASSUME UNCHANGED vars PROVE SafeFor(v)'
  BY <1>2, <1>3, QuietStep DEF vars, tables, history
<1>4. ASSUME NEW h \in Handlers, NEW s \in Students, PressCheck(h, s) PROVE SafeFor(v)'
  <2> DEFINE r == NewRequest("GetVoter", "find", s, NoBox, FALSE)
  <2>1. Receive(h, "GetVoter", r) /\ r.op = "GetVoter" /\ UNCHANGED <<statuses, accepted>>
    BY <1>4 DEF PressCheck, ReceiveGetVoter, NewRequest, tables, history
  <2> HIDE DEF r
  <2> QED BY <1>0, <1>2, <2>1, LookBegins
<1>5. ASSUME NEW h \in Handlers, PressStep(h) PROVE SafeFor(v)'
  <2> DEFINE s == Last(popups[NodeOf[h]]).voter
  <2>1. s \in Students
    <3>1. Last(popups[NodeOf[h]]) \in Popup
      BY <1>0, <1>5, DeskAssumption, TopPopup DEF PressStep, DeskTypeOK
    <3> QED BY <3>1 DEF Popup
  <2>2. PICK isAfternoon \in Afternoons : ReceiveVotingStep(h, s, isAfternoon)
    BY <1>5 DEF PressStep
  <2>3. overlapped' = overlapped \cup {x \in {s} : Stepping(x)}
    BY <1>5 DEF PressStep
  <2> HIDE DEF s
  <2>4. s = v => \A g \in Handlers : ~VotingFor(g, v)
    BY <2>3 DEF Stepping, VotingFor
  <2> QED BY <1>0, <1>2, <2>1, <2>2, <2>4, StepBegins
<1>6. ASSUME NEW h \in Handlers, Handle(h) PROVE SafeFor(v)'
  BY <1>0, <1>2, <1>6, HandleSafe
<1>7. ASSUME NEW h \in Handlers, Wait(h) PROVE SafeFor(v)'
  BY <1>3, <1>6, <1>7 DEF Wait, TakeVoter, TakeStep, CallFails, Handle
<1>8. ASSUME NEW b \in BallotBoxes, BoxServes(b) \/ Crash(b) PROVE SafeFor(v)'
  BY <1>2, <1>8, ProcessSafe DEF Start
<1> QED BY <1>3, <1>4, <1>5, <1>6, <1>7, <1>8 DEF DeskNext, Serve, Close, deskVars

(* With any number of desks, popups that are as old as one likes, buttons that
   are pressed again while their call runs or after it failed, reads that fail
   and processes that end: a vote is accepted once and stays on record, for
   every voter of whom no two voting steps ran at the same time. *)
THEOREM VotesCountUnlessOverlapped ==
  ASSUME NoLostWrite PROVE DeskSpec => []VoteCountsUnlessOverlapped
<1>1. DeskInit => DeskInv /\ SafeApart
  BY InitDay, InitApart
<1>2. DeskInv /\ SafeApart /\ [DeskNext]_deskVars => (DeskInv /\ SafeApart)'
  BY DeskInductive, ApartInductive
<1>3. SafeApart => VoteCountsUnlessOverlapped
  BY DEF SafeApart, SafeFor, OnceOK, VoteCountsUnlessOverlapped, Voted
<1> QED BY <1>1, <1>2, <1>3, PTL DEF DeskSpec

-----------------------------------------------------------------------------
(* The button does what it says *)

(* A popup knows the row of its voter, until a step of the voter begins. *)
PopupOK(p) ==
  /\ p.steps <= steps[p.voter]
  /\ p.steps = steps[p.voter] => ~Stepping(p.voter) /\ p.status = statuses[p.voter].Status

(* So does the answer of a check that read it. *)
CheckOK(r, k) ==
  /\ r.op = "GetVoter" /\ k <= steps[r.voter]
  /\ k = steps[r.voter] =>
       /\ ~Stepping(r.voter)
       /\ r.pc = "reply" /\ r.code # -1 => r.seen = statuses[r.voter].Status

(* A step that does what its label says, given the row of its voter. *)
LabelFits(r, label, status) ==
  /\ r.pc \in {"lookup", "readStatus"} => label = status
  /\ r.pc = "insertBallot" => label = 0
  /\ r.pc \in {"deleteStatus", "insertVoted", "readStats", "saveStats"} => label = 1
  /\ r.pc = "reply" /\ r.code = 0 => label = r.seen

(* The first step since the status was asked for is alone, and does that. *)
StepOK(h, r, k, label) ==
  /\ r.op = "RegisterVotingStep" /\ k < steps[r.voter]
  /\ k + 1 = steps[r.voter] =>
       /\ \A g \in Handlers : VotingFor(g, r.voter) => g = h
       /\ LabelFits(r, label, statuses[r.voter].Status)

CallOK(h) ==
  InFlight(h) =>
    /\ press[h].button = "check" => CheckOK(req[h], press[h].steps)
    /\ press[h].button = "step" => StepOK(h, req[h], press[h].steps, press[h].status)

PopupsOK == \A b \in BallotBoxes : \A i \in 1..Len(popups[b]) : PopupOK(popups[b][i])

LabelInv == PopupsOK /\ \A h \in Handlers : CallOK(h)

(* No popup is open and no button pressed. *)
LEMMA InitLabel == DeskInit => LabelInv
  BY DEF DeskInit, LabelInv, PopupsOK, CallOK, InFlight, Idle

(* How a step may disturb what is known of a voter: by beginning a step, which
   is counted, or by the statement of a step that is under way. *)
Calm(s) ==
  /\ steps[s] \in Int /\ steps'[s] \in Int /\ steps[s] <= steps'[s]
  /\ steps'[s] = steps[s] => \A g \in Handlers : VotingFor(g, s)' => VotingFor(g, s)
  /\ ~Stepping(s) => statuses'[s] = statuses[s]

(* What an open popup shows stays true. *)
LEMMA PopupStays ==
  ASSUME NEW p \in Popup, PopupOK(p), Calm(p.voter)
  PROVE  PopupOK(p)'
<1> DEFINE s == p.voter
<1>1. p.steps \in Int
  BY DEF Popup
<1>2. /\ steps[s] \in Int /\ steps'[s] \in Int /\ steps[s] <= steps'[s]
      /\ p.steps <= steps[s]
  BY DEF Calm, PopupOK
<1>3. ASSUME p.steps = steps'[s]
      PROVE  ~Stepping(s)' /\ p.status = statuses'[s].Status
  <2>1. p.steps = steps[s] /\ steps'[s] = steps[s]
    BY <1>1, <1>2, <1>3
  <2>2. ~Stepping(s) /\ p.status = statuses[s].Status
    BY <2>1 DEF PopupOK
  <2>3. ~Stepping(s)'
    BY <2>1, <2>2 DEF Calm, Stepping, VotingFor
  <2> QED BY <2>2, <2>3 DEF Calm
<1> QED BY <1>1, <1>2, <1>3 DEF PopupOK

(* What a check has found stays true. *)
LEMMA CheckStays ==
  ASSUME NEW r \in Request, NEW k \in Int, CheckOK(r, k), Calm(r.voter)
  PROVE  CheckOK(r, k)'
<1> DEFINE s == r.voter
<1>1. /\ steps[s] \in Int /\ steps'[s] \in Int /\ steps[s] <= steps'[s] /\ k <= steps[s]
      /\ r.op = "GetVoter"
  BY DEF Calm, CheckOK
<1>2. ASSUME k = steps'[s]
      PROVE  ~Stepping(s)' /\ (r.pc = "reply" /\ r.code # -1 => r.seen = statuses'[s].Status)
  <2>1. k = steps[s] /\ steps'[s] = steps[s]
    BY <1>1, <1>2
  <2>2. ~Stepping(s) /\ (r.pc = "reply" /\ r.code # -1 => r.seen = statuses[s].Status)
    BY <2>1 DEF CheckOK
  <2>3. ~Stepping(s)'
    BY <2>1, <2>2 DEF Calm, Stepping, VotingFor
  <2> QED BY <2>2, <2>3 DEF Calm
<1> QED BY <1>1, <1>2 DEF CheckOK

(* What a step has found stays true, when no other step writes the row. *)
LEMMA StepStays ==
  ASSUME NEW h, NEW r \in Request, NEW k \in Int, NEW label, StepOK(h, r, k, label), Calm(r.voter),
         (\A g \in Handlers : VotingFor(g, r.voter) => g = h) =>
           statuses'[r.voter] = statuses[r.voter]
  PROVE  StepOK(h, r, k, label)'
<1> DEFINE s == r.voter
<1>1. /\ steps[s] \in Int /\ steps'[s] \in Int /\ steps[s] <= steps'[s] /\ k < steps[s]
      /\ r.op = "RegisterVotingStep"
  BY DEF Calm, StepOK
<1>2. ASSUME k + 1 = steps'[s]
      PROVE  /\ \A g \in Handlers : VotingFor(g, s)' => g = h
             /\ LabelFits(r, label, statuses'[s].Status)
  <2>1. k + 1 = steps[s] /\ steps'[s] = steps[s]
    BY <1>1, <1>2
  <2>2. /\ \A g \in Handlers : VotingFor(g, s) => g = h
        /\ LabelFits(r, label, statuses[s].Status)
    BY <2>1 DEF StepOK
  <2>3. \A g \in Handlers : VotingFor(g, s)' => VotingFor(g, s)
    BY <2>1 DEF Calm
  <2> QED BY <2>2, <2>3
<1>3. LabelFits(r, label, statuses'[s].Status) <=> LabelFits(r, label, statuses[s].Status)'
  BY DEF LabelFits
<1> QED BY <1>1, <1>2, <1>3 DEF StepOK

(* The popups that stay open. *)
LEMMA PopupsStay ==
  ASSUME DeskTypeOK, PopupsOK, \A s \in Students : Calm(s),
         \A b \in BallotBoxes : \A i \in 1..Len(popups'[b]) :
           i \in 1..Len(popups[b]) /\ popups'[b][i] = popups[b][i]
  PROVE  PopupsOK'
<1> SUFFICES ASSUME NEW b \in BallotBoxes, NEW i \in 1..Len(popups'[b]), NEW p,
                    p = popups'[b][i]
             PROVE  PopupOK(p)'
  BY DEF PopupsOK, PopupOK
<1>1. p = popups[b][i] /\ i \in 1..Len(popups[b])
  OBVIOUS
<1>2. p \in Popup /\ PopupOK(p)
  BY <1>1, ElementOfSeq DEF DeskTypeOK, PopupsOK
<1>3. p.voter \in Students
  BY <1>2 DEF Popup
<1> QED BY <1>2, <1>3, PopupStays

(* A call that the step leaves alone. *)
LEMMA CallStays ==
  ASSUME DeskInv, NEW h \in Handlers, CallOK(h), \A s \in Students : Calm(s),
         InFlight(h)' => req'[h] = req[h],
         press'[h].button \notin {"check", "step"} \/
           /\ press'[h].button = press[h].button /\ press'[h].steps = press[h].steps
           /\ press[h].button = "step" => press'[h].status = press[h].status,
         \A s \in Students :
           (\A g \in Handlers : VotingFor(g, s) => g = h) => statuses'[s] = statuses[s]
  PROVE  CallOK(h)'
<1> SUFFICES ASSUME InFlight(h)', press'[h].button \in {"check", "step"}
             PROVE  /\ press'[h].button = "check" => CheckOK(req[h], press[h].steps)'
                    /\ press'[h].button = "step" =>
                         StepOK(h, req[h], press[h].steps, press[h].status)'
  BY DEF CallOK
<1>1. PICK r, k, label : /\ r = req[h] /\ k = press[h].steps /\ label = press[h].status
                         /\ r = req'[h] /\ k = press'[h].steps
                         /\ press[h].button = "step" => label = press'[h].status
  OBVIOUS
<1>2. InFlight(h) /\ press'[h].button = press[h].button
  BY <1>1 DEF InFlight
<1>3. r \in Request /\ r.voter \in Students
  BY <1>1, <1>2, RequestType DEF DeskInv, TypeInv, TypeOK, Request
<1>4. k \in Int
  <2>1. press[h] \in Check \cup Step
    BY <1>2 DEF DeskInv, DeskTypeOK, None
  <2> QED BY <1>1, <2>1 DEF Check, Step
<1>5. CASE press[h].button = "check"
  <2>1. CheckOK(r, k)
    BY <1>1, <1>2, <1>5 DEF CallOK
  <2>2. CheckOK(r, k)'
    BY <1>3, <1>4, <2>1, CheckStays
  <2> QED BY <1>1, <1>2, <1>5, <2>2 DEF CheckOK
<1>6. CASE press[h].button = "step"
  <2>1. StepOK(h, r, k, label)
    BY <1>1, <1>2, <1>6 DEF CallOK
  <2>2. StepOK(h, r, k, label)'
    BY <1>3, <1>4, <2>1, StepStays
  <2> QED BY <1>1, <1>2, <1>6, <2>2 DEF StepOK, LabelFits
<1> QED BY <1>2, <1>5, <1>6

(* A request writes no row but that of its voter, and only when it votes. *)
LEMMA RowsOfOthers ==
  ASSUME TypeInv, NEW h \in Handlers, Handle(h), NEW s \in Students, ~VotingFor(h, s)
  PROVE  statuses'[s] = statuses[s]
<1>1. LabelOK(h, req[h]) /\ InFlight(h)
  BY HandlingRequest
<1>2. CASE DeleteStatus(h) \/ InsertVoted(h) \/ InsertBallot(h)
  <2>1. Voting(h)
    BY <1>1, <1>2 DEF DeleteStatus, InsertVoted, InsertBallot, At, LabelOK, Voting
  <2> QED
    BY <1>2, <2>1 DEF DeleteStatus, InsertVoted, InsertBallot, Record, TypeInv, TypeOK, VotingFor
<1>3. CASE ~(DeleteStatus(h) \/ InsertVoted(h) \/ InsertBallot(h))
  BY <1>3 DEF Handle, Find, LookupNewVoter, Lookup, InsertVoter, ReadStatus, ReadStats,
              SaveStats, Deliver, tables, history
<1> QED BY <1>2, <1>3

(* A check reads the row that the voter has. *)
LEMMA CheckMoves ==
  ASSUME TypeInv, "read" \notin Faults, NEW h \in Handlers, Handle(h), ~At(h, "reply"),
         req[h].op = "GetVoter", InFlight(h)'
  PROVE  /\ req'[h].op = "GetVoter" /\ req'[h].voter = req[h].voter
         /\ req'[h].pc = "reply" /\ req'[h].code # -1 =>
              req'[h].seen = statuses'[req[h].voter].Status
<1> DEFINE Goal == /\ req'[h].op = "GetVoter" /\ req'[h].voter = req[h].voter
                   /\ req'[h].pc = "reply" /\ req'[h].code # -1 =>
                        req'[h].seen = statuses'[req[h].voter].Status
<1> SUFFICES Goal
  OBVIOUS
<1>1. req[h] \in Request /\ LabelOK(h, req[h])
  BY HandlingRequest
<1>2. ASSUME Answer(h, -1) PROVE Goal
  BY <1>1, <1>2, AnswerFields
<1>3. ASSUME NEW label, label # "reply", Goto(h, label) PROVE Goal
  BY <1>1, <1>3, GotoFields
<1>4. CASE Find(h)
  BY <1>2, <1>3, <1>4 DEF Find, NotFound
<1>5. CASE Lookup(h)
  <2>1. ASSUME NEW home, req' = [req EXCEPT ![h].pc = "readStatus", ![h].home = home] PROVE Goal
    BY <1>1, <2>1 DEF TypeInv, TypeOK, Request
  <2> QED BY <1>2, <1>5, <2>1 DEF Lookup, NotFound
<1>6. CASE ReadStatus(h)
  <2>1. /\ req' = [req EXCEPT ![h].pc = "reply", ![h].home = NoBox,
                              ![h].seen = statuses[req[h].voter].Status]
        /\ statuses' = statuses
    BY <1>6 DEF ReadStatus, Read, tables
  <2> QED BY <1>1, <2>1 DEF TypeInv, TypeOK, Request
<1>7. req[h].pc \in {"find", "lookup", "readStatus"}
  BY <1>1 DEF LabelOK, Request, At
<1> HIDE DEF Goal
<1> QED
  BY <1>4, <1>5, <1>6, <1>7 DEF Handle, LookupNewVoter, InsertVoter, DeleteStatus,
     InsertVoted, InsertBallot, ReadStats, SaveStats, Deliver, At

(* A step does what the status it reads calls for, and that is the label's. *)
LEMMA StepMoves ==
  ASSUME TypeInv, "read" \notin Faults, NEW h \in Handlers, Handle(h), ~At(h, "reply"),
         req[h].op = "RegisterVotingStep", InFlight(h)', NEW label \in 0..2,
         LabelFits(req[h], label, statuses[req[h].voter].Status)
  PROVE  /\ req'[h].op = "RegisterVotingStep" /\ req'[h].voter = req[h].voter
         /\ LabelFits(req'[h], label, statuses'[req[h].voter].Status)
<1> DEFINE r == req[h]
           Goal == /\ req'[h].op = "RegisterVotingStep" /\ req'[h].voter = r.voter
                   /\ LabelFits(req'[h], label, statuses'[r.voter].Status)
<1>1. r \in Request /\ LabelOK(h, r)
  BY HandlingRequest
<1>2. /\ r.pc \in {"lookup", "readStatus"} => label = statuses[r.voter].Status
      /\ r.pc = "insertBallot" => label = 0
      /\ r.pc \in {"deleteStatus", "insertVoted", "readStats", "saveStats"} => label = 1
  BY DEF LabelFits
<1>3. ASSUME NEW code, Answer(h, code), code = 0 => label = r.seen PROVE Goal
  BY <1>1, <1>3, AnswerFields DEF LabelFits
<1>4. ASSUME NEW next, Goto(h, next), next \notin {"lookup", "readStatus", "reply"},
             next = "insertBallot" => label = 0,
             next # "insertBallot" => label = 1
      PROVE  Goal
  BY <1>1, <1>4, GotoFields DEF LabelFits
<1>5. ASSUME NEW new, req' = [req EXCEPT ![h] = new],
             new.op = "RegisterVotingStep" /\ new.voter = r.voter,
             LabelFits(new, label, statuses'[r.voter].Status)
      PROVE  Goal
  BY <1>5 DEF TypeInv, TypeOK
<1> SUFFICES Goal
  OBVIOUS
<1> HIDE DEF Goal
<1>6. CASE Lookup(h)
  <2>1. ASSUME NEW home, req' = [req EXCEPT ![h].pc = "readStatus", ![h].home = home],
               r.pc = "lookup", statuses' = statuses
        PROVE  Goal
    <3> DEFINE new == [req[h] EXCEPT !.pc = "readStatus", !.home = home]
    <3>1. /\ new.op = "RegisterVotingStep" /\ new.voter = r.voter /\ new.pc = "readStatus"
          /\ req' = [req EXCEPT ![h] = new]
      BY <1>1, <2>1 DEF Request
    <3> HIDE DEF new
    <3>2. LabelFits(new, label, statuses'[r.voter].Status)
      BY <1>2, <2>1, <3>1 DEF LabelFits
    <3> QED BY <1>5, <3>1, <3>2
  <2> QED BY <1>1, <1>3, <1>6, <2>1 DEF Lookup, NotFound, At, tables
<1>7. CASE ReadStatus(h)
  <2>1. r.pc = "readStatus" /\ StepAfter(h, label)
    BY <1>1, <1>2, <1>7 DEF ReadStatus, Read, At
  <2>2. ASSUME label = 1, req' = [req EXCEPT ![h].pc = "deleteStatus", ![h].seen = label]
        PROVE  Goal
    <3> DEFINE new == [req[h] EXCEPT !.pc = "deleteStatus", !.seen = label]
    <3>1. /\ new.op = "RegisterVotingStep" /\ new.voter = r.voter /\ new.pc = "deleteStatus"
          /\ req' = [req EXCEPT ![h] = new]
      BY <1>1, <2>2 DEF Request
    <3> HIDE DEF new
    <3>2. LabelFits(new, label, statuses'[r.voter].Status)
      BY <2>2, <3>1 DEF LabelFits
    <3> QED BY <1>5, <3>1, <3>2
  <2>3. CASE label = 0
    BY <1>4, <2>1, <2>3 DEF StepAfter
  <2>4. CASE label = 1
    BY <2>1, <2>2, <2>4 DEF StepAfter
  <2>5. CASE label = 2
    BY <1>3, <2>1, <2>5 DEF StepAfter
  <2> QED BY <2>3, <2>4, <2>5
<1>8. CASE DeleteStatus(h)
  BY <1>2, <1>4, <1>8 DEF DeleteStatus, At
<1>9. CASE InsertVoted(h)
  BY <1>2, <1>4, <1>9 DEF InsertVoted, At
<1>10. CASE InsertBallot(h)
  BY <1>1, <1>2, <1>3, <1>10 DEF InsertBallot, At, LabelOK
<1>11. CASE ReadStats(h)
  <2>1. r.pc = "readStats" /\ ~Exit(NodeOf[h])
    BY <1>11 DEF ReadStats, At, Exit, InFlight, Idle
  <2>2. PICK copy : req' = [req EXCEPT ![h].pc = "saveStats", ![h].copy = copy]
    BY <1>11, <2>1 DEF ReadStats, CountNewVote
  <2> DEFINE new == [req[h] EXCEPT !.pc = "saveStats", !.copy = copy]
  <2>3. /\ new.op = "RegisterVotingStep" /\ new.voter = r.voter /\ new.pc = "saveStats"
        /\ req' = [req EXCEPT ![h] = new]
    BY <1>1, <2>2 DEF Request
  <2> HIDE DEF new
  <2>4. LabelFits(new, label, statuses'[r.voter].Status)
    BY <1>2, <2>1, <2>3 DEF LabelFits
  <2> QED BY <1>5, <2>3, <2>4
<1>12. CASE SaveStats(h)
  BY <1>1, <1>2, <1>3, <1>12 DEF SaveStats, At, LabelOK
<1> QED
  BY <1>1, <1>6, <1>7, <1>8, <1>9, <1>10, <1>11, <1>12
     DEF Handle, Find, LookupNewVoter, InsertVoter, Deliver, At, LabelOK

(* Whatever happens at the desks and in the handlers, steps that begin are
   counted and rows of voters without a step stay as they are. *)
LEMMA AllCalm ==
  ASSUME DeskInv, [DeskNext]_deskVars, NEW s \in Students
  PROVE  Calm(s)
<1>0. TypeInv /\ DeskTypeOK /\ steps[s] \in Nat
  BY DEF DeskInv, TypeInv, TypeOK
<1>1. ASSUME steps' = steps, statuses' = statuses,
             \A g \in Handlers : VotingFor(g, s)' => VotingFor(g, s)
      PROVE  Calm(s)
  BY <1>0, <1>1 DEF Calm
<1>2. ASSUME UNCHANGED vars PROVE Calm(s)
  BY <1>1, <1>2 DEF vars, tables, history, VotingFor, Voting, InFlight
<1>3. ASSUME NEW h \in Handlers, NEW x \in Students, PressCheck(h, x) PROVE Calm(s)
  <2> DEFINE r == NewRequest("GetVoter", "find", x, NoBox, FALSE)
  <2>1. /\ req' = [req EXCEPT ![h] = r] /\ r.op = "GetVoter"
        /\ steps' = steps /\ statuses' = statuses
    BY <1>3 DEF PressCheck, ReceiveGetVoter, Receive, NewRequest, tables, history
  <2> HIDE DEF r
  <2>2. \A g \in Handlers : VotingFor(g, s)' => VotingFor(g, s)
    BY <1>0, <2>1 DEF TypeInv, TypeOK, VotingFor, Voting, InFlight
  <2> QED BY <1>1, <2>1, <2>2
<1>4. ASSUME NEW h \in Handlers, PressStep(h) PROVE Calm(s)
  <2> DEFINE v == Last(popups[NodeOf[h]]).voter
  <2>1. PICK isAfternoon \in Afternoons : ReceiveVotingStep(h, v, isAfternoon)
    BY <1>4 DEF PressStep
  <2> DEFINE r == NewRequest("RegisterVotingStep", "lookup", v, NoBox, isAfternoon)
  <2>2. /\ req' = [req EXCEPT ![h] = r] /\ r.voter = v
        /\ steps' = [steps EXCEPT ![v] = steps[v] + 1] /\ statuses' = statuses
    BY <2>1 DEF ReceiveVotingStep, Receive, NewRequest, tables
  <2> HIDE DEF r, v
  <2>3. steps'[s] = IF s = v THEN steps[s] + 1 ELSE steps[s]
    BY <1>0, <2>2 DEF TypeInv, TypeOK
  <2>4. s # v => \A g \in Handlers : VotingFor(g, s)' => VotingFor(g, s)
    BY <1>0, <2>2 DEF TypeInv, TypeOK, VotingFor, Voting, InFlight
  <2> QED BY <1>0, <2>2, <2>3, <2>4 DEF Calm
<1>5. ASSUME NEW h \in Handlers, Handle(h) PROVE Calm(s)
  <2>1. steps' = steps
    BY <1>5 DEF Handle, Find, LookupNewVoter, Lookup, InsertVoter, ReadStatus, DeleteStatus,
                InsertVoted, InsertBallot, ReadStats, SaveStats, Deliver, history
  <2>2. \A g \in Handlers : VotingFor(g, s)' => VotingFor(g, s)
    BY <1>0, <1>5, Moves, HandlingRequest DEF VotingFor, Voting, InFlight, Idle
  <2>3. ~Stepping(s) => statuses'[s] = statuses[s]
    BY <1>0, <1>5, RowsOfOthers DEF Stepping, VotingFor
  <2> QED BY <1>0, <2>1, <2>2, <2>3 DEF Calm
<1>6. ASSUME NEW h \in Handlers, Wait(h) PROVE Calm(s)
  BY <1>2, <1>5, <1>6 DEF Wait, TakeVoter, TakeStep, CallFails, Handle
<1>7. ASSUME NEW b \in BallotBoxes, BoxServes(b) \/ Crash(b) PROVE Calm(s)
  BY <1>1, <1>7 DEF BoxServes, Crash, Exit, tables, history, VotingFor, Voting, InFlight, Idle
<1> QED BY <1>2, <1>3, <1>4, <1>5, <1>6, <1>7 DEF DeskNext, Serve, Close, deskVars

(* No step breaks what popups and buttons know. *)
LEMMA LabelInductive ==
  ASSUME "read" \notin Faults, DeskInv, DeskInv', LabelInv, [DeskNext]_deskVars
  PROVE  LabelInv'
<1>0. /\ TypeInv /\ DeskTypeOK /\ PopupsOK /\ \A s \in Students : Calm(s)
      /\ \A h \in Handlers : CallOK(h)
  BY AllCalm DEF DeskInv, LabelInv
<1>1. ASSUME popups' = popups PROVE PopupsOK'
  BY <1>0, <1>1, PopupsStay
<1>2. ASSUME statuses' = statuses, NEW h \in Handlers, InFlight(h)' => req'[h] = req[h],
             \/ press'[h] = press[h]
             \/ press'[h].button \notin {"check", "step"}
             \/ /\ press'[h].button = press[h].button /\ press'[h].steps = press[h].steps
                /\ press[h].button = "step" => press'[h].status = press[h].status
      PROVE  CallOK(h)'
  BY <1>0, <1>2, CallStays
<1>3. CASE UNCHANGED deskVars
  BY <1>1, <1>2, <1>3 DEF deskVars, vars, tables, LabelInv
<1>4. ASSUME NEW h \in Handlers, NEW s \in Students, PressCheck(h, s) PROVE LabelInv'
  <2> DEFINE r == NewRequest("GetVoter", "find", s, NoBox, FALSE)
             call == [button |-> "check", steps |-> StepsBefore(s)]
  <2>1. /\ req' = [req EXCEPT ![h] = r] /\ r.op = "GetVoter" /\ r.pc = "find" /\ r.voter = s
        /\ steps' = steps /\ statuses' = statuses /\ popups' = popups
        /\ press' = [press EXCEPT ![h] = call] /\ call.steps = StepsBefore(s)
        /\ call.button = "check"
    BY <1>4 DEF PressCheck, ReceiveGetVoter, Receive, NewRequest, tables, history
  <2> HIDE DEF r, call
  <2>2. /\ req'[h] = r /\ press'[h] = call
        /\ \A g \in Handlers \ {h} : req'[g] = req[g] /\ press'[g] = press[g]
    BY <1>0, <2>1 DEF TypeInv, TypeOK, DeskTypeOK
  <2>3. steps[s] \in Nat
    BY <1>0 DEF TypeInv, TypeOK
  <2>4. StepsBefore(s) <= steps[s] /\ (StepsBefore(s) = steps[s] => ~Stepping(s))
    BY <2>3 DEF StepsBefore
  <2>5. ~Stepping(s) => ~Stepping(s)'
    BY <1>0, <2>1 DEF Calm, Stepping, VotingFor
  <2>6. CallOK(h)'
    BY <2>1, <2>2, <2>4, <2>5 DEF CallOK, CheckOK
  <2>7. ASSUME NEW g \in Handlers, g # h PROVE CallOK(g)'
    BY <1>2, <2>1, <2>2, <2>7
  <2> QED BY <1>1, <2>1, <2>6, <2>7 DEF LabelInv
<1>5. ASSUME NEW h \in Handlers, PressStep(h) PROVE LabelInv'
  <2> DEFINE b == NodeOf[h]
  <2>1. PICK p \in Popup : p = Last(popups[b]) /\ PopupOK(p)
    <3>1. popups[b] # <<>> /\ b \in BallotBoxes
      BY <1>5, DeskAssumption DEF PressStep
    <3>2. /\ Last(popups[b]) \in Popup /\ Len(popups[b]) \in 1..Len(popups[b])
          /\ Last(popups[b]) = popups[b][Len(popups[b])]
      BY <1>0, <3>1, TopPopup DEF DeskTypeOK
    <3> QED BY <1>0, <3>1, <3>2 DEF PopupsOK
  <2> DEFINE v == p.voter
             call == [button |-> "step", status |-> p.status, steps |-> p.steps, place |-> Place(b)]
  <2>2. PICK isAfternoon \in Afternoons : ReceiveVotingStep(h, v, isAfternoon)
    BY <1>5, <2>1 DEF PressStep
  <2> DEFINE r == NewRequest("RegisterVotingStep", "lookup", v, NoBox, isAfternoon)
  <2>3. /\ req' = [req EXCEPT ![h] = r] /\ r.voter = v /\ r.op = "RegisterVotingStep"
        /\ r.pc = "lookup" /\ req[h] = Idle
        /\ steps' = [steps EXCEPT ![v] = steps[v] + 1] /\ statuses' = statuses
    BY <2>2 DEF ReceiveVotingStep, Receive, NewRequest, tables
  <2>4. /\ popups' = popups /\ press' = [press EXCEPT ![h] = call]
        /\ call.button = "step" /\ call.steps = p.steps /\ call.status = p.status
    BY <1>5, <2>1 DEF PressStep
  <2>5. v \in Students /\ p.steps \in Int /\ steps[v] \in Nat
    BY <1>0, <2>1 DEF Popup, TypeInv, TypeOK
  <2> HIDE DEF r, call
  <2>6. /\ req'[h] = r /\ press'[h] = call /\ steps'[v] = steps[v] + 1
        /\ \A g \in Handlers \ {h} : req'[g] = req[g] /\ press'[g] = press[g]
    BY <1>0, <2>3, <2>4, <2>5 DEF TypeInv, TypeOK, DeskTypeOK
  <2>7. p.steps < steps'[v]
    BY <2>1, <2>5, <2>6 DEF PopupOK
  <2>8. ASSUME p.steps + 1 = steps'[v]
        PROVE  /\ \A g \in Handlers : VotingFor(g, v)' => g = h
               /\ p.status = statuses[v].Status
    <3>1. p.steps = steps[v]
      BY <2>5, <2>6, <2>8
    <3>2. ~Stepping(v) /\ p.status = statuses[v].Status
      BY <2>1, <3>1 DEF PopupOK
    <3>3. \A g \in Handlers : VotingFor(g, v)' => g = h
      BY <2>6, <3>2 DEF Stepping, VotingFor, Voting, InFlight
    <3> QED BY <3>2, <3>3
  <2>9. StepOK(h, req[h], press[h].steps, press[h].status)'
    BY <2>3, <2>4, <2>6, <2>7, <2>8 DEF StepOK, LabelFits
  <2>10. CallOK(h)'
    BY <2>4, <2>6, <2>9 DEF CallOK
  <2>11. ASSUME NEW g \in Handlers, g # h PROVE CallOK(g)'
    BY <1>2, <2>3, <2>6, <2>11
  <2> QED BY <1>1, <2>4, <2>10, <2>11 DEF LabelInv
<1>6. ASSUME NEW h \in Handlers, Deliver(h)
      PROVE  /\ statuses' = statuses /\ ~InFlight(h)' /\ InFlight(h) /\ req[h] \in Request
             /\ \A g \in Handlers \ {h} : req'[g] = req[g]
  BY <1>0, <1>6, RequestType DEF Deliver, tables, TypeInv, TypeOK, At, InFlight, Idle
<1>7. ASSUME NEW h \in Handlers, TakeVoter(h) PROVE LabelInv'
  <2> DEFINE b == NodeOf[h]
  <2>0. PICK r, k, p : /\ r = req[h] /\ k = press[h].steps
                       /\ p = [voter |-> r.voter, status |-> r.seen, steps |-> k]
    OBVIOUS
  <2>1. /\ Deliver(h) /\ r.pc = "reply" /\ press[h].button = "check"
        /\ press' = [press EXCEPT ![h] = None] /\ b \in BallotBoxes
        /\ \/ r.code # -1 /\ popups' = [popups EXCEPT ![b] = Append(popups[b], p)]
           \/ popups' = popups
    BY <1>7, <2>0, DeskAssumption DEF TakeVoter, Deliver, At
  <2>2. CheckOK(r, k) /\ r.voter \in Students /\ r.seen \in 0..2
    BY <1>0, <1>6, <2>0, <2>1 DEF CallOK, Request
  <2>3. k \in Int
    <3>1. press[h] \in Check
      BY <1>0, <2>1 DEF DeskTypeOK, Step, None
    <3> QED BY <2>0, <3>1 DEF Check
  <2>4. ASSUME r.code # -1 PROVE PopupOK(p)
    BY <2>0, <2>1, <2>2, <2>4 DEF CheckOK, PopupOK
  <2>5. p \in Popup /\ p.voter = r.voter
    BY <2>0, <2>2, <2>3 DEF Popup
  <2>6. ASSUME r.code # -1, popups' = [popups EXCEPT ![b] = Append(popups[b], p)]
        PROVE  PopupsOK'
    <3>1. PopupOK(p)
      BY <2>4, <2>6
    <3>2. /\ popups'[b] = Append(popups[b], p)
          /\ \A d \in BallotBoxes \ {b} : popups'[d] = popups[d]
      BY <1>0, <2>1, <2>6 DEF DeskTypeOK
    <3>3. ASSUME NEW d \in BallotBoxes, NEW i \in 1..Len(popups'[d]), NEW q, q = popups'[d][i]
          PROVE  PopupOK(q)'
      <4>1. CASE d = b /\ i = Len(popups[b]) + 1
        <5>1. q = p
          BY <1>0, <2>1, <2>5, <3>2, <3>3, <4>1, AppendProperties DEF DeskTypeOK
        <5>2. q \in Popup /\ q.voter \in Students
          BY <2>2, <2>5, <5>1
        <5>3. PopupOK(q)
          BY <3>1, <5>1 DEF PopupOK
        <5> QED BY <1>0, <5>2, <5>3, PopupStays
      <4>2. CASE ~(d = b /\ i = Len(popups[b]) + 1)
        <5>1. i \in 1..Len(popups[d]) /\ q = popups[d][i]
          <6>1. popups[b] \in Seq(Popup) /\ Len(popups[b]) \in Nat
            BY <1>0, <2>1, LenProperties DEF DeskTypeOK
          <6>2. CASE d # b
            BY <3>2, <3>3, <6>2
          <6>3. CASE d = b
            <7>1. /\ Len(Append(popups[b], p)) = Len(popups[b]) + 1
                  /\ \A j \in 1..Len(popups[b]) : Append(popups[b], p)[j] = popups[b][j]
              BY <2>5, <6>1, AppendProperties
            <7>2. i \in 1..Len(popups[b])
              BY <3>2, <3>3, <4>2, <6>1, <6>3, <7>1
            <7> QED BY <3>2, <3>3, <6>3, <7>1, <7>2
          <6> QED BY <6>2, <6>3
        <5>2. q \in Popup /\ PopupOK(q)
          BY <1>0, <5>1, ElementOfSeq DEF DeskTypeOK, PopupsOK
        <5>3. q.voter \in Students
          BY <5>2 DEF Popup
        <5> QED BY <1>0, <5>2, <5>3, PopupStays
      <4> QED BY <4>1, <4>2
    <3> QED BY <3>3 DEF PopupsOK, PopupOK
  <2>7. PopupsOK'
    BY <1>1, <2>1, <2>6
  <2>8. \A g \in Handlers \ {h} : press'[g] = press[g]
    BY <2>1
  <2>9. CallOK(h)'
    BY <1>6, <2>1 DEF CallOK
  <2>10. ASSUME NEW g \in Handlers, g # h PROVE CallOK(g)'
    BY <1>2, <1>6, <2>1, <2>8, <2>10
  <2> QED BY <2>7, <2>9, <2>10 DEF LabelInv
<1>8. ASSUME NEW b \in BallotBoxes, popups[b] # <<>>,
             NEW calls \in [Handlers -> Check \cup Step \cup {None}], Pop(b, calls)
      PROVE  /\ PopupsOK'
             /\ \A h \in Handlers :
                  /\ press'[h].button = calls[h].button
                  /\ calls[h].button # "none" => press'[h].steps = calls[h].steps
                  /\ calls[h].button = "step" => press'[h].status = calls[h].status
  BY <1>0, <1>8, PopType, PopupsStay
<1>9. ASSUME NEW h \in Handlers, TakeStep(h) PROVE LabelInv'
  <2> DEFINE done == [press EXCEPT ![h] = None]
  <2>1. done \in [Handlers -> Check \cup Step \cup {None}]
    BY <1>0 DEF DeskTypeOK
  <2>2. /\ Deliver(h)
        /\ \/ popups[NodeOf[h]] # <<>> /\ Pop(NodeOf[h], done)
           \/ press' = done /\ popups' = popups
    BY <1>9 DEF TakeStep
  <2>3. \A g \in Handlers \ {h} : done[g] = press[g]
    OBVIOUS
  <2> HIDE DEF done
  <2>4. PopupsOK'
    BY <1>1, <1>8, <2>1, <2>2, DeskAssumption
  <2>5. CallOK(h)'
    BY <1>6, <2>2 DEF CallOK
  <2>6. ASSUME NEW g \in Handlers, g # h PROVE CallOK(g)'
    <3>1. \/ press'[g] = press[g]
          \/ /\ press'[g].button = press[g].button
             /\ press[g].button # "none" => press'[g].steps = press[g].steps
             /\ press[g].button = "step" => press'[g].status = press[g].status
      BY <1>8, <2>1, <2>2, <2>3, <2>6, DeskAssumption
    <3> QED BY <1>2, <1>6, <2>2, <2>6, <3>1
  <2> QED BY <2>4, <2>5, <2>6 DEF LabelInv
<1>10. ASSUME NEW h \in Handlers, CallFails(h) PROVE LabelInv'
  <2>1. /\ popups' = popups /\ req' = req /\ statuses' = statuses
        /\ press' = [press EXCEPT ![h] = None]
    BY <1>10 DEF CallFails, vars, tables
  <2>2. \A g \in Handlers : press'[g] = press[g] \/ press'[g].button = "none"
    BY <1>0, <2>1 DEF DeskTypeOK, None
  <2> QED BY <1>1, <1>2, <2>1, <2>2 DEF LabelInv
<1>11. ASSUME NEW b \in BallotBoxes, Close(b) PROVE LabelInv'
  <2>1. /\ popups[b] # <<>> /\ Pop(b, press) /\ req' = req /\ statuses' = statuses
        /\ press \in [Handlers -> Check \cup Step \cup {None}]
    BY <1>0, <1>11 DEF Close, vars, tables, DeskTypeOK
  <2>2. ASSUME NEW h \in Handlers PROVE CallOK(h)'
    <3>1. /\ press'[h].button = press[h].button
          /\ press[h].button # "none" => press'[h].steps = press[h].steps
          /\ press[h].button = "step" => press'[h].status = press[h].status
      BY <1>8, <2>1
    <3> QED BY <1>2, <2>1, <3>1
  <2> QED BY <1>8, <2>1, <2>2 DEF LabelInv
<1>12. ASSUME NEW b \in BallotBoxes, BoxServes(b) \/ Crash(b), UNCHANGED <<popups, press, overlapped>>
       PROVE  LabelInv'
  <2>1. statuses' = statuses /\ \A h \in Handlers : InFlight(h)' => req'[h] = req[h]
    BY <1>12 DEF BoxServes, Crash, Exit, InFlight, Idle, tables
  <2> QED BY <1>1, <1>2, <1>12, <2>1 DEF LabelInv
<1>13. ASSUME NEW h \in Handlers, Serve(h) PROVE LabelInv'
  <2>1. /\ Handle(h) /\ ~At(h, "reply") /\ popups' = popups /\ press' = press
        /\ InFlight(h) /\ req[h] \in Request /\ req[h].voter \in Students
    BY <1>0, <1>13, HandlingRequest DEF Serve, Request
  <2>2. ASSUME NEW g \in Handlers, g # h PROVE CallOK(g)'
    <3>1. InFlight(g)' => req'[g] = req[g]
      BY <1>0, <2>1, <2>2, Moves DEF InFlight, Idle
    <3>2. \A s \in Students :
            (\A f \in Handlers : VotingFor(f, s) => f = g) => statuses'[s] = statuses[s]
      BY <1>0, <2>1, <2>2, RowsOfOthers
    <3> QED BY <1>0, <2>1, <2>2, <3>1, <3>2, CallStays
  <2>3. ASSUME InFlight(h)', press[h].button = "check" PROVE CallOK(h)'
    <3>1. CheckOK(req[h], press[h].steps) /\ req[h].op = "GetVoter"
      BY <1>0, <2>1, <2>3 DEF CallOK, CheckOK
    <3>2. press[h].steps \in Int
      <4>1. press[h] \in Check
        BY <1>0, <2>3 DEF DeskTypeOK, Step, None
      <4> QED BY <4>1 DEF Check
    <3>3. PICK r, k : r = req[h] /\ k = press[h].steps
      OBVIOUS
    <3>4. CheckOK(r, k)'
      BY <1>0, <2>1, <3>1, <3>2, <3>3, CheckStays
    <3>5. /\ req'[h].op = "GetVoter" /\ req'[h].voter = r.voter
          /\ req'[h].pc = "reply" /\ req'[h].code # -1 => req'[h].seen = statuses'[r.voter].Status
      BY <1>0, <2>1, <2>3, <3>1, <3>3, CheckMoves
    <3>6. CheckOK(req[h], press[h].steps)'
      BY <2>1, <3>3, <3>4, <3>5 DEF CheckOK
    <3> QED BY <2>1, <2>3, <3>6 DEF CallOK
  <2>4. ASSUME InFlight(h)', press[h].button = "step" PROVE CallOK(h)'
    <3>1. PICK r, k, label : r = req[h] /\ k = press[h].steps /\ label = press[h].status
      OBVIOUS
    <3>2. StepOK(h, r, k, label) /\ r.op = "RegisterVotingStep"
      BY <1>0, <2>1, <2>4, <3>1 DEF CallOK, StepOK
    <3>3. label \in 0..2 /\ k \in Int
      <4>1. press[h] \in Step
        BY <1>0, <2>4 DEF DeskTypeOK, Check, None
      <4> QED BY <3>1, <4>1 DEF Step
    <3>4. Calm(r.voter)
      BY <1>0, <2>1, <3>1
    <3>5. req'[h].op = "RegisterVotingStep" /\ req'[h].voter = r.voter /\ steps'[r.voter] = steps[r.voter]
      <4>1. steps' = steps
        BY <2>1 DEF Handle, Find, LookupNewVoter, Lookup, InsertVoter, ReadStatus, DeleteStatus,
                    InsertVoted, InsertBallot, ReadStats, SaveStats, Deliver, history
      <4>2. req'[h].op = req[h].op /\ req'[h].voter = req[h].voter
        BY <1>0, <2>1, <2>4, Moves DEF InFlight, Idle
      <4> QED BY <3>1, <3>2, <4>1, <4>2
    <3>6. ASSUME k + 1 = steps'[r.voter]
          PROVE  /\ \A g \in Handlers : VotingFor(g, r.voter)' => g = h
                 /\ LabelFits(req'[h], label, statuses'[r.voter].Status)
      <4>1. /\ \A g \in Handlers : VotingFor(g, r.voter) => g = h
            /\ LabelFits(r, label, statuses[r.voter].Status)
        BY <3>2, <3>5, <3>6 DEF StepOK
      <4>2. \A g \in Handlers : VotingFor(g, r.voter)' => g = h
        BY <3>4, <3>5, <4>1 DEF Calm
      <4>3. LabelFits(req'[h], label, statuses'[r.voter].Status)
        BY <1>0, <2>1, <2>4, <3>1, <3>2, <3>3, <4>1, StepMoves
      <4> QED BY <4>2, <4>3
    <3>7. k < steps'[r.voter]
      BY <3>2, <3>5 DEF StepOK
    <3>8. StepOK(h, req[h], press[h].steps, press[h].status)'
      BY <2>1, <3>1, <3>5, <3>6, <3>7 DEF StepOK, LabelFits
    <3> QED BY <2>1, <2>4, <3>8 DEF CallOK
  <2>5. CallOK(h)'
    BY <2>1, <2>3, <2>4 DEF CallOK
  <2> QED BY <1>1, <2>1, <2>2, <2>5 DEF LabelInv
<1> QED BY <1>3, <1>4, <1>5, <1>7, <1>9, <1>10, <1>11, <1>12, <1>13 DEF DeskNext, Wait

(* "Give ballot" hands out a ballot and "register vote" accepts a vote, with any
   number of desks, processes that end and writes that fail at any step: a label
   is out of date only where a read fails, or where another step of the voter
   began after the status was asked for, or had not ended then. *)
THEOREM ButtonDoesWhatItSays ==
  ASSUME "read" \notin Faults PROVE DeskSpec => []StepIsLabel
<1>1. DeskInit => DeskInv /\ LabelInv
  BY InitDay, InitLabel
<1>2. DeskInv /\ LabelInv /\ [DeskNext]_deskVars => (DeskInv /\ LabelInv)'
  BY DeskInductive, LabelInductive
<1>3. DeskInv /\ LabelInv => StepIsLabel
  <2> SUFFICES ASSUME DeskInv, LabelInv, NEW h \in Handlers, press[h].button = "step",
                      At(h, "reply"), req[h].code = 0,
                      steps[req[h].voter] = press[h].steps + 1
               PROVE  req[h].seen = press[h].status
    BY DEF StepIsLabel
  <2>1. StepOK(h, req[h], press[h].steps, press[h].status)
    BY DEF LabelInv, CallOK, At, InFlight
  <2> QED BY <2>1 DEF StepOK, LabelFits, At
<1> QED BY <1>1, <1>2, <1>3, PTL DEF DeskSpec
=============================================================================
