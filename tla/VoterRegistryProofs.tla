------------------------ MODULE VoterRegistryProofs ------------------------
(***************************************************************************)
(* Theorems about VoterRegistry, for every set of students, boxes and      *)
(* handlers: its types, what the rows of a voter show, and that it         *)
(* implements ElectoralDirectory, with reads that fail and processes that  *)
(* end at any step.                                                        *)
(***************************************************************************)
EXTENDS VoterRegistry, TLAPS

(* What a label of a handler says about its request. *)
LabelOK(h, r) ==
  /\ r.pc = "find" => r.op = "GetVoter"
  /\ r.pc = "insertVoter" => r.op = "CreateVoter" /\ r.home \in BallotBoxes
  /\ r.pc \in {"readStatus", "deleteStatus", "insertVoted", "insertBallot", "readStats", "saveStats"} =>
       /\ r.home \in BallotBoxes
       /\ r.op = "RegisterVotingStep" => NodeOf[h] \in BallotBoxes
  /\ r.pc = "readStatus" => r.op # "CreateVoter"
  /\ r.pc \in {"deleteStatus", "insertVoted", "insertBallot"} => r.op = "RegisterVotingStep"
  /\ r.pc \in {"readStats", "saveStats"} => r.op \in {"CreateVoter", "RegisterVotingStep"}
  /\ r.pc \in {"deleteStatus", "insertVoted"} => r.seen = 1
  /\ r.pc = "insertBallot" => r.seen = 0
  /\ r.pc \in {"readStats", "saveStats"} /\ r.op = "RegisterVotingStep" => r.seen = 1
  /\ r.pc \in {"find", "lookup", "readStatus"} => r.seen = 0

ControlOK == \A h \in Handlers : InFlight(h) => LabelOK(h, req[h])

TypeInv == TypeOK /\ ControlOK

USE DEF Nodes, AllOperations, Labels, Codes

(* A request in flight has all its fields. *)
LEMMA RequestType ==
  ASSUME req \in [Handlers -> Request \cup {Idle}], NEW h \in Handlers, InFlight(h)
  PROVE  req[h] \in Request
  BY DEF Request, Idle, InFlight

(* The struct that no row was read into is a statistic. *)
LEMMA ZeroStatsType == ZeroStats \in ElectionStats
  BY DEF ZeroStats, ElectionStats

(* A box without votes is a box. *)
LEMMA EmptyBoxType == EmptyBox \in BallotBox
  BY DEF EmptyBox, BallotBox, VotingDay

(* newStats makes a row that lists every ballot box. *)
LEMMA NewStatsType == newStats \in ElectionStats
  BY EmptyBoxType DEF newStats, ElectionStats

(* countVoter and countVote keep the shape of the row. *)
LEMMA CountVoterType ==
  ASSUME NEW s \in ElectionStats, HasBoxes(s), NEW home \in BallotBoxes
  PROVE  CountVoter(s, home) \in ElectionStats
<1>1. s.BallotBoxs \in [BallotBoxes -> BallotBox]
  BY DEF ElectionStats, HasBoxes
<1>2. CountVoterAt(s.BallotBoxs[home]) \in BallotBox
  BY <1>1 DEF BallotBox, CountVoterAt
<1>3. [s.BallotBoxs EXCEPT ![home] = CountVoterAt(s.BallotBoxs[home])] \in [BallotBoxes -> BallotBox]
  BY <1>1, <1>2
<1> QED
  BY <1>3 DEF CountVoter, ElectionStats

(* countVote keeps the shape of a day. *)
LEMMA CountDayType ==
  ASSUME NEW day \in VotingDay, NEW isAfternoon \in BOOLEAN
  PROVE  CountDay(day, isAfternoon) \in VotingDay
  BY DEF CountDay, VotingDay

(* countVote keeps the shape of a box, when the index of the day is in bounds. *)
LEMMA CountVoteAtType ==
  ASSUME NEW b \in BallotBox, NEW other \in BOOLEAN, NEW isAfternoon \in BOOLEAN, NEW d \in Days
  PROVE  CountVoteAt(b, other, isAfternoon, d) \in BallotBox
<1>1. b.VotesPerDay \in [Days -> VotingDay]
  BY DEF BallotBox
<1>2. CountDay(b.VotesPerDay[d], isAfternoon) \in VotingDay
  BY <1>1, CountDayType
<1>3. [b.VotesPerDay EXCEPT ![d] = CountDay(b.VotesPerDay[d], isAfternoon)] \in [Days -> VotingDay]
  BY <1>1, <1>2
<1> QED
  BY <1>3 DEF CountVoteAt, BallotBox

(* countVote keeps the shape of the row. *)
LEMMA CountVoteType ==
  ASSUME NEW s \in ElectionStats, HasBoxes(s), NEW box \in BallotBoxes, NEW home,
         NEW isAfternoon \in BOOLEAN, NEW d \in Days
  PROVE  CountVote(s, box, home, isAfternoon, d) \in ElectionStats
<1>1. s.BallotBoxs \in [BallotBoxes -> BallotBox]
  BY DEF ElectionStats, HasBoxes
<1>2. CountVoteAt(s.BallotBoxs[box], home # box, isAfternoon, d) \in BallotBox
  BY <1>1, CountVoteAtType
<1>3. [s.BallotBoxs EXCEPT ![box] =
          CountVoteAt(s.BallotBoxs[box], home # box, isAfternoon, d)]
        \in [BallotBoxes -> BallotBox]
  BY <1>1, <1>2
<1> QED
  BY <1>3 DEF CountVote, ElectionStats

-----------------------------------------------------------------------------
(* How a step may change the requests. *)

RequestsOK == req \in [Handlers -> Request \cup {Idle}] /\ ControlOK

(* One request moves on to another label. *)
LEMMA UpdateOK ==
  ASSUME RequestsOK, NEW h \in Handlers, NEW r \in Request \cup {Idle},
         r # Idle => LabelOK(h, r),
         req' = [req EXCEPT ![h] = r]
  PROVE  RequestsOK'
  BY DEF RequestsOK, ControlOK, InFlight, Idle, Request, LabelOK

(* An answer ends the operation of the request, with any status code. *)
LEMMA AnswerOK ==
  ASSUME RequestsOK, NEW h \in Handlers, InFlight(h), NEW code \in Codes, Answer(h, code)
  PROVE  RequestsOK'
<1> DEFINE r == [req[h] EXCEPT !.pc = "reply", !.code = code, !.copy = ZeroStats,
                               !.home = NoBox, !.afternoon = FALSE]
<1>1. req[h] \in Request
  BY RequestType DEF RequestsOK
<1>2. r \in Request /\ r.pc = "reply"
  BY <1>1, ZeroStatsType DEF Request
<1>3. LabelOK(h, r)
  BY <1>2 DEF LabelOK
<1>4. req' = [req EXCEPT ![h] = r]
  BY DEF Answer
<1> HIDE DEF r
<1> QED BY <1>2, <1>3, <1>4, UpdateOK

(* A request moves on within its operation. *)
LEMMA GotoOK ==
  ASSUME RequestsOK, NEW h \in Handlers, InFlight(h), NEW label \in Labels,
         LabelOK(h, [req[h] EXCEPT !.pc = label]), Goto(h, label)
  PROVE  RequestsOK'
<1> DEFINE r == [req[h] EXCEPT !.pc = label]
<1>1. r \in Request
  BY RequestType DEF RequestsOK, Request
<1>2. req' = [req EXCEPT ![h] = r]
  BY DEF Goto
<1> HIDE DEF r
<1> QED BY <1>1, <1>2, UpdateOK DEF r

(* A process that ends leaves its requests idle. *)
LEMMA ExitOK ==
  ASSUME RequestsOK, NEW n, Exit(n)
  PROVE  RequestsOK'
  BY DEF RequestsOK, ControlOK, Exit, InFlight, Idle, LabelOK

-----------------------------------------------------------------------------
(* Type correctness: storage.New, the handlers and the process exits only ever
   store rows, structs and request states of the declared types. *)

(* The tables are empty and no request is in flight. *)
LEMMA InitType == Init => TypeInv
<1> SUFFICES ASSUME Init PROVE TypeInv
  OBVIOUS
<1>1. TypeOK
  BY ZeroStatsType DEF Init, TypeOK, NoStatus, StatusRow, VoterStatus
<1>2. ControlOK
  BY DEF Init, ControlOK, InFlight, Idle
<1> QED BY <1>1, <1>2 DEF TypeInv

(* The rest of a state, beside the requests. *)
TablesOK ==
  /\ api \in [Nodes -> {"down", "starting", "up"}]
  /\ users \in SUBSET BallotBoxes
  /\ voters \in [Students -> BallotBoxes \cup {NoBox}]
  /\ statuses \in [Students -> VoterStatus]
  /\ stats \in ElectionStats
  /\ steps \in [Students -> Nat]
  /\ recorded \in [Students -> SUBSET (1..2)]
  /\ granted \in [Students -> Nat]
  /\ accepted \in [Students -> Nat]

(* The type invariant splits into that of requests and that of tables. *)
LEMMA TypeParts == TypeInv <=> RequestsOK /\ TablesOK
  BY DEF TypeInv, TypeOK, RequestsOK, TablesOK

(* Starting an API process leaves the requests alone and adds the first row at most. *)
LEMMA StartType == TypeInv /\ Start => TypeInv'
<1> SUFFICES ASSUME TypeInv, Start PROVE TablesOK' /\ RequestsOK'
  BY TypeParts DEF TypeInv, TypeOK, RequestsOK, TablesOK, ControlOK
<1> USE TypeParts
<1>0. req' = req
  BY DEF Start, CommitteeMigrates, CommitteeServes, CommitteeGrants, BoxServes
<1>1. RequestsOK'
  BY <1>0 DEF RequestsOK, ControlOK, InFlight, LabelOK
<1>2. CASE CommitteeMigrates
  BY <1>1, <1>2, NewStatsType DEF CommitteeMigrates, TablesOK, history, Written
<1>3. CASE CommitteeServes
  BY <1>1, <1>3 DEF CommitteeServes, TablesOK, tables, history
<1>4. ASSUME NEW b \in BallotBoxes, CommitteeGrants(b) PROVE TablesOK'
  BY <1>4 DEF CommitteeGrants, TablesOK, tables, history
<1>5. ASSUME NEW b \in BallotBoxes, BoxServes(b) PROVE TablesOK'
  BY <1>5 DEF BoxServes, TablesOK, tables, history
<1> QED BY <1>1, <1>2, <1>3, <1>4, <1>5 DEF Start

(* A process that ends takes its requests with it. *)
LEMMA CrashType == TypeInv /\ (\E n \in Nodes : Crash(n)) => TypeInv'
<1> SUFFICES ASSUME TypeInv, NEW n \in Nodes, Crash(n) PROVE TablesOK' /\ RequestsOK'
  BY DEF TypeInv, TypeOK, RequestsOK, TablesOK, ControlOK
<1>1. RequestsOK'
  BY TypeParts, ExitOK DEF Crash
<1>2. TablesOK'
  BY TypeParts DEF Crash, Exit, TablesOK, tables, history
<1> QED BY <1>1, <1>2

(* Every call starts at a label of its own operation. *)
LEMMA CallType ==
  ASSUME TypeInv, NEW h \in Handlers, NEW s \in Students, Call(h, s)
  PROVE  TypeInv'
<1> SUFFICES TablesOK' /\ RequestsOK'
  BY DEF TypeInv, TypeOK, RequestsOK, TablesOK, ControlOK
<1> USE TypeParts
<1>0. ASSUME NEW op \in AllOperations, NEW label \in {"find", "lookup"},
             label = "find" => op = "GetVoter",
             NEW home \in BallotBoxes \cup {UnlistedBox, NoBox}, NEW isAfternoon \in BOOLEAN,
             Receive(h, op, NewRequest(op, label, s, home, isAfternoon))
      PROVE  RequestsOK'
  <2> DEFINE r == NewRequest(op, label, s, home, isAfternoon)
  <2>1. r \in Request
    BY ZeroStatsType DEF NewRequest, Request
  <2>2. LabelOK(h, r)
    BY <1>0 DEF NewRequest, LabelOK
  <2>3. req' = [req EXCEPT ![h] = r]
    BY <1>0 DEF Receive
  <2> HIDE DEF r
  <2> QED BY <2>1, <2>2, <2>3, UpdateOK
<1>1. ASSUME NEW home \in BallotBoxes \cup {UnlistedBox}, ReceiveCreateVoter(h, s, home)
      PROVE  TablesOK' /\ RequestsOK'
  BY <1>0, <1>1 DEF ReceiveCreateVoter, TablesOK, tables, history
<1>2. ASSUME NEW isAfternoon \in Afternoons, ReceiveVotingStep(h, s, isAfternoon)
      PROVE  TablesOK' /\ RequestsOK'
  <2>1. RequestsOK'
    BY <1>0, <1>2, ConfigAssumption DEF ReceiveVotingStep
  <2>2. TablesOK'
    BY <1>2 DEF ReceiveVotingStep, TablesOK, tables
  <2> QED BY <2>1, <2>2
<1>3. CASE ReceiveCheckVoterStatus(h, s)
  BY <1>0, <1>3 DEF ReceiveCheckVoterStatus, TablesOK, tables, history
<1>4. CASE ReceiveGetVoter(h, s)
  BY <1>0, <1>4 DEF ReceiveGetVoter, TablesOK, tables, history
<1> QED BY <1>1, <1>2, <1>3, <1>4 DEF Call

(* Every statement leads to a label of the same operation; one step per statement. *)
LEMMA HandleType ==
  ASSUME TypeInv, NEW h \in Handlers, Handle(h)
  PROVE  TypeInv'
<1> SUFFICES TablesOK' /\ RequestsOK'
  BY DEF TypeInv, TypeOK, RequestsOK, TablesOK, ControlOK
<1> USE TypeParts
<1> DEFINE r == req[h]
<1>0. InFlight(h) /\ r \in Request /\ LabelOK(h, r) /\ NodeOf[h] \in Nodes
  <2>1. InFlight(h)
    BY DEF Handle, Find, LookupNewVoter, Lookup, InsertVoter, ReadStatus, DeleteStatus,
           InsertVoted, InsertBallot, ReadStats, SaveStats, Deliver, At, InFlight
  <2> QED BY <2>1, RequestType, HandlerAssumption DEF RequestsOK, ControlOK
<1>1. CASE Find(h)
  <2>1. TablesOK'
    BY <1>1 DEF Find, TablesOK, tables, history
  <2>2. ASSUME NEW code \in Codes, Answer(h, code) PROVE RequestsOK'
    BY <1>0, <2>2, AnswerOK
  <2>3. CASE Goto(h, "lookup")
    <3>1. LabelOK(h, [req[h] EXCEPT !.pc = "lookup"])
      BY <1>0, <1>1 DEF LabelOK, Request, Find, At
    <3> QED BY <1>0, <2>1, <2>3, <3>1, GotoOK
  <2> QED BY <1>1, <2>1, <2>2, <2>3 DEF Find, NotFound
<1>2. CASE LookupNewVoter(h)
  <2>1. TablesOK'
    BY <1>2 DEF LookupNewVoter, TablesOK, tables, history
  <2>2. ASSUME NEW code \in Codes, Answer(h, code) PROVE RequestsOK'
    BY <1>0, <2>2, AnswerOK
  <2>3. ASSUME Goto(h, "insertVoter"), r.home \in BallotBoxes PROVE RequestsOK'
    <3>1. LabelOK(h, [req[h] EXCEPT !.pc = "insertVoter"])
      BY <1>0, <1>2, <2>3 DEF LabelOK, Request, LookupNewVoter
    <3> QED BY <1>0, <2>3, <3>1, GotoOK
  <2> QED BY <1>2, <2>1, <2>2, <2>3 DEF LookupNewVoter
<1>3. CASE Lookup(h)
  <2>1. TablesOK'
    BY <1>3 DEF Lookup, TablesOK, tables, history
  <2>2. ASSUME NEW code \in Codes, Answer(h, code) PROVE RequestsOK'
    BY <1>0, <2>2, AnswerOK
  <2>3. ASSUME NEW home \in BallotBoxes,
               r.op = "RegisterVotingStep" => NodeOf[h] \in BallotBoxes,
               req' = [req EXCEPT ![h].pc = "readStatus", ![h].home = home]
        PROVE RequestsOK'
    <3> DEFINE new == [req[h] EXCEPT !.pc = "readStatus", !.home = home]
    <3>1. new \in Request /\ LabelOK(h, new)
      BY <1>0, <1>3, <2>3 DEF LabelOK, Request, Lookup, At
    <3>2. req' = [req EXCEPT ![h] = new]
      BY <2>3
    <3> HIDE DEF new
    <3> QED BY <3>1, <3>2, UpdateOK
  <2>4. ASSUME NEW home \in Read(voters[r.voter], NoBox), home # NoBox
        PROVE  home \in BallotBoxes
    BY <1>0, <2>4 DEF Read, TablesOK, Request
  <2> QED BY <1>3, <2>1, <2>2, <2>3, <2>4 DEF Lookup, NotFound
<1>4. CASE InsertVoter(h)
  <2>0. r.home \in BallotBoxes /\ r.op = "CreateVoter"
    BY <1>0, <1>4 DEF InsertVoter, LabelOK, At
  <2>1. TablesOK'
    BY <1>0, <1>4, <2>0 DEF InsertVoter, TablesOK, history, Written, Goto, Answer, Request
  <2>2. CASE Answer(h, 8)
    BY <1>0, <2>1, <2>2, AnswerOK
  <2>3. CASE Goto(h, "readStats")
    <3>1. LabelOK(h, [req[h] EXCEPT !.pc = "readStats"])
      BY <1>0, <1>4, <2>0 DEF LabelOK, Request, InsertVoter, At
    <3> QED BY <1>0, <2>1, <2>3, <3>1, GotoOK
  <2> QED BY <1>4, <2>1, <2>2, <2>3 DEF InsertVoter
<1>5. CASE ReadStatus(h)
  <2>1. TablesOK'
    BY <1>5 DEF ReadStatus, TablesOK, tables, history
  <2>2. ASSUME NEW code \in Codes, Answer(h, code) PROVE RequestsOK'
    BY <1>0, <2>2, AnswerOK
  <2>3. ASSUME NEW status \in 0..2, status = 1, r.op = "RegisterVotingStep",
               req' = [req EXCEPT ![h].pc = "deleteStatus", ![h].seen = status]
        PROVE  RequestsOK'
    <3> DEFINE new == [req[h] EXCEPT !.pc = "deleteStatus", !.seen = status]
    <3>1. new \in Request
      BY <1>0 DEF Request
    <3>2. new.pc = "deleteStatus" /\ new.op = r.op /\ new.home = r.home /\ new.seen = 1
      BY <1>0, <2>3 DEF Request
    <3>3. r.pc = "readStatus"
      BY <1>5 DEF ReadStatus, At
    <3>4. req' = [req EXCEPT ![h] = new]
      BY <2>3
    <3> HIDE DEF new
    <3>5. LabelOK(h, new)
      BY <1>0, <2>3, <3>2, <3>3 DEF LabelOK
    <3> QED BY <3>1, <3>4, <3>5, UpdateOK
  <2>4. CASE Goto(h, "insertBallot") /\ r.op = "RegisterVotingStep"
    <3>1. LabelOK(h, [req[h] EXCEPT !.pc = "insertBallot"])
      BY <1>0, <1>5, <2>4 DEF LabelOK, Request, ReadStatus, At
    <3> QED BY <1>0, <2>1, <2>4, <3>1, GotoOK
  <2>5. ASSUME NEW status \in 0..2,
               req' = [req EXCEPT ![h].pc = "reply", ![h].home = NoBox, ![h].seen = status]
        PROVE RequestsOK'
    <3> DEFINE new == [req[h] EXCEPT !.pc = "reply", !.home = NoBox, !.seen = status]
    <3>1. new \in Request /\ LabelOK(h, new)
      BY <1>0 DEF LabelOK, Request
    <3>2. req' = [req EXCEPT ![h] = new]
      BY <2>5
    <3> HIDE DEF new
    <3> QED BY <3>1, <3>2, UpdateOK
  <2>6. PICK status \in Read(statuses[r.voter].Status, 0) :
           CASE r.op = "RegisterVotingStep" -> StepAfter(h, status)
             [] r.op = "CheckVoterStatus" -> Answer(h, StatusCode(status))
             [] r.op = "GetVoter" ->
                  req' = [req EXCEPT ![h].pc = "reply", ![h].home = NoBox, ![h].seen = status]
    BY <1>5 DEF ReadStatus
  <2>7. status \in 0..2
    BY <1>0, <2>6 DEF Read, TablesOK, Request, VoterStatus
  <2>8. StatusCode(status) \in Codes
    BY <2>7 DEF StatusCode
  <2>9. r.op \in {"RegisterVotingStep", "CheckVoterStatus", "GetVoter"}
    BY <1>0, <1>5 DEF ReadStatus, LabelOK, Request, At
  <2>10. CASE r.op = "RegisterVotingStep"
    <3>1. StepAfter(h, status)
      BY <2>6, <2>10
    <3>2. CASE status = 0
      BY <2>4, <2>10, <3>1, <3>2 DEF StepAfter
    <3>3. CASE status = 1
      BY <2>1, <2>3, <2>7, <2>10, <3>1, <3>3 DEF StepAfter
    <3>4. CASE status = 2
      BY <2>1, <2>2, <3>1, <3>4 DEF StepAfter
    <3> QED BY <2>7, <3>2, <3>3, <3>4
  <2>11. CASE r.op = "CheckVoterStatus"
    BY <2>1, <2>2, <2>6, <2>8, <2>11
  <2>12. CASE r.op = "GetVoter"
    BY <2>1, <2>5, <2>6, <2>7, <2>12
  <2> QED BY <2>9, <2>10, <2>11, <2>12
<1>6. CASE DeleteStatus(h)
  <2>1. TablesOK'
    BY <1>0, <1>6 DEF DeleteStatus, TablesOK, history, Written, NoStatus, StatusRow,
                      VoterStatus, Request
  <2>2. LabelOK(h, [req[h] EXCEPT !.pc = "insertVoted"])
    BY <1>0, <1>6 DEF LabelOK, Request, DeleteStatus, At
  <2> QED BY <1>0, <1>6, <2>1, <2>2, GotoOK DEF DeleteStatus
<1>7. CASE InsertVoted(h)
  <2>1. PICK new \in VotedRows(r.home, NodeOf[h]) :
           \E row \in Insert(new, statuses[r.voter]) : Record(r.voter, row)
    BY <1>7 DEF InsertVoted
  <2>2. new \in VoterStatus
    BY <1>0, <1>7, <2>1 DEF VotedRows, StatusRow, VoterStatus, InsertVoted, LabelOK, At
  <2>3. PICK row \in Insert(new, statuses[r.voter]) : Record(r.voter, row)
    BY <2>1
  <2>4. row \in VoterStatus
    BY <1>0, <2>2, <2>3 DEF Insert, Written, TablesOK, Request
  <2>5. row.Status \in 0..2
    BY <2>4 DEF VoterStatus
  <2>6. TablesOK'
    BY <1>0, <1>7, <2>3, <2>4, <2>5 DEF InsertVoted, TablesOK, Record, Request
  <2>7. LabelOK(h, [req[h] EXCEPT !.pc = "readStats"])
    BY <1>0, <1>7 DEF LabelOK, Request, InsertVoted, At
  <2> QED BY <1>0, <1>7, <2>6, <2>7, GotoOK DEF InsertVoted
<1>8. CASE InsertBallot(h)
  <2>1. PICK row \in Insert(StatusRow(1, NoBox, NoBox), statuses[r.voter]) : Record(r.voter, row)
    BY <1>8 DEF InsertBallot
  <2>2. row \in VoterStatus
    BY <1>0, <2>1 DEF Insert, Written, TablesOK, Request, StatusRow, VoterStatus
  <2>3. row.Status \in 0..2
    BY <2>2 DEF VoterStatus
  <2>4. TablesOK'
    BY <1>0, <1>8, <2>1, <2>2, <2>3 DEF InsertBallot, TablesOK, Record, Request
  <2> QED BY <1>0, <1>8, <2>4, AnswerOK DEF InsertBallot
<1>9. CASE ReadStats(h)
  <2>0. r.home \in BallotBoxes
    BY <1>0, <1>9 DEF ReadStats, LabelOK, At
  <2>1. PICK s \in Read(stats, ZeroStats) :
           \/ r.op = "CreateVoter" /\ CountNewVoter(h, s)
           \/ r.op = "RegisterVotingStep" /\ \E day \in Weekdays : CountNewVote(h, s, day)
    BY <1>9 DEF ReadStats
  <2>2. s \in ElectionStats
    BY <2>1, ZeroStatsType DEF Read, TablesOK
  <2>3. CASE Exit(NodeOf[h])
    <3>1. TablesOK'
      BY <1>9, <2>3 DEF ReadStats, Exit, TablesOK, tables, history
    <3> QED BY <2>3, <3>1, ExitOK
  <2>4. ASSUME NEW copy \in ElectionStats, UNCHANGED api,
               req' = [req EXCEPT ![h].pc = "saveStats", ![h].copy = copy]
        PROVE  TablesOK' /\ RequestsOK'
    <3> DEFINE new == [req[h] EXCEPT !.pc = "saveStats", !.copy = copy]
    <3>1. new \in Request /\ LabelOK(h, new)
      BY <1>0, <1>9 DEF LabelOK, Request, ReadStats, At
    <3>2. req' = [req EXCEPT ![h] = new]
      BY <2>4
    <3>3. TablesOK'
      BY <1>9, <2>4 DEF ReadStats, TablesOK, tables, history
    <3> HIDE DEF new
    <3> QED BY <3>1, <3>2, <3>3, UpdateOK
  <2>5. CASE r.op = "CreateVoter" /\ CountNewVoter(h, s)
    BY <2>0, <2>2, <2>3, <2>4, <2>5, CountVoterType DEF CountNewVoter
  <2>6. ASSUME r.op = "RegisterVotingStep", NEW day \in Weekdays, CountNewVote(h, s, day)
        PROVE  TablesOK' /\ RequestsOK'
    <3>1. NodeOf[h] \in BallotBoxes /\ r.afternoon \in BOOLEAN
      BY <1>0, <1>9, <2>6 DEF ReadStats, LabelOK, Request, At
    <3> QED BY <2>0, <2>2, <2>3, <2>4, <2>6, <3>1, CountVoteType DEF CountNewVote
  <2> QED BY <2>1, <2>5, <2>6
<1>10. CASE SaveStats(h)
  <2>1. TablesOK'
    BY <1>0, <1>10 DEF SaveStats, TablesOK, history, Written, Request
  <2> QED BY <1>0, <1>10, <2>1, AnswerOK DEF SaveStats
<1>11. CASE Deliver(h)
  <2>1. TablesOK'
    BY <1>0, <1>11 DEF Deliver, TablesOK, tables, Request
  <2>2. RequestsOK'
    BY <1>11, UpdateOK DEF Deliver
  <2> QED BY <2>1, <2>2
<1> QED BY <1>1, <1>2, <1>3, <1>4, <1>5, <1>6, <1>7, <1>8, <1>9, <1>10, <1>11 DEF Handle

(* No step breaks the types or the control points. *)
LEMMA TypeInductive == TypeInv /\ [Next]_vars => TypeInv'
<1> SUFFICES ASSUME TypeInv, [Next]_vars PROVE TypeInv'
  OBVIOUS
<1>1. CASE UNCHANGED vars
  BY <1>1 DEF TypeInv, TypeOK, ControlOK, InFlight, LabelOK, vars, tables, history
<1> QED BY <1>1, StartType, CrashType, CallType, HandleType DEF Next

(* Rows, statistics, requests and history always have their declared types:
   no handler leaves an ill-formed row or statistics struct behind. *)
THEOREM TypeCorrect == Spec => []TypeOK
<1>1. Init => TypeInv
  BY InitType
<1>2. TypeInv /\ [Next]_vars => TypeInv'
  BY TypeInductive
<1>3. TypeInv => TypeOK
  BY DEF TypeInv
<1> QED BY <1>1, <1>2, <1>3, PTL DEF Spec

-----------------------------------------------------------------------------
(* No voter votes twice, as long as a voter is at one desk at a time and no    *)
(* write fails silently.  Reads may fail, processes may crash at any step.     *)

NoLostWrite == "write" \notin Faults

OneDesk == Concurrency \in {"voter", "serial"} /\ NoLostWrite

\* A voting step begins only when none is under way for its voter.
Alone ==
  \A h \in Handlers, s \in Students, isAfternoon \in Afternoons :
    ReceiveVotingStep(h, s, isAfternoon) =>
      \A g \in Handlers : ~(Voting(g) /\ req[g].voter = s)

(* That is what Concurrency says, of all requests or of those for a voter. *)
LEMMA OneDeskAlone == ASSUME OneDesk PROVE Alone
  BY DEF OneDesk, Alone, ReceiveVotingStep, Receive, NewRequest, MayStart, Voting, Writing

(* The request will tell the ballot box, or has told it, that the vote counts. *)
Accepting(r) ==
  \/ r.pc \in {"deleteStatus", "insertVoted", "readStats", "saveStats"}
  \/ r.pc = "reply" /\ r.code = 0 /\ r.seen = 1

(* What a voting request knows of the row of its voter. *)
VoteOK(r, status, times) ==
  /\ r.pc = "deleteStatus" => status = 1
  /\ r.pc = "insertVoted" => status = 0
  /\ r.pc \in {"readStats", "saveStats"} => status = 2
  /\ r.pc = "reply" /\ r.code = 0 /\ r.seen = 1 => status = 2
  /\ Accepting(r) => times = 0

OnceOK(s) ==
  /\ accepted[s] <= 1
  /\ accepted[s] > 0 => statuses[s].Status = 2

VotingFor(h, s) == Voting(h) /\ req[h].voter = s

(* One voter: at most one request votes, and it knows the row. *)
SafeFor(s) ==
  /\ \A g, h \in Handlers : VotingFor(g, s) /\ VotingFor(h, s) => g = h
  /\ \A h \in Handlers : VotingFor(h, s) => VoteOK(req[h], statuses[s].Status, accepted[s])
  /\ OnceOK(s)

Exclusive ==
  \A g, h \in Handlers :
    Voting(g) /\ Voting(h) /\ req[g].voter = req[h].voter => g = h

SafeInv ==
  /\ Exclusive
  /\ \A h \in Handlers : Voting(h) =>
       VoteOK(req[h], statuses[req[h].voter].Status, accepted[req[h].voter])
  /\ \A s \in Students : OnceOK(s)

(* All voters together. *)
LEMMA SafeParts == TypeInv => (SafeInv <=> \A s \in Students : SafeFor(s))
<1> SUFFICES ASSUME TypeInv PROVE SafeInv <=> \A s \in Students : SafeFor(s)
  OBVIOUS
<1>1. \A h \in Handlers : Voting(h) => req[h].voter \in Students
  BY RequestType DEF Voting, TypeInv, TypeOK, Request
<1>2. SafeInv => \A s \in Students : SafeFor(s)
  BY DEF SafeInv, Exclusive, SafeFor, VotingFor
<1>3. ASSUME \A s \in Students : SafeFor(s) PROVE SafeInv
  <2>1. Exclusive
    BY <1>1, <1>3 DEF Exclusive, SafeFor, VotingFor
  <2>2. ASSUME NEW h \in Handlers, Voting(h)
        PROVE  VoteOK(req[h], statuses[req[h].voter].Status, accepted[req[h].voter])
    <3>1. SafeFor(req[h].voter) /\ VotingFor(h, req[h].voter)
      BY <1>1, <1>3, <2>2 DEF VotingFor
    <3> QED BY <3>1 DEF SafeFor
  <2>3. \A s \in Students : OnceOK(s)
    BY <1>3 DEF SafeFor
  <2> QED BY <2>1, <2>2, <2>3 DEF SafeInv
<1> QED BY <1>2, <1>3

(* Nobody has voted and nobody votes. *)
LEMMA InitSafe == Init => SafeInv
  BY DEF Init, SafeInv, Exclusive, Voting, InFlight, Idle, OnceOK

(* A step that leaves the row alone: requests end, or stay as they are. *)
LEMMA QuietStep ==
  ASSUME NEW v \in Students, SafeFor(v),
         statuses'[v] = statuses[v], accepted'[v] = accepted[v],
         \A g \in Handlers : VotingFor(g, v)' => req'[g] = req[g]
  PROVE  SafeFor(v)'
<1>1. \A g \in Handlers : VotingFor(g, v)' => VotingFor(g, v)
  BY DEF VotingFor, Voting, InFlight
<1> QED BY <1>1 DEF SafeFor, OnceOK

(* A step of a request that votes for v. *)
LEMMA VotingStep ==
  ASSUME NEW v \in Students, SafeFor(v), NEW h \in Handlers, VotingFor(h, v),
         \A g \in Handlers \ {h} : req'[g] = req[g],
         OnceOK(v)',
         Voting(h)' => VoteOK(req'[h], statuses'[v].Status, accepted'[v])
  PROVE  SafeFor(v)'
<1>1. \A g \in Handlers : VotingFor(g, v)' => g = h \/ VotingFor(g, v)
  BY DEF VotingFor, Voting, InFlight
<1>2. \A g \in Handlers : VotingFor(g, v)' => g = h
  BY <1>1 DEF SafeFor
<1> QED BY <1>2 DEF SafeFor, VotingFor

(* Answer sets the code of one request and keeps who asks for what. *)
LEMMA AnswerFields ==
  ASSUME TypeInv, NEW h \in Handlers, req[h] \in Request, NEW code, Answer(h, code)
  PROVE  /\ \A g \in Handlers \ {h} : req'[g] = req[g]
         /\ req'[h].pc = "reply" /\ req'[h].code = code
         /\ req'[h].op = req[h].op /\ req'[h].voter = req[h].voter /\ req'[h].seen = req[h].seen
  BY DEF TypeInv, TypeOK, Answer, Request

(* Goto moves one request to another statement. *)
LEMMA GotoFields ==
  ASSUME TypeInv, NEW h \in Handlers, req[h] \in Request, NEW label, Goto(h, label)
  PROVE  /\ \A g \in Handlers \ {h} : req'[g] = req[g]
         /\ req'[h].pc = label /\ req'[h].code = req[h].code
         /\ req'[h].op = req[h].op /\ req'[h].voter = req[h].voter /\ req'[h].seen = req[h].seen
  BY DEF TypeInv, TypeOK, Goto, Request

(* Only a request in flight takes steps. *)
LEMMA HandlingRequest ==
  ASSUME TypeInv, NEW h \in Handlers, Handle(h)
  PROVE  InFlight(h) /\ req[h] \in Request /\ LabelOK(h, req[h])
<1>1. InFlight(h)
  BY DEF Handle, Find, LookupNewVoter, Lookup, InsertVoter, ReadStatus, DeleteStatus,
         InsertVoted, InsertBallot, ReadStats, SaveStats, Deliver, At, InFlight
<1> QED BY <1>1, RequestType DEF TypeInv, TypeOK, ControlOK

(* Requests that do not vote for v leave the row of v and its acceptances alone. *)
LEMMA OtherSafe ==
  ASSUME TypeInv, NEW v \in Students, SafeFor(v), NEW h \in Handlers, Handle(h), ~VotingFor(h, v)
  PROVE  SafeFor(v)'
<1> DEFINE r == req[h]
<1>1. r \in Request /\ LabelOK(h, r) /\ (r.op # "RegisterVotingStep" \/ r.voter # v)
  BY HandlingRequest DEF Voting, VotingFor
<1>2. statuses'[v] = statuses[v] /\ accepted'[v] = accepted[v]
  <2>1. CASE r.op # "RegisterVotingStep"
    BY <1>1, <2>1 DEF Handle, Find, LookupNewVoter, Lookup, InsertVoter, ReadStatus, DeleteStatus,
       InsertVoted, InsertBallot, ReadStats, SaveStats, Deliver, At, LabelOK, tables, history
  <2>2. CASE r.voter # v
    BY <1>1, <2>2 DEF Handle, Find, LookupNewVoter, Lookup, InsertVoter, ReadStatus, DeleteStatus,
       InsertVoted, InsertBallot, ReadStats, SaveStats, Deliver, At, LabelOK, tables, history,
       Record, TypeInv, TypeOK
  <2> QED BY <1>1, <2>1, <2>2
<1> DEFINE Goal == /\ \A g \in Handlers \ {h} : Voting(g)' => req'[g] = req[g]
                   /\ ~VotingFor(h, v)'
<1>3. Goal
  <2>1. ASSUME NEW code, Answer(h, code) PROVE Goal
    BY <1>1, <2>1, AnswerFields DEF Voting, VotingFor
  <2>2. ASSUME NEW label, Goto(h, label) PROVE Goal
    BY <1>1, <2>2, GotoFields DEF Voting, VotingFor
  <2>3. ASSUME NEW new, req' = [req EXCEPT ![h] = new],
               new = Idle \/ (new.op = r.op /\ new.voter = r.voter)
        PROVE  Goal
    BY <1>1, <2>3 DEF TypeInv, TypeOK, Voting, VotingFor, InFlight, Idle
  <2>4. ASSUME Exit(NodeOf[h]) PROVE Goal
    BY <2>4 DEF Exit, Voting, VotingFor, InFlight, Idle
  <2>5. ASSUME NEW home, req' = [req EXCEPT ![h].pc = "readStatus", ![h].home = home] PROVE Goal
    <3> DEFINE new == [req[h] EXCEPT !.pc = "readStatus", !.home = home]
    <3>1. new.op = r.op /\ new.voter = r.voter /\ req' = [req EXCEPT ![h] = new]
      BY <1>1, <2>5 DEF Request
    <3> HIDE DEF new
    <3> QED BY <2>3, <3>1
  <2>6. ASSUME NEW status,
               req' = [req EXCEPT ![h].pc = "reply", ![h].home = NoBox, ![h].seen = status]
        PROVE  Goal
    <3> DEFINE new == [req[h] EXCEPT !.pc = "reply", !.home = NoBox, !.seen = status]
    <3>1. new.op = r.op /\ new.voter = r.voter /\ req' = [req EXCEPT ![h] = new]
      BY <1>1, <2>6 DEF Request
    <3> HIDE DEF new
    <3> QED BY <2>3, <3>1
  <2>7. ASSUME NEW copy, req' = [req EXCEPT ![h].pc = "saveStats", ![h].copy = copy] PROVE Goal
    <3> DEFINE new == [req[h] EXCEPT !.pc = "saveStats", !.copy = copy]
    <3>1. new.op = r.op /\ new.voter = r.voter /\ req' = [req EXCEPT ![h] = new]
      BY <1>1, <2>7 DEF Request
    <3> HIDE DEF new
    <3> QED BY <2>3, <3>1
  <2>17. ASSUME NEW status, req' = [req EXCEPT ![h].pc = "deleteStatus", ![h].seen = status]
         PROVE  Goal
    <3> DEFINE new == [req[h] EXCEPT !.pc = "deleteStatus", !.seen = status]
    <3>1. new.op = r.op /\ new.voter = r.voter /\ req' = [req EXCEPT ![h] = new]
      BY <1>1, <2>17 DEF Request
    <3> HIDE DEF new
    <3> QED BY <2>3, <3>1
  <2> HIDE DEF Goal
  <2>8. CASE Find(h) BY <2>1, <2>2, <2>8 DEF Find
  <2>9. CASE LookupNewVoter(h) BY <2>1, <2>2, <2>9 DEF LookupNewVoter
  <2>10. CASE Lookup(h) BY <2>1, <2>5, <2>10 DEF Lookup
  <2>11. CASE InsertVoter(h) BY <2>1, <2>2, <2>11 DEF InsertVoter
  <2>12. CASE ReadStatus(h)
    <3>1. r.op \in {"RegisterVotingStep", "CheckVoterStatus", "GetVoter"}
      BY <1>1, <2>12 DEF ReadStatus, LabelOK, At, Request
    <3>2. PICK status \in Read(statuses[req[h].voter].Status, 0) :
             CASE req[h].op = "RegisterVotingStep" -> StepAfter(h, status)
               [] req[h].op = "CheckVoterStatus" -> Answer(h, StatusCode(status))
               [] req[h].op = "GetVoter" ->
                    req' = [req EXCEPT ![h].pc = "reply", ![h].home = NoBox, ![h].seen = status]
      BY <2>12 DEF ReadStatus
    <3>3. CASE r.op = "CheckVoterStatus" BY <2>1, <3>2, <3>3
    <3>4. CASE r.op = "GetVoter" BY <2>6, <3>2, <3>4
    <3>5. CASE r.op = "RegisterVotingStep"
      <4>1. StepAfter(h, status)
        BY <3>2, <3>5
      <4>2. status \in 0..2
        BY <1>1, <3>2 DEF Read, TypeInv, TypeOK, Request, VoterStatus
      <4>3. CASE status = 2
        BY <2>1, <4>1, <4>3 DEF StepAfter
      <4>4. CASE status = 1
        BY <2>17, <4>1, <4>4 DEF StepAfter
      <4>5. CASE status = 0
        BY <2>2, <4>1, <4>5 DEF StepAfter
      <4> QED BY <4>2, <4>3, <4>4, <4>5
    <3> QED BY <3>1, <3>3, <3>4, <3>5
  <2>13. CASE ReadStats(h) BY <1>1, <2>4, <2>7, <2>13 DEF ReadStats, CountNewVoter, CountNewVote
  <2>14. CASE SaveStats(h) BY <2>1, <2>14 DEF SaveStats
  <2>15. CASE Deliver(h) BY <2>3, <2>15 DEF Deliver
  <2>16. CASE DeleteStatus(h) BY <2>2, <2>16 DEF DeleteStatus
  <2>18. CASE InsertVoted(h) BY <2>2, <2>18 DEF InsertVoted
  <2>19. CASE InsertBallot(h) BY <2>1, <2>19 DEF InsertBallot
  <2> QED
    BY <2>8, <2>9, <2>10, <2>11, <2>12, <2>13, <2>14, <2>15, <2>16, <2>18, <2>19 DEF Handle
<1>4. \A g \in Handlers : VotingFor(g, v)' => req'[g] = req[g]
  BY <1>3 DEF VotingFor
<1> QED BY <1>2, <1>4, QuietStep

(* The steps of a voting request, one by one. *)
LEMMA VotingSafe ==
  ASSUME NoLostWrite, TypeInv, NEW v \in Students, SafeFor(v), NEW h \in Handlers, Handle(h),
         VotingFor(h, v)
  PROVE  SafeFor(v)'
<1> DEFINE r == req[h]
           st == statuses[v].Status
<1>0. /\ r \in Request /\ LabelOK(h, r) /\ r.op = "RegisterVotingStep"
      /\ r.voter = v /\ statuses[v] \in VoterStatus /\ st \in 0..2 /\ accepted[v] \in Nat
  BY HandlingRequest DEF VotingFor, Voting, TypeInv, TypeOK, Request, VoterStatus
<1>1. VoteOK(r, st, accepted[v]) /\ OnceOK(v)
  BY <1>0 DEF SafeFor
<1>2. CASE Lookup(h)
  <2>1. r.seen = 0 /\ UNCHANGED <<statuses, accepted>>
    BY <1>0, <1>2 DEF Lookup, LabelOK, At, tables, history
  <2>2. ASSUME NEW code, Answer(h, code) PROVE SafeFor(v)'
    <3>1. VoteOK(req'[h], st, accepted[v])
      BY <1>0, <2>1, <2>2, AnswerFields DEF VoteOK, Accepting
    <3> QED BY <1>0, <1>1, <2>1, <2>2, <3>1, AnswerFields, VotingStep DEF OnceOK
  <2>3. ASSUME NEW home, req' = [req EXCEPT ![h].pc = "readStatus", ![h].home = home]
        PROVE  SafeFor(v)'
    <3>1. /\ \A g \in Handlers \ {h} : req'[g] = req[g]
          /\ req'[h].pc = "readStatus" /\ req'[h].voter = v
      BY <1>0, <2>3 DEF TypeInv, TypeOK, Request
    <3>2. VoteOK(req'[h], st, accepted[v])
      BY <3>1 DEF VoteOK, Accepting
    <3> QED BY <1>0, <1>1, <2>1, <3>1, <3>2, VotingStep DEF OnceOK
  <2> QED BY <1>2, <2>2, <2>3 DEF Lookup
<1>3. CASE ReadStatus(h)
  <2>1. r.seen = 0 /\ UNCHANGED <<statuses, accepted>>
    BY <1>0, <1>3 DEF ReadStatus, LabelOK, At, tables, history
  <2>2. PICK status \in Read(st, 0) : StepAfter(h, status)
    BY <1>0, <1>3 DEF ReadStatus
  <2>3. status \in 0..2 /\ (status = 1 => st = 1)
    BY <1>0, <2>2 DEF Read
  <2>4. CASE status = 2
    <3>1. Answer(h, 3)
      BY <2>2, <2>4 DEF StepAfter
    <3>2. VoteOK(req'[h], st, accepted[v])
      BY <1>0, <3>1, AnswerFields DEF VoteOK, Accepting
    <3> QED BY <1>0, <1>1, <2>1, <3>1, <3>2, AnswerFields, VotingStep DEF OnceOK
  <2>5. CASE status = 1
    <3>1. req' = [req EXCEPT ![h].pc = "deleteStatus", ![h].seen = status]
      BY <2>2, <2>5 DEF StepAfter
    <3>2. /\ \A g \in Handlers \ {h} : req'[g] = req[g]
          /\ req'[h].pc = "deleteStatus" /\ req'[h].voter = v
      BY <1>0, <3>1 DEF TypeInv, TypeOK, Request
    <3>3. VoteOK(req'[h], st, accepted[v])
      BY <1>0, <1>1, <2>3, <2>5, <3>2 DEF VoteOK, Accepting, OnceOK
    <3> QED BY <1>0, <1>1, <2>1, <3>2, <3>3, VotingStep DEF OnceOK
  <2>6. CASE status = 0
    <3>1. Goto(h, "insertBallot")
      BY <2>2, <2>6 DEF StepAfter
    <3>2. VoteOK(req'[h], st, accepted[v])
      BY <1>0, <3>1, GotoFields DEF VoteOK, Accepting
    <3> QED BY <1>0, <1>1, <2>1, <3>1, <3>2, GotoFields, VotingStep DEF OnceOK
  <2> QED BY <2>3, <2>4, <2>5, <2>6
<1>4. CASE DeleteStatus(h)
  <2>1. /\ statuses' = [statuses EXCEPT ![v] = NoStatus]
        /\ accepted' = accepted /\ st = 1 /\ accepted[v] = 0 /\ Goto(h, "insertVoted")
    BY <1>0, <1>1, <1>4 DEF DeleteStatus, NoLostWrite, Written, history, At, VoteOK, Accepting
  <2>2. statuses'[v].Status = 0
    BY <1>0, <2>1 DEF NoStatus, StatusRow, TypeInv, TypeOK
  <2>3. VoteOK(req'[h], statuses'[v].Status, accepted'[v])
    BY <1>0, <2>1, <2>2, GotoFields DEF VoteOK, Accepting
  <2>4. OnceOK(v)'
    BY <2>1 DEF OnceOK
  <2>5. \A g \in Handlers \ {h} : req'[g] = req[g]
    BY <1>0, <2>1, GotoFields
  <2> QED BY <2>3, <2>4, <2>5, VotingStep
<1>5. CASE InsertVoted(h)
  <2>1. st = 0 /\ accepted[v] = 0
    BY <1>1, <1>5 DEF InsertVoted, VoteOK, Accepting, At
  <2>2. PICK new \in VotedRows(r.home, NodeOf[h]) :
          \E row \in Insert(new, statuses[v]) : Record(v, row)
    BY <1>0, <1>5 DEF InsertVoted
  <2>3. /\ statuses' = [statuses EXCEPT ![v] = new]
        /\ accepted' = accepted /\ Goto(h, "readStats")
    BY <1>5, <2>1, <2>2 DEF InsertVoted, Insert, Written, Record, NoLostWrite
  <2>4. statuses'[v].Status = 2
    BY <1>0, <2>2, <2>3 DEF VotedRows, StatusRow, TypeInv, TypeOK
  <2>5. VoteOK(req'[h], statuses'[v].Status, accepted'[v])
    BY <1>0, <2>1, <2>3, <2>4, GotoFields DEF VoteOK, Accepting
  <2>6. OnceOK(v)'
    BY <2>1, <2>3 DEF OnceOK
  <2>7. \A g \in Handlers \ {h} : req'[g] = req[g]
    BY <1>0, <2>3, GotoFields
  <2> QED BY <2>5, <2>6, <2>7, VotingStep
<1>6. CASE InsertBallot(h)
  <2>1. r.seen = 0
    BY <1>0, <1>6 DEF InsertBallot, LabelOK, At
  <2>2. PICK row \in Insert(StatusRow(1, NoBox, NoBox), statuses[v]) : Record(v, row)
    BY <1>0, <1>6 DEF InsertBallot
  <2>3. /\ statuses' = [statuses EXCEPT ![v] = row]
        /\ accepted' = accepted /\ Answer(h, 0)
    BY <1>6, <2>2 DEF InsertBallot, Record
  <2>4. st # 0 => row = statuses[v]
    BY <2>2 DEF Insert
  <2>5. VoteOK(req'[h], statuses'[v].Status, accepted'[v])
    BY <1>0, <2>1, <2>3, AnswerFields DEF VoteOK, Accepting
  <2>6. statuses'[v] = row
    BY <1>0, <2>3 DEF TypeInv, TypeOK
  <2>7. OnceOK(v)'
    BY <1>1, <2>3, <2>4, <2>6 DEF OnceOK
  <2>8. \A g \in Handlers \ {h} : req'[g] = req[g]
    BY <1>0, <2>3, AnswerFields
  <2> QED BY <2>5, <2>7, <2>8, VotingStep
<1>7. CASE ReadStats(h)
  <2>1. /\ UNCHANGED <<statuses, accepted>> /\ st = 2 /\ accepted[v] = 0
    BY <1>1, <1>7 DEF ReadStats, tables, history, VoteOK, Accepting, At
  <2>2. CASE Exit(NodeOf[h])
    BY <2>1, <2>2, QuietStep DEF Exit, VotingFor, Voting, InFlight, Idle
  <2>3. ASSUME NEW copy, req' = [req EXCEPT ![h].pc = "saveStats", ![h].copy = copy]
        PROVE  SafeFor(v)'
    <3>1. /\ \A g \in Handlers \ {h} : req'[g] = req[g]
          /\ req'[h].pc = "saveStats" /\ req'[h].voter = v
      BY <1>0, <2>3 DEF TypeInv, TypeOK, Request
    <3>2. VoteOK(req'[h], st, accepted[v])
      BY <2>1, <3>1 DEF VoteOK, Accepting
    <3> QED BY <1>0, <1>1, <2>1, <3>1, <3>2, VotingStep DEF OnceOK
  <2> QED BY <1>0, <1>7, <2>2, <2>3 DEF ReadStats, CountNewVote
<1>8. CASE SaveStats(h)
  <2>1. /\ UNCHANGED <<statuses, accepted>> /\ st = 2 /\ accepted[v] = 0 /\ Answer(h, 0)
    BY <1>1, <1>8 DEF SaveStats, history, VoteOK, Accepting, At
  <2>2. VoteOK(req'[h], st, accepted[v])
    BY <1>0, <2>1, AnswerFields DEF VoteOK, Accepting
  <2> QED BY <1>0, <1>1, <2>1, <2>2, AnswerFields, VotingStep DEF OnceOK
<1>9. CASE Deliver(h)
  <2>1. /\ statuses' = statuses
        /\ req' = [req EXCEPT ![h] = Idle]
        /\ accepted' = IF r.code = 0 /\ r.seen = 1
                       THEN [accepted EXCEPT ![v] = @ + 1] ELSE accepted
    BY <1>0, <1>9 DEF Deliver, tables
  <2>2. r.pc = "reply"
    BY <1>9 DEF Deliver, At
  <2>3. OnceOK(v)'
    <3>1. CASE r.code = 0 /\ r.seen = 1
      <4>1. st = 2 /\ accepted[v] = 0
        BY <1>1, <2>2, <3>1 DEF VoteOK, Accepting
      <4>2. accepted'[v] = 1
        BY <1>0, <2>1, <3>1, <4>1 DEF TypeInv, TypeOK
      <4> QED BY <2>1, <4>1, <4>2 DEF OnceOK
    <3>2. CASE ~(r.code = 0 /\ r.seen = 1)
      BY <1>1, <2>1, <3>2 DEF OnceOK
    <3> QED BY <3>1, <3>2
  <2>4. ~Voting(h)' /\ \A g \in Handlers \ {h} : req'[g] = req[g]
    BY <2>1 DEF TypeInv, TypeOK, Voting, InFlight, Idle
  <2> QED BY <2>3, <2>4, VotingStep
<1> QED
  <2>1. ~Find(h) /\ ~LookupNewVoter(h) /\ ~InsertVoter(h)
    BY <1>0 DEF Find, LookupNewVoter, InsertVoter, LabelOK, At
  <2> QED BY <2>1, <1>2, <1>3, <1>4, <1>5, <1>6, <1>7, <1>8, <1>9 DEF Handle

(* A request that does not vote begins. *)
LEMMA LookBegins ==
  ASSUME TypeInv, NEW v \in Students, SafeFor(v), UNCHANGED <<statuses, accepted>>,
         NEW h \in Handlers, NEW op, op # "RegisterVotingStep", NEW r, r.op = op,
         Receive(h, op, r)
  PROVE  SafeFor(v)'
<1>1. \A g \in Handlers : VotingFor(g, v)' => req'[g] = req[g]
  BY DEF Receive, TypeInv, TypeOK, VotingFor, Voting, InFlight
<1> QED BY <1>1, QuietStep

(* A voting step begins: it knows nothing yet, and no other votes for its voter. *)
LEMMA StepBegins ==
  ASSUME TypeInv, NEW v \in Students, SafeFor(v), NEW h \in Handlers, NEW s \in Students,
         NEW isAfternoon, ReceiveVotingStep(h, s, isAfternoon),
         s = v => \A g \in Handlers : ~VotingFor(g, v)
  PROVE  SafeFor(v)'
<1> DEFINE r == NewRequest("RegisterVotingStep", "lookup", s, NoBox, isAfternoon)
<1>1. r.op = "RegisterVotingStep" /\ r.pc = "lookup" /\ r.voter = s
  BY DEF NewRequest
<1>2. /\ req' = [req EXCEPT ![h] = r] /\ req[h] = Idle
      /\ statuses' = statuses /\ accepted' = accepted
  BY <1>1 DEF ReceiveVotingStep, Receive, tables
<1>3. req'[h] = r /\ \A g \in Handlers \ {h} : req'[g] = req[g]
  BY <1>2 DEF TypeInv, TypeOK
<1> HIDE DEF r
<1>4. CASE s # v
  <2>1. \A g \in Handlers : VotingFor(g, v)' => req'[g] = req[g]
    BY <1>1, <1>3, <1>4 DEF VotingFor
  <2> QED BY <1>2, <2>1, QuietStep
<1>5. CASE s = v
  <2>1. \A g \in Handlers : VotingFor(g, v)' => g = h
    BY <1>3, <1>5 DEF VotingFor, Voting, InFlight
  <2>2. VoteOK(req'[h], statuses'[v].Status, accepted'[v])
    BY <1>1, <1>3 DEF VoteOK, Accepting
  <2>3. OnceOK(v)'
    BY <1>2 DEF SafeFor, OnceOK
  <2> QED BY <2>1, <2>2, <2>3 DEF SafeFor
<1> QED BY <1>4, <1>5

(* A new request knows nothing yet, and no other votes for its voter. *)
LEMMA CallSafe ==
  ASSUME Alone, TypeInv, NEW v \in Students, SafeFor(v),
         NEW h \in Handlers, NEW s \in Students, Call(h, s)
  PROVE  SafeFor(v)'
<1>1. UNCHANGED <<statuses, accepted>>
  BY DEF Call, ReceiveCreateVoter, ReceiveVotingStep, ReceiveCheckVoterStatus,
         ReceiveGetVoter, Receive, tables, history
<1>2. ASSUME NEW op, op # "RegisterVotingStep", NEW r, r.op = op, Receive(h, op, r)
      PROVE  SafeFor(v)'
  BY <1>1, <1>2, LookBegins
<1>3. ASSUME NEW isAfternoon \in Afternoons, ReceiveVotingStep(h, s, isAfternoon)
      PROVE  SafeFor(v)'
  <2>1. \A g \in Handlers : ~VotingFor(g, s)
    BY <1>3 DEF Alone, VotingFor
  <2> QED BY <1>3, <2>1, StepBegins
<1> QED
  BY <1>2, <1>3 DEF Call, ReceiveCreateVoter, ReceiveCheckVoterStatus, ReceiveGetVoter, NewRequest

(* An API process starts or ends. *)
LEMMA ProcessSafe ==
  ASSUME NEW v \in Students, SafeFor(v), Start \/ \E n \in Nodes : Crash(n)
  PROVE  SafeFor(v)'
<1>1. CASE Start
  <2>1. UNCHANGED <<statuses, accepted, req>>
    BY <1>1 DEF Start, CommitteeMigrates, CommitteeServes, CommitteeGrants, BoxServes,
                tables, history
  <2> QED BY <2>1, QuietStep
<1>2. ASSUME NEW n \in Nodes, Crash(n) PROVE SafeFor(v)'
  <2>1. \A g \in Handlers : VotingFor(g, v)' => req'[g] = req[g]
    BY <1>2 DEF Crash, Exit, VotingFor, Voting, InFlight, Idle
  <2> QED BY <1>2, <2>1, QuietStep DEF Crash, tables, history
<1> QED BY <1>1, <1>2

(* A statement of a request. *)
LEMMA HandleSafe ==
  ASSUME NoLostWrite, TypeInv, NEW v \in Students, SafeFor(v), NEW h \in Handlers, Handle(h)
  PROVE  SafeFor(v)'
  BY OtherSafe, VotingSafe

(* No step breaks the safety invariant. *)
LEMMA SafeInductive ==
  ASSUME NoLostWrite, Alone, TypeInv, SafeInv, [Next]_vars
  PROVE  SafeInv'
<1>1. ASSUME NEW v \in Students PROVE SafeFor(v)'
  <2>0. SafeFor(v)
    BY SafeParts
  <2>1. CASE UNCHANGED vars
    BY <2>0, <2>1, QuietStep DEF vars, tables, history
  <2>2. CASE Start \/ \E n \in Nodes : Crash(n)
    BY <2>0, <2>2, ProcessSafe
  <2>3. ASSUME NEW h \in Handlers, Handle(h) PROVE SafeFor(v)'
    BY <2>0, <2>3, HandleSafe
  <2>4. ASSUME NEW h \in Handlers, NEW s \in Students, Call(h, s) PROVE SafeFor(v)'
    BY <2>0, <2>4, CallSafe
  <2> QED BY <2>1, <2>2, <2>3, <2>4 DEF Next
<1>2. TypeInv'
  BY TypeInductive
<1>3. (TypeInv => (SafeInv <=> \A s \in Students : SafeFor(s)))'
  BY SafeParts, PTL
<1> QED BY <1>1, <1>2, <1>3

(* The row of a cast vote survives every step. *)
LEMMA VotedStays ==
  ASSUME TypeInv, SafeInv, [Next]_vars, NEW s \in Voted
  PROVE  statuses'[s] = statuses[s]
<1>0. s \in Students /\ statuses[s].Status = 2
  BY DEF Voted
<1>1. CASE UNCHANGED statuses
  BY <1>1
<1>2. ASSUME NEW h \in Handlers, Handle(h), req[h].voter = s,
             DeleteStatus(h) \/ InsertVoted(h) \/ InsertBallot(h)
      PROVE  statuses'[s] = statuses[s]
  <2>1. Voting(h)
    BY <1>2, HandlingRequest DEF DeleteStatus, InsertVoted, InsertBallot, At, LabelOK, Voting
  <2>2. VoteOK(req[h], 2, accepted[s])
    BY <1>0, <1>2, <2>1 DEF SafeInv
  <2>3. InsertBallot(h)
    BY <1>2, <2>2 DEF VoteOK, DeleteStatus, InsertVoted, At
  <2> QED
    BY <1>0, <1>2, <2>3 DEF InsertBallot, Insert, Record, TypeInv, TypeOK
<1>3. ASSUME NEW h \in Handlers, Handle(h), req[h].voter # s,
             DeleteStatus(h) \/ InsertVoted(h) \/ InsertBallot(h)
      PROVE  statuses'[s] = statuses[s]
  BY <1>0, <1>3 DEF DeleteStatus, InsertVoted, InsertBallot, Record, TypeInv, TypeOK
<1>4. ASSUME NEW h \in Handlers, Handle(h),
             ~(DeleteStatus(h) \/ InsertVoted(h) \/ InsertBallot(h))
      PROVE  UNCHANGED statuses
  BY <1>4 DEF Handle, Find, LookupNewVoter, Lookup, InsertVoter, ReadStatus, ReadStats,
              SaveStats, Deliver, tables, history
<1>5. (Start \/ (\E n \in Nodes : Crash(n)) \/ UNCHANGED vars) => UNCHANGED statuses
  BY DEF Start, CommitteeMigrates, CommitteeServes, CommitteeGrants, BoxServes, Crash,
         tables, history, vars
<1>6. ASSUME NEW h \in Handlers, NEW x \in Students, Call(h, x) PROVE UNCHANGED statuses
  BY <1>6 DEF Call, ReceiveCreateVoter, ReceiveVotingStep, ReceiveCheckVoterStatus,
              ReceiveGetVoter, tables, history
<1> QED BY <1>1, <1>2, <1>3, <1>4, <1>5, <1>6 DEF Next

(* README.md, requirement 1: whatever crashes and whichever reads fail, no two
   answers accept a vote of the same voter, however many boxes and requests
   there are, as long as RegisterVotingStep runs once at a time for a voter. *)
THEOREM NoDoubleVote == ASSUME OneDesk PROVE Spec => []AtMostOneVote
<1>1. Init => TypeInv /\ SafeInv
  BY InitType, InitSafe
<1>2. TypeInv /\ SafeInv /\ [Next]_vars => (TypeInv /\ SafeInv)'
  BY TypeInductive, SafeInductive, OneDeskAlone DEF OneDesk
<1>3. SafeInv => AtMostOneVote
  BY DEF SafeInv, OnceOK, AtMostOneVote
<1> QED BY <1>1, <1>2, <1>3, PTL DEF Spec

(* Under the same condition a vote answered with OK is on record: the order of
   DELETE, INSERT and answer in RegisterVotingStep loses no acknowledged vote. *)
THEOREM NoAcceptedVoteLost == ASSUME OneDesk PROVE Spec => []AcceptedIsRecorded
<1>1. Init => TypeInv /\ SafeInv
  BY InitType, InitSafe
<1>2. TypeInv /\ SafeInv /\ [Next]_vars => (TypeInv /\ SafeInv)'
  BY TypeInductive, SafeInductive, OneDeskAlone DEF OneDesk
<1>3. SafeInv => AcceptedIsRecorded
  BY DEF SafeInv, OnceOK, AcceptedIsRecorded, Voted
<1> QED BY <1>1, <1>2, <1>3, PTL DEF Spec

(* Under the same condition no DELETE of RegisterVotingStep ever meets the row
   of a cast vote: that row stays as it is for good. *)
THEOREM VotedRowIsFinal == ASSUME OneDesk PROVE Spec => VotedIsFinal
<1>1. Init => TypeInv /\ SafeInv
  BY InitType, InitSafe
<1>2. TypeInv /\ SafeInv /\ [Next]_vars => (TypeInv /\ SafeInv)'
  BY TypeInductive, SafeInductive, OneDeskAlone DEF OneDesk
<1>3. TypeInv /\ SafeInv /\ [Next]_vars =>
        [\A s \in Voted : statuses'[s] = statuses[s]]_vars
  BY VotedStays
<1> QED BY <1>1, <1>2, <1>3, PTL DEF Spec, VotedIsFinal

-----------------------------------------------------------------------------
(* Rows: what the tables say of one voter agrees, whatever overlaps and fails. *)

(* The labels between the lookup of a voter and its statement on the status. *)
Looked == {"readStatus", "deleteStatus", "insertVoted", "insertBallot"}

(* What a request has read of its voter stays true: rows of enc_voters are never
   changed, and a ballot that was ever recorded was recorded. *)
LookedUp(r) ==
  /\ r.pc \in Looked => voters[r.voter] = r.home
  /\ r.pc \in {"deleteStatus", "insertVoted"} => 1 \in recorded[r.voter]

RowOK(s) ==
  /\ statuses[s].Status # 0 => statuses[s].Status \in recorded[s]
  /\ 2 \in recorded[s] => 1 \in recorded[s]
  /\ recorded[s] # {} => voters[s] # NoBox
  /\ statuses[s].StudentBallotbox # NoBox =>
       statuses[s].Status = 2 /\ statuses[s].StudentBallotbox = voters[s]

RowsInv ==
  /\ \A h \in Handlers : InFlight(h) => LookedUp(req[h])
  /\ \A s \in Students : RowOK(s)

(* No row, no request. *)
LEMMA InitRows == Init => RowsInv
  BY DEF Init, RowsInv, RowOK, NoStatus, StatusRow, InFlight, Idle

(* What no step does: change a row of enc_voters, or forget what was recorded. *)
Kept ==
  /\ \A s \in Students : voters[s] # NoBox => voters'[s] = voters[s]
  /\ \A s \in Students : recorded[s] \subseteq recorded'[s]

(* Requests that a step leaves alone, or that have not looked anything up. *)
LEMMA OthersLookedUp ==
  ASSUME TypeInv, RowsInv, Kept, NEW g \in Handlers, InFlight(g)',
         req'[g] = req[g] \/ req'[g].pc \notin Looked
  PROVE  LookedUp(req[g])'
<1>1. CASE req'[g].pc \notin Looked
  BY <1>1 DEF LookedUp, Looked
<1>2. CASE req'[g] = req[g]
  <2>1. InFlight(g) /\ LookedUp(req[g]) /\ req[g] \in Request /\ LabelOK(g, req[g])
    BY <1>2, RequestType DEF RowsInv, InFlight, TypeInv, TypeOK, ControlOK
  <2>2. req[g].pc \in Looked => voters[req[g].voter] # NoBox
    BY <2>1, BoxAssumption DEF LookedUp, LabelOK, Looked
  <2>3. req[g].voter \in Students
    BY <2>1 DEF Request
  <2> QED BY <1>2, <2>1, <2>2, <2>3 DEF LookedUp, Kept
<1> QED BY <1>1, <1>2

(* A step that writes no row, and after which no request knows more. *)
LEMMA RowsAlone ==
  ASSUME TypeInv, RowsInv, UNCHANGED <<voters, statuses, recorded>>,
         \A g \in Handlers : InFlight(g)' => req'[g] = req[g] \/ req'[g].pc \notin Looked
  PROVE  RowsInv'
<1>1. Kept
  BY DEF Kept
<1>2. \A s \in Students : RowOK(s)'
  BY DEF RowsInv, RowOK
<1> QED BY <1>1, <1>2, OthersLookedUp DEF RowsInv

(* A step of one request for v, which may write the rows of v. *)
LEMMA RowsOfOne ==
  ASSUME TypeInv, RowsInv, NEW h \in Handlers, NEW v \in Students, Kept,
         \A g \in Handlers \ {h} : req'[g] = req[g],
         \A s \in Students \ {v} :
           /\ voters'[s] = voters[s] /\ statuses'[s] = statuses[s]
           /\ recorded'[s] = recorded[s],
         RowOK(v)',
         InFlight(h)' => LookedUp(req[h])'
  PROVE  RowsInv'
<1>1. \A g \in Handlers : InFlight(g)' => LookedUp(req[g])'
  BY OthersLookedUp
<1>2. ASSUME NEW s \in Students PROVE RowOK(s)'
  <2>1. CASE s = v BY <2>1
  <2>2. CASE s # v BY <2>2 DEF RowsInv, RowOK
  <2> QED BY <2>1, <2>2
<1> QED BY <1>1, <1>2 DEF RowsInv

(* Statements that write no row of voters or statuses. *)
LEMMA ReadingRows ==
  ASSUME TypeInv, RowsInv, NEW h \in Handlers,
         Find(h) \/ LookupNewVoter(h) \/ ReadStats(h) \/ SaveStats(h) \/ Deliver(h)
  PROVE  RowsInv'
<1> DEFINE Quiet1 == \A g \in Handlers :
             InFlight(g)' => req'[g] = req[g] \/ req'[g].pc \notin Looked
<1>0. Handle(h)
  BY DEF Handle
<1>1. req[h] \in Request /\ UNCHANGED <<voters, statuses, recorded>>
  BY <1>0, HandlingRequest DEF Find, LookupNewVoter, ReadStats, SaveStats, Deliver, tables, history
<1>2. ASSUME NEW code, Answer(h, code) PROVE Quiet1
  BY <1>1, <1>2, AnswerFields DEF Looked
<1>3. ASSUME NEW label, label \notin Looked, Goto(h, label) PROVE Quiet1
  BY <1>1, <1>3, GotoFields
<1>4. ASSUME NEW copy, req' = [req EXCEPT ![h].pc = "saveStats", ![h].copy = copy] PROVE Quiet1
  BY <1>1, <1>4 DEF TypeInv, TypeOK, Request, Looked
<1>5. ASSUME Exit(NodeOf[h]) PROVE Quiet1
  BY <1>5 DEF Exit, InFlight, Idle
<1>6. ASSUME req' = [req EXCEPT ![h] = Idle] PROVE Quiet1
  BY <1>6 DEF TypeInv, TypeOK, InFlight, Idle
<1> HIDE DEF Quiet1
<1>7. ASSUME Find(h) PROVE Quiet1
  BY <1>2, <1>3, <1>7 DEF Find, Looked
<1>8. ASSUME LookupNewVoter(h) PROVE Quiet1
  BY <1>2, <1>3, <1>8 DEF LookupNewVoter, Looked
<1>9. ASSUME ReadStats(h) PROVE Quiet1
  BY <1>4, <1>5, <1>9 DEF ReadStats, CountNewVoter, CountNewVote
<1>10. ASSUME SaveStats(h) PROVE Quiet1
  BY <1>2, <1>10 DEF SaveStats
<1>11. ASSUME Deliver(h) PROVE Quiet1
  BY <1>6, <1>11 DEF Deliver
<1>12. Quiet1
  BY <1>7, <1>8, <1>9, <1>10, <1>11
<1> QED BY <1>1, <1>12, RowsAlone DEF Quiet1

(* The statements of a request on the rows of its voter. *)
LEMMA WritingRows ==
  ASSUME TypeInv, RowsInv, NEW h \in Handlers, NEW v \in Students, req[h].voter = v,
         \/ Lookup(h) \/ InsertVoter(h) \/ ReadStatus(h)
         \/ DeleteStatus(h) \/ InsertVoted(h) \/ InsertBallot(h)
  PROVE  RowsInv'
<1> DEFINE r == req[h]
<1>0. /\ r \in Request /\ LabelOK(h, r) /\ LookedUp(r) /\ RowOK(v)
      /\ statuses[v] \in VoterStatus /\ recorded[v] \subseteq 1..2
  <2>1. Handle(h)
    BY DEF Handle
  <2> QED BY <2>1, HandlingRequest DEF RowsInv, TypeInv, TypeOK
<1>1. CASE Lookup(h)
  <2>1. UNCHANGED <<voters, statuses, recorded>> /\ Kept
    BY <1>1 DEF Lookup, tables, history, Kept
  <2>2. ASSUME NEW code, Answer(h, code) PROVE RowsInv'
    BY <1>0, <2>1, <2>2, AnswerFields, RowsAlone DEF Looked
  <2>3. ASSUME req' = [req EXCEPT ![h].pc = "readStatus", ![h].home = voters[v]]
        PROVE  RowsInv'
    <3>1. /\ \A g \in Handlers \ {h} : req'[g] = req[g]
          /\ req'[h].pc = "readStatus" /\ req'[h].voter = v /\ req'[h].home = voters[v]
      BY <1>0, <2>3 DEF TypeInv, TypeOK, Request
    <3>2. LookedUp(req[h])'
      BY <2>1, <3>1 DEF LookedUp
    <3>3. RowOK(v)'
      BY <1>0, <2>1 DEF RowOK
    <3> QED BY <2>1, <3>1, <3>2, <3>3, RowsOfOne
  <2> QED BY <1>1, <2>2, <2>3 DEF Lookup, Read
<1>2. CASE InsertVoter(h)
  <2>1. UNCHANGED <<statuses, recorded>>
    BY <1>2 DEF InsertVoter, history
  <2>2. \A s \in Students \ {v} : voters'[s] = voters[s]
    BY <1>2 DEF InsertVoter, TypeInv, TypeOK
  <2>3. voters[v] # NoBox => voters' = voters
    BY <1>2 DEF InsertVoter
  <2>4. Kept
    BY <2>1, <2>2, <2>3 DEF Kept
  <2>5. RowOK(v)'
    BY <1>0, <2>1, <2>3 DEF RowOK
  <2>6. (\E code : Answer(h, code)) \/ Goto(h, "readStats")
    BY <1>2 DEF InsertVoter
  <2>7. (\A g \in Handlers \ {h} : req'[g] = req[g]) /\ req'[h].pc \notin Looked
    BY <1>0, <2>6, AnswerFields, GotoFields DEF Looked
  <2>8. LookedUp(req[h])'
    BY <2>7 DEF LookedUp, Looked
  <2> QED BY <2>1, <2>2, <2>4, <2>5, <2>7, <2>8, RowsOfOne
<1>3. CASE ReadStatus(h)
  <2>1. UNCHANGED <<voters, statuses, recorded>> /\ Kept /\ r.pc = "readStatus"
    BY <1>3 DEF ReadStatus, tables, history, Kept, At
  <2>2. ASSUME NEW code, Answer(h, code) PROVE RowsInv'
    BY <1>0, <2>1, <2>2, AnswerFields, RowsAlone DEF Looked
  <2>3. ASSUME req'[h].pc \in {"reply", "insertBallot"} \/ 1 \in recorded[v],
               req'[h].voter = v, req'[h].home = r.home \/ req'[h].pc = "reply",
               \A g \in Handlers \ {h} : req'[g] = req[g]
        PROVE  RowsInv'
    <3>1. voters[v] = r.home
      BY <1>0, <2>1 DEF LookedUp, Looked
    <3>2. LookedUp(req[h])'
      BY <2>1, <2>3, <3>1 DEF LookedUp, Looked
    <3>3. RowOK(v)'
      BY <1>0, <2>1 DEF RowOK
    <3> QED BY <2>1, <2>3, <3>2, <3>3, RowsOfOne
  <2>4. PICK status \in Read(statuses[v].Status, 0) :
           CASE r.op = "RegisterVotingStep" -> StepAfter(h, status)
             [] r.op = "CheckVoterStatus" -> Answer(h, StatusCode(status))
             [] r.op = "GetVoter" ->
                  req' = [req EXCEPT ![h].pc = "reply", ![h].home = NoBox, ![h].seen = status]
    BY <1>3 DEF ReadStatus
  <2>5. status \in 0..2 /\ (status = 1 => 1 \in recorded[v])
    BY <1>0, <2>4 DEF Read, RowOK, VoterStatus
  <2>6. CASE r.op = "RegisterVotingStep"
    <3>1. StepAfter(h, status)
      BY <2>4, <2>6
    <3>2. CASE status = 2
      BY <2>2, <3>1, <3>2 DEF StepAfter
    <3>3. CASE status = 1
      <4>1. req' = [req EXCEPT ![h].pc = "deleteStatus", ![h].seen = status]
        BY <3>1, <3>3 DEF StepAfter
      <4>2. /\ req'[h].voter = v /\ req'[h].home = r.home
            /\ \A g \in Handlers \ {h} : req'[g] = req[g]
        BY <1>0, <4>1 DEF TypeInv, TypeOK, Request
      <4> QED BY <2>3, <2>5, <3>3, <4>2
    <3>4. CASE status = 0
      <4>1. Goto(h, "insertBallot")
        BY <3>1, <3>4 DEF StepAfter
      <4>2. /\ req'[h].pc = "insertBallot" /\ req'[h].voter = v /\ req'[h].home = r.home
            /\ \A g \in Handlers \ {h} : req'[g] = req[g]
        BY <1>0, <4>1 DEF TypeInv, TypeOK, Request, Goto
      <4> QED BY <2>3, <4>2
    <3> QED BY <2>5, <3>2, <3>3, <3>4
  <2>7. CASE r.op = "CheckVoterStatus"
    BY <2>2, <2>4, <2>7
  <2>8. CASE r.op = "GetVoter"
    <3>1. req' = [req EXCEPT ![h].pc = "reply", ![h].home = NoBox, ![h].seen = status]
      BY <2>4, <2>8
    <3>2. /\ req'[h].pc = "reply" /\ req'[h].voter = v
          /\ \A g \in Handlers \ {h} : req'[g] = req[g]
      BY <1>0, <3>1 DEF TypeInv, TypeOK, Request
    <3> QED BY <2>3, <3>2
  <2> QED BY <1>0, <2>1, <2>6, <2>7, <2>8 DEF LabelOK, Request
<1>4. CASE DeleteStatus(h)
  <2>1. UNCHANGED <<voters, recorded>> /\ Kept /\ Goto(h, "insertVoted") /\ r.pc = "deleteStatus"
    BY <1>4 DEF DeleteStatus, history, Kept, At
  <2>2. PICK row \in {NoStatus, statuses[v]} : statuses' = [statuses EXCEPT ![v] = row]
    BY <1>4 DEF DeleteStatus, Written
  <2>3. statuses'[v] = row /\ \A s \in Students \ {v} : statuses'[s] = statuses[s]
    BY <2>2 DEF TypeInv, TypeOK
  <2>4. RowOK(v)'
    BY <1>0, <2>1, <2>2, <2>3 DEF RowOK, NoStatus, StatusRow
  <2>5. /\ \A g \in Handlers \ {h} : req'[g] = req[g]
        /\ req'[h].pc = "insertVoted" /\ req'[h].voter = v /\ req'[h].home = r.home
    BY <1>0, <2>1 DEF TypeInv, TypeOK, Request, Goto
  <2>6. LookedUp(req[h])'
    BY <1>0, <2>1, <2>5 DEF LookedUp, Looked
  <2> QED BY <2>1, <2>3, <2>4, <2>5, <2>6, RowsOfOne
<1>5. ASSUME NEW row, Record(v, row), UNCHANGED voters,
             (\E code : Answer(h, code)) \/ Goto(h, "readStats"),
             \/ row = statuses[v]
             \/ row = StatusRow(1, NoBox, NoBox)
             \/ row = StatusRow(2, NoBox, NoBox) /\ 1 \in recorded[v]
             \/ row = StatusRow(2, voters[v], NodeOf[h]) /\ 1 \in recorded[v],
             voters[v] \in BallotBoxes
      PROVE  RowsInv'
  <2>1. /\ statuses'[v] = row /\ \A s \in Students \ {v} : statuses'[s] = statuses[s]
        /\ recorded'[v] = recorded[v] \cup ({row.Status} \ {0})
        /\ \A s \in Students \ {v} : recorded'[s] = recorded[s]
    BY <1>5 DEF Record, TypeInv, TypeOK
  <2>2. Kept
    BY <1>5, <2>1 DEF Kept
  <2>3. RowOK(v)'
    BY <1>0, <1>5, <2>1, BoxAssumption DEF RowOK, StatusRow
  <2>4. (\A g \in Handlers \ {h} : req'[g] = req[g]) /\ req'[h].pc \notin Looked
    BY <1>0, <1>5, AnswerFields, GotoFields DEF Looked
  <2>5. LookedUp(req[h])'
    BY <2>4 DEF LookedUp, Looked
  <2> QED BY <1>5, <2>1, <2>2, <2>3, <2>4, <2>5, RowsOfOne
<1>6. CASE InsertVoted(h)
  <2>1. voters[v] = r.home /\ 1 \in recorded[v] /\ r.home \in BallotBoxes
    BY <1>0, <1>6 DEF InsertVoted, At, LookedUp, Looked, LabelOK
  <2>2. PICK new \in VotedRows(r.home, NodeOf[h]) :
          \E row \in Insert(new, statuses[v]) : Record(v, row)
    BY <1>6 DEF InsertVoted
  <2>3. PICK row \in Insert(new, statuses[v]) : Record(v, row)
    BY <2>2
  <2> QED BY <1>5, <1>6, <2>1, <2>2, <2>3 DEF InsertVoted, Insert, Written, VotedRows
<1>7. CASE InsertBallot(h)
  <2>1. voters[v] = r.home /\ r.home \in BallotBoxes
    BY <1>0, <1>7 DEF InsertBallot, At, LookedUp, Looked, LabelOK
  <2>2. PICK row \in Insert(StatusRow(1, NoBox, NoBox), statuses[v]) : Record(v, row)
    BY <1>7 DEF InsertBallot
  <2> QED BY <1>5, <1>7, <2>1, <2>2 DEF InsertBallot, Insert, Written
<1> QED BY <1>1, <1>2, <1>3, <1>4, <1>6, <1>7

(* No step breaks the invariant of the rows. *)
LEMMA RowsInductive ==
  ASSUME TypeInv, RowsInv, [Next]_vars
  PROVE  RowsInv'
<1>1. CASE UNCHANGED vars
  BY <1>1, RowsAlone DEF vars, tables, history
<1>2. CASE Start
  <2>1. UNCHANGED <<voters, statuses, recorded, req>>
    BY <1>2 DEF Start, CommitteeMigrates, CommitteeServes, CommitteeGrants, BoxServes,
                tables, history
  <2> QED BY <2>1, RowsAlone
<1>3. ASSUME NEW n \in Nodes, Crash(n) PROVE RowsInv'
  BY <1>3, RowsAlone DEF Crash, Exit, tables, history, InFlight, Idle
<1>4. ASSUME NEW h \in Handlers, Handle(h) PROVE RowsInv'
  <2>1. req[h].voter \in Students
    BY <1>4, HandlingRequest DEF Request
  <2> QED BY <1>4, <2>1, ReadingRows, WritingRows DEF Handle
<1>5. ASSUME NEW h \in Handlers, NEW s \in Students, Call(h, s) PROVE RowsInv'
  <2>1. ASSUME NEW op, NEW label \in {"find", "lookup"}, NEW home, NEW isAfternoon,
               Receive(h, op, NewRequest(op, label, s, home, isAfternoon))
        PROVE  \A g \in Handlers : req'[g] = req[g] \/ req'[g].pc \notin Looked
    BY <2>1 DEF Receive, NewRequest, TypeInv, TypeOK, Looked
  <2>2. UNCHANGED <<voters, statuses, recorded>>
    BY <1>5 DEF Call, ReceiveCreateVoter, ReceiveVotingStep, ReceiveCheckVoterStatus,
                ReceiveGetVoter, tables, history
  <2>3. \A g \in Handlers : req'[g] = req[g] \/ req'[g].pc \notin Looked
    BY <1>5, <2>1 DEF Call, ReceiveCreateVoter, ReceiveVotingStep, ReceiveCheckVoterStatus,
                      ReceiveGetVoter
  <2> QED BY <2>2, <2>3, RowsAlone
<1> QED BY <1>1, <1>2, <1>3, <1>4, <1>5 DEF Next

(* Types and rows together are preserved from the start. *)
LEMMA RowsAlways == Spec => [](TypeInv /\ RowsInv)
<1>1. Init => TypeInv /\ RowsInv
  BY InitType, InitRows
<1>2. TypeInv /\ RowsInv /\ [Next]_vars => (TypeInv /\ RowsInv)'
  BY TypeInductive, RowsInductive
<1> QED BY <1>1, <1>2, PTL DEF Spec

(* However DELETE and INSERT of different boxes interleave, fail or stop in the
   middle, RegisterVotingStep records no vote of a student for whom no ballot was
   recorded, and nothing for a student who is not registered. *)
THEOREM BallotBeforeVote == Spec => []VotedHadBallot
<1>1. TypeInv /\ RowsInv => VotedHadBallot
  BY DEF RowsInv, RowOK, VotedHadBallot, Registered
<1> QED BY <1>1, RowsAlways, PTL

(* A status row that names ballot boxes is that of a vote and names the home box
   under which CreateNewVoter registered the student. *)
THEOREM HomeBoxNamed == Spec => []RowsNameHomeBox
<1>1. TypeInv /\ RowsInv => RowsNameHomeBox
  BY DEF RowsInv, RowOK, RowsNameHomeBox
<1> QED BY <1>1, RowsAlways, PTL

-----------------------------------------------------------------------------
(* A handler always finds the row of the statistics: a process only ends for   *)
(* the reasons that MayExit names.                                             *)

Untouched ==
  /\ users = {}
  /\ \A n \in Nodes : api[n] = "down"
  /\ \A h \in Handlers : ~InFlight(h)

ServedInv ==
  /\ HasBoxes(stats) \/ BallotBoxes = {} \/ Untouched
  /\ \A h \in Handlers : At(h, "saveStats") => HasBoxes(req[h].copy)

(* Nothing runs in the beginning. *)
LEMMA InitServed == Init => ServedInv
  BY DEF Init, ServedInv, Untouched, InFlight, At, Idle

(* The request has read the statistics and counted, on its copy. *)
Counted(h) ==
  /\ ReadStats(h) /\ HasBoxes(stats)
  /\ \/ /\ req[h].op = "CreateVoter"
        /\ req'[h].copy = CountVoter(stats, req[h].home)
     \/ /\ req[h].op = "RegisterVotingStep"
        /\ \E day \in Weekdays :
             /\ DayIndex(day) \in Days
             /\ req'[h].copy = CountVote(stats, NodeOf[h], req[h].home, req[h].afternoon, DayIndex(day))

(* Where the statements lead: a request keeps its operation and its voter, comes
   to the statistics only by one of two INSERTs, and to saving them by a read. *)
LEMMA Moves ==
  ASSUME TypeInv, NEW h \in Handlers, Handle(h)
  PROVE  /\ \A g \in Handlers \ {h} : req'[g] = req[g] \/ req'[g] = Idle
         /\ \/ req'[h] = Idle
            \/ /\ req'[h].op = req[h].op /\ req'[h].voter = req[h].voter
               /\ req'[h].pc = "readStats" =>
                    /\ InsertVoter(h) \/ InsertVoted(h)
                    /\ Goto(h, "readStats")
               /\ req'[h].pc = "saveStats" => Counted(h)
<1> DEFINE Others == \A g \in Handlers \ {h} : req'[g] = req[g] \/ req'[g] = Idle
           Same == req'[h].op = req[h].op /\ req'[h].voter = req[h].voter
           Elsewhere == Others /\ Same /\ req'[h].pc \notin {"readStats", "saveStats"}
           Goal == /\ Others
                   /\ \/ req'[h] = Idle
                      \/ /\ Same
                         /\ req'[h].pc = "readStats" =>
                              /\ InsertVoter(h) \/ InsertVoted(h)
                              /\ Goto(h, "readStats")
                         /\ req'[h].pc = "saveStats" => Counted(h)
<1>0. req[h] \in Request /\ LabelOK(h, req[h]) /\ statuses[req[h].voter] \in VoterStatus
  BY HandlingRequest DEF TypeInv, TypeOK, Request
<1>1. ASSUME NEW code, Answer(h, code) PROVE Elsewhere
  BY <1>0, <1>1, AnswerFields
<1>2. ASSUME NEW label, Goto(h, label) PROVE Others /\ Same /\ req'[h].pc = label
  BY <1>0, <1>2, GotoFields
<1>3. ASSUME NEW home, req' = [req EXCEPT ![h].pc = "readStatus", ![h].home = home] PROVE Elsewhere
  BY <1>0, <1>3 DEF TypeInv, TypeOK, Request
<1>4. ASSUME NEW status, req' = [req EXCEPT ![h].pc = "deleteStatus", ![h].seen = status]
      PROVE  Elsewhere
  BY <1>0, <1>4 DEF TypeInv, TypeOK, Request
<1>5. ASSUME NEW status, req' = [req EXCEPT ![h].pc = "reply", ![h].home = NoBox, ![h].seen = status]
      PROVE  Elsewhere
  BY <1>0, <1>5 DEF TypeInv, TypeOK, Request
<1>6. ASSUME NEW copy, req' = [req EXCEPT ![h].pc = "saveStats", ![h].copy = copy]
      PROVE  Others /\ Same /\ req'[h].pc = "saveStats" /\ req'[h].copy = copy
  BY <1>0, <1>6 DEF TypeInv, TypeOK, Request
<1>7. ASSUME Exit(NodeOf[h]) PROVE Goal
  BY <1>7 DEF Exit
<1>8. Elsewhere => Goal
  OBVIOUS
<1>9. ASSUME NEW label, label \notin {"readStats", "saveStats"}, Goto(h, label) PROVE Elsewhere
  BY <1>2, <1>9
<1>10. ASSUME Goto(h, "readStats"), InsertVoter(h) \/ InsertVoted(h) PROVE Goal
  BY <1>2, <1>10
<1> HIDE DEF Elsewhere, Goal
<1>11. ASSUME Find(h) PROVE Goal
  BY <1>1, <1>8, <1>9, <1>11 DEF Find
<1>12. ASSUME LookupNewVoter(h) PROVE Goal
  BY <1>1, <1>8, <1>9, <1>12 DEF LookupNewVoter
<1>13. ASSUME Lookup(h) PROVE Goal
  BY <1>1, <1>3, <1>8, <1>13 DEF Lookup
<1>14. ASSUME InsertVoter(h) PROVE Goal
  <2>1. (\E code : Answer(h, code)) \/ Goto(h, "readStats")
    BY <1>14 DEF InsertVoter
  <2> QED BY <1>1, <1>8, <1>10, <1>14, <2>1
<1>15. ASSUME ReadStatus(h) PROVE Goal
  <2>1. PICK status \in Read(statuses[req[h].voter].Status, 0) :
           CASE req[h].op = "RegisterVotingStep" -> StepAfter(h, status)
             [] req[h].op = "CheckVoterStatus" -> Answer(h, StatusCode(status))
             [] req[h].op = "GetVoter" ->
                  req' = [req EXCEPT ![h].pc = "reply", ![h].home = NoBox, ![h].seen = status]
    BY <1>15 DEF ReadStatus
  <2>2. status \in 0..2
    BY <1>0, <2>1 DEF Read, VoterStatus
  <2>3. req[h].op # "CreateVoter"
    BY <1>0, <1>15 DEF ReadStatus, At, LabelOK
  <2>4. CASE req[h].op = "RegisterVotingStep"
    <3>1. StepAfter(h, status)
      BY <2>1, <2>4
    <3>2. CASE status = 2
      BY <1>1, <1>8, <3>1, <3>2 DEF StepAfter
    <3>3. CASE status = 1
      BY <1>4, <1>8, <3>1, <3>3 DEF StepAfter
    <3>4. CASE status = 0
      BY <1>8, <1>9, <3>1, <3>4 DEF StepAfter
    <3> QED BY <2>2, <3>2, <3>3, <3>4
  <2>5. CASE req[h].op = "CheckVoterStatus"
    BY <1>1, <1>8, <2>1, <2>5
  <2>6. CASE req[h].op = "GetVoter"
    BY <1>5, <1>8, <2>1, <2>6
  <2> QED BY <1>0, <2>3, <2>4, <2>5, <2>6 DEF Request
<1>16. ASSUME DeleteStatus(h) PROVE Goal
  BY <1>8, <1>9, <1>16 DEF DeleteStatus
<1>17. ASSUME InsertVoted(h) PROVE Goal
  BY <1>10, <1>17 DEF InsertVoted
<1>18. ASSUME InsertBallot(h) PROVE Goal
  BY <1>1, <1>8, <1>18 DEF InsertBallot
<1>19. ASSUME ReadStats(h) PROVE Goal
  <2>1. ~HasBoxes(ZeroStats)
    BY DEF HasBoxes, ZeroStats
  <2>2. PICK s \in Read(stats, ZeroStats) :
           \/ req[h].op = "CreateVoter" /\ CountNewVoter(h, s)
           \/ req[h].op = "RegisterVotingStep" /\ \E day \in Weekdays : CountNewVote(h, s, day)
    BY <1>19 DEF ReadStats
  <2>3. HasBoxes(s) => s = stats
    BY <2>1, <2>2 DEF Read
  <2>4. Others /\ Same /\ Counted(h) /\ req'[h].pc = "saveStats" => Goal
    BY DEF Goal
  <2>5. CASE req[h].op = "CreateVoter" /\ CountNewVoter(h, s)
    BY <1>6, <1>7, <1>19, <2>3, <2>4, <2>5 DEF CountNewVoter, Counted
  <2>6. ASSUME req[h].op = "RegisterVotingStep", NEW day \in Weekdays, CountNewVote(h, s, day)
        PROVE  Goal
    <3>1. CASE Exit(NodeOf[h])
      BY <1>7, <3>1
    <3>2. CASE ~Exit(NodeOf[h])
      <4> DEFINE copy == CountVote(s, NodeOf[h], req[h].home, req[h].afternoon, DayIndex(day))
      <4>1. /\ HasBoxes(s) /\ DayIndex(day) \in Days
            /\ req' = [req EXCEPT ![h].pc = "saveStats", ![h].copy = copy]
        BY <2>6, <3>2 DEF CountNewVote
      <4>2. Others /\ Same /\ req'[h].pc = "saveStats" /\ req'[h].copy = copy
        BY <1>6, <4>1
      <4>3. Counted(h)
        BY <1>19, <2>3, <2>6, <4>1, <4>2 DEF Counted
      <4> QED BY <2>4, <4>2, <4>3
    <3> QED BY <3>1, <3>2
  <2> QED BY <2>2, <2>5, <2>6
<1>20. ASSUME SaveStats(h) PROVE Goal
  BY <1>1, <1>8, <1>20 DEF SaveStats
<1>21. ASSUME Deliver(h) PROVE Goal
  BY <1>21 DEF Deliver, TypeInv, TypeOK, Goal
<1>22. Goal
  BY <1>11, <1>12, <1>13, <1>14, <1>15, <1>16, <1>17, <1>18, <1>19, <1>20, <1>21 DEF Handle
<1> QED BY <1>22 DEF Goal

(* A copy that is to be saved lists the boxes. *)
LEMMA CopyHasBoxes ==
  ASSUME TypeInv, NEW h \in Handlers, Handle(h), NEW g \in Handlers, At(g, "saveStats")'
  PROVE  req'[g] = req[g] \/ HasBoxes(req'[g].copy)
<1>1. ASSUME HasBoxes(stats), NEW home PROVE HasBoxes(CountVoter(stats, home))
  BY <1>1 DEF HasBoxes, CountVoter
<1>2. ASSUME HasBoxes(stats), NEW home, NEW box, NEW isAfternoon, NEW day
      PROVE  HasBoxes(CountVote(stats, box, home, isAfternoon, day))
  BY <1>2 DEF HasBoxes, CountVote
<1>3. g = h => Counted(h)
  BY Moves DEF At, Idle
<1>4. g # h => req'[g] = req[g]
  BY Moves DEF At, Idle
<1> QED BY <1>1, <1>2, <1>3, <1>4 DEF Counted

(* The statistics are there before anybody can ask for anything. *)
LEMMA ServedInductive ==
  ASSUME NoLostWrite, TypeInv, ServedInv, [Next]_vars
  PROVE  ServedInv'
<1>1. ASSUME UNCHANGED stats, ~Untouched, NEW g \in Handlers,
             At(g, "saveStats")' => req'[g] = req[g] \/ HasBoxes(req'[g].copy)
      PROVE  At(g, "saveStats")' => HasBoxes(req'[g].copy)
  BY <1>1 DEF ServedInv, At
<1>2. CASE UNCHANGED vars
  BY <1>2 DEF vars, tables, history, ServedInv, Untouched, InFlight, At
<1>3. CASE Start
  <2>1. req' = req
    BY <1>3 DEF Start, CommitteeMigrates, CommitteeServes, CommitteeGrants, BoxServes
  <2>2. \A h \in Handlers : At(h, "saveStats")' => HasBoxes(req'[h].copy)
    BY <2>1 DEF ServedInv, At
  <2>3. CASE CommitteeMigrates
    <3>1. HasBoxes(stats) => stats' = stats
      BY <2>3 DEF CommitteeMigrates
    <3>2. ~HasBoxes(stats) => stats' = newStats
      BY <2>3 DEF CommitteeMigrates, Written, NoLostWrite
    <3>3. BallotBoxes # {} => HasBoxes(newStats)
      BY DEF HasBoxes, newStats
    <3> QED BY <2>2, <3>1, <3>2, <3>3 DEF ServedInv
  <2>4. ASSUME ~CommitteeMigrates PROVE UNCHANGED stats /\ ~Untouched
    BY <1>3, <2>4, BoxAssumption DEF Start, CommitteeServes, CommitteeGrants, BoxServes, tables, Untouched
  <2> QED BY <2>2, <2>3, <2>4 DEF ServedInv
<1>4. ASSUME NEW n \in Nodes, Crash(n) PROVE ServedInv'
  <2>1. ~Untouched
    BY <1>4 DEF Crash, Untouched
  <2> QED BY <1>4, <2>1 DEF Crash, Exit, tables, ServedInv, At, Idle
<1>5. ASSUME NEW h \in Handlers, Handle(h) PROVE ServedInv'
  <2>1. ~Untouched
    BY <1>5, HandlingRequest DEF Untouched
  <2>2. \A g \in Handlers : At(g, "saveStats")' => HasBoxes(req'[g].copy)
    BY <1>5, CopyHasBoxes DEF ServedInv, At
  <2>3. CASE SaveStats(h)
    <3>1. HasBoxes(stats')
      BY <2>3 DEF SaveStats, ServedInv, Written, NoLostWrite
    <3> QED BY <2>2, <3>1 DEF ServedInv
  <2>4. CASE ~SaveStats(h)
    <3>1. UNCHANGED stats
      BY <1>5, <2>4 DEF Handle, Find, LookupNewVoter, Lookup, InsertVoter, ReadStatus,
         DeleteStatus, InsertVoted, InsertBallot, ReadStats, Deliver, tables
    <3> QED BY <2>1, <2>2, <3>1 DEF ServedInv
  <2> QED BY <2>3, <2>4
<1>6. ASSUME NEW h \in Handlers, NEW s \in Students, Call(h, s) PROVE ServedInv'
  <2>1. ASSUME NEW op, NEW label \in {"find", "lookup"}, NEW home, NEW isAfternoon,
               Receive(h, op, NewRequest(op, label, s, home, isAfternoon))
        PROVE  ~Untouched /\ \A g \in Handlers : At(g, "saveStats")' => req'[g] = req[g]
    BY <2>1, HandlerAssumption DEF Receive, NewRequest, TypeInv, TypeOK, Untouched, At
  <2>2. UNCHANGED stats
    BY <1>6 DEF Call, ReceiveCreateVoter, ReceiveVotingStep, ReceiveCheckVoterStatus,
                ReceiveGetVoter, tables
  <2>3. ~Untouched /\ \A g \in Handlers : At(g, "saveStats")' => req'[g] = req[g]
    BY <1>6, <2>1 DEF Call, ReceiveCreateVoter, ReceiveVotingStep, ReceiveCheckVoterStatus,
                      ReceiveGetVoter
  <2> QED BY <2>2, <2>3 DEF ServedInv, At
<1> QED BY <1>2, <1>3, <1>4, <1>5, <1>6 DEF Next

(* A statement ends its process only for want of a day, or of a row that it
   could not read. *)
LEMMA ReadStatsEffect ==
  ASSUME TypeInv, ServedInv, NEW h \in Handlers, ReadStats(h)
  PROVE  \/ \E copy : req' = [req EXCEPT ![h].pc = "saveStats", ![h].copy = copy]
         \/ Exit(NodeOf[h]) /\ MayExit
<1>1. Handle(h)
  BY DEF Handle
<1>2. InFlight(h) /\ req[h] \in Request /\ LabelOK(h, req[h]) /\ req[h].pc = "readStats"
  BY <1>1, HandlingRequest DEF ReadStats, At
<1>3. BallotBoxes # {} /\ HasBoxes(stats)
  BY <1>2 DEF LabelOK, ServedInv, Untouched
<1>4. Faults = {} => Read(stats, ZeroStats) = {stats}
  BY DEF Read
<1>5. CASE MayExit
  BY <1>5 DEF ReadStats, CountNewVoter, CountNewVote
<1>6. CASE Faults = {} /\ \A day \in Weekdays : DayIndex(day) \in Days
  BY <1>3, <1>4, <1>6 DEF ReadStats, CountNewVoter, CountNewVote
<1> QED BY <1>5, <1>6 DEF MayExit

-----------------------------------------------------------------------------
(* Stages *)

Casting(s) == \E h \in Handlers : At(h, "insertVoted") /\ req[h].voter = s

RefineInv == TypeInv /\ SafeInv /\ RowsInv /\ ServedInv

Stutter == UNCHANGED <<[s \in Students |-> Stage(s)], accepted>>

(* What a stage says of the rows and of the requests. *)
LEMMA StageCases ==
  ASSUME RefineInv, NEW s \in Students
  PROVE  /\ Stage(s) = "voted" <=> statuses[s].Status = 2
         /\ Stage(s) = "ballot" <=> statuses[s].Status = 1 \/ Casting(s)
         /\ Stage(s) = "registered" <=>
              statuses[s].Status = 0 /\ ~Casting(s) /\ voters[s] # NoBox
         /\ Stage(s) = "unknown" <=> voters[s] = NoBox
<1>1. Casting(s) => statuses[s].Status = 0 /\ voters[s] # NoBox
  <2> SUFFICES ASSUME NEW h \in Handlers, At(h, "insertVoted"), req[h].voter = s
               PROVE  statuses[s].Status = 0 /\ voters[s] # NoBox
    BY DEF Casting
  <2>1. InFlight(h) /\ LabelOK(h, req[h]) /\ LookedUp(req[h])
    BY DEF At, InFlight, RefineInv, TypeInv, ControlOK, RowsInv
  <2>2. Voting(h)
    BY <2>1 DEF Voting, LabelOK, At
  <2>3. statuses[s].Status = 0
    BY <2>2 DEF RefineInv, SafeInv, VoteOK, At
  <2> QED BY <2>1, <2>3, BoxAssumption DEF LookedUp, Looked, LabelOK, At
<1>2. statuses[s].Status # 0 => voters[s] # NoBox
  BY DEF RefineInv, RowsInv, RowOK
<1>3. statuses[s].Status \in 0..2
  BY DEF RefineInv, TypeInv, TypeOK, VoterStatus
<1> QED BY <1>1, <1>2, <1>3 DEF Stage, Casting, Voted, Registered

(* A step that changes the rows of one student at most, and in which no other
   student's vote begins or ends. *)
LEMMA OtherStages ==
  ASSUME NEW v, NEW s \in Students \ {v},
         voters'[s] = voters[s], statuses'[s] = statuses[s],
         \A g \in Handlers :
           \/ req'[g] = req[g]
           \/ /\ ~At(g, "insertVoted") \/ req[g].voter = v
              /\ ~At(g, "insertVoted")' \/ req'[g].voter = v
  PROVE  Stage(s)' = Stage(s)
<1>1. Casting(s)' <=> Casting(s)
  BY DEF Casting, At
<1> QED BY <1>1 DEF Stage, Casting, Voted, Registered

(* A step that writes no row and in which no vote begins or ends is a stutter. *)
LEMMA StagesAlone ==
  ASSUME UNCHANGED <<voters, statuses, accepted>>,
         \A g \in Handlers : req'[g] = req[g] \/ (~At(g, "insertVoted") /\ ~At(g, "insertVoted")')
  PROVE  Stutter
<1>1. ASSUME NEW s \in Students PROVE Casting(s)' <=> Casting(s)
  BY DEF Casting, At
<1>2. ASSUME NEW s \in Students PROVE Stage(s)' = Stage(s)
  BY <1>1 DEF Stage, Casting, Voted, Registered
<1> QED BY <1>2 DEF Stutter

(* One student moves on. *)
LEMMA AdvanceOne ==
  ASSUME NEW v \in Students, NEW from, NEW to, Stage(v) = from, Stage(v)' = to,
         \A s \in Students \ {v} : Stage(s)' = Stage(s), UNCHANGED accepted
  PROVE  Directory!Advance(v, from, to)
  BY DEF Directory!Advance

-----------------------------------------------------------------------------
(* The steps *)

DirectoryStep == Directory!Next \/ Stutter

(* A process that ends forgets the ballots of the votes it was about to record. *)
LEMMA ExitRefines ==
  ASSUME RefineInv, RefineInv', NEW n, Exit(n), MayExit, UNCHANGED <<voters, statuses, accepted>>
  PROVE  DirectoryStep
<1> DEFINE lost == {s \in Students : Stage(s)' # Stage(s)}
<1>1. \A s \in Students : Casting(s)' => Casting(s)
  BY DEF Exit, Casting, At, Idle
<1>2. ASSUME NEW s \in lost PROVE Stage(s) = "ballot" /\ Stage(s)' = "registered"
  <2>1. ~(Casting(s)' <=> Casting(s))
    BY DEF Stage, Casting, Voted, Registered
  <2>2. Casting(s) /\ ~Casting(s)'
    BY <1>1, <2>1 DEF Casting
  <2>3. Stage(s) = "ballot" /\ statuses[s].Status # 2 /\ voters[s] # NoBox
    BY <2>2, StageCases DEF lost
  <2>4. Stage(s)' # "ballot"
    BY <2>3
  <2> QED BY <2>2, <2>3, <2>4 DEF Stage, Casting, Voted, Registered
<1>3. Directory!LoseBallots(lost)
  BY <1>2 DEF Directory!LoseBallots
<1> QED BY <1>3 DEF Directory!Next, DirectoryStep

(* A request that is neither at the INSERT of a vote nor gets there, and writes
   no row, is not seen by the directory. *)
LEMMA ReadingRefines ==
  ASSUME RefineInv, RefineInv', NEW h \in Handlers,
         Find(h) \/ LookupNewVoter(h) \/ Lookup(h) \/ ReadStatus(h) \/ ReadStats(h) \/ SaveStats(h)
  PROVE  DirectoryStep
<1>0. /\ req[h] \in Request /\ LabelOK(h, req[h]) /\ ~At(h, "insertVoted")
      /\ statuses[req[h].voter] \in VoterStatus
      /\ TypeInv /\ UNCHANGED <<voters, statuses, accepted>>
  <2>1. Handle(h)
    BY DEF Handle
  <2> QED BY <2>1, HandlingRequest DEF RefineInv, TypeInv, TypeOK, Request, Find, LookupNewVoter,
       Lookup, ReadStatus, ReadStats, SaveStats, At, tables, history
<1> DEFINE Goal == (\A g \in Handlers \ {h} : req'[g] = req[g]) /\ ~At(h, "insertVoted")'
<1>1. ASSUME NEW code, Answer(h, code) PROVE Goal
  BY <1>0, <1>1, AnswerFields DEF At
<1>2. ASSUME NEW label, label # "insertVoted", Goto(h, label) PROVE Goal
  BY <1>0, <1>2, GotoFields DEF At
<1>3. ASSUME NEW home, req' = [req EXCEPT ![h].pc = "readStatus", ![h].home = home] PROVE Goal
  BY <1>0, <1>3 DEF At, TypeInv, TypeOK, Request
<1>4. ASSUME NEW status, req' = [req EXCEPT ![h].pc = "deleteStatus", ![h].seen = status] PROVE Goal
  BY <1>0, <1>4 DEF At, TypeInv, TypeOK, Request
<1>5. ASSUME NEW status, req' = [req EXCEPT ![h].pc = "reply", ![h].home = NoBox, ![h].seen = status]
      PROVE  Goal
  BY <1>0, <1>5 DEF At, TypeInv, TypeOK, Request
<1>6. ASSUME NEW copy, req' = [req EXCEPT ![h].pc = "saveStats", ![h].copy = copy] PROVE Goal
  BY <1>0, <1>6 DEF At, TypeInv, TypeOK, Request
<1>7. Goal => DirectoryStep
  BY <1>0, StagesAlone DEF DirectoryStep
<1> HIDE DEF Goal
<1>8. CASE Find(h)
  BY <1>1, <1>2, <1>7, <1>8 DEF Find
<1>9. CASE LookupNewVoter(h)
  BY <1>1, <1>2, <1>7, <1>9 DEF LookupNewVoter
<1>10. CASE Lookup(h)
  BY <1>1, <1>3, <1>7, <1>10 DEF Lookup
<1>11. CASE ReadStatus(h)
  <2>1. PICK status \in Read(statuses[req[h].voter].Status, 0) :
           CASE req[h].op = "RegisterVotingStep" -> StepAfter(h, status)
             [] req[h].op = "CheckVoterStatus" -> Answer(h, StatusCode(status))
             [] req[h].op = "GetVoter" ->
                  req' = [req EXCEPT ![h].pc = "reply", ![h].home = NoBox, ![h].seen = status]
    BY <1>11 DEF ReadStatus
  <2>2. status \in 0..2
    BY <1>0, <2>1 DEF Read, VoterStatus
  <2>3. req[h].op # "CreateVoter"
    BY <1>0, <1>11 DEF ReadStatus, At, LabelOK
  <2>4. CASE req[h].op = "RegisterVotingStep"
    <3>1. StepAfter(h, status)
      BY <2>1, <2>4
    <3>2. CASE status = 2
      BY <1>1, <1>7, <3>1, <3>2 DEF StepAfter
    <3>3. CASE status = 1
      BY <1>4, <1>7, <3>1, <3>3 DEF StepAfter
    <3>4. CASE status = 0
      BY <1>2, <1>7, <3>1, <3>4 DEF StepAfter
    <3> QED BY <2>2, <3>2, <3>3, <3>4
  <2>5. CASE req[h].op = "CheckVoterStatus"
    BY <1>1, <1>7, <2>1, <2>5
  <2>6. CASE req[h].op = "GetVoter"
    BY <1>5, <1>7, <2>1, <2>6
  <2> QED BY <1>0, <2>3, <2>4, <2>5, <2>6 DEF Request
<1>12. CASE ReadStats(h)
  BY <1>0, <1>6, <1>7, <1>12, ReadStatsEffect, ExitRefines DEF RefineInv
<1>13. CASE SaveStats(h)
  BY <1>1, <1>7, <1>13 DEF SaveStats
<1> QED BY <1>8, <1>9, <1>10, <1>11, <1>12, <1>13

(* The INSERT of CreateNewVoter registers a student. *)
LEMMA InsertVoterRefines ==
  ASSUME RefineInv, RefineInv', NEW h \in Handlers, InsertVoter(h),
         NEW v \in Students, req[h].voter = v
  PROVE  DirectoryStep
<1>0. /\ req[h] \in Request /\ v \in Students /\ TypeInv /\ ~At(h, "insertVoted")
      /\ UNCHANGED <<statuses, accepted>> /\ voters \in [Students -> BallotBoxes \cup {NoBox}]
  <2>1. Handle(h)
    BY DEF Handle
  <2> QED BY <2>1, HandlingRequest DEF RefineInv, TypeInv, TypeOK, Request, InsertVoter, At, history
<1>1. (\A g \in Handlers \ {h} : req'[g] = req[g]) /\ ~At(h, "insertVoted")'
  <2>1. (\E code : Answer(h, code)) \/ Goto(h, "readStats")
    BY DEF InsertVoter
  <2> QED BY <1>0, <2>1, AnswerFields, GotoFields DEF At
<1>2. CASE UNCHANGED voters
  BY <1>0, <1>1, <1>2, StagesAlone DEF DirectoryStep
<1>3. CASE ~UNCHANGED voters
  <2>1. PICK home : voters[v] = NoBox /\ voters' = [voters EXCEPT ![v] = home]
    BY <1>3 DEF InsertVoter
  <2>2. home # NoBox
    <3>1. ASSUME home = NoBox PROVE voters' = voters
      BY <1>0, <2>1, <3>1
    <3> QED BY <1>3, <3>1
  <2>3. voters'[v] = home /\ \A s \in Students \ {v} : voters'[s] = voters[s]
    BY <1>0, <2>1
  <2>4. \A s \in Students \ {v} : Stage(s)' = Stage(s)
    BY <1>0, <1>1, <2>3, OtherStages
  <2>5. Stage(v) = "unknown"
    BY <1>0, <2>1, StageCases
  <2>6. Stage(v)' = "registered"
    <3>1. statuses[v].Status = 0
      BY <1>0, <2>1 DEF RefineInv, RowsInv, RowOK
    <3>2. ~Casting(v)
      BY <1>0, <2>5, StageCases
    <3>3. ~Casting(v)'
      BY <1>0, <1>1, <3>2 DEF Casting, At
    <3> QED BY <1>0, <2>2, <2>3, <3>1, <3>3 DEF Stage, Casting, Voted, Registered
  <2>7. Directory!Register(v)
    BY <1>0, <2>4, <2>5, <2>6, AdvanceOne DEF Directory!Register
  <2> QED BY <1>0, <2>7 DEF Directory!Next, DirectoryStep
<1> QED BY <1>2, <1>3

(* The DELETE is not seen: the request that made it still counts as a ballot. *)
LEMMA DeleteRefines ==
  ASSUME NoLostWrite, RefineInv, RefineInv', NEW h \in Handlers, DeleteStatus(h),
         NEW v \in Students, req[h].voter = v
  PROVE  DirectoryStep
<1>0. /\ req[h] \in Request /\ v \in Students /\ TypeInv /\ Voting(h) /\ ~At(h, "insertVoted")
      /\ UNCHANGED <<voters, accepted>> /\ statuses \in [Students -> VoterStatus]
      /\ Goto(h, "insertVoted")
  <2>1. Handle(h)
    BY DEF Handle
  <2> QED BY <2>1, HandlingRequest DEF RefineInv, TypeInv, TypeOK, Request, DeleteStatus, At,
                                     history, Voting, LabelOK
<1>1. \A s \in Students \ {v} : statuses'[s] = statuses[s]
  BY <1>0 DEF DeleteStatus
<1>2. /\ \A g \in Handlers \ {h} : req'[g] = req[g]
      /\ At(h, "insertVoted")' /\ req'[h].voter = v
  BY <1>0, GotoFields DEF At
<1>3. \A s \in Students \ {v} : Stage(s)' = Stage(s)
  BY <1>0, <1>1, <1>2, OtherStages
<1>4. Stage(v) = "ballot"
  <2>1. statuses[v].Status = 1
    BY <1>0 DEF RefineInv, SafeInv, VoteOK, DeleteStatus, At
  <2> QED BY <1>0, <2>1, StageCases
<1>5. Stage(v)' = "ballot"
  <2>1. Casting(v)'
    BY <1>2 DEF Casting
  <2>2. statuses'[v].Status = 0
    BY <1>0 DEF DeleteStatus, Written, NoLostWrite, NoStatus, StatusRow
  <2> QED BY <2>1, <2>2 DEF Stage, Casting, Voted, Registered
<1> QED BY <1>0, <1>3, <1>4, <1>5 DEF DirectoryStep, Stutter

(* The INSERT of the row of a vote casts it. *)
LEMMA InsertVotedRefines ==
  ASSUME NoLostWrite, RefineInv, RefineInv', NEW h \in Handlers, InsertVoted(h),
         NEW v \in Students, req[h].voter = v
  PROVE  DirectoryStep
<1>0. /\ req[h] \in Request /\ v \in Students /\ TypeInv /\ Voting(h) /\ At(h, "insertVoted")
      /\ UNCHANGED <<voters, accepted>> /\ statuses \in [Students -> VoterStatus]
      /\ Goto(h, "readStats")
  <2>1. Handle(h)
    BY DEF Handle
  <2> QED BY <2>1, HandlingRequest DEF RefineInv, TypeInv, TypeOK, Request, InsertVoted, At,
                                     history, Voting, LabelOK
<1>1. \A s \in Students \ {v} : statuses'[s] = statuses[s]
  BY <1>0 DEF InsertVoted, Record
<1>2. /\ \A g \in Handlers \ {h} : req'[g] = req[g]
      /\ req'[h].pc = "readStats" /\ req'[h].voter = v /\ req'[h].op = req[h].op
  BY <1>0, GotoFields
<1>3. \A s \in Students \ {v} : Stage(s)' = Stage(s)
  BY <1>0, <1>1, <1>2, OtherStages
<1>4. Stage(v) = "ballot"
  BY <1>0, StageCases DEF Casting
<1>5. Stage(v)' = "voted"
  <2>1. statuses'[v].Status = 2
    BY <1>0, <1>2 DEF RefineInv, SafeInv, VoteOK, At, Voting, InFlight
  <2> QED BY <1>0, <2>1 DEF Stage, Voted
<1>6. Directory!CastVote(v)
  BY <1>0, <1>3, <1>4, <1>5, AdvanceOne DEF Directory!CastVote
<1> QED BY <1>0, <1>6 DEF Directory!Next, DirectoryStep

(* The INSERT of the row of a ballot hands it out, or meets a row that exists. *)
LEMMA InsertBallotRefines ==
  ASSUME NoLostWrite, RefineInv, RefineInv', NEW h \in Handlers, InsertBallot(h),
         NEW v \in Students, req[h].voter = v
  PROVE  DirectoryStep
<1>0. /\ req[h] \in Request /\ v \in Students /\ TypeInv /\ Voting(h) /\ At(h, "insertBallot")
      /\ UNCHANGED <<voters, accepted>> /\ statuses \in [Students -> VoterStatus]
      /\ LabelOK(h, req[h]) /\ LookedUp(req[h])
  <2>1. Handle(h)
    BY DEF Handle
  <2> QED BY <2>1, HandlingRequest DEF RefineInv, TypeInv, TypeOK, Request, InsertBallot, At,
                                     history, Voting, LabelOK, RowsInv
<1>1. (\A g \in Handlers \ {h} : req'[g] = req[g]) /\ ~At(h, "insertVoted") /\ ~At(h, "insertVoted")'
  BY <1>0, AnswerFields DEF InsertBallot, At
<1>2. PICK row \in Insert(StatusRow(1, NoBox, NoBox), statuses[v]) : statuses' = [statuses EXCEPT ![v] = row]
  BY DEF InsertBallot, Record
<1>3. CASE row = statuses[v]
  <2>1. statuses' = statuses
    BY <1>0, <1>2, <1>3
  <2> QED BY <1>0, <1>1, <2>1, StagesAlone DEF DirectoryStep
<1>4. CASE row # statuses[v]
  <2>1. statuses[v].Status = 0 /\ row = StatusRow(1, NoBox, NoBox)
    BY <1>2, <1>4 DEF Insert, Written, NoLostWrite
  <2>2. statuses'[v].Status = 1 /\ \A s \in Students \ {v} : statuses'[s] = statuses[s]
    BY <1>0, <1>2, <2>1 DEF StatusRow
  <2>3. ~Casting(v)
    <3> SUFFICES ASSUME NEW g \in Handlers, At(g, "insertVoted"), req[g].voter = v PROVE FALSE
      BY DEF Casting
    <3>1. Voting(g)
      BY DEF RefineInv, TypeInv, ControlOK, LabelOK, At, Voting, InFlight
    <3> QED BY <1>0, <1>1, <3>1 DEF RefineInv, SafeInv, Exclusive
  <2>4. voters[v] # NoBox
    BY <1>0, BoxAssumption DEF LookedUp, Looked, LabelOK, At
  <2>5. Stage(v) = "registered"
    BY <1>0, <2>1, <2>3, <2>4, StageCases
  <2>6. Stage(v)' = "ballot"
    BY <1>0, <2>2 DEF Stage, Voted
  <2>7. \A s \in Students \ {v} : Stage(s)' = Stage(s)
    BY <1>0, <1>1, <2>2, OtherStages
  <2>8. Directory!HandOutBallot(v)
    BY <1>0, <2>5, <2>6, <2>7, AdvanceOne DEF Directory!HandOutBallot
  <2> QED BY <1>0, <2>8 DEF Directory!Next, DirectoryStep
<1> QED BY <1>3, <1>4

(* An answer that accepts a vote does so once, for a vote that was cast. *)
LEMMA DeliverRefines ==
  ASSUME NoLostWrite, RefineInv, RefineInv', NEW h \in Handlers, Deliver(h),
         NEW v \in Students, req[h].voter = v
  PROVE  DirectoryStep
<1>0. /\ req[h] \in Request /\ v \in Students /\ TypeInv /\ At(h, "reply") /\ InFlight(h)
      /\ UNCHANGED <<voters, statuses>> /\ accepted \in [Students -> Nat]
      /\ req \in [Handlers -> Request \cup {Idle}] /\ req' = [req EXCEPT ![h] = Idle]
  <2>1. Handle(h)
    BY DEF Handle
  <2> QED BY <2>1, HandlingRequest DEF RefineInv, TypeInv, TypeOK, Request, Deliver, At, tables
<1>1. \A g \in Handlers : req'[g] = req[g] \/ (~At(g, "insertVoted") /\ ~At(g, "insertVoted")')
  BY <1>0 DEF At, Idle
<1>2. ASSUME NEW s \in Students PROVE Stage(s)' = Stage(s)
  <2>1. Casting(s)' <=> Casting(s)
    BY <1>1 DEF Casting, At
  <2> QED BY <1>0, <2>1 DEF Stage, Casting, Voted, Registered
<1>3. CASE req[h].op = "RegisterVotingStep" /\ req[h].code = 0 /\ req[h].seen = 1
  <2>1. statuses[v].Status = 2 /\ accepted[v] = 0
    BY <1>0, <1>3 DEF RefineInv, SafeInv, VoteOK, Accepting, Voting, At
  <2>2. accepted' = [accepted EXCEPT ![v] = 1]
    BY <1>0, <1>3, <2>1 DEF Deliver
  <2>3. Stage(v) = "voted"
    BY <1>0, <2>1 DEF Stage, Voted
  <2>4. Directory!AcceptVote(v)
    BY <1>0, <1>2, <2>1, <2>2, <2>3 DEF Directory!AcceptVote
  <2> QED BY <1>0, <2>4 DEF Directory!Next, DirectoryStep
<1>4. CASE ~(req[h].op = "RegisterVotingStep" /\ req[h].code = 0 /\ req[h].seen = 1)
  <2>1. accepted' = accepted
    BY <1>0, <1>4 DEF Deliver
  <2> QED BY <1>2, <2>1 DEF DirectoryStep, Stutter
<1> QED BY <1>3, <1>4

(* Every step is one of the directory, or none. *)
LEMMA StepRefines ==
  ASSUME NoLostWrite, RefineInv, RefineInv', [Next]_vars
  PROVE  DirectoryStep
<1>1. CASE UNCHANGED vars
  BY <1>1, StagesAlone DEF vars, tables, history, DirectoryStep
<1>2. CASE Start
  <2>1. UNCHANGED <<voters, statuses, accepted, req>>
    BY <1>2 DEF Start, CommitteeMigrates, CommitteeServes, CommitteeGrants, BoxServes,
                tables, history
  <2> QED BY <2>1, StagesAlone DEF DirectoryStep
<1>3. ASSUME NEW n \in Nodes, Crash(n) PROVE DirectoryStep
  <2>1. MayExit
    BY <1>3 DEF Crash, MayExit
  <2> QED BY <1>3, <2>1, ExitRefines DEF Crash, tables, history
<1>4. ASSUME NEW h \in Handlers, Handle(h) PROVE DirectoryStep
  <2>1. req[h].voter \in Students
    BY <1>4, HandlingRequest DEF RefineInv, Request
  <2> QED BY <1>4, <2>1, ReadingRefines, InsertVoterRefines, DeleteRefines, InsertVotedRefines,
             InsertBallotRefines, DeliverRefines DEF Handle
<1>5. ASSUME NEW h \in Handlers, NEW s \in Students, Call(h, s) PROVE DirectoryStep
  <2>1. ASSUME NEW op, NEW label \in {"find", "lookup"}, NEW home, NEW isAfternoon,
               Receive(h, op, NewRequest(op, label, s, home, isAfternoon))
        PROVE  \A g \in Handlers : req'[g] = req[g] \/ (~At(g, "insertVoted") /\ ~At(g, "insertVoted")')
    BY <2>1 DEF Receive, NewRequest, RefineInv, TypeInv, TypeOK, At, Idle
  <2>2. UNCHANGED <<voters, statuses, accepted>>
    BY <1>5 DEF Call, ReceiveCreateVoter, ReceiveVotingStep, ReceiveCheckVoterStatus,
                ReceiveGetVoter, tables, history
  <2>3. \A g \in Handlers : req'[g] = req[g] \/ (~At(g, "insertVoted") /\ ~At(g, "insertVoted")')
    BY <1>5, <2>1 DEF Call, ReceiveCreateVoter, ReceiveVotingStep, ReceiveCheckVoterStatus,
                      ReceiveGetVoter
  <2> QED BY <2>2, <2>3, StagesAlone DEF DirectoryStep
<1> QED BY <1>1, <1>2, <1>3, <1>4, <1>5 DEF Next

(* The handlers and their separate statements behave as the atomic directory of
   the requirements: each SQL statement is one of its steps or not seen by it. *)
THEOREM RegistryImplementsDirectory == ASSUME OneDesk PROVE Spec => DirectorySpec
<1>1. Init => RefineInv
  BY InitType, InitSafe, InitRows, InitServed DEF RefineInv
<1>2. RefineInv /\ [Next]_vars => RefineInv'
  BY TypeInductive, SafeInductive, RowsInductive, ServedInductive, OneDeskAlone
     DEF RefineInv, OneDesk, NoLostWrite
<1>3. Init => Directory!Init
  <2> SUFFICES ASSUME Init PROVE Directory!Init
    OBVIOUS
  <2>1. ASSUME NEW s \in Students PROVE Stage(s) = "unknown"
    BY DEF Init, Stage, Voted, Registered, NoStatus, StatusRow, At, Idle
  <2> QED BY <2>1 DEF Init, Directory!Init
<1>4. RefineInv /\ RefineInv' /\ [Next]_vars =>
        [Directory!Next]_<<[s \in Students |-> Stage(s)], accepted>>
  BY StepRefines DEF OneDesk, DirectoryStep, Stutter
<1> QED BY <1>1, <1>2, <1>3, <1>4, PTL DEF Spec, DirectorySpec, Directory!Spec

-----------------------------------------------------------------------------
(* No process ends but for the reasons of MayExit *)

(* Only a start, a crash and the counting of a voter or a vote touch a process. *)
LEMMA ProcessesStay ==
  ASSUME TypeInv, ServedInv, ~MayExit, [Next]_vars, NEW n \in Nodes, api[n] = "up"
  PROVE  api'[n] = "up"
<1>1. ASSUME NEW h \in Handlers, ReadStats(h) PROVE api' = api
  <2>1. PICK copy : req' = [req EXCEPT ![h].pc = "saveStats", ![h].copy = copy]
    BY <1>1, ReadStatsEffect
  <2>2. Handle(h)
    BY <1>1 DEF Handle
  <2>3. req'[h].pc = "saveStats"
    BY <2>1, <2>2, HandlingRequest DEF TypeInv, TypeOK, Request
  <2>4. ~Exit(NodeOf[h])
    BY <2>3 DEF Exit, Idle
  <2> QED BY <1>1, <2>4 DEF ReadStats, CountNewVoter, CountNewVote
<1>2. ASSUME NEW h \in Handlers, Handle(h), ~ReadStats(h) PROVE api' = api
  BY <1>2 DEF Handle, Find, LookupNewVoter, Lookup, InsertVoter, ReadStatus, DeleteStatus,
       InsertVoted, InsertBallot, SaveStats, Deliver
<1>3. ASSUME NEW h \in Handlers, NEW s \in Students, Call(h, s) PROVE api' = api
  BY <1>3 DEF Call, ReceiveCreateVoter, ReceiveVotingStep, ReceiveCheckVoterStatus, ReceiveGetVoter
<1>4. CASE Start
  BY <1>4 DEF Start, CommitteeMigrates, CommitteeServes, CommitteeGrants, BoxServes, TypeInv, TypeOK
<1>5. ASSUME NEW m \in Nodes PROVE ~Crash(m)
  BY DEF Crash, MayExit
<1>6. CASE UNCHANGED vars
  BY <1>6 DEF vars
<1> QED BY <1>1, <1>2, <1>3, <1>4, <1>5, <1>6 DEF Next

(* The index of the day and that of the box are in their bounds (stats.go:99,
   119): from Monday to Friday, and as long as no statement fails, no request
   ends the process that serves it, whatever overlaps. *)
THEOREM NoProcessEnds == ASSUME ~MayExit PROVE Spec => ApiStaysUp
<1>1. NoLostWrite
  BY DEF NoLostWrite, MayExit
<1>2. Init => TypeInv /\ ServedInv
  BY InitType, InitServed
<1>3. TypeInv /\ ServedInv /\ [Next]_vars => (TypeInv /\ ServedInv)'
  BY <1>1, TypeInductive, ServedInductive
<1>4. TypeInv /\ ServedInv /\ [Next]_vars => [\A n \in Nodes : api[n] = "up" => api'[n] = "up"]_vars
  BY ProcessesStay
<1> QED BY <1>2, <1>3, <1>4, PTL DEF Spec, ApiStaysUp
=============================================================================
