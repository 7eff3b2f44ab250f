--------------------------- MODULE VoterRegistry ---------------------------
(***************************************************************************)
(* The electoral directory of Campus Vote: the replicated tables           *)
(* enc_voters, enc_voter_statuses and election_stats, and the API servers  *)
(* of the ballot boxes and of the election committee that work on them     *)
(* (pkg/storage, pkg/api/server.go).                                       *)
(*                                                                         *)
(* The code opens no transaction of its own, so each SQL statement commits *)
(* by itself: a request handler is a little program whose steps are its    *)
(* statements, and the handlers of all nodes interleave between them.  A   *)
(* statement that fails leaves its Go variable at the zero value (a read)  *)
(* or the table as it was (a write); most callers ignore the error.        *)
(***************************************************************************)
EXTENDS Integers, FiniteSets, Functions

CONSTANTS
  Students,      \* the student ids that clients ask for
  BallotBoxes,   \* conf.BallotBoxes; each box is also a node with its own API
  Committee,     \* the node of the election committee
  UnlistedBox,   \* a home ballot box that conf.BallotBoxes does not list
  NoBox,         \* "-", and the home box of a voter without a row
  Handlers,      \* slots for requests in flight (the goroutines of grpc)
  NodeOf,        \* the node whose API server runs a handler
  Operations,    \* the calls that the clients of each handler's node make
  Afternoons,    \* the settings of isAfternoon that the boxes use
  Weekdays,      \* the days of the election, as time.Weekday counts: 0 is Sunday
  Faults,        \* what may go wrong: "read", "write", "crash"
  Concurrency,   \* which requests may overlap, see MayStart
  MaxSteps       \* bound: calls of RegisterVotingStep for one student

Nodes == BallotBoxes \cup {Committee}

AllOperations == {"CreateVoter", "RegisterVotingStep", "CheckVoterStatus", "GetVoter"}

ASSUME BoxAssumption ==
  /\ Committee \notin BallotBoxes
  /\ UnlistedBox \notin BallotBoxes
  /\ NoBox \notin BallotBoxes
  /\ NoBox # UnlistedBox

ASSUME HandlerAssumption == NodeOf \in [Handlers -> Nodes]

ASSUME ConfigAssumption ==
  /\ Operations \in [Handlers -> SUBSET AllOperations]
  /\ Afternoons \subseteq BOOLEAN
  /\ Weekdays \subseteq 0..6
  /\ Faults \subseteq {"read", "write", "crash"}
  /\ Concurrency \in {"any", "voter", "serial"}
  /\ MaxSteps \in Nat

VARIABLES
  api,       \* the API process of each node
  users,     \* the ballot boxes whose database user exists
  voters,    \* enc_voters: the home ballot box of each registered student
  statuses,  \* enc_voter_statuses
  stats,     \* the row of election_stats
  req,       \* the request that each handler works on
  steps,     \* how often RegisterVotingStep was called for a student
  recorded,  \* history: the statuses ever written for a student
  granted,   \* history: answers by which a student was handed a ballot
  accepted   \* history: answers by which a student's vote was accepted

tables == <<voters, statuses, stats>>
history == <<steps, recorded, granted, accepted>>
vars == <<api, users, tables, req, history>>

-----------------------------------------------------------------------------
(* Rows *)

Days == 0..4          \* the indices of VotesPerDay [5]VotingDay

VotingDay == [Total : Nat, Morning : Nat, Afternoon : Nat]

BallotBox == [TotalVotes : Nat, TotalVoters : Nat,
              VotesPerDay : [Days -> VotingDay], VotesFromOtherBoxes : Nat]

\* The list of boxes is empty in a Go struct that no row was read into.
ElectionStats == [TotalVotes : Nat, TotalVoters : Nat,
                  BallotBoxs : [BallotBoxes -> BallotBox] \cup [{} -> BallotBox]]

EmptyBox == [TotalVotes |-> 0, TotalVoters |-> 0, VotesFromOtherBoxes |-> 0,
             VotesPerDay |-> [d \in Days |-> [Total |-> 0, Morning |-> 0, Afternoon |-> 0]]]

ZeroStats == [TotalVotes |-> 0, TotalVoters |-> 0, BallotBoxs |-> [b \in {} |-> EmptyBox]]

newStats == [TotalVotes |-> 0, TotalVoters |-> 0,
             BallotBoxs |-> [b \in BallotBoxes |-> EmptyBox]]

HasBoxes(s) == DOMAIN s.BallotBoxs # {}

\* A status 0 is a missing row: the code never writes one.
VoterStatus == [Status : 0..2, StudentBallotbox : BallotBoxes \cup {NoBox},
                VotedBallotbox : BallotBoxes \cup {NoBox}]

StatusRow(n, home, box) == [Status |-> n, StudentBallotbox |-> home, VotedBallotbox |-> box]

NoStatus == StatusRow(0, NoBox, NoBox)

\* Mutant: the two boxes swapped.
VotedRowsSwapped(home, box) == {StatusRow(2, box, home), StatusRow(2, NoBox, NoBox)}

\* Home and voting box are stored in one of ten cases, by a random number.
VotedRows(home, box) == {StatusRow(2, home, box), StatusRow(2, NoBox, NoBox)}

-----------------------------------------------------------------------------
(* Statements that may fail *)

Read(value, zero) == {value} \cup (IF "read" \in Faults THEN {zero} ELSE {})

Written(new, old) == {new} \cup (IF "write" \in Faults THEN {old} ELSE {})

\* Mutant: an upsert in place of the INSERT.
InsertOrUpdate(row, old) == Written(row, old)

\* An INSERT under the primary key student_id: an existing row stays.
Insert(row, old) == IF old.Status = 0 THEN Written(row, old) ELSE {old}

-----------------------------------------------------------------------------
(* Statistics *)

CountVoterAt(b) == [b EXCEPT !.TotalVoters = @ + 1]

CountVoter(s, home) ==
  [TotalVotes |-> s.TotalVotes, TotalVoters |-> s.TotalVoters + 1,
   BallotBoxs |-> [s.BallotBoxs EXCEPT ![home] = CountVoterAt(@)]]

\* Mutant: the missing else, a vote of the afternoon also counts as a morning vote.
CountDayTwice(day, isAfternoon) ==
  [Total |-> day.Total + 1, Morning |-> day.Morning + 1,
   Afternoon |-> IF isAfternoon THEN day.Afternoon + 1 ELSE day.Afternoon]

CountDay(day, isAfternoon) ==
  [Total |-> day.Total + 1,
   Morning |-> IF isAfternoon THEN day.Morning ELSE day.Morning + 1,
   Afternoon |-> IF isAfternoon THEN day.Afternoon + 1 ELSE day.Afternoon]

CountVoteAt(b, other, isAfternoon, currentDay) ==
  [TotalVotes |-> b.TotalVotes + 1, TotalVoters |-> b.TotalVoters,
   VotesPerDay |-> [b.VotesPerDay EXCEPT ![currentDay] = CountDay(@, isAfternoon)],
   VotesFromOtherBoxes |-> IF other THEN b.VotesFromOtherBoxes + 1 ELSE b.VotesFromOtherBoxes]

CountVote(s, box, home, isAfternoon, currentDay) ==
  [TotalVotes |-> s.TotalVotes + 1, TotalVoters |-> s.TotalVoters,
   BallotBoxs |-> [s.BallotBoxs EXCEPT ![box] =
                     CountVoteAt(@, home # box, isAfternoon, currentDay)]]

\* Mutant: the index is the weekday itself.
DayIndexUnshifted(weekday) == weekday

\* time.Weekday() - 1: Monday to Friday are 0..4, Saturday is 5, Sunday is -1.
DayIndex(weekday) == weekday - 1

-----------------------------------------------------------------------------
(* Requests *)

Labels == {"find", "lookup", "insertVoter", "readStatus", "deleteStatus", "insertVoted",
           "insertBallot", "readStats", "saveStats", "reply"}

\* core/error.go and pkg/api/utils.go; -1 is an error of the call itself.
Codes == {-1, 0, 1, 2, 3, 4, 6, 8}

Request == [pc : Labels, op : AllOperations, voter : Students,
            home : BallotBoxes \cup {UnlistedBox, NoBox},
            afternoon : BOOLEAN,   \* VoteReq.IsAfternoon
            seen : 0..2,           \* what CheckVoterStatus returned
            copy : ElectionStats,  \* the stats struct of countVoter and countVote
            code : Codes]

Idle == [pc |-> "idle"]

NewRequest(op, label, s, home, isAfternoon) ==
  [pc |-> label, op |-> op, voter |-> s, home |-> home, afternoon |-> isAfternoon,
   seen |-> 0, copy |-> ZeroStats, code |-> 0]

InFlight(h) == req[h].pc # "idle"

At(h, label) == req[h].pc = label

Goto(h, label) == req' = [req EXCEPT ![h].pc = label]

\* The handler is done; only what the client is told matters from here on.
Answer(h, code) ==
  req' = [req EXCEPT ![h] = [@ EXCEPT !.pc = "reply", !.code = code, !.copy = ZeroStats,
                                      !.home = NoBox, !.afternoon = FALSE]]

\* log.Fatal or a panic in a handler ends the process with all its requests.
Exit(n) ==
  /\ api' = [api EXCEPT ![n] = "down"]
  /\ req' = [h \in Handlers |-> IF NodeOf[h] = n THEN Idle ELSE req[h]]

Voting(h) == InFlight(h) /\ req[h].op = "RegisterVotingStep"

Writing(h) == InFlight(h) /\ req[h].op \in {"CreateVoter", "RegisterVotingStep"}

\* What the world guarantees about overlapping requests, not the code:
\* "voter" when a voter is served by one box at a time and its worker waits for
\* the answer, "serial" when nobody else writes either.
MayStart(op, s) ==
  CASE op = "RegisterVotingStep" /\ Concurrency = "voter" ->
         \A h \in Handlers : ~(Voting(h) /\ req[h].voter = s)
    [] op \in {"CreateVoter", "RegisterVotingStep"} /\ Concurrency = "serial" ->
         \A h \in Handlers : ~Writing(h)
    [] OTHER -> TRUE

-----------------------------------------------------------------------------
(* Start and end of the API processes: storage.New, header_service.dart *)

\* The first INSERT of the statistics creates the row, later ones meet its key.
CommitteeMigrates ==
  /\ api[Committee] = "down"
  /\ api' = [api EXCEPT ![Committee] = "starting"]
  /\ stats' \in IF HasBoxes(stats) THEN {stats} ELSE Written(newStats, stats)
  /\ UNCHANGED <<users, voters, statuses, req, history>>

CommitteeGrants(b) ==
  /\ api[Committee] = "starting"
  /\ b \notin users
  /\ users' = users \cup {b}
  /\ UNCHANGED <<api, tables, req, history>>

CommitteeServes ==
  /\ api[Committee] = "starting"
  /\ users = BallotBoxes \/ "write" \in Faults
  /\ api' = [api EXCEPT ![Committee] = "up"]
  /\ UNCHANGED <<users, tables, req, history>>

\* A box connects as its own database user, which may not insert statistics.
BoxServes(b) ==
  /\ api[b] = "down"
  /\ b \in users
  /\ api' = [api EXCEPT ![b] = "up"]
  /\ UNCHANGED <<users, tables, req, history>>

Crash(n) ==
  /\ "crash" \in Faults
  /\ api[n] # "down"
  /\ Exit(n)
  /\ UNCHANGED <<users, tables, history>>

-----------------------------------------------------------------------------
(* Calls of the clients *)

Receive(h, op, request) ==
  /\ op \in Operations[h]
  /\ req[h] = Idle
  /\ api[NodeOf[h]] = "up"
  /\ MayStart(op, request.voter)
  /\ req' = [req EXCEPT ![h] = request]

ReceiveCreateVoter(h, s, home) ==
  /\ Receive(h, "CreateVoter", NewRequest("CreateVoter", "lookup", s, home, FALSE))
  /\ UNCHANGED <<api, users, tables, history>>

ReceiveVotingStep(h, s, isAfternoon) ==
  /\ steps[s] < MaxSteps
  /\ Receive(h, "RegisterVotingStep",
             NewRequest("RegisterVotingStep", "lookup", s, NoBox, isAfternoon))
  /\ steps' = [steps EXCEPT ![s] = @ + 1]
  /\ UNCHANGED <<api, users, tables, recorded, granted, accepted>>

ReceiveCheckVoterStatus(h, s) ==
  /\ Receive(h, "CheckVoterStatus", NewRequest("CheckVoterStatus", "lookup", s, NoBox, FALSE))
  /\ UNCHANGED <<api, users, tables, history>>

ReceiveGetVoter(h, s) ==
  /\ Receive(h, "GetVoter", NewRequest("GetVoter", "find", s, NoBox, FALSE))
  /\ UNCHANGED <<api, users, tables, history>>

\* The client takes the answer; an OK that follows a read of status 0 hands out
\* a ballot, one that follows a read of status 1 accepts a vote.
Deliver(h) ==
  LET r == req[h]
      ok == r.op = "RegisterVotingStep" /\ r.code = 0
  IN /\ At(h, "reply")
     /\ req' = [req EXCEPT ![h] = Idle]
     /\ granted' = IF ok /\ r.seen = 0 THEN [granted EXCEPT ![r.voter] = @ + 1] ELSE granted
     /\ accepted' = IF ok /\ r.seen = 1 THEN [accepted EXCEPT ![r.voter] = @ + 1] ELSE accepted
     /\ UNCHANGED <<api, users, tables, steps, recorded>>

-----------------------------------------------------------------------------
(* GetVoterByStudentId: any failure to read or to decrypt is "not found" *)

NotFound(op) == IF op = "GetVoter" THEN -1 ELSE 2

\* The API's GetVoterByStudentId reads the voter, then everything once more.
Find(h) ==
  LET r == req[h]
  IN /\ At(h, "find")
     /\ \E home \in Read(voters[r.voter], NoBox) :
          IF home = NoBox THEN Answer(h, NotFound(r.op)) ELSE Goto(h, "lookup")
     /\ UNCHANGED <<api, users, tables, history>>

\* Mutant: the home box is not looked up in the list of boxes.
LookupNewVoterUnlisted(h) ==
  LET r == req[h]
  IN /\ At(h, "lookup")
     /\ r.op = "CreateVoter"
     /\ \E home \in Read(voters[r.voter], NoBox) :
          IF home # NoBox THEN Answer(h, 1) ELSE Goto(h, "insertVoter")
     /\ UNCHANGED <<api, users, tables, history>>

\* CreateNewVoter takes every failure for a student that does not exist yet.
LookupNewVoter(h) ==
  LET r == req[h]
  IN /\ At(h, "lookup")
     /\ r.op = "CreateVoter"
     /\ \E home \in Read(voters[r.voter], NoBox) :
          CASE home # NoBox -> Answer(h, 1)
            [] home = NoBox /\ r.home \notin BallotBoxes -> Answer(h, 4)
            [] OTHER -> Goto(h, "insertVoter")
     /\ UNCHANGED <<api, users, tables, history>>

\* SetVoterAsVotedByStudentId, CheckVoterStatusByStudentId.  The box that votes
\* is the name in the client's certificate; the committee's is not listed.
Lookup(h) ==
  LET r == req[h]
  IN /\ At(h, "lookup")
     /\ r.op # "CreateVoter"
     /\ \E home \in Read(voters[r.voter], NoBox) :
          CASE r.op = "RegisterVotingStep" /\ NodeOf[h] \notin BallotBoxes -> Answer(h, 4)
            [] home = NoBox -> Answer(h, NotFound(r.op))
            [] OTHER -> req' = [req EXCEPT ![h].pc = "readStatus", ![h].home = home]
     /\ UNCHANGED <<api, users, tables, history>>

-----------------------------------------------------------------------------
(* CreateNewVoter *)

\* Mutant: the error of the INSERT is ignored, as in RegisterVotingStep.
InsertVoterUnchecked(h) ==
  LET r == req[h]
  IN /\ At(h, "insertVoter")
     /\ voters' = [voters EXCEPT ![r.voter] = IF @ = NoBox THEN r.home ELSE @]
     /\ Goto(h, "readStats")
     /\ UNCHANGED <<api, users, statuses, stats, history>>

\* Mutant: the new voter is not counted.
InsertVoterUncounted(h) ==
  LET r == req[h]
  IN /\ At(h, "insertVoter")
     /\ voters' = [voters EXCEPT ![r.voter] = IF @ = NoBox THEN r.home ELSE @]
     /\ Answer(h, 0)
     /\ UNCHANGED <<api, users, statuses, stats, history>>

\* Only the committee's database user may insert voters.
InsertVoter(h) ==
  LET r == req[h]
  IN /\ At(h, "insertVoter")
     /\ IF NodeOf[h] = Committee /\ voters[r.voter] = NoBox
        THEN \E home \in Written(r.home, NoBox) :
               /\ voters' = [voters EXCEPT ![r.voter] = home]
               /\ IF home = NoBox THEN Answer(h, 8) ELSE Goto(h, "readStats")
        ELSE /\ Answer(h, 8)
             /\ UNCHANGED voters
     /\ UNCHANGED <<api, users, statuses, stats, history>>

-----------------------------------------------------------------------------
(* RegisterVotingStep *)

\* Mutant: no ballot is handed out, every step is a vote.
StepAfterNoBallot(h, status) ==
  IF status = 2 THEN Answer(h, 3)
  ELSE req' = [req EXCEPT ![h].pc = "deleteStatus", ![h].seen = 1]

\* Mutant: the case of status 2 is missing and falls to that of status 1.
StepAfterVotedAgain(h, status) ==
  IF status = 0 THEN Goto(h, "insertBallot")
  ELSE req' = [req EXCEPT ![h].pc = "deleteStatus", ![h].seen = 1]

StepAfter(h, status) ==
  CASE status = 2 -> Answer(h, 3)
    [] status = 1 -> req' = [req EXCEPT ![h].pc = "deleteStatus", ![h].seen = status]
    [] status = 0 -> Goto(h, "insertBallot")

\* The codes 0, 6 and 3 of the API's CheckVoterStatus.
StatusCode(status) == <<0, 6, 3>>[status + 1]

\* A row that cannot be read counts as a voter who has not voted.
ReadStatus(h) ==
  LET r == req[h]
  IN /\ At(h, "readStatus")
     /\ \E status \in Read(statuses[r.voter].Status, 0) :
          CASE r.op = "RegisterVotingStep" -> StepAfter(h, status)
            [] r.op = "CheckVoterStatus" -> Answer(h, StatusCode(status))
            [] r.op = "GetVoter" ->
                 req' = [req EXCEPT ![h].pc = "reply", ![h].home = NoBox, ![h].seen = status]
     /\ UNCHANGED <<api, users, tables, history>>

\* The result of the DELETE is not looked at.
DeleteStatus(h) ==
  /\ At(h, "deleteStatus")
  /\ \E row \in Written(NoStatus, statuses[req[h].voter]) :
       statuses' = [statuses EXCEPT ![req[h].voter] = row]
  /\ Goto(h, "insertVoted")
  /\ UNCHANGED <<api, users, voters, stats, history>>

Record(s, row) ==
  /\ statuses' = [statuses EXCEPT ![s] = row]
  /\ recorded' = [recorded EXCEPT ![s] = @ \cup ({row.Status} \ {0})]

\* Mutant: the vote is recorded and not counted.
InsertVotedUncounted(h) ==
  LET r == req[h]
  IN /\ At(h, "insertVoted")
     /\ \E new \in VotedRows(r.home, NodeOf[h]) :
          \E row \in Insert(new, statuses[r.voter]) : Record(r.voter, row)
     /\ Answer(h, 0)
     /\ UNCHANGED <<api, users, voters, stats, steps, granted, accepted>>

\* The result of the INSERT is not looked at either: the vote is counted anyway.
InsertVoted(h) ==
  LET r == req[h]
  IN /\ At(h, "insertVoted")
     /\ \E new \in VotedRows(r.home, NodeOf[h]) :
          \E row \in Insert(new, statuses[r.voter]) : Record(r.voter, row)
     /\ Goto(h, "readStats")
     /\ UNCHANGED <<api, users, voters, stats, steps, granted, accepted>>

\* Mutant: the ballot is counted as a vote.
InsertBallotCounted(h) ==
  LET r == req[h]
  IN /\ At(h, "insertBallot")
     /\ \E row \in Insert(StatusRow(1, NoBox, NoBox), statuses[r.voter]) : Record(r.voter, row)
     /\ Goto(h, "readStats")
     /\ UNCHANGED <<api, users, voters, stats, steps, granted, accepted>>

InsertBallot(h) ==
  LET r == req[h]
  IN /\ At(h, "insertBallot")
     /\ \E row \in Insert(StatusRow(1, NoBox, NoBox), statuses[r.voter]) : Record(r.voter, row)
     /\ Answer(h, 0)
     /\ UNCHANGED <<api, users, voters, stats, steps, granted, accepted>>

-----------------------------------------------------------------------------
(* countVoter and countVote: read the one row, change the copy, save it whole *)

\* No row means no list of boxes to index: a panic.
CountNewVoter(h, s) ==
  IF HasBoxes(s)
  THEN /\ req' = [req EXCEPT ![h].pc = "saveStats", ![h].copy = CountVoter(s, req[h].home)]
       /\ UNCHANGED api
  ELSE Exit(NodeOf[h])

\* There are five days to index as well: a panic on the weekend.
CountNewVote(h, s, weekday) ==
  LET r == req[h]
      copy == CountVote(s, NodeOf[h], r.home, r.afternoon, DayIndex(weekday))
  IN IF HasBoxes(s) /\ DayIndex(weekday) \in Days
     THEN /\ req' = [req EXCEPT ![h].pc = "saveStats", ![h].copy = copy]
          /\ UNCHANGED api
     ELSE Exit(NodeOf[h])

ReadStats(h) ==
  /\ At(h, "readStats")
  /\ \E s \in Read(stats, ZeroStats) :
       \/ req[h].op = "CreateVoter" /\ CountNewVoter(h, s)
       \/ req[h].op = "RegisterVotingStep" /\ \E day \in Weekdays : CountNewVote(h, s, day)
  /\ UNCHANGED <<users, tables, history>>

SaveStats(h) ==
  /\ At(h, "saveStats")
  /\ stats' \in Written(req[h].copy, stats)
  /\ Answer(h, 0)
  /\ UNCHANGED <<api, users, voters, statuses, history>>

-----------------------------------------------------------------------------
(* Specification *)

Init ==
  /\ api = [n \in Nodes |-> "down"]
  /\ users = {}
  /\ voters = [s \in Students |-> NoBox]
  /\ statuses = [s \in Students |-> NoStatus]
  /\ stats = ZeroStats
  /\ req = [h \in Handlers |-> Idle]
  /\ steps = [s \in Students |-> 0]
  /\ recorded = [s \in Students |-> {}]
  /\ granted = [s \in Students |-> 0]
  /\ accepted = [s \in Students |-> 0]

Start ==
  \/ CommitteeMigrates
  \/ CommitteeServes
  \/ \E b \in BallotBoxes : CommitteeGrants(b) \/ BoxServes(b)

Call(h, s) ==
  \/ \E home \in BallotBoxes \cup {UnlistedBox} : ReceiveCreateVoter(h, s, home)
  \/ \E isAfternoon \in Afternoons : ReceiveVotingStep(h, s, isAfternoon)
  \/ ReceiveCheckVoterStatus(h, s)
  \/ ReceiveGetVoter(h, s)

Handle(h) ==
  \/ Find(h)
  \/ LookupNewVoter(h)
  \/ Lookup(h)
  \/ InsertVoter(h)
  \/ ReadStatus(h)
  \/ DeleteStatus(h)
  \/ InsertVoted(h)
  \/ InsertBallot(h)
  \/ ReadStats(h)
  \/ SaveStats(h)
  \/ Deliver(h)

Next ==
  \/ Start
  \/ \E n \in Nodes : Crash(n)
  \/ \E h \in Handlers : Handle(h) \/ \E s \in Students : Call(h, s)

Spec == Init /\ [][Next]_vars

\* A running handler goes on, and the restart loops of the GUI start the APIs;
\* no fairness for the clients, nor for crashes.
Fairness == WF_vars(Start) /\ \A h \in Handlers : WF_vars(Handle(h))

FairSpec == Spec /\ Fairness

-----------------------------------------------------------------------------
(* Properties *)

Registered == {s \in Students : voters[s] # NoBox}

Voted == {s \in Students : statuses[s].Status = 2}

Quiet == \A h \in Handlers : ~Writing(h)

TypeOK ==
  /\ api \in [Nodes -> {"down", "starting", "up"}]
  /\ users \in SUBSET BallotBoxes
  /\ voters \in [Students -> BallotBoxes \cup {NoBox}]
  /\ statuses \in [Students -> VoterStatus]
  /\ stats \in ElectionStats
  /\ req \in [Handlers -> Request \cup {Idle}]
  /\ steps \in [Students -> Nat]
  /\ recorded \in [Students -> SUBSET (1..2)]
  /\ granted \in [Students -> Nat]
  /\ accepted \in [Students -> Nat]

\* Whatever overlaps, fails or crashes, the saved row adds up: totals are the
\* sums over the boxes, a box's votes the sum over its days, a day's votes those
\* of morning and afternoon (stats.go increments five counters of a shared copy).
StatsAddUp ==
  LET Sum(f(_)) == SumFunction([b \in DOMAIN stats.BallotBoxs |-> f(stats.BallotBoxs[b])])
  IN /\ stats.TotalVotes = Sum(LAMBDA b : b.TotalVotes)
     /\ stats.TotalVoters = Sum(LAMBDA b : b.TotalVoters)
     /\ \A b \in DOMAIN stats.BallotBoxs :
          LET box == stats.BallotBoxs[b]
          IN /\ box.TotalVotes = SumFunction([d \in Days |-> box.VotesPerDay[d].Total])
             /\ box.VotesFromOtherBoxes <= box.TotalVotes
             /\ \A d \in Days : box.VotesPerDay[d].Total =
                  box.VotesPerDay[d].Morning + box.VotesPerDay[d].Afternoon

\* The statistics never show more voters than enc_voters has rows, though rows
\* and statistics are written by separate statements (CreateNewVoter).
VotersNeverOvercounted == stats.TotalVoters <= Cardinality(Registered)

\* Nobody is recorded as having voted who was not recorded with a ballot before
\* and is not registered, in every interleaving of DELETE and INSERT.
VotedHadBallot ==
  \A s \in Students :
    /\ 2 \in recorded[s] => 1 \in recorded[s]
    /\ recorded[s] # {} => s \in Registered

\* A status row that names ballot boxes is that of a cast vote, and names the
\* home box under which the student is registered (one vote in ten).
RowsNameHomeBox ==
  \A s \in Students : statuses[s].StudentBallotbox # NoBox =>
    /\ statuses[s].Status = 2
    /\ statuses[s].StudentBallotbox = voters[s]

\* README.md, requirement 1: "multiple voting is excluded".
AtMostOneVote == \A s \in Students : accepted[s] <= 1

\* A vote that was answered with OK is on record for good, across crashes of
\* the API and statements that fail to read.
AcceptedIsRecorded == \A s \in Students : accepted[s] > 0 => s \in Voted

\* RegisterVotingStep deletes rows, but never that of a cast vote.
VotedIsFinal == [][\A s \in Voted : statuses'[s] = statuses[s]]_vars

\* The statistics never show more votes than there are voters who voted, though
\* saves of different boxes overwrite each other (countVote).
VotesNeverOvercounted == stats.TotalVotes <= Cardinality(Voted)

\* Between two requests the statistics are those of the tables; README.md,
\* requirement 4: "The data must be consistent at all times".
StatsExact ==
  Quiet => /\ stats.TotalVotes = Cardinality(Voted)
           /\ stats.TotalVoters = Cardinality(Registered)

\* Between two requests, who was handed a ballot is recorded as having one, or
\* as having voted; README.md, requirement 4: "Data loss due to system crashes
\* must be prevented".  A crash between DELETE and INSERT breaks it.
BallotOnRecord ==
  Quiet => \A s \in Students : granted[s] > 0 => statuses[s].Status > 0

\* Every recorded vote is counted in the end, though the row is written first
\* and the statistics two statements later (README.md, requirement 1: "every
\* vote is recorded").
VotedIsCounted ==
  \A k \in 1..Cardinality(Students) :
    (Cardinality(Voted) >= k) ~> (stats.TotalVotes >= k)

\* The comment on currentDay (stats.go:119) has the index of a day stay in its
\* bounds; an index out of range ends the API process with all its requests.
ApiStaysUp == [][\A n \in Nodes : api[n] = "up" => api'[n] = "up"]_vars

-----------------------------------------------------------------------------
(* The registry implements the directory *)

\* Between the DELETE and the INSERT of a vote the voter still has a ballot.
Stage(s) ==
  IF s \in Voted THEN "voted"
  ELSE IF \/ statuses[s].Status = 1
          \/ \E h \in Handlers : At(h, "insertVoted") /\ req[h].voter = s
       THEN "ballot"
       ELSE IF s \in Registered THEN "registered" ELSE "unknown"

\* A process can end in the middle of a request: by a crash, a failed read of
\* the statistics or a vote on the weekend.
MayExit == Faults # {} \/ \E day \in Weekdays : DayIndex(day) \notin Days

Directory == INSTANCE ElectoralDirectory WITH
               progress <- [s \in Students |-> Stage(s)], MayLose <- MayExit

\* As long as a voter is served by one box at a time and no write fails
\* silently, the handlers behave as the atomic directory of the requirements.
DirectorySpec == Directory!Spec
=============================================================================
