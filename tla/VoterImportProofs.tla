------------------------- MODULE VoterImportProofs --------------------------
(***************************************************************************)
(* What an import of a file of voters achieves, for every file and any     *)
(* number of tools that walk through it at the same time.                  *)
(***************************************************************************)
EXTENDS VoterImport, VoterRegistryCounts

USE DEF Nodes, AllOperations, Labels, Codes

-----------------------------------------------------------------------------
(* Tools and their calls *)

ToolTypeOK ==
  /\ file \in Seq(Row)
  /\ kind \in [Tools -> {"cli", "gui", "check"}]
  /\ tool \in [Tools -> [pc : {"idle", "row", "call", "done", "dead"}, row : Nat]]
  /\ \A i \in Tools : tool[i].row \in DOMAIN file

Passed(i, k) == k < tool[i].row \/ Is(i, "done")

\* Whom the rows that an import has passed name.
Complete(i) ==
  ~Checks(i) => \A k \in Good : file[k].id # BadId /\ Passed(i, k) => file[k].id \in Registered

\* A call for a student with a home box: the student is registered from the
\* INSERT on, and when the answer is ready.
CreateOK(r, v, home) ==
  /\ r.op = "CreateVoter" /\ r.voter = v
  /\ r.pc \in {"lookup", "insertVoter"} => r.home = home
  /\ r.pc \in {"readStats", "saveStats", "reply"} /\ home \in BallotBoxes => v \in Registered

CallOK(i) ==
  Is(i, "call") /\ ~Checks(i) /\ InFlight(HandlerOf[i]) =>
    CreateOK(req[HandlerOf[i]], IdOf(Current(i)), Current(i).home)

ImportInv == ToolTypeOK /\ \A i \in Tools : Complete(i) /\ CallOK(i)

(* Each tool has a handler of its own at the committee's API. *)
LEMMA ToolHandler ==
  /\ \A i \in Tools : HandlerOf[i] \in Handlers /\ NodeOf[HandlerOf[i]] = Committee
  /\ \A i, j \in Tools : HandlerOf[i] = HandlerOf[j] => i = j
  BY ImportAssumption

(* A row names a student, or none; its home is a box, listed or not. *)
LEMMA RowType ==
  ASSUME ToolTypeOK, NEW i \in Tools
  PROVE  /\ Current(i) \in Row /\ IdOf(Current(i)) \in Students
         /\ Current(i).home \in BallotBoxes \cup {UnlistedBox}
         /\ Current(i).id # BadId => Current(i).id \in Students
<1>1. Current(i) \in Row
  BY DEF ToolTypeOK, Current
<1> QED BY <1>1, ImportAssumption DEF Row, IdOf

(* No tool has called anything when the tools are started. *)
LEMMA InitImport == ImportInit => TypeInv /\ ImportInv
<1> SUFFICES ASSUME ImportInit PROVE TypeInv /\ ImportInv
  OBVIOUS
<1>1. TypeInv
  BY InitType DEF ImportInit
<1>2. file \in Seq(Row) /\ file # <<>> /\ kind \in [Tools -> {"cli", "gui", "check"}]
  BY ImportAssumption DEF ImportInit
<1>3. 1 \in DOMAIN file /\ DOMAIN file = 1..Len(file)
  BY <1>2
<1>4. \A i \in Tools : tool[i] = [pc |-> "idle", row |-> 1]
  BY DEF ImportInit
<1>5. ToolTypeOK
  BY <1>2, <1>3, <1>4 DEF ToolTypeOK, ImportInit
<1>6. ASSUME NEW i \in Tools PROVE Complete(i) /\ CallOK(i)
  BY <1>3, <1>4 DEF Complete, CallOK, Passed, Is, Good
<1> QED BY <1>1, <1>5, <1>6 DEF ImportInv

-----------------------------------------------------------------------------
(* Rows of enc_voters *)

(* CreateNewVoter is the only writer of the table. *)
LEMMA OnlyInsertVoter ==
  ASSUME [Next]_vars, voters' # voters
  PROVE  \E h \in Handlers : InsertVoter(h)
  BY DEF Next, vars, tables, history, Start, CommitteeMigrates, CommitteeServes, CommitteeGrants,
     BoxServes, Crash, Call, ReceiveCreateVoter, ReceiveVotingStep, ReceiveCheckVoterStatus,
     ReceiveGetVoter, Handle, Find, LookupNewVoter, Lookup, ReadStatus, DeleteStatus, InsertVoted,
     InsertBallot, ReadStats, SaveStats, Deliver

(* Nothing removes a voter, or moves one to another box. *)
LEMMA RegisteredStays ==
  ASSUME TypeInv, [Next]_vars
  PROVE  /\ Registered \subseteq Registered'
         /\ \A s \in Registered : voters'[s] = voters[s]
<1>1. ASSUME NEW h \in Handlers, InsertVoter(h)
      PROVE  \A s \in Students : voters[s] # NoBox => voters'[s] = voters[s]
  BY <1>1 DEF InsertVoter, TypeInv, TypeOK
<1>2. \A s \in Students : voters[s] # NoBox => voters'[s] = voters[s]
  BY <1>1, OnlyInsertVoter
<1> QED BY <1>2 DEF Registered

(* When the answer of CreateVoter is ready, a student with a listed box is
   registered, whether by this call or before. *)
LEMMA CreateGoes ==
  ASSUME TypeInv, NoLostWrite, NEW h \in Handlers, NodeOf[h] = Committee, Handle(h), InFlight(h)',
         NEW v \in Students, NEW home, CreateOK(req[h], v, home)
  PROVE  CreateOK(req[h], v, home)'
<1> DEFINE r == req[h]
<1>1. r \in Request /\ LabelOK(h, r) /\ r.op = "CreateVoter" /\ r.voter = v
  BY HandlingRequest DEF CreateOK
<1>2. ASSUME NEW code, Answer(h, code), home \in BallotBoxes => v \in Registered'
      PROVE  CreateOK(req[h], v, home)'
  <2>1. req'[h] = [req[h] EXCEPT !.pc = "reply", !.code = code, !.copy = ZeroStats,
                                 !.home = NoBox, !.afternoon = FALSE]
    BY <1>2 DEF Answer, TypeInv, TypeOK
  <2>2. req'[h].pc = "reply" /\ req'[h].op = r.op /\ req'[h].voter = r.voter
    BY <1>1, <2>1 DEF Request
  <2> QED BY <1>1, <1>2, <2>2 DEF CreateOK
<1>3. ASSUME NEW label, Goto(h, label), label # "lookup", label = "insertVoter" => r.home = home,
             label \in {"readStats", "saveStats", "reply"} => v \in Registered'
      PROVE  CreateOK(req[h], v, home)'
  <2>1. req'[h] = [req[h] EXCEPT !.pc = label]
    BY <1>3 DEF Goto, TypeInv, TypeOK
  <2>2. /\ req'[h].pc = label /\ req'[h].op = r.op /\ req'[h].voter = r.voter
        /\ req'[h].home = r.home
    BY <1>1, <2>1 DEF Request
  <2> QED BY <1>1, <1>3, <2>2 DEF CreateOK
<1>4. CASE LookupNewVoter(h)
  <2>1. voters' = voters /\ r.pc = "lookup" /\ r.home = home
    BY <1>4 DEF LookupNewVoter, At, tables, CreateOK
  <2>2. PICK found \in Read(voters[r.voter], NoBox) :
          CASE found # NoBox -> Answer(h, 1)
            [] found = NoBox /\ r.home \notin BallotBoxes -> Answer(h, 4)
            [] OTHER -> Goto(h, "insertVoter")
    BY <1>4 DEF LookupNewVoter
  <2>3. CASE found # NoBox
    <3>1. v \in Registered'
      BY <1>1, <2>1, <2>2, <2>3 DEF Read, Registered
    <3> QED BY <1>2, <2>2, <2>3, <3>1
  <2>4. CASE found = NoBox /\ r.home \notin BallotBoxes
    BY <1>2, <2>1, <2>2, <2>4
  <2>5. CASE found = NoBox /\ r.home \in BallotBoxes
    BY <1>3, <2>1, <2>2, <2>5
  <2> QED BY <2>3, <2>4, <2>5
<1>5. CASE InsertVoter(h)
  <2>1. r.home \in BallotBoxes /\ r.home # NoBox
    BY <1>1, <1>5, BoxAssumption DEF InsertVoter, At, LabelOK
  <2>2. v \in Registered'
    BY <1>1, <1>5, <2>1 DEF InsertVoter, Written, NoLostWrite, Registered, TypeInv, TypeOK
  <2> QED BY <1>2, <1>3, <1>5, <2>2 DEF InsertVoter
<1>6. CASE ReadStats(h)
  <2>1. ~Exit(NodeOf[h])
    BY DEF Exit, InFlight, Idle
  <2>2. PICK s \in Read(stats, ZeroStats) :
          req' = [req EXCEPT ![h].pc = "saveStats", ![h].copy = CountVoter(s, req[h].home)]
    BY <1>1, <1>6, <2>1 DEF ReadStats, CountNewVoter
  <2>3. req'[h] = [req[h] EXCEPT !.pc = "saveStats", !.copy = CountVoter(s, req[h].home)]
    BY <2>2 DEF TypeInv, TypeOK
  <2>4. req'[h].pc = "saveStats" /\ req'[h].op = r.op /\ req'[h].voter = r.voter
    BY <1>1, <2>3 DEF Request
  <2>5. (home \in BallotBoxes => v \in Registered) /\ Registered' = Registered
    BY <1>6 DEF ReadStats, At, CreateOK, tables, Registered
  <2> QED BY <1>1, <2>4, <2>5 DEF CreateOK
<1>7. CASE SaveStats(h)
  BY <1>2, <1>7 DEF SaveStats, At, CreateOK, Registered
<1>8. CASE Deliver(h)
  BY <1>8 DEF Deliver, InFlight, Idle, TypeInv, TypeOK
<1>9. LookupNewVoter(h) \/ InsertVoter(h) \/ ReadStats(h) \/ SaveStats(h) \/ Deliver(h)
  BY <1>1 DEF Handle, Find, Lookup, ReadStatus, DeleteStatus, InsertVoted, InsertBallot, At, LabelOK
<1> QED BY <1>4, <1>5, <1>6, <1>7, <1>8, <1>9

-----------------------------------------------------------------------------
(* The tools are clients of the registry *)

(* Whatever a tool does is a step of the registry, or none. *)
LEMMA ImportStep ==
  ASSUME TypeInv, ToolTypeOK, [ImportNext]_importVars
  PROVE  [Next]_vars
<1>1. CASE UNCHANGED importVars
  BY <1>1 DEF importVars
<1>2. ASSUME NEW i \in Tools, Ask(i) PROVE Next
  <2>1. /\ Current(i).home \in BallotBoxes \cup {UnlistedBox}
        /\ IdOf(Current(i)) \in Students
        /\ Checks(i) => Current(i).id \in Students
    BY <1>2, RowType DEF Ask, Indigestible, Checks
  <2> QED BY <1>2, <2>1, ToolHandler DEF Ask, Next, Call
<1>3. ASSUME NEW i \in Tools, Take(i) PROVE Next
  BY <1>3, ToolHandler DEF Take, Next, Handle
<1>4. ASSUME NEW i \in Tools, Begin(i) \/ Stop(i) \/ CallFails(i) PROVE UNCHANGED vars
  BY <1>4 DEF Begin, Stop, CallFails
<1>5. ASSUME NEW h \in Handlers, Serve(h) PROVE Next
  BY <1>5 DEF Serve, Next
<1> QED BY <1>1, <1>2, <1>3, <1>4, <1>5 DEF ImportNext, Work, Next

(* The tools go on as they are while the registry works on a call. *)
LEMMA ToolsWait ==
  ASSUME ImportInv, UNCHANGED <<file, kind, tool>>, Registered \subseteq Registered',
         \A i \in Tools : CallOK(i)'
  PROVE  ImportInv'
<1>1. \A i \in Tools : Complete(i)'
  BY DEF ImportInv, Complete, Checks, Passed, Is, Good
<1> QED BY <1>1 DEF ImportInv, ToolTypeOK

(* One tool does a step; the calls of the others stay as they are. *)
LEMMA ToolMoves ==
  ASSUME ImportInv, UNCHANGED <<file, kind>>, UNCHANGED voters, NEW i \in Tools,
         NEW t, tool' = [tool EXCEPT ![i] = t],
         t \in [pc : {"idle", "row", "call", "done", "dead"}, row : Nat], t.row \in DOMAIN file,
         \A j \in Tools \ {i} : req'[HandlerOf[j]] = req[HandlerOf[j]],
         Complete(i)', CallOK(i)'
  PROVE  ImportInv'
<1>1. /\ tool'[i] = t /\ \A j \in Tools \ {i} : tool'[j] = tool[j]
  BY DEF ImportInv, ToolTypeOK
<1>2. ToolTypeOK'
  BY <1>1 DEF ImportInv, ToolTypeOK
<1>3. ASSUME NEW j \in Tools, j # i PROVE Complete(j)' /\ CallOK(j)'
  <2>1. Registered' = Registered /\ Good' = Good
    BY DEF Registered, Good
  <2>2. Complete(j)'
    BY <1>1, <1>3, <2>1 DEF ImportInv, Complete, Checks, Passed, Is
  <2>3. CallOK(j)'
    BY <1>1, <1>3, <2>1 DEF ImportInv, CallOK, CreateOK, Checks, Is, Current, InFlight, IdOf
  <2> QED BY <2>2, <2>3
<1> QED BY <1>2, <1>3 DEF ImportInv

(* A tool begins, or it ends before the end of the file. *)
LEMMA ToolEnds ==
  ASSUME ImportInv, UNCHANGED <<file, kind>>, UNCHANGED voters, NEW i \in Tools,
         NEW pc \in {"row", "dead"}, tool' = [tool EXCEPT ![i].pc = pc],
         \A j \in Tools \ {i} : req'[HandlerOf[j]] = req[HandlerOf[j]]
  PROVE  ImportInv'
<1> DEFINE t == [tool[i] EXCEPT !.pc = pc]
<1>0. /\ tool[i] \in [pc : {"idle", "row", "call", "done", "dead"}, row : Nat]
      /\ tool[i].row \in DOMAIN file
  BY DEF ImportInv, ToolTypeOK
<1>1. /\ t \in [pc : {"idle", "row", "call", "done", "dead"}, row : Nat]
      /\ t.pc = pc /\ t.row = tool[i].row /\ t.row \in DOMAIN file
  BY <1>0
<1>2. tool' = [tool EXCEPT ![i] = t]
  OBVIOUS
<1> HIDE DEF t
<1>3. tool'[i] = t
  BY <1>2 DEF ImportInv, ToolTypeOK
<1>4. Complete(i)'
  <2>1. Registered' = Registered /\ Good' = Good
    BY DEF Registered, Good
  <2> QED BY <1>1, <1>3, <2>1 DEF ImportInv, Complete, Checks, Passed, Is
<1>5. CallOK(i)'
  BY <1>1, <1>3 DEF CallOK, Is
<1> QED BY <1>1, <1>2, <1>4, <1>5, ToolMoves

(* A tool goes on to the next row, when the student of this one is registered. *)
LEMMA ToolAdvances ==
  ASSUME ImportInv, UNCHANGED <<file, kind>>, UNCHANGED voters, NEW i \in Tools, Advance(i),
         ~Checks(i) /\ Current(i).id # BadId /\ Current(i).home \in BallotBoxes
           => Current(i).id \in Registered,
         \A j \in Tools \ {i} : req'[HandlerOf[j]] = req[HandlerOf[j]]
  PROVE  ImportInv'
<1> DEFINE t == IF tool[i].row = Len(file) THEN [tool[i] EXCEPT !.pc = "done"]
                ELSE [tool[i] EXCEPT !.pc = "row", !.row = tool[i].row + 1]
<1>1. /\ tool[i] \in [pc : {"idle", "row", "call", "done", "dead"}, row : Nat]
      /\ DOMAIN file = 1..Len(file) /\ Len(file) \in Nat /\ tool[i].row \in 1..Len(file)
  BY DEF ImportInv, ToolTypeOK
<1>2. /\ t \in [pc : {"idle", "row", "call", "done", "dead"}, row : Nat]
      /\ t.row \in DOMAIN file /\ t.pc \in {"done", "row"}
      /\ \A k \in DOMAIN file : k < t.row \/ t.pc = "done" => k < tool[i].row \/ k = tool[i].row
  <2>1. CASE tool[i].row = Len(file)
    BY <1>1, <2>1
  <2>2. CASE tool[i].row # Len(file)
    <3>1. t = [tool[i] EXCEPT !.pc = "row", !.row = tool[i].row + 1]
      BY <2>2
    <3>2. tool[i].row + 1 \in DOMAIN file /\ tool[i].row + 1 \in Nat
      BY <1>1, <2>2
    <3>3. t.pc = "row" /\ t.row = tool[i].row + 1
      BY <1>1, <3>1
    <3>4. t \in [pc : {"idle", "row", "call", "done", "dead"}, row : Nat]
      BY <1>1, <3>1, <3>2
    <3> HIDE DEF t
    <3> QED BY <1>1, <3>2, <3>3, <3>4
  <2> QED BY <2>1, <2>2
<1>3. tool' = [tool EXCEPT ![i] = t]
  BY DEF Advance
<1> HIDE DEF t
<1>4. tool'[i] = t
  BY <1>3 DEF ImportInv, ToolTypeOK
<1>5. Complete(i)'
  <2>1. Registered' = Registered /\ Good' = Good /\ Checks(i)' = Checks(i)
    BY DEF Registered, Good, Checks
  <2> SUFFICES ASSUME ~Checks(i), NEW k \in Good, file[k].id # BadId, Passed(i, k)'
               PROVE  file[k].id \in Registered
    BY <2>1 DEF Complete
  <2>2. k < tool[i].row \/ k = tool[i].row
    BY <1>2, <1>4 DEF Passed, Is, Good
  <2>3. CASE k < tool[i].row
    BY <2>3 DEF ImportInv, Complete, Passed
  <2>4. CASE k = tool[i].row
    BY <2>4 DEF Good, Current
  <2> QED BY <2>2, <2>3, <2>4
<1>6. CallOK(i)'
  BY <1>2, <1>4 DEF CallOK, Is
<1> QED BY <1>2, <1>3, <1>5, <1>6, ToolMoves

(* The invariant of the imports; one step for each thing that a tool does. *)
LEMMA ImportInductive ==
  ASSUME NoLostWrite, TypeInv, ImportInv, [ImportNext]_importVars
  PROVE  ImportInv'
<1>0. [Next]_vars /\ Registered \subseteq Registered'
  BY ImportStep, RegisteredStays DEF ImportInv
<1>1. CASE UNCHANGED importVars
  BY <1>1 DEF importVars, vars, tables, ImportInv, ToolTypeOK, Complete, CallOK, CreateOK, Checks,
     Current, Passed, Is, Good, Registered, InFlight
<1>2. ASSUME NEW i \in Tools, Begin(i) \/ Stop(i) PROVE ImportInv'
  BY <1>2, ToolEnds DEF Begin, Stop, End, vars, tables
<1>3. ASSUME NEW i \in Tools, Ask(i) PROVE ImportInv'
  <2> DEFINE t == [tool[i] EXCEPT !.pc = "call"]
             h == HandlerOf[i]
  <2>1. PICK v, home, r : /\ v = IdOf(Current(i)) /\ home = Current(i).home
                          /\ r = NewRequest("CreateVoter", "lookup", v, home, FALSE)
    OBVIOUS
  <2>2. ~Checks(i) => req' = [req EXCEPT ![h] = r]
    BY <1>3, <2>1 DEF Ask, ReceiveCreateVoter, Receive
  <2>3. CreateOK(r, v, home)'
    BY <2>1 DEF CreateOK, NewRequest
  <2>4. /\ t \in [pc : {"idle", "row", "call", "done", "dead"}, row : Nat]
        /\ t.pc = "call" /\ t.row = tool[i].row /\ t.row \in DOMAIN file
    BY DEF ImportInv, ToolTypeOK
  <2>5. /\ tool' = [tool EXCEPT ![i] = t] /\ UNCHANGED <<file, kind>> /\ UNCHANGED voters
    BY <1>3 DEF Ask, ReceiveCreateVoter, ReceiveGetVoter, tables
  <2>6. \A g \in Handlers \ {h} : req'[g] = req[g]
    BY <1>3, ToolHandler DEF Ask, ReceiveCreateVoter, ReceiveGetVoter, Receive, TypeInv, TypeOK
  <2> HIDE DEF t
  <2>7. tool'[i] = t /\ Current(i)' = Current(i)
    BY <2>4, <2>5 DEF ImportInv, ToolTypeOK, Current
  <2>8. Complete(i)'
    BY <1>3, <2>4, <2>5, <2>7 DEF ImportInv, Complete, Checks, Passed, Is, Good, Registered, Ask
  <2>9. CallOK(i)'
    <3>1. ~Checks(i) => req'[h] = r
      BY <2>2, ToolHandler DEF TypeInv, TypeOK
    <3>2. Checks(i)' = Checks(i) /\ IdOf(Current(i))' = v /\ Current(i).home' = home
      BY <2>1, <2>5, <2>7 DEF Checks, IdOf
    <3> QED BY <2>3, <3>1, <3>2 DEF CallOK, CreateOK
  <2> QED BY <2>4, <2>5, <2>6, <2>8, <2>9, ToolMoves, ToolHandler
<1>4. ASSUME NEW i \in Tools, CallFails(i) PROVE ImportInv'
  <2>1. UNCHANGED <<file, kind>> /\ UNCHANGED voters /\ req' = req
    BY <1>4 DEF CallFails, vars, tables
  <2> QED BY <1>4, <2>1, ToolEnds, ToolAdvances DEF CallFails, NoAnswer, End
<1>5. ASSUME NEW i \in Tools, Take(i) PROVE ImportInv'
  <2> DEFINE h == HandlerOf[i]
  <2>1. UNCHANGED <<file, kind>> /\ UNCHANGED voters
    BY <1>5 DEF Take, Deliver, tables
  <2>2. \A g \in Handlers \ {h} : req'[g] = req[g]
    BY <1>5, ToolHandler DEF Take, Deliver, TypeInv, TypeOK
  <2>3. \A j \in Tools \ {i} : req'[HandlerOf[j]] = req[HandlerOf[j]]
    BY <2>2, ToolHandler
  <2>4. ~Checks(i) /\ Current(i).id # BadId /\ Current(i).home \in BallotBoxes
          => Current(i).id \in Registered
    BY <1>5 DEF Take, Deliver, At, InFlight, ImportInv, CallOK, CreateOK, IdOf
  <2> QED BY <1>5, <2>1, <2>3, <2>4, ToolEnds, ToolAdvances DEF Take, NoAnswer, End
<1>6. ASSUME \A g \in Handlers : req'[g] = req[g] \/ req'[g] = Idle,
             UNCHANGED <<file, kind, tool>>
      PROVE  ImportInv'
  <2>1. ASSUME NEW i \in Tools PROVE CallOK(i)'
    BY <1>0, <1>6, ToolHandler DEF ImportInv, CallOK, CreateOK, Checks, Is, Current, IdOf, InFlight, Idle
  <2> QED BY <1>0, <1>6, <2>1, ToolsWait
<1>7. CASE (Start \/ \E n \in Nodes : Crash(n)) /\ UNCHANGED <<file, kind, tool, results>>
  <2>1. \A g \in Handlers : req'[g] = req[g] \/ req'[g] = Idle
    BY <1>7 DEF Start, CommitteeMigrates, CommitteeServes, CommitteeGrants, BoxServes, Crash, Exit
  <2> QED BY <1>6, <1>7, <2>1
<1>8. ASSUME NEW h \in Handlers, Serve(h) PROVE ImportInv'
  <2>1. Handle(h) /\ UNCHANGED <<file, kind, tool>>
    BY <1>8 DEF Serve
  <2>2. \A g \in Handlers \ {h} : req'[g] = req[g] \/ req'[g] = Idle
    BY <2>1, Moves
  <2>3. ASSUME NEW i \in Tools, Is(i, "call"), ~Checks(i), InFlight(HandlerOf[i])'
        PROVE  CallOK(i)'
    <3>1. PICK v, home : v = IdOf(Current(i)) /\ home = Current(i).home
      OBVIOUS
    <3>2. v \in Students
      BY <3>1, RowType DEF ImportInv
    <3>3. InFlight(HandlerOf[i])
      BY <2>1, <2>2, <2>3, HandlingRequest, ToolHandler DEF InFlight, Idle
    <3>4. CreateOK(req[HandlerOf[i]], v, home)
      BY <2>3, <3>1, <3>3 DEF ImportInv, CallOK
    <3>5. CreateOK(req[HandlerOf[i]], v, home)'
      <4>1. CASE HandlerOf[i] = h
        BY <2>1, <2>3, <3>2, <3>4, <4>1, CreateGoes, ToolHandler
      <4>2. CASE HandlerOf[i] # h
        <5>1. req'[HandlerOf[i]] = req[HandlerOf[i]]
          BY <2>2, <2>3, <4>2, ToolHandler DEF InFlight, Idle
        <5> QED BY <1>0, <3>4, <5>1 DEF CreateOK
      <4> QED BY <4>1, <4>2
    <3>6. IdOf(Current(i))' = v /\ Current(i).home' = home
      BY <2>1, <3>1 DEF IdOf, Current
    <3> QED BY <3>5, <3>6 DEF CallOK
  <2>4. \A i \in Tools : CallOK(i)'
    BY <2>1, <2>3 DEF CallOK, Is, Checks
  <2> QED BY <1>0, <2>1, <2>4, ToolsWait
<1> QED BY <1>1, <1>2, <1>3, <1>4, <1>5, <1>7, <1>8 DEF ImportNext, Work

-----------------------------------------------------------------------------
(* The first good row *)

\* The committee's API works for the tools alone, on rows that they can digest.
Owned(h) ==
  InFlight(h) =>
    \E i \in Tools : /\ h = HandlerOf[i] /\ Is(i, "call")
                     /\ Checks(i) => req[h].op # "CreateVoter"

Fit(i) == Is(i, "call") => ~Indigestible(i)

OwnInv == (\A h \in Handlers : Owned(h)) /\ \A i \in Tools : Fit(i)

(* The API is idle when the tools are started. *)
LEMMA InitOwn == ImportInit => OwnInv
  BY DEF ImportInit, Init, Idle, OwnInv, Owned, Fit, InFlight, Is

(* A tool steps while no call of its own is in flight, before and after. *)
LEMMA OwnerSteps ==
  ASSUME ImportInv, OwnInv, UNCHANGED <<file, kind>>, NEW i \in Tools,
         NEW t, tool' = [tool EXCEPT ![i] = t], t.pc # "call", ~InFlight(HandlerOf[i])',
         \A g \in Handlers \ {HandlerOf[i]} : req'[g] = req[g]
  PROVE  OwnInv'
<1>1. tool'[i] = t /\ \A j \in Tools \ {i} : tool'[j] = tool[j]
  BY DEF ImportInv, ToolTypeOK
<1>2. ASSUME NEW g \in Handlers, InFlight(g)' PROVE Owned(g)'
  <2>1. g # HandlerOf[i] /\ req'[g] = req[g] /\ InFlight(g)
    BY <1>2 DEF InFlight
  <2>2. PICK j \in Tools : /\ g = HandlerOf[j] /\ Is(j, "call")
                           /\ Checks(j) => req[g].op # "CreateVoter"
    BY <2>1 DEF OwnInv, Owned
  <2>3. tool'[j] = tool[j]
    BY <1>1, <2>1, <2>2
  <2> QED BY <2>1, <2>2, <2>3 DEF Owned, Is, Checks
<1>3. ASSUME NEW j \in Tools PROVE Fit(j)'
  BY <1>1 DEF OwnInv, Fit, Is, Indigestible, Current, Checks
<1> QED BY <1>2, <1>3 DEF OwnInv, Owned

(* Requests go on or end, and the tools wait. *)
LEMMA OwnersWait ==
  ASSUME OwnInv, UNCHANGED <<file, kind, tool>>,
         \A g \in Handlers : \/ req'[g] = Idle
                             \/ InFlight(g) /\ req'[g].op = req[g].op
                             \/ req'[g] = req[g]
  PROVE  OwnInv'
<1>1. ASSUME NEW g \in Handlers, InFlight(g)' PROVE Owned(g)'
  <2>1. InFlight(g) /\ req'[g].op = req[g].op
    BY <1>1 DEF InFlight, Idle
  <2> QED BY <2>1 DEF OwnInv, Owned, Is, Checks
<1>2. ASSUME NEW j \in Tools PROVE Fit(j)'
  BY DEF OwnInv, Fit, Is, Indigestible, Current, Checks
<1> QED BY <1>1, <1>2 DEF OwnInv, Owned

(* A tool that calls: its handler was idle and gets this call. *)
LEMMA OwnerAsks ==
  ASSUME TypeInv, ImportInv, OwnInv, NEW i \in Tools, Ask(i)
  PROVE  OwnInv'
<1> DEFINE h == HandlerOf[i]
<1>1. UNCHANGED <<file, kind>> /\ tool' = [tool EXCEPT ![i].pc = "call"] /\ ~Indigestible(i)
  BY DEF Ask
<1>2. /\ tool[i] \in [pc : {"idle", "row", "call", "done", "dead"}, row : Nat]
      /\ tool'[i] = [tool[i] EXCEPT !.pc = "call"]
      /\ \A j \in Tools \ {i} : tool'[j] = tool[j]
  BY <1>1 DEF ImportInv, ToolTypeOK
<1>3. tool'[i].pc = "call" /\ tool'[i].row = tool[i].row
  BY <1>2
<1>4. /\ \A g \in Handlers \ {h} : req'[g] = req[g]
      /\ Checks(i) => req'[h].op = "GetVoter"
  BY ToolHandler DEF Ask, ReceiveCreateVoter, ReceiveGetVoter, Receive, NewRequest, TypeInv, TypeOK
<1>5. ASSUME NEW g \in Handlers, InFlight(g)' PROVE Owned(g)'
  <2>1. CASE g = h
    BY <1>1, <1>3, <1>4, <2>1 DEF Owned, Is, Checks
  <2>2. CASE g # h
    <3>1. req'[g] = req[g] /\ InFlight(g)
      BY <1>4, <1>5, <2>2 DEF InFlight
    <3>2. PICK j \in Tools : /\ g = HandlerOf[j] /\ Is(j, "call")
                             /\ Checks(j) => req[g].op # "CreateVoter"
      BY <3>1 DEF OwnInv, Owned
    <3>3. tool'[j] = tool[j]
      BY <1>2, <2>2, <3>2
    <3> QED BY <1>1, <3>1, <3>2, <3>3 DEF Owned, Is, Checks
  <2> QED BY <2>1, <2>2
<1>6. ASSUME NEW j \in Tools PROVE Fit(j)'
  BY <1>1, <1>2, <1>3 DEF OwnInv, Fit, Is, Indigestible, Current, Checks
<1> QED BY <1>5, <1>6 DEF OwnInv, Owned

(* Who works for whom stays clear, whatever fails. *)
LEMMA OwnInductive ==
  ASSUME TypeInv, ImportInv, OwnInv, [ImportNext]_importVars
  PROVE  OwnInv'
<1>1. CASE UNCHANGED importVars
  BY <1>1, OwnersWait DEF importVars, vars
<1>2. ASSUME NEW i \in Tools, Is(i, "idle") \/ Is(i, "row") \/ ~InFlight(HandlerOf[i])
      PROVE  ~InFlight(HandlerOf[i])
  BY <1>2, ToolHandler DEF OwnInv, Owned, Is
<1>3. ASSUME NEW i \in Tools, NEW pc, pc # "call", tool' = [tool EXCEPT ![i].pc = pc],
             UNCHANGED <<file, kind>>, ~InFlight(HandlerOf[i])',
             \A g \in Handlers \ {HandlerOf[i]} : req'[g] = req[g]
      PROVE  OwnInv'
  <2>1. PICK t : t = [tool[i] EXCEPT !.pc = pc]
    OBVIOUS
  <2>2. tool' = [tool EXCEPT ![i] = t]
    BY <1>3, <2>1
  <2>3. t.pc # "call"
    BY <1>3, <2>1 DEF ImportInv, ToolTypeOK
  <2> QED BY <1>3, <2>2, <2>3, OwnerSteps
<1>4. ASSUME NEW i \in Tools, Advance(i), UNCHANGED <<file, kind>>, ~InFlight(HandlerOf[i])',
             \A g \in Handlers \ {HandlerOf[i]} : req'[g] = req[g]
      PROVE  OwnInv'
  <2>1. PICK t : t = IF tool[i].row = Len(file) THEN [tool[i] EXCEPT !.pc = "done"]
                     ELSE [tool[i] EXCEPT !.pc = "row", !.row = tool[i].row + 1]
    OBVIOUS
  <2>2. tool' = [tool EXCEPT ![i] = t]
    BY <1>4, <2>1 DEF Advance
  <2>3. t.pc # "call"
    BY <2>1 DEF ImportInv, ToolTypeOK
  <2> QED BY <1>4, <2>2, <2>3, OwnerSteps
<1>5. ASSUME NEW i \in Tools, Begin(i) \/ Stop(i) PROVE OwnInv'
  <2>1. ~InFlight(HandlerOf[i]) /\ req' = req /\ UNCHANGED <<file, kind>>
    BY <1>2, <1>5 DEF Begin, Stop, vars
  <2> QED BY <1>3, <1>5, <2>1 DEF Begin, Stop, End, InFlight
<1>6. ASSUME NEW i \in Tools, CallFails(i) PROVE OwnInv'
  <2>1. ~InFlight(HandlerOf[i]) /\ req' = req /\ UNCHANGED <<file, kind>>
    BY <1>2, <1>6 DEF CallFails, vars, InFlight, Idle
  <2> QED BY <1>3, <1>4, <1>6, <2>1 DEF CallFails, NoAnswer, End, InFlight
<1>7. ASSUME NEW i \in Tools, Take(i) PROVE OwnInv'
  <2>1. /\ UNCHANGED <<file, kind>> /\ ~InFlight(HandlerOf[i])'
        /\ \A g \in Handlers \ {HandlerOf[i]} : req'[g] = req[g]
    BY <1>7, ToolHandler DEF Take, Deliver, InFlight, Idle, TypeInv, TypeOK
  <2> QED BY <1>3, <1>4, <1>7, <2>1 DEF Take, NoAnswer, End
<1>8. CASE (Start \/ \E n \in Nodes : Crash(n)) /\ UNCHANGED <<file, kind, tool, results>>
  <2>1. \A g \in Handlers : req'[g] = req[g] \/ req'[g] = Idle
    BY <1>8 DEF Start, CommitteeMigrates, CommitteeServes, CommitteeGrants, BoxServes, Crash, Exit
  <2> QED BY <1>8, <2>1, OwnersWait
<1>9. ASSUME NEW h \in Handlers, Serve(h) PROVE OwnInv'
  <2>1. Handle(h) /\ UNCHANGED <<file, kind, tool>> /\ InFlight(h)
    BY <1>9, HandlingRequest DEF Serve
  <2> QED BY <2>1, Moves, OwnersWait
<1> QED BY <1>1, <1>5, <1>6, <1>7, <1>8, <1>9, OwnerAsks DEF ImportNext, Work

(* The INSERT that succeeds is that of the first good row for its student: a
   row before it is one that the tool has passed, and would have registered. *)
LEMMA FirstRowInductive ==
  ASSUME NoLostWrite, TypeInv, ImportInv, OwnInv, FirstRowCounts, [ImportNext]_importVars
  PROVE  FirstRowCounts'
<1>1. [Next]_vars /\ file' = file
  BY ImportStep DEF ImportInv, ImportNext, importVars, Work, Begin, Stop, Ask, CallFails, Take, Serve
<1>2. Good' = Good
  BY <1>1 DEF Good
<1>3. ASSUME NEW s \in Registered', s \in Registered
      PROVE  \E k \in Good : /\ IdOf(file[k]) = s /\ file[k].home = voters'[s]
                             /\ \A j \in Good : file[j].id = s => j >= k
  <2>1. voters'[s] = voters[s]
    BY <1>1, <1>3, RegisteredStays
  <2> QED BY <1>3, <2>1 DEF FirstRowCounts
<1>4. ASSUME NEW s \in Registered', s \notin Registered
      PROVE  \E k \in Good : /\ IdOf(file[k]) = s /\ file[k].home = voters'[s]
                             /\ \A j \in Good : file[j].id = s => j >= k
  <2>1. voters' # voters /\ s \in Students /\ voters'[s] # NoBox /\ voters[s] = NoBox
    BY <1>4 DEF Registered
  <2>2. PICK h \in Handlers : InsertVoter(h)
    BY <1>1, <2>1, OnlyInsertVoter
  <2>3. /\ Handle(h) /\ InFlight(h) /\ req[h].pc = "insertVoter" /\ req[h].op = "CreateVoter"
        /\ req[h].home \in BallotBoxes
    BY <2>2, HandlingRequest DEF Handle, InsertVoter, At, LabelOK
  <2>4. s = req[h].voter /\ voters'[s] = req[h].home
    BY <2>1, <2>2 DEF InsertVoter, Written, NoLostWrite, TypeInv, TypeOK
  <2>5. PICK i \in Tools : h = HandlerOf[i] /\ Is(i, "call") /\ ~Checks(i)
    BY <2>3 DEF OwnInv, Owned
  <2>6. s = IdOf(Current(i)) /\ voters'[s] = Current(i).home
    BY <2>3, <2>4, <2>5 DEF ImportInv, CallOK, CreateOK
  <2>7. tool[i].row \in Good
    <3>1. Current(i).full
      BY <2>5, RowType DEF OwnInv, Fit, Indigestible, ImportInv, Row
    <3> QED BY <2>3, <2>4, <2>6, <3>1 DEF ImportInv, ToolTypeOK, Good, Current
  <2>8. ASSUME NEW j \in Good, file[j].id = s PROVE j >= tool[i].row
    <3>1. s # BadId
      BY <2>1, ImportAssumption
    <3>2. ~Passed(i, j)
      BY <1>4, <2>5, <2>8, <3>1 DEF ImportInv, Complete
    <3>3. j \in Nat /\ tool[i].row \in Nat
      BY DEF Good, ImportInv, ToolTypeOK
    <3> QED BY <3>2, <3>3 DEF Passed
  <2> QED BY <2>6, <2>7, <2>8 DEF Current
<1> QED BY <1>1, <1>2, <1>3, <1>4 DEF FirstRowCounts, IdOf

-----------------------------------------------------------------------------
(* Files, tools and reports have their types *)

\* What a validation has written, while its tool is at t.
Lines(t) == IF t.pc = "done" THEN Len(file) ELSE t.row - 1

\* A tool that has not begun is at the first row.
ReportOK(i) ==
  /\ Is(i, "idle") => tool[i].row = 1
  /\ Checks(i) => Len(report[i]) = Lines(tool[i])

ImportTypeInv ==
  /\ file \in Files /\ kind \in Kinds
  /\ ToolTypeOK
  /\ report \in [Tools -> Seq(0..2)]
  /\ \A i \in Tools : ReportOK(i)

(* The tools begin with the first row and with empty reports. *)
LEMMA InitImportType == ImportInit => ImportTypeInv
<1> SUFFICES ASSUME ImportInit PROVE ImportTypeInv
  OBVIOUS
<1>1. file \in Files /\ kind \in Kinds /\ ToolTypeOK
  BY InitImport DEF ImportInit, ImportInv
<1>2. report \in [Tools -> Seq(0..2)] /\ \A i \in Tools : Len(report[i]) = 0
  BY DEF ImportInit
<1>3. \A i \in Tools : tool[i] = [pc |-> "idle", row |-> 1]
  BY DEF ImportInit
<1> QED BY <1>1, <1>2, <1>3 DEF ImportTypeInv, ReportOK, Lines, Is

(* One tool goes from its place to t; its report has one line per row before t. *)
LEMMA ReportMoves ==
  ASSUME ImportTypeInv, UNCHANGED <<file, kind>>, NEW i \in Tools,
         NEW t, tool' = [tool EXCEPT ![i] = t], t.pc # "idle",
         t \in [pc : {"idle", "row", "call", "done", "dead"}, row : Nat], t.row \in DOMAIN file,
         NEW lines \in Seq(0..2), report' = [report EXCEPT ![i] = lines],
         Checks(i) => Len(lines) = Lines(t)
  PROVE  ImportTypeInv'
<1>1. /\ tool'[i] = t /\ \A j \in Tools \ {i} : tool'[j] = tool[j]
      /\ report'[i] = lines /\ \A j \in Tools \ {i} : report'[j] = report[j]
  BY DEF ImportTypeInv, ToolTypeOK
<1>2. ToolTypeOK'
  BY <1>1 DEF ImportTypeInv, ToolTypeOK
<1>3. report' \in [Tools -> Seq(0..2)]
  BY DEF ImportTypeInv
<1>4. ASSUME NEW j \in Tools PROVE ReportOK(j)'
  BY <1>1 DEF ImportTypeInv, ReportOK, Is, Checks, Lines
<1> QED BY <1>2, <1>3, <1>4 DEF ImportTypeInv

(* A tool goes on, after a line of the validation. *)
LEMMA ReportAdvances ==
  ASSUME ImportTypeInv, UNCHANGED <<file, kind>>, NEW i \in Tools, Advance(i),
         tool[i].pc \in {"row", "call"}, NEW code \in 0..2,
         IF Checks(i) THEN Write(i, code) ELSE UNCHANGED results
  PROVE  ImportTypeInv'
<1>1. /\ tool[i] \in [pc : {"idle", "row", "call", "done", "dead"}, row : Nat]
      /\ DOMAIN file = 1..Len(file) /\ Len(file) \in Nat /\ tool[i].row \in 1..Len(file)
      /\ report[i] \in Seq(0..2)
  BY DEF ImportTypeInv, ToolTypeOK
<1>2. Checks(i) => Len(report[i]) = tool[i].row - 1
  BY DEF ImportTypeInv, ReportOK, Is, Lines
<1>3. PICK lines : lines = IF Checks(i) THEN Append(report[i], code) ELSE report[i]
  OBVIOUS
<1>4. /\ lines \in Seq(0..2) /\ report' = [report EXCEPT ![i] = lines]
      /\ Checks(i) => Len(lines) = tool[i].row
  BY <1>1, <1>2, <1>3 DEF Write, results, ImportTypeInv
<1>5. CASE tool[i].row = Len(file)
  <2>1. PICK t : t = [tool[i] EXCEPT !.pc = "done"]
    OBVIOUS
  <2>2. tool' = [tool EXCEPT ![i] = t]
    BY <1>5, <2>1 DEF Advance
  <2>3. /\ t \in [pc : {"idle", "row", "call", "done", "dead"}, row : Nat]
        /\ t.pc = "done" /\ t.row = tool[i].row /\ t.row \in DOMAIN file
    BY <1>1, <2>1
  <2>4. Checks(i) => Len(lines) = Lines(t)
    BY <1>4, <1>5, <2>3 DEF Lines
  <2> QED BY <1>4, <2>2, <2>3, <2>4, ReportMoves
<1>6. CASE tool[i].row # Len(file)
  <2>1. PICK t : t = [tool[i] EXCEPT !.pc = "row", !.row = tool[i].row + 1]
    OBVIOUS
  <2>2. tool' = [tool EXCEPT ![i] = t]
    BY <1>6, <2>1 DEF Advance
  <2>3. tool[i].row + 1 \in DOMAIN file /\ tool[i].row + 1 \in Nat
    BY <1>1, <1>6
  <2>4. /\ t \in [pc : {"idle", "row", "call", "done", "dead"}, row : Nat]
        /\ t.pc = "row" /\ t.row = tool[i].row + 1
    BY <1>1, <2>1, <2>3
  <2>5. Checks(i) => Len(lines) = Lines(t)
    BY <1>1, <1>4, <2>4 DEF Lines
  <2> QED BY <1>4, <2>2, <2>3, <2>4, <2>5, ReportMoves
<1> QED BY <1>5, <1>6

(* A tool begins, calls, or ends; its report stays. *)
LEMMA ReportStays ==
  ASSUME ImportTypeInv, UNCHANGED <<file, kind>>, NEW i \in Tools, UNCHANGED report,
         tool[i].pc \in {"idle", "row", "call"}, NEW pc \in {"row", "call", "dead"},
         tool' = [tool EXCEPT ![i].pc = pc]
  PROVE  ImportTypeInv'
<1>1. PICK t : t = [tool[i] EXCEPT !.pc = pc]
  OBVIOUS
<1>2. /\ tool[i] \in [pc : {"idle", "row", "call", "done", "dead"}, row : Nat]
      /\ tool[i].row \in DOMAIN file /\ report[i] \in Seq(0..2)
  BY DEF ImportTypeInv, ToolTypeOK
<1>3. /\ t \in [pc : {"idle", "row", "call", "done", "dead"}, row : Nat]
      /\ t.pc = pc /\ t.row = tool[i].row
  BY <1>1, <1>2
<1>4. tool' = [tool EXCEPT ![i] = t] /\ report' = [report EXCEPT ![i] = report[i]]
  BY <1>1 DEF ImportTypeInv
<1>5. Checks(i) => Len(report[i]) = Lines(t)
  BY <1>2, <1>3 DEF ImportTypeInv, ReportOK, Is, Lines
<1> QED BY <1>2, <1>3, <1>4, <1>5, ReportMoves

(* No step of a tool or of the registry breaks the types. *)
LEMMA ImportTypeInductive ==
  ASSUME TypeInv, ImportTypeInv, [ImportNext]_importVars
  PROVE  ImportTypeInv'
<1>1. ASSUME UNCHANGED <<file, kind, tool, report>> PROVE ImportTypeInv'
  BY <1>1 DEF ImportTypeInv, ToolTypeOK, ReportOK, Is, Checks, Lines
<1>2. ASSUME NEW i \in Tools, Begin(i) \/ Stop(i) \/ Ask(i) PROVE ImportTypeInv'
  <2>1. /\ UNCHANGED <<file, kind>> /\ UNCHANGED report
        /\ tool[i].pc \in {"idle", "row", "call"}
        /\ \E pc \in {"row", "call", "dead"} : tool' = [tool EXCEPT ![i].pc = pc]
    BY <1>2 DEF Begin, Stop, Ask, End, results, Is
  <2> QED BY <2>1, ReportStays
<1>3. ASSUME NEW i \in Tools, NoAnswer(i), UNCHANGED <<file, kind>>, tool[i].pc \in {"row", "call"}
      PROVE  ImportTypeInv'
  <2>1. CASE Advance(i) /\ IF Checks(i) THEN Write(i, 0) ELSE UNCHANGED results
    BY <1>3, <2>1, ReportAdvances
  <2>2. CASE End(i) /\ UNCHANGED results
    BY <1>3, <2>2, ReportStays DEF End, results
  <2> QED BY <1>3, <2>1, <2>2 DEF NoAnswer
<1>4. ASSUME NEW i \in Tools, CallFails(i) PROVE ImportTypeInv'
  BY <1>3, <1>4 DEF CallFails, Is
<1>5. ASSUME NEW i \in Tools, Take(i) PROVE ImportTypeInv'
  <2>1. UNCHANGED <<file, kind>> /\ tool[i].pc \in {"row", "call"}
    BY <1>5 DEF Take, Is
  <2>2. req[HandlerOf[i]].seen \in 0..2
    <3>1. Handle(HandlerOf[i])
      BY <1>5 DEF Take, Handle
    <3> QED BY <3>1, HandlingRequest, ToolHandler DEF Request
  <2> QED BY <1>3, <1>5, <2>1, <2>2, ReportAdvances DEF Take
<1> QED BY <1>1, <1>2, <1>4, <1>5 DEF ImportNext, importVars, Work, Serve, results

-----------------------------------------------------------------------------
(* Theorems *)

(* The invariants of tools and registry, together. *)
LEMMA ImportAlways == ASSUME NoLostWrite PROVE ImportSpec => [](TypeInv /\ ImportInv)
<1>1. ImportInit => TypeInv /\ ImportInv
  BY InitImport
<1>2. TypeInv /\ ImportInv /\ [ImportNext]_importVars => (TypeInv /\ ImportInv)'
  BY ImportStep, TypeInductive, ImportInductive DEF ImportInv
<1> QED BY <1>1, <1>2, PTL DEF ImportSpec

(* `gen voter' and the import of the GUI leave nobody out: when one has come to
   the end of the file, each student whom a row names with a listed ballot box is
   registered, although the answers of CreateVoter are not looked at, reads fail,
   the API process ends at any step, and other tools write at the same time. *)
THEOREM ImportComplete == ASSUME NoLostWrite PROVE ImportSpec => []FinishedImportIsComplete
<1>1. ImportInv => FinishedImportIsComplete
  BY DEF ImportInv, Complete, Passed, FinishedImportIsComplete
<1> QED BY <1>1, ImportAlways, PTL

(* Imports that overlap, fail and are repeated count each voter at most once
   (CreateNewVoter counts after its INSERT, in statements of their own). *)
THEOREM ImportCountsOnce ==
  ASSUME Finite, NoLostWrite PROVE ImportSpec => []VotersNeverOvercounted
<1>1. ImportInit => VotersInv
  BY InitVoters DEF ImportInit
<1>2. TypeInv /\ ImportInv /\ (TypeInv /\ ImportInv)' /\ VotersInv /\ [ImportNext]_importVars => VotersInv'
  BY ImportStep, VotersInductive DEF ImportInv
<1>3. TypeInv /\ VotersInv => VotersNeverOvercounted
  <2> SUFFICES ASSUME TypeInv, VotersInv PROVE VotersNeverOvercounted
    OBVIOUS
  <2> QED BY CountsType, TotalsType DEF VotersInv, VoterBound, VotersNeverOvercounted
<1> QED BY <1>1, <1>2, <1>3, ImportAlways, PTL DEF ImportSpec

(* A student has the home ballot box of the first good row, for any number of
   imports of any file at the same time, with failing reads and an API that ends
   at any step (CreateNewVoter, with the primary key of enc_voters). *)
THEOREM FirstRowWins == ASSUME NoLostWrite PROVE ImportSpec => []FirstRowCounts
<1>1. ImportInit => OwnInv /\ FirstRowCounts
  <2>1. ImportInit => Registered = {}
    BY DEF ImportInit, Init, Registered
  <2> QED BY <2>1, InitOwn DEF FirstRowCounts
<1>2. TypeInv /\ ImportInv /\ OwnInv /\ FirstRowCounts /\ [ImportNext]_importVars
        => (OwnInv /\ FirstRowCounts)'
  BY OwnInductive, FirstRowInductive
<1> QED BY <1>1, <1>2, ImportAlways, PTL DEF ImportSpec

(* The tools walk through the file row by row, and a validation has written one
   line for each row that it has passed, also for calls that failed, whatever
   fails in the registry, the database or the API (check, gen voter).  Nothing
   is assumed of lost writes. *)
THEOREM ImportTypeCorrect == ImportSpec => []ImportTypeOK
<1>1. ImportInit => TypeInv /\ ImportTypeInv
  BY InitImport, InitImportType
<1>2. TypeInv /\ ImportTypeInv /\ [ImportNext]_importVars => (TypeInv /\ ImportTypeInv)'
  BY ImportStep, TypeInductive, ImportTypeInductive DEF ImportTypeInv
<1>3. ImportTypeInv => ImportTypeOK
  <2> SUFFICES ASSUME ImportTypeInv PROVE ImportTypeOK
    OBVIOUS
  <2>1. tool \in [Tools -> [pc : {"idle", "row", "call", "done", "dead"}, row : DOMAIN file]]
    BY DEF ImportTypeInv, ToolTypeOK
  <2>2. ASSUME NEW i \in Tools, Checks(i)
        PROVE  Len(report[i]) = IF Is(i, "done") THEN Len(file)
                                ELSE IF Is(i, "idle") THEN 0 ELSE tool[i].row - 1
    BY <2>2 DEF ImportTypeInv, ReportOK, Is, Lines
  <2> QED BY <2>1, <2>2 DEF ImportTypeInv, ImportTypeOK
<1> QED BY <1>1, <1>2, <1>3, PTL DEF ImportSpec
=============================================================================
