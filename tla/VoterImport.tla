---------------------------- MODULE VoterImport ----------------------------
(***************************************************************************)
(* The tools that walk through the file of voters and call the committee's *)
(* API for each row: `campusvote gen voter' (kind "cli"), the import of    *)
(* the GUI, createVoterDatabase ("gui"), and `campusvote check' ("check"), *)
(* which compares the file with the database.                              *)
(*                                                                         *)
(* Composed with VoterRegistry: a call of a tool is a request of its own   *)
(* handler.  Tools overlap, stop at the first row they cannot digest, and  *)
(* are started again as another tool.                                      *)
(***************************************************************************)
EXTENDS VoterRegistry, Sequences

CONSTANTS
  Files,      \* the files there may be: their rows without the header
  BadId,      \* an id in the file that is not a number
  Zero,       \* the student id 0
  Tools,
  Kinds,      \* what the tools may be: "cli", "gui" or "check", for each
  HandlerOf   \* the handler of the committee's API that serves a tool

Row == [id : Students \cup {BadId}, home : BallotBoxes \cup {UnlistedBox}, full : BOOLEAN]

ASSUME ImportAssumption ==
  /\ BadId \notin Students /\ Zero \in Students
  /\ Files \subseteq Seq(Row) \ {<<>>}
  /\ Kinds \subseteq [Tools -> {"cli", "gui", "check"}]
  /\ HandlerOf \in [Tools -> Handlers]
  /\ \A i, j \in Tools : HandlerOf[i] = HandlerOf[j] => i = j
  /\ \A i \in Tools : NodeOf[HandlerOf[i]] = Committee

VARIABLES
  file,    \* the file that all tools read
  kind,    \* what the tools are
  tool,    \* where each tool is
  report,  \* campus_vote_validation.csv of each tool, not yet flushed
  truth    \* history: whether the student of a line was registered

results == <<report, truth>>
importVars == <<vars, file, kind, tool, results>>

-----------------------------------------------------------------------------
(* Rows *)

Checks(i) == kind[i] = "check"

Current(i) == file[tool[i].row]

\* ParseInt: after a failure the id is 0, and the call is made nevertheless.
IdOf(row) == IF row.id = BadId THEN Zero ELSE row.id

\* A row that ends the tool before it calls: parseLongInt ends the process or
\* throws (not in `gen voter', which only logs); a cell is missing.
Indigestible(i) ==
  \/ Current(i).id = BadId /\ kind[i] # "cli"
  \/ ~Current(i).full /\ ~Checks(i)

-----------------------------------------------------------------------------
(* Steps of a tool *)

Is(i, pc) == tool[i].pc = pc

End(i) == tool' = [tool EXCEPT ![i].pc = "dead"]

\* Mutant: the end of the file is seen one row too late.
AdvanceBeyond(i) ==
  tool' = [tool EXCEPT ![i] = IF tool[i].row > Len(file) THEN [tool[i] EXCEPT !.pc = "done"]
                              ELSE [tool[i] EXCEPT !.pc = "row", !.row = tool[i].row + 1]]

Advance(i) ==
  tool' = [tool EXCEPT ![i] = IF tool[i].row = Len(file) THEN [tool[i] EXCEPT !.pc = "done"]
                              ELSE [tool[i] EXCEPT !.pc = "row", !.row = tool[i].row + 1]]

\* A line of the validation; status 0 reads "Wahlberechtigt".
Write(i, status) ==
  /\ report' = [report EXCEPT ![i] = Append(report[i], status)]
  /\ truth' = [truth EXCEPT ![i] = Append(truth[i], Current(i).id \in Registered)]

Begin(i) ==
  /\ Is(i, "idle")
  /\ tool' = [tool EXCEPT ![i].pc = "row"]
  /\ UNCHANGED <<vars, file, kind, results>>

Stop(i) ==
  /\ Is(i, "row")
  /\ Indigestible(i)
  /\ End(i)
  /\ UNCHANGED <<vars, file, kind, results>>

Ask(i) ==
  LET h == HandlerOf[i]
      row == Current(i)
  IN /\ Is(i, "row")
     /\ ~Indigestible(i)
     /\ IF Checks(i) THEN ReceiveGetVoter(h, row.id)
        ELSE ReceiveCreateVoter(h, IdOf(row), row.home)
     /\ tool' = [tool EXCEPT ![i].pc = "call"]
     /\ UNCHANGED <<file, kind, results>>

\* Mutant: the errors of all calls are dropped, and no answer is looked at.
NoAnswerIgnored(i) ==
  /\ Advance(i)
  /\ IF Checks(i) THEN Write(i, 0) ELSE UNCHANGED results

\* Mutant: a call without an answer is made again, and again.
NoAnswerRetried(i) ==
  /\ tool' = [tool EXCEPT ![i].pc = "row"]
  /\ UNCHANGED results

\* The call fails.  `gen voter' dereferences the missing status, but for a row
\* whose id it could not parse; the GUI's call throws; the validation takes the
\* missing voter for one with status 0.
NoAnswer(i) ==
  IF Checks(i) THEN Write(i, 0) /\ Advance(i)
  ELSE /\ IF kind[i] = "cli" /\ Current(i).id = BadId THEN Advance(i) ELSE End(i)
       /\ UNCHANGED results

\* The API cannot be reached, or ended during the call.
CallFails(i) ==
  LET h == HandlerOf[i]
  IN /\ \/ Is(i, "row") /\ ~Indigestible(i) /\ api[Committee] # "up"
        \/ Is(i, "call") /\ req[h] = Idle
     /\ NoAnswer(i)
     /\ UNCHANGED <<vars, file, kind>>

\* The codes of CreateVoter are only logged.  A student who is not found is an
\* error of the call.
Take(i) ==
  LET h == HandlerOf[i]
      r == req[h]
  IN /\ Is(i, "call")
     /\ Deliver(h)
     /\ UNCHANGED <<file, kind>>
     /\ IF r.code = -1 THEN NoAnswer(i)
        ELSE /\ Advance(i)
             /\ IF Checks(i) THEN Write(i, r.seen) ELSE UNCHANGED results

-----------------------------------------------------------------------------
(* Specification *)

ImportInit ==
  /\ Init
  /\ file \in Files
  /\ kind \in Kinds
  /\ tool = [i \in Tools |-> [pc |-> "idle", row |-> 1]]
  /\ report = [i \in Tools |-> <<>>]
  /\ truth = [i \in Tools |-> <<>>]

Work(i) == Stop(i) \/ Ask(i) \/ CallFails(i) \/ Take(i)

\* The answer waits for the tool.
Serve(h) == ~At(h, "reply") /\ Handle(h) /\ UNCHANGED <<file, kind, tool, results>>

ImportNext ==
  \/ \E i \in Tools : Begin(i) \/ Work(i)
  \/ (Start \/ \E n \in Nodes : Crash(n)) /\ UNCHANGED <<file, kind, tool, results>>
  \/ \E h \in Handlers : Serve(h)

ImportSpec == ImportInit /\ [][ImportNext]_importVars

\* A tool that runs goes on; fairness of the API as in VoterRegistry.
FairImportSpec ==
  /\ ImportSpec
  /\ \A i \in Tools : WF_importVars(Work(i))
  /\ \A h \in Handlers : WF_importVars(Serve(h))

-----------------------------------------------------------------------------
(* Properties *)

ImportTypeOK ==
  /\ file \in Files /\ kind \in Kinds
  /\ tool \in [Tools -> [pc : {"idle", "row", "call", "done", "dead"}, row : DOMAIN file]]
  /\ report \in [Tools -> Seq(0..2)]
  /\ \A i \in Tools : Checks(i) =>
       Len(report[i]) = IF Is(i, "done") THEN Len(file)
                        ELSE IF Is(i, "idle") THEN 0 ELSE tool[i].row - 1

\* The rows for which CreateNewVoter can register a student.
Good == {k \in DOMAIN file : file[k].full /\ file[k].home \in BallotBoxes}

\* Once an import has come to the end of the file, every student whom a row
\* names with a listed ballot box is registered, across failing reads, an API
\* that ends, and other imports of the same file (`gen voter': a panic is the
\* only sign of the rows that are missing).
FinishedImportIsComplete ==
  \A i \in Tools : Is(i, "done") /\ ~Checks(i) =>
    \A k \in Good : file[k].id # BadId => file[k].id \in Registered

\* A student is registered with the home ballot box of a row that names him or
\* her, and of the first good one that does, whichever import registered it and
\* whatever fails (CreateNewVoter; calls are made one after the other).  Student
\* 0 may be registered by a row whose id is not a number.
FirstRowCounts ==
  \A s \in Registered : \E k \in Good :
    /\ IdOf(file[k]) = s /\ file[k].home = voters[s]
    /\ \A j \in Good : file[j].id = s => j >= k

\* A tool that was started ends, with or without a panic (every call has an
\* answer or an error).
ToolsEnd == \A i \in Tools : []<>(tool[i].pc \in {"idle", "done", "dead"})

\* client_cmd.go:101 has an answer for those who are not in the database,
\* "Konnte nicht gefunden werden.": status 0, "Wahlberechtigt", is only written
\* for registered students.
EligibleIsRegistered ==
  \A i \in Tools : Is(i, "done") => \A k \in DOMAIN report[i] : report[i][k] = 0 => truth[i][k]
=============================================================================
