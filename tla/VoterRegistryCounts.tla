------------------------ MODULE VoterRegistryCounts ------------------------
(***************************************************************************)
(* The totals of election_stats and the rows they count.  A row is written *)
(* first and counted two statements later, on a copy that other requests   *)
(* may have overtaken: counts get lost, but none is ever made up, and what *)
(* is saved adds up.  When one request writes at a time and nothing fails  *)
(* the counts are exact; and no ballot that was handed out is forgotten.   *)
(***************************************************************************)
EXTENDS VoterRegistryProofs, FiniteSetTheorems, WellFoundedInduction

USE DEF Nodes, AllOperations, Labels, Codes

Finite == IsFiniteSet(Students) /\ IsFiniteSet(Handlers)

\* The requests that have written their row and have not read the statistics yet.
Counting(op) == {h \in Handlers : At(h, "readStats") /\ req[h].op = op}

(* A set loses elements, or gains one while another set gains one as well. *)
LEMMA GainsTogether ==
  ASSUME NEW A, NEW B, NEW R, NEW S, IsFiniteSet(A), IsFiniteSet(S), R \subseteq S,
         \/ B \subseteq A
         \/ \E h : \E v \in S \ R : B \subseteq A \cup {h}
  PROVE  Cardinality(B) + Cardinality(R) <= Cardinality(A) + Cardinality(S)
<1>1. /\ IsFiniteSet(R) /\ Cardinality(R) <= Cardinality(S)
      /\ Cardinality(R) \in Nat /\ Cardinality(S) \in Nat /\ Cardinality(A) \in Nat
  BY FS_Subset, FS_CardinalityType
<1>2. CASE B \subseteq A
  <2>1. Cardinality(B) <= Cardinality(A) /\ Cardinality(B) \in Nat
    BY <1>2, FS_Subset, FS_CardinalityType
  <2> QED BY <1>1, <2>1
<1>3. ASSUME NEW h, NEW v \in S \ R, B \subseteq A \cup {h}
      PROVE  Cardinality(B) + Cardinality(R) <= Cardinality(A) + Cardinality(S)
  <2>1. /\ IsFiniteSet(A \cup {h})
        /\ Cardinality(A \cup {h}) \in {Cardinality(A), Cardinality(A) + 1}
    BY FS_AddElement
  <2>2. Cardinality(B) <= Cardinality(A \cup {h}) /\ Cardinality(B) \in Nat
    BY <1>3, <2>1, FS_Subset, FS_CardinalityType
  <2>3. Cardinality(R \cup {v}) = Cardinality(R) + 1
    BY <1>1, FS_AddElement
  <2>4. R \cup {v} \in SUBSET S
    OBVIOUS
  <2>5. Cardinality(R \cup {v}) <= Cardinality(S)
    BY <2>4, FS_Subset
  <2> QED BY <1>1, <2>1, <2>2, <2>3, <2>5
<1> QED BY <1>2, <1>3

(* What is counted and what is to be counted are numbers. *)
LEMMA CountsType ==
  ASSUME Finite, NEW op
  PROVE  /\ IsFiniteSet(Counting(op)) /\ Cardinality(Counting(op)) \in Nat
         /\ IsFiniteSet(Registered) /\ Cardinality(Registered) \in Nat
         /\ IsFiniteSet(Voted) /\ Cardinality(Voted) \in Nat
         /\ IsFiniteSet(Counting(op)') /\ Cardinality(Counting(op)') \in Nat
         /\ IsFiniteSet(Registered') /\ Cardinality(Registered') \in Nat
         /\ IsFiniteSet(Voted') /\ Cardinality(Voted') \in Nat
<1>1. Counting(op) \in SUBSET Handlers /\ Registered \in SUBSET Students /\ Voted \in SUBSET Students
  BY DEF Counting, Registered, Voted
<1>2. Counting(op)' \in SUBSET Handlers /\ Registered' \in SUBSET Students /\ Voted' \in SUBSET Students
  BY DEF Counting, Registered, Voted
<1> QED BY <1>1, <1>2, FS_Subset, FS_CardinalityType DEF Finite

(* A request comes to the statistics only by an INSERT. *)
LEMMA CountingGains ==
  ASSUME TypeInv, [Next]_vars, NEW op
  PROVE  \/ Counting(op)' \subseteq Counting(op)
         \/ \E h \in Handlers :
              /\ InsertVoter(h) \/ InsertVoted(h)
              /\ Goto(h, "readStats") /\ req[h].op = op
              /\ Counting(op)' \subseteq Counting(op) \cup {h}
<1> DEFINE Kept1 == \A g \in Handlers : At(g, "readStats")' => req'[g] = req[g]
<1>1. Kept1 => Counting(op)' \subseteq Counting(op)
  BY DEF Counting, At
<1>2. CASE UNCHANGED vars
  BY <1>1, <1>2 DEF vars
<1>3. CASE Start
  BY <1>1, <1>3 DEF Start, CommitteeMigrates, CommitteeServes, CommitteeGrants, BoxServes
<1>4. ASSUME NEW n \in Nodes, Crash(n) PROVE Kept1
  BY <1>4 DEF Crash, Exit, At, Idle
<1>5. ASSUME NEW h \in Handlers, Handle(h)
      PROVE  \/ Counting(op)' \subseteq Counting(op)
             \/ /\ InsertVoter(h) \/ InsertVoted(h)
                /\ Goto(h, "readStats") /\ req[h].op = op
                /\ Counting(op)' \subseteq Counting(op) \cup {h}
  <2>1. \A g \in Handlers \ {h} : At(g, "readStats")' => req'[g] = req[g]
    BY <1>5, Moves DEF At, Idle
  <2>2. Counting(op)' \subseteq Counting(op) \cup {h}
    BY <2>1 DEF Counting, At
  <2>3. CASE h \notin Counting(op)'
    BY <2>2, <2>3
  <2>4. CASE h \in Counting(op)'
    <3>1. req'[h].pc = "readStats" /\ req'[h].op = op
      BY <2>4 DEF Counting, At
    <3> QED BY <1>5, <2>2, <3>1, Moves DEF Idle
  <2> QED BY <2>3, <2>4
<1>6. ASSUME NEW h \in Handlers, NEW s \in Students, Call(h, s) PROVE Kept1
  <2>1. ASSUME NEW o, NEW label \in {"find", "lookup"}, NEW home, NEW isAfternoon,
               Receive(h, o, NewRequest(o, label, s, home, isAfternoon))
        PROVE  Kept1
    BY <2>1 DEF Receive, NewRequest, TypeInv, TypeOK, At
  <2> QED BY <1>6, <2>1 DEF Call, ReceiveCreateVoter, ReceiveVotingStep, ReceiveCheckVoterStatus,
                            ReceiveGetVoter
<1> QED BY <1>1, <1>2, <1>3, <1>4, <1>5, <1>6 DEF Next

(* A request that counts is no longer one that is going to. *)
LEMMA CountedOnce ==
  ASSUME Finite, TypeInv, NEW h \in Handlers, Counted(h), req'[h].pc = "saveStats",
         \A g \in Handlers \ {h} : req'[g] = req[g] \/ req'[g] = Idle,
         NEW op, req[h].op = op
  PROVE  Cardinality(Counting(op)') + 1 <= Cardinality(Counting(op))
<1>1. h \in Counting(op)
  BY DEF Counting, Counted, ReadStats
<1>2. Counting(op)' \subseteq Counting(op) \ {h}
  BY DEF Counting, At, Idle
<1>3. IsFiniteSet(Counting(op)) /\ Cardinality(Counting(op)) \in Nat
  BY CountsType
<1>4. /\ IsFiniteSet(Counting(op) \ {h})
      /\ Cardinality(Counting(op) \ {h}) = Cardinality(Counting(op)) - 1
  BY <1>1, <1>3, FS_RemoveElement
<1>5. Cardinality(Counting(op)') <= Cardinality(Counting(op) \ {h}) /\ Cardinality(Counting(op)') \in Nat
  BY <1>2, <1>4, FS_Subset, FS_CardinalityType
<1> QED BY <1>3, <1>4, <1>5

(* Where the row of the statistics comes from. *)
LEMMA StatsSources ==
  ASSUME TypeInv, [Next]_vars
  PROVE  \/ stats' = stats
         \/ stats' = newStats
         \/ \E h \in Handlers : At(h, "saveStats") /\ stats' = req[h].copy
<1>1. CASE UNCHANGED vars
  BY <1>1 DEF vars, tables
<1>2. CASE Start
  BY <1>2 DEF Start, CommitteeMigrates, CommitteeServes, CommitteeGrants, BoxServes, tables, Written
<1>3. ASSUME NEW h \in Handlers, SaveStats(h)
      PROVE  stats' = stats \/ (At(h, "saveStats") /\ stats' = req[h].copy)
  BY <1>3 DEF SaveStats, Written
<1>4. ASSUME NEW h \in Handlers, Handle(h), ~SaveStats(h) PROVE stats' = stats
  BY <1>4 DEF Handle, Find, LookupNewVoter, Lookup, InsertVoter, ReadStatus,
     DeleteStatus, InsertVoted, InsertBallot, ReadStats, Deliver, tables
<1>5. ASSUME NEW h \in Handlers, NEW s \in Students, Call(h, s) PROVE stats' = stats
  BY <1>5 DEF Call, ReceiveCreateVoter, ReceiveVotingStep, ReceiveCheckVoterStatus,
              ReceiveGetVoter, tables
<1> QED BY <1>1, <1>2, <1>3, <1>4, <1>5 DEF Next, Crash, tables

(* Where a copy that is to be saved comes from. *)
LEMMA CopySources ==
  ASSUME TypeInv, [Next]_vars, NEW g \in Handlers, At(g, "saveStats")'
  PROVE  \/ At(g, "saveStats") /\ req'[g] = req[g]
         \/ Handle(g) /\ Counted(g)
<1>1. CASE UNCHANGED vars
  BY <1>1 DEF vars, At
<1>2. CASE Start
  BY <1>2 DEF Start, CommitteeMigrates, CommitteeServes, CommitteeGrants, BoxServes, At
<1>3. ASSUME NEW n \in Nodes, Crash(n) PROVE req'[g] = req[g]
  BY <1>3 DEF Crash, Exit, At, Idle
<1>4. ASSUME NEW h \in Handlers, Handle(h) PROVE req'[g] = req[g] \/ (Handle(g) /\ Counted(g))
  <2>1. CASE g = h
    BY <1>4, <2>1, Moves DEF At, Idle
  <2>2. CASE g # h
    BY <1>4, <2>2, Moves DEF At, Idle
  <2> QED BY <2>1, <2>2
<1>5. ASSUME NEW h \in Handlers, NEW s \in Students, Call(h, s) PROVE req'[g] = req[g]
  <2>1. ASSUME NEW o, NEW label \in {"find", "lookup"}, NEW home, NEW isAfternoon,
               Receive(h, o, NewRequest(o, label, s, home, isAfternoon))
        PROVE  req'[g] = req[g]
    BY <2>1 DEF Receive, NewRequest, TypeInv, TypeOK, At
  <2> QED BY <1>5, <2>1 DEF Call, ReceiveCreateVoter, ReceiveVotingStep, ReceiveCheckVoterStatus,
                            ReceiveGetVoter
<1> QED BY <1>1, <1>2, <1>3, <1>4, <1>5 DEF Next, At

(* The totals of the row and of the copies are numbers. *)
LEMMA TotalsType ==
  ASSUME TypeInv
  PROVE  /\ stats.TotalVoters \in Nat /\ stats.TotalVotes \in Nat
         /\ \A h \in Handlers : At(h, "saveStats") =>
              req[h].copy.TotalVoters \in Nat /\ req[h].copy.TotalVotes \in Nat
<1>1. \A h \in Handlers : At(h, "saveStats") => req[h].copy \in ElectionStats
  BY RequestType DEF TypeInv, TypeOK, At, InFlight, Request
<1> QED BY <1>1 DEF TypeInv, TypeOK, ElectionStats

-----------------------------------------------------------------------------
(* Voters *)

VoterBound(n) == n + Cardinality(Counting("CreateVoter")) <= Cardinality(Registered)

VotersInv ==
  /\ VoterBound(stats.TotalVoters)
  /\ \A h \in Handlers : At(h, "saveStats") => VoterBound(req[h].copy.TotalVoters)

(* No row, no count. *)
LEMMA InitVoters == ASSUME Finite, Init PROVE VotersInv
<1>1. Counting("CreateVoter") = {} /\ Registered = {}
  BY DEF Init, Counting, At, Idle, Registered
<1>2. stats.TotalVoters = 0 /\ \A h \in Handlers : ~At(h, "saveStats")
  BY DEF Init, ZeroStats, At, Idle
<1>3. VoterBound(0)
  BY <1>1, FS_EmptySet DEF VoterBound
<1> QED BY <1>2, <1>3 DEF VotersInv

(* Registered students stay registered; the INSERT that is to be counted adds one. *)
LEMMA VotersSlack ==
  ASSUME Finite, TypeInv, [Next]_vars
  PROVE  Cardinality(Counting("CreateVoter")') + Cardinality(Registered)
           <= Cardinality(Counting("CreateVoter")) + Cardinality(Registered')
<1>1. ASSUME voters' # voters
      PROVE  \E h \in Handlers : InsertVoter(h)
  BY <1>1 DEF Next, vars, tables, history, Start, CommitteeMigrates, CommitteeServes,
       CommitteeGrants, BoxServes, Crash, Call, ReceiveCreateVoter, ReceiveVotingStep,
       ReceiveCheckVoterStatus, ReceiveGetVoter, Handle, Find, LookupNewVoter, Lookup, ReadStatus,
       DeleteStatus, InsertVoted, InsertBallot, ReadStats, SaveStats, Deliver
<1>2. ASSUME NEW h \in Handlers, InsertVoter(h) PROVE Registered \subseteq Registered'
  BY <1>2 DEF InsertVoter, Registered, TypeInv, TypeOK
<1>3. Registered \subseteq Registered'
  BY <1>1, <1>2 DEF Registered
<1>4. ASSUME NEW h \in Handlers, InsertVoter(h), Goto(h, "readStats")
      PROVE  \E v : v \in Registered' \ Registered
  <2>1. req[h] \in Request /\ req[h].voter \in Students
    <3>1. Handle(h)
      BY <1>4 DEF Handle
    <3> QED BY <3>1, HandlingRequest DEF Request
  <2>2. req'[h].pc = "readStats"
    BY <1>4, <2>1, GotoFields DEF TypeInv
  <2>3. voters[req[h].voter] = NoBox
    BY <1>4, <2>1, <2>2, AnswerFields DEF InsertVoter, TypeInv
  <2>4. PICK home : /\ voters' = [voters EXCEPT ![req[h].voter] = home]
                    /\ home = NoBox => Answer(h, 8)
    BY <1>4, <2>1, <2>2, AnswerFields DEF InsertVoter, TypeInv
  <2>5. home # NoBox
    BY <2>1, <2>2, <2>4, AnswerFields DEF TypeInv
  <2>6. voters'[req[h].voter] # NoBox
    BY <2>1, <2>4, <2>5 DEF TypeInv, TypeOK
  <2> QED BY <2>1, <2>3, <2>6 DEF Registered
<1>5. ASSUME NEW h \in Handlers, InsertVoted(h) PROVE req[h].op # "CreateVoter"
  <2>1. Handle(h)
    BY <1>5 DEF Handle
  <2> QED BY <1>5, <2>1, HandlingRequest DEF InsertVoted, At, LabelOK
<1>6. \/ Counting("CreateVoter")' \subseteq Counting("CreateVoter")
      \/ \E h : \E v \in Registered' \ Registered :
            Counting("CreateVoter")' \subseteq Counting("CreateVoter") \cup {h}
  BY <1>4, <1>5, CountingGains
<1>7. IsFiniteSet(Counting("CreateVoter")) /\ IsFiniteSet(Registered')
  BY CountsType
<1> QED BY <1>3, <1>6, <1>7, GainsTogether

(* No step counts more voters than it has registered. *)
LEMMA VotersInductive ==
  ASSUME Finite, TypeInv, TypeInv', VotersInv, [Next]_vars
  PROVE  VotersInv'
<1> DEFINE C == Cardinality(Counting("CreateVoter"))
           R == Cardinality(Registered)
<1>1. C \in Nat /\ R \in Nat
  BY CountsType
<1>2. C' \in Nat /\ R' \in Nat
  BY CountsType
<1>3. C' + R <= C + R'
  BY VotersSlack
<1>4. C + stats.TotalVoters <= R /\ stats.TotalVoters \in Nat
  BY <1>1, TotalsType DEF VotersInv, VoterBound
<1>5. \A h \in Handlers : At(h, "saveStats") =>
        C + req[h].copy.TotalVoters <= R /\ req[h].copy.TotalVoters \in Nat
  BY <1>1, TotalsType DEF VotersInv, VoterBound
<1>6. ASSUME NEW n \in Nat, C + n <= R PROVE n + C' <= R'
  BY <1>1, <1>2, <1>3, <1>6
<1>7. stats'.TotalVoters + C' <= R'
  <2>1. CASE stats' = stats
    BY <1>4, <1>6, <2>1
  <2>2. CASE stats' = newStats
    BY <1>1, <1>4, <1>6, <2>2 DEF newStats
  <2>3. ASSUME NEW h \in Handlers, At(h, "saveStats"), stats' = req[h].copy
        PROVE  stats'.TotalVoters + C' <= R'
    BY <1>5, <1>6, <2>3
  <2> QED BY <2>1, <2>2, <2>3, StatsSources
<1>8. ASSUME NEW g \in Handlers, At(g, "saveStats")'
      PROVE  req'[g].copy.TotalVoters + C' <= R'
  <2>1. CASE At(g, "saveStats") /\ req'[g] = req[g]
    BY <1>5, <1>6, <2>1
  <2>2. ASSUME Handle(g), Counted(g), req[g].op = "CreateVoter"
        PROVE  req'[g].copy.TotalVoters + C' <= R'
    <3>1. \A h \in Handlers \ {g} : req'[h] = req[h] \/ req'[h] = Idle
      BY <2>2, Moves
    <3>2. C' + 1 <= C
      BY <1>8, <2>2, <3>1, CountedOnce DEF At
    <3>3. R' = R
      BY <2>2 DEF Counted, ReadStats, tables, Registered
    <3>4. req'[g].copy.TotalVoters = stats.TotalVoters + 1
      BY <2>2 DEF Counted, CountVoter
    <3> QED BY <1>1, <1>2, <1>4, <3>2, <3>3, <3>4
  <2>3. ASSUME Counted(g), req[g].op # "CreateVoter"
        PROVE  req'[g].copy.TotalVoters + C' <= R'
    <3>1. PICK day : req'[g].copy = CountVote(stats, NodeOf[g], req[g].home, req[g].afternoon, day)
      BY <2>3 DEF Counted
    <3>2. req'[g].copy.TotalVoters = stats.TotalVoters
      BY <3>1 DEF CountVote
    <3> QED BY <1>4, <1>6, <3>2
  <2> QED BY <1>8, <2>1, <2>2, <2>3, CopySources
<1> QED BY <1>7, <1>8 DEF VotersInv, VoterBound

(* Whatever overlaps, fails or ends, the statistics never show more voters than
   enc_voters has rows: the row comes first, and no request counts it twice. *)
THEOREM VotersCountedOnce == ASSUME Finite PROVE Spec => []VotersNeverOvercounted
<1>1. Init => TypeInv /\ VotersInv
  BY InitType, InitVoters
<1>2. TypeInv /\ VotersInv /\ [Next]_vars => (TypeInv /\ VotersInv)'
  BY TypeInductive, VotersInductive
<1>3. TypeInv /\ VotersInv => VotersNeverOvercounted
  <2> SUFFICES ASSUME TypeInv, VotersInv PROVE VotersNeverOvercounted
    OBVIOUS
  <2> QED BY CountsType, TotalsType DEF VotersInv, VoterBound, VotersNeverOvercounted
<1> QED BY <1>1, <1>2, <1>3, PTL DEF Spec

-----------------------------------------------------------------------------
(* Votes *)

VoteBound(n) == n + Cardinality(Counting("RegisterVotingStep")) <= Cardinality(Voted)

VotesInv ==
  /\ VoteBound(stats.TotalVotes)
  /\ \A h \in Handlers : At(h, "saveStats") => VoteBound(req[h].copy.TotalVotes)

(* No row, no count. *)
LEMMA InitVotes == ASSUME Finite, Init PROVE VotesInv
<1>1. Counting("RegisterVotingStep") = {} /\ Voted = {}
  BY DEF Init, Counting, At, Idle, Voted, NoStatus, StatusRow
<1>2. stats.TotalVotes = 0 /\ \A h \in Handlers : ~At(h, "saveStats")
  BY DEF Init, ZeroStats, At, Idle
<1>3. VoteBound(0)
  BY <1>1, FS_EmptySet DEF VoteBound
<1> QED BY <1>2, <1>3 DEF VotesInv

(* Cast votes stay cast; the INSERT that is to be counted casts one. *)
LEMMA VotesSlack ==
  ASSUME Finite, TypeInv, SafeInv, SafeInv', [Next]_vars
  PROVE  Cardinality(Counting("RegisterVotingStep")') + Cardinality(Voted)
           <= Cardinality(Counting("RegisterVotingStep")) + Cardinality(Voted')
<1>1. Voted \subseteq Voted'
  BY VotedStays DEF Voted
<1>2. ASSUME NEW h \in Handlers, InsertVoted(h), Goto(h, "readStats")
      PROVE  \E v : v \in Voted' \ Voted
  <2>1. Handle(h)
    BY <1>2 DEF Handle
  <2>2. req[h] \in Request /\ req[h].voter \in Students /\ Voting(h)
    BY <1>2, <2>1, HandlingRequest DEF Request, InsertVoted, At, LabelOK, Voting
  <2>3. statuses[req[h].voter].Status = 0
    BY <1>2, <2>2 DEF SafeInv, VoteOK, InsertVoted, At
  <2>4. req'[h].pc = "readStats" /\ req'[h].voter = req[h].voter /\ req'[h].op = req[h].op
    BY <1>2, <2>2, GotoFields
  <2>5. statuses'[req[h].voter].Status = 2
    BY <2>2, <2>4 DEF SafeInv, VoteOK, Voting, InFlight
  <2> QED BY <2>2, <2>3, <2>5 DEF Voted
<1>3. ASSUME NEW h \in Handlers, InsertVoter(h) PROVE req[h].op # "RegisterVotingStep"
  <2>1. Handle(h)
    BY <1>3 DEF Handle
  <2> QED BY <1>3, <2>1, HandlingRequest DEF InsertVoter, At, LabelOK
<1>4. \/ Counting("RegisterVotingStep")' \subseteq Counting("RegisterVotingStep")
      \/ \E h : \E v \in Voted' \ Voted :
            Counting("RegisterVotingStep")' \subseteq Counting("RegisterVotingStep") \cup {h}
  BY <1>2, <1>3, CountingGains
<1>5. IsFiniteSet(Counting("RegisterVotingStep")) /\ IsFiniteSet(Voted')
  BY CountsType
<1> QED BY <1>1, <1>4, <1>5, GainsTogether

(* No step counts more votes than are cast. *)
LEMMA VotesInductive ==
  ASSUME Finite, TypeInv, TypeInv', SafeInv, SafeInv', VotesInv, [Next]_vars
  PROVE  VotesInv'
<1> DEFINE C == Cardinality(Counting("RegisterVotingStep"))
           R == Cardinality(Voted)
<1>1. C \in Nat /\ R \in Nat
  BY CountsType
<1>2. C' \in Nat /\ R' \in Nat
  BY CountsType
<1>3. C' + R <= C + R'
  BY VotesSlack
<1>4. C + stats.TotalVotes <= R /\ stats.TotalVotes \in Nat
  BY <1>1, TotalsType DEF VotesInv, VoteBound
<1>5. \A h \in Handlers : At(h, "saveStats") =>
        C + req[h].copy.TotalVotes <= R /\ req[h].copy.TotalVotes \in Nat
  BY <1>1, TotalsType DEF VotesInv, VoteBound
<1>6. ASSUME NEW n \in Nat, C + n <= R PROVE n + C' <= R'
  BY <1>1, <1>2, <1>3, <1>6
<1>7. stats'.TotalVotes + C' <= R'
  <2>1. CASE stats' = stats
    BY <1>4, <1>6, <2>1
  <2>2. CASE stats' = newStats
    BY <1>1, <1>4, <1>6, <2>2 DEF newStats
  <2>3. ASSUME NEW h \in Handlers, At(h, "saveStats"), stats' = req[h].copy
        PROVE  stats'.TotalVotes + C' <= R'
    BY <1>5, <1>6, <2>3
  <2> QED BY <2>1, <2>2, <2>3, StatsSources
<1>8. ASSUME NEW g \in Handlers, At(g, "saveStats")'
      PROVE  req'[g].copy.TotalVotes + C' <= R'
  <2>1. CASE At(g, "saveStats") /\ req'[g] = req[g]
    BY <1>5, <1>6, <2>1
  <2>2. ASSUME Handle(g), Counted(g), req[g].op = "RegisterVotingStep"
        PROVE  req'[g].copy.TotalVotes + C' <= R'
    <3>1. \A h \in Handlers \ {g} : req'[h] = req[h] \/ req'[h] = Idle
      BY <2>2, Moves
    <3>2. C' + 1 <= C
      BY <1>8, <2>2, <3>1, CountedOnce DEF At
    <3>3. R' = R
      BY <2>2 DEF Counted, ReadStats, tables, Voted
    <3>4. PICK day : req'[g].copy = CountVote(stats, NodeOf[g], req[g].home, req[g].afternoon, day)
      BY <2>2 DEF Counted
    <3>5. req'[g].copy.TotalVotes = stats.TotalVotes + 1
      BY <3>4 DEF CountVote
    <3> QED BY <1>1, <1>2, <1>4, <3>2, <3>3, <3>5
  <2>3. ASSUME Counted(g), req[g].op # "RegisterVotingStep"
        PROVE  req'[g].copy.TotalVotes + C' <= R'
    <3>1. req'[g].copy.TotalVotes = stats.TotalVotes
      BY <2>3 DEF Counted, CountVoter
    <3> QED BY <1>4, <1>6, <3>1
  <2> QED BY <1>8, <2>1, <2>2, <2>3, CopySources
<1> QED BY <1>7, <1>8 DEF VotesInv, VoteBound

(* As long as a voter is at one desk at a time, the statistics never show more
   votes than there are voters who voted, though statistics are read and saved by
   separate statements of requests that overlap, fail or end half way. *)
THEOREM VotesCountedOnce ==
  ASSUME Finite, OneDesk PROVE Spec => []VotesNeverOvercounted
<1>1. Init => TypeInv /\ SafeInv /\ VotesInv
  BY InitType, InitSafe, InitVotes
<1>2. TypeInv /\ SafeInv /\ VotesInv /\ [Next]_vars => (TypeInv /\ SafeInv /\ VotesInv)'
  BY TypeInductive, SafeInductive, VotesInductive, OneDeskAlone DEF OneDesk
<1>3. TypeInv /\ VotesInv => VotesNeverOvercounted
  <2> SUFFICES ASSUME TypeInv, VotesInv PROVE VotesNeverOvercounted
    OBVIOUS
  <2> QED BY CountsType, TotalsType DEF VotesInv, VoteBound, VotesNeverOvercounted
<1> QED BY <1>1, <1>2, <1>3, PTL DEF Spec

-----------------------------------------------------------------------------
(* Sums *)

\* SumFunction adds in the order of CHOOSE, over subsets that get smaller and
\* smaller.  The proofs below take a smallest subset for which a claim fails.
Pick(s) == CHOOSE x \in s : TRUE

Solves(F, f, T) ==
  F = [s \in SUBSET T |-> IF s = {} THEN 0 ELSE f[Pick(s)] + F[s \ {Pick(s)}]]

Solution(f, T) == CHOOSE F : Solves(F, f, T)

(* The sum of the community module Functions, with its folds unfolded. *)
LEMMA SumIs ==
  ASSUME NEW f
  PROVE  SumFunction(f) = Solution(f, DOMAIN f)[DOMAIN f]
  BY DEF Solution, SumFunction, SumFunctionOnSet, FoldFunctionOnSet, MapThenFoldSet, Solves, Pick

(* Among the subsets of a finite set there are smallest ones. *)
LEMMA SmallestSubset ==
  ASSUME NEW S, IsFiniteSet(S), NEW T, T \subseteq SUBSET S, T # {}
  PROVE  \E x \in T : \A y \in T : y \subseteq x => y = x
<1>1. IsWellFoundedOn(StrictSubsetOrdering(S), SUBSET S)
  BY FS_StrictSubsetOrderingWellFounded, FS_FiniteSubsetsOfFinite
<1>2. PICK x \in T : \A y \in T : ~(<<y, x>> \in StrictSubsetOrdering(S))
  BY <1>1, WFMin
<1>3. ASSUME NEW y \in T, y \subseteq x, y # x PROVE FALSE
  <2>1. <<y, x>> \in StrictSubsetOrdering(S)
    BY <1>3 DEF StrictSubsetOrdering
  <2> QED BY <1>2, <2>1
<1> QED BY <1>3

\* What a fold over the set s adds up to, when F has the sums of its subsets.
Body(F, f, s) == IF s = {} THEN 0 ELSE f[Pick(s)] + F[s \ {Pick(s)}]

(* CHOOSE takes an element of the set. *)
LEMMA PickIs == ASSUME NEW s, s # {} PROVE Pick(s) \in s
  BY DEF Pick

(* Two tables of sums agree on every set that both have. *)
LEMMA SumUnique ==
  ASSUME NEW f, NEW S, IsFiniteSet(S), NEW F, NEW G, Solves(F, f, S),
         NEW T \in SUBSET S, Solves(G, f, T)
  PROVE  \A s \in SUBSET T : F[s] = G[s]
<1> DEFINE Bad == {s \in SUBSET T : F[s] # G[s]}
<1> SUFFICES ASSUME Bad # {} PROVE FALSE
  OBVIOUS
<1>1. PICK s \in Bad : \A y \in Bad : y \subseteq s => y = s
  <2>1. Bad \subseteq SUBSET S
    OBVIOUS
  <2> HIDE DEF Bad
  <2> QED BY <2>1, SmallestSubset
<1>2. s \in SUBSET T /\ s \in SUBSET S /\ F[s] # G[s]
  BY <1>1
<1>3. F[s] = Body(F, f, s) /\ G[s] = Body(G, f, s)
  BY <1>2 DEF Solves, Body
<1>4. s # {}
  BY <1>2, <1>3 DEF Body
<1>5. PICK t : t = s \ {Pick(s)}
  OBVIOUS
<1>6. t \in SUBSET T /\ t \subseteq s /\ t # s
  BY <1>2, <1>4, <1>5, PickIs
<1>7. F[t] = G[t]
  BY <1>1, <1>6
<1> QED BY <1>2, <1>3, <1>4, <1>5, <1>7 DEF Body

(* There is a table of sums: that of a set is made from those of its subsets. *)
LEMMA SumExists ==
  ASSUME NEW f, NEW S, IsFiniteSet(S)
  PROVE  \E F : Solves(F, f, S)
<1> DEFINE Bad == {T \in SUBSET S : ~\E F : Solves(F, f, T)}
<1> SUFFICES ASSUME Bad # {} PROVE FALSE
  BY DEF Bad
<1>1. PICK T \in Bad : \A y \in Bad : y \subseteq T => y = T
  <2>1. Bad \subseteq SUBSET S
    OBVIOUS
  <2> HIDE DEF Bad
  <2> QED BY <2>1, SmallestSubset
<1>2. T \in SUBSET S /\ ~\E F : Solves(F, f, T)
  BY <1>1
<1>3. PICK G : G = [s \in (SUBSET T) \ {T} |-> Solution(f, s)]
  OBVIOUS
<1>4. ASSUME NEW s \in SUBSET T, s # T
      PROVE  Solves(G[s], f, s)
  <2>1. s \notin Bad /\ s \in SUBSET S
    BY <1>1, <1>2, <1>4
  <2>2. \E F : Solves(F, f, s)
    BY <2>1
  <2>3. G[s] = Solution(f, s)
    BY <1>3, <1>4
  <2>4. Solves(Solution(f, s), f, s)
    BY <2>2, Zenon DEF Solution
  <2> QED BY <2>3, <2>4
<1>5. ASSUME NEW s \in SUBSET T, s # T, NEW t \in SUBSET s
      PROVE  G[s][t] = G[t][t]
  <2>1. t \in SUBSET T /\ t # T /\ s \in SUBSET S
    BY <1>2, <1>5
  <2>2. Solves(G[s], f, s) /\ Solves(G[t], f, t)
    BY <1>4, <1>5, <2>1
  <2>3. IsFiniteSet(s)
    BY <2>1, FS_Subset
  <2>4. PICK A, B : A = G[s] /\ B = G[t]
    OBVIOUS
  <2>5. Solves(A, f, s) /\ Solves(B, f, t)
    BY <2>2, <2>4
  <2>6. \A x \in SUBSET t : A[x] = B[x]
    BY <1>5, <2>3, <2>5, SumUnique
  <2> QED BY <2>4, <2>6
<1>6. PICK F : F = [s \in SUBSET T |-> IF s # T THEN G[s][s]
                      ELSE IF s = {} THEN 0 ELSE f[Pick(s)] + G[s \ {Pick(s)}][s \ {Pick(s)}]]
  OBVIOUS
<1>7. ASSUME NEW s \in SUBSET T PROVE F[s] = Body(F, f, s)
  <2>1. CASE s = {}
    <3>1. CASE s = T
      BY <1>6, <2>1, <3>1 DEF Body
    <3>2. CASE s # T
      <4>1. F[s] = G[s][s] /\ Solves(G[s], f, s)
        BY <1>4, <1>6, <3>2
      <4> QED BY <2>1, <4>1 DEF Solves, Body
    <3> QED BY <3>1, <3>2
  <2>2. CASE s # {}
    <3>1. PICK t : t = s \ {Pick(s)}
      OBVIOUS
    <3>2. t \in SUBSET T /\ t \in SUBSET s /\ t # s /\ t # T
      BY <2>2, <3>1, PickIs
    <3>3. F[t] = G[t][t]
      BY <1>6, <3>2
    <3>4. CASE s = T
      BY <1>6, <2>2, <3>1, <3>3, <3>4 DEF Body
    <3>5. CASE s # T
      <4>1. F[s] = G[s][s] /\ Solves(G[s], f, s)
        BY <1>4, <1>6, <3>5
      <4>2. G[s][s] = f[Pick(s)] + G[s][t]
        BY <2>2, <3>1, <4>1 DEF Solves
      <4>3. G[s][t] = G[t][t]
        BY <1>5, <3>2, <3>5
      <4> QED BY <2>2, <3>1, <3>3, <4>1, <4>2, <4>3 DEF Body
    <3> QED BY <3>4, <3>5
  <2> QED BY <2>1, <2>2
<1>8. Solves(F, f, T)
  <2>1. F = [s \in SUBSET T |-> F[s]]
    BY <1>6
  <2> QED BY <1>7, <2>1 DEF Solves, Body
<1> QED BY <1>2, <1>8

\* F has the sums of f over every subset of S.
Sums(F, f, S) == SumFunction(f) = F[S] /\ \A s \in SUBSET S : F[s] = Body(F, f, s)

(* The sum, taken apart at the element that CHOOSE finds first. *)
LEMMA SumFold ==
  ASSUME NEW S, IsFiniteSet(S), NEW f \in [S -> Nat]
  PROVE  \E F : Sums(F, f, S)
<1>1. PICK F : F = Solution(f, S)
  OBVIOUS
<1>2. Solves(F, f, S)
  BY <1>1, SumExists, Zenon DEF Solution
<1>3. SumFunction(f) = F[S]
  <2>1. DOMAIN f = S
    OBVIOUS
  <2> QED BY <1>1, <2>1, SumIs
<1> QED BY <1>2, <1>3 DEF Sums, Solves, Body

(* Sums of natural numbers are natural numbers. *)
LEMMA SumNat ==
  ASSUME NEW S, IsFiniteSet(S), NEW f \in [S -> Nat], NEW F,
         \A s \in SUBSET S : F[s] = Body(F, f, s)
  PROVE  \A s \in SUBSET S : F[s] \in Nat
<1> DEFINE Bad == {s \in SUBSET S : F[s] \notin Nat}
<1> SUFFICES ASSUME Bad # {} PROVE FALSE
  OBVIOUS
<1>1. PICK s \in Bad : \A y \in Bad : y \subseteq s => y = s
  <2>1. Bad \subseteq SUBSET S
    OBVIOUS
  <2> HIDE DEF Bad
  <2> QED BY <2>1, SmallestSubset
<1>2. s \in SUBSET S /\ F[s] \notin Nat /\ F[s] = Body(F, f, s)
  BY <1>1
<1>3. s # {}
  BY <1>2 DEF Body
<1>4. PICK t, x : t = s \ {x} /\ x = Pick(s)
  OBVIOUS
<1>5. x \in S /\ t \in SUBSET S /\ t \subseteq s /\ t # s
  BY <1>2, <1>3, <1>4, PickIs
<1>6. F[t] \in Nat /\ f[x] \in Nat
  BY <1>1, <1>5
<1> QED BY <1>2, <1>3, <1>4, <1>6 DEF Body

(* Any element may be the one that is taken out. *)
LEMMA SumTake ==
  ASSUME NEW S, IsFiniteSet(S), NEW f \in [S -> Nat], NEW F,
         \A s \in SUBSET S : F[s] = Body(F, f, s)
  PROVE  \A s \in SUBSET S : \A x \in s : F[s] = f[x] + F[s \ {x}]
<1> DEFINE Bad == {s \in SUBSET S : \E x \in s : F[s] # f[x] + F[s \ {x}]}
<1> SUFFICES ASSUME Bad # {} PROVE FALSE
  OBVIOUS
<1>1. PICK s \in Bad : \A y \in Bad : y \subseteq s => y = s
  <2>1. Bad \subseteq SUBSET S
    OBVIOUS
  <2> HIDE DEF Bad
  <2> QED BY <2>1, SmallestSubset
<1>2. PICK x \in s : F[s] # f[x] + F[s \ {x}]
  BY <1>1
<1>3. PICK c, t, u, v : c = Pick(s) /\ t = s \ {c} /\ u = s \ {x} /\ v = t \ {x}
  OBVIOUS
<1>4. /\ s \in SUBSET S /\ c \in s /\ F[s] = f[c] + F[t] /\ c # x
  BY <1>1, <1>2, <1>3, PickIs DEF Body
<1>5. /\ t \in SUBSET S /\ u \in SUBSET S /\ v \in SUBSET S /\ t # s /\ u # s
      /\ t \subseteq s /\ u \subseteq s /\ x \in t /\ c \in u /\ u \ {c} = v
  BY <1>2, <1>3, <1>4
<1>6. t \notin Bad /\ u \notin Bad
  BY <1>1, <1>5
<1>7. F[t] = f[x] + F[v] /\ F[u] = f[c] + F[v]
  <2>1. /\ \A z \in t : F[t] = f[z] + F[t \ {z}]
        /\ \A z \in u : F[u] = f[z] + F[u \ {z}]
    BY <1>5, <1>6
  <2> QED BY <1>3, <1>5, <2>1
<1>8. F[v] \in Nat /\ f[x] \in Nat /\ f[c] \in Nat
  BY <1>2, <1>4, <1>5, SumNat
<1> QED BY <1>2, <1>3, <1>4, <1>7, <1>8

(* The sum of nothing but zeros. *)
LEMMA SumZeros ==
  ASSUME NEW S, IsFiniteSet(S), NEW f \in [S -> Nat], \A x \in S : f[x] = 0
  PROVE  SumFunction(f) = 0
<1>1. PICK F : SumFunction(f) = F[S] /\ \A s \in SUBSET S : F[s] = Body(F, f, s)
  BY SumFold DEF Sums
<1> DEFINE Bad == {s \in SUBSET S : F[s] # 0}
<1> SUFFICES ASSUME Bad # {} PROVE FALSE
  BY <1>1
<1>2. PICK s \in Bad : \A y \in Bad : y \subseteq s => y = s
  <2>1. Bad \subseteq SUBSET S
    OBVIOUS
  <2> HIDE DEF Bad
  <2> QED BY <2>1, SmallestSubset
<1>3. s \in SUBSET S /\ F[s] # 0 /\ F[s] = Body(F, f, s)
  BY <1>1, <1>2
<1>4. s # {}
  BY <1>3 DEF Body
<1>5. PICK t, x : t = s \ {x} /\ x = Pick(s)
  OBVIOUS
<1>6. x \in S /\ t \in SUBSET S /\ t \subseteq s /\ t # s
  BY <1>3, <1>4, <1>5, PickIs
<1>7. F[t] = 0 /\ f[x] = 0
  BY <1>2, <1>6
<1> QED BY <1>3, <1>4, <1>5, <1>7 DEF Body

(* One more at one place is one more in the sum. *)
LEMMA SumPlusOne ==
  ASSUME NEW S, IsFiniteSet(S), NEW f \in [S -> Nat], NEW g \in [S -> Nat],
         NEW b \in S, g[b] = f[b] + 1, \A x \in S \ {b} : g[x] = f[x]
  PROVE  SumFunction(g) = SumFunction(f) + 1
<1>1. PICK F : SumFunction(f) = F[S] /\ \A s \in SUBSET S : F[s] = Body(F, f, s)
  <2>1. \E F : Sums(F, f, S)
    BY SumFold
  <2> QED BY <2>1 DEF Sums
<1>2. PICK G : SumFunction(g) = G[S] /\ \A s \in SUBSET S : G[s] = Body(G, g, s)
  <2>1. \E G : Sums(G, g, S)
    BY SumFold
  <2> QED BY <2>1 DEF Sums
<1>3. ASSUME NEW r \in SUBSET (S \ {b}), F[r] # G[r] PROVE FALSE
  <2> DEFINE Bad == {s \in SUBSET (S \ {b}) : F[s] # G[s]}
  <2>1. PICK s \in Bad : \A y \in Bad : y \subseteq s => y = s
    <3>1. Bad \subseteq SUBSET S /\ Bad # {}
      BY <1>3
    <3> HIDE DEF Bad
    <3> QED BY <3>1, SmallestSubset
  <2>2. s \in SUBSET S /\ b \notin s /\ F[s] # G[s] /\ F[s] = Body(F, f, s) /\ G[s] = Body(G, g, s)
    BY <1>1, <1>2, <2>1
  <2>3. s # {}
    BY <2>2 DEF Body
  <2>4. PICK t, x : t = s \ {x} /\ x = Pick(s)
    OBVIOUS
  <2>5. x \in S \ {b} /\ t \in SUBSET (S \ {b}) /\ t \subseteq s /\ t # s
    BY <2>2, <2>3, <2>4, PickIs
  <2>6. F[t] = G[t] /\ f[x] = g[x]
    BY <2>1, <2>5
  <2> QED BY <2>2, <2>3, <2>4, <2>6 DEF Body
<1>4. F[S \ {b}] = G[S \ {b}]
  BY <1>3
<1>5. F[S] = f[b] + F[S \ {b}]
  BY <1>1, SumTake
<1>6. G[S] = g[b] + G[S \ {b}]
  BY <1>2, SumTake
<1>7. F[S \ {b}] \in Nat
  BY <1>1, SumNat
<1>8. f[b] \in Nat
  OBVIOUS
<1> QED BY <1>1, <1>2, <1>4, <1>5, <1>6, <1>7, <1>8

-----------------------------------------------------------------------------
(* The row adds up *)

DayAddsUp(day) == day.Total = day.Morning + day.Afternoon

BoxAddsUp(box) ==
  /\ box.TotalVotes = SumFunction([d \in Days |-> box.VotesPerDay[d].Total])
  /\ box.VotesFromOtherBoxes <= box.TotalVotes
  /\ \A d \in Days : DayAddsUp(box.VotesPerDay[d])

\* What StatsAddUp says of the stored row, said of any struct ElectionStats.
AddsUp(s) ==
  /\ s.TotalVotes = SumFunction([b \in DOMAIN s.BallotBoxs |-> s.BallotBoxs[b].TotalVotes])
  /\ s.TotalVoters = SumFunction([b \in DOMAIN s.BallotBoxs |-> s.BallotBoxs[b].TotalVoters])
  /\ \A b \in DOMAIN s.BallotBoxs : BoxAddsUp(s.BallotBoxs[b])

(* There are five days. *)
LEMMA DaysFinite == IsFiniteSet(Days)
<1>1. PICK n \in Int : n = 4
  OBVIOUS
<1>2. Days = 0..n
  BY <1>1 DEF Days
<1>3. IsFiniteSet(0..n)
  BY FS_Interval
<1> QED BY <1>2, <1>3

(* A box without votes adds up. *)
LEMMA EmptyBoxAddsUp == BoxAddsUp(EmptyBox)
<1>1. PICK f : f = [d \in Days |-> EmptyBox.VotesPerDay[d].Total]
  OBVIOUS
<1>2. f \in [Days -> Nat] /\ \A d \in Days : f[d] = 0
  BY <1>1 DEF EmptyBox
<1>3. SumFunction(f) = 0
  BY <1>2, DaysFinite, SumZeros
<1> QED BY <1>1, <1>3 DEF BoxAddsUp, DayAddsUp, EmptyBox

(* The row that the committee creates adds up, and so does the empty struct. *)
LEMMA NewStatsAddUp ==
  ASSUME IsFiniteSet(BallotBoxes)
  PROVE  AddsUp(newStats) /\ AddsUp(ZeroStats)
<1>1. ASSUME NEW B, IsFiniteSet(B), NEW s, s.TotalVotes = 0, s.TotalVoters = 0,
             s.BallotBoxs = [b \in B |-> EmptyBox]
      PROVE  AddsUp(s)
  <2>1. PICK f, g : /\ f = [b \in DOMAIN s.BallotBoxs |-> s.BallotBoxs[b].TotalVotes]
                    /\ g = [b \in DOMAIN s.BallotBoxs |-> s.BallotBoxs[b].TotalVoters]
    OBVIOUS
  <2>2. /\ f \in [B -> Nat] /\ \A b \in B : f[b] = 0
        /\ g \in [B -> Nat] /\ \A b \in B : g[b] = 0
    BY <1>1, <2>1 DEF EmptyBox
  <2>3. SumFunction(f) = 0
    BY <1>1, <2>2, SumZeros
  <2>4. SumFunction(g) = 0
    BY <1>1, <2>2, SumZeros
  <2>5. \A b \in DOMAIN s.BallotBoxs : BoxAddsUp(s.BallotBoxs[b])
    BY <1>1, EmptyBoxAddsUp
  <2> QED BY <1>1, <2>1, <2>3, <2>4, <2>5 DEF AddsUp
<1>2. AddsUp(newStats)
  BY <1>1 DEF newStats
<1>3. AddsUp(ZeroStats)
  <2>1. IsFiniteSet({})
    BY FS_EmptySet
  <2> QED BY <1>1, <2>1 DEF ZeroStats
<1> QED BY <1>2, <1>3

(* countVoter adds one voter to the total and one to the box of the voter. *)
LEMMA CountVoterAddsUp ==
  ASSUME IsFiniteSet(BallotBoxes), NEW s \in ElectionStats, HasBoxes(s), AddsUp(s),
         NEW home \in BallotBoxes
  PROVE  AddsUp(CountVoter(s, home))
<1>1. PICK B : B = s.BallotBoxs /\ B \in [BallotBoxes -> BallotBox]
  BY DEF ElectionStats, HasBoxes
<1>2. PICK t, C : t = CountVoter(s, home) /\ C = [B EXCEPT ![home] = CountVoterAt(@)]
  OBVIOUS
<1>3. t.TotalVotes = s.TotalVotes /\ t.TotalVoters = s.TotalVoters + 1 /\ t.BallotBoxs = C
  BY <1>1, <1>2 DEF CountVoter
<1>4. /\ DOMAIN B = BallotBoxes /\ DOMAIN C = BallotBoxes
      /\ C[home] = CountVoterAt(B[home])
      /\ \A b \in BallotBoxes \ {home} : C[b] = B[b]
      /\ \A b \in BallotBoxes : B[b] \in BallotBox
  BY <1>1, <1>2
<1>5. /\ C[home].TotalVotes = B[home].TotalVotes
      /\ C[home].TotalVoters = B[home].TotalVoters + 1
      /\ C[home].VotesPerDay = B[home].VotesPerDay
      /\ C[home].VotesFromOtherBoxes = B[home].VotesFromOtherBoxes
  BY <1>4 DEF CountVoterAt, BallotBox
<1>6. PICK f, g, u, v : /\ f = [b \in BallotBoxes |-> B[b].TotalVotes]
                        /\ u = [b \in BallotBoxes |-> C[b].TotalVotes]
                        /\ g = [b \in BallotBoxes |-> B[b].TotalVoters]
                        /\ v = [b \in BallotBoxes |-> C[b].TotalVoters]
  OBVIOUS
<1>7. /\ f = u /\ g \in [BallotBoxes -> Nat] /\ v \in [BallotBoxes -> Nat]
      /\ v[home] = g[home] + 1 /\ \A b \in BallotBoxes \ {home} : v[b] = g[b]
  <2>1. \A b \in BallotBoxes : C[b].TotalVotes = B[b].TotalVotes
    BY <1>4, <1>5
  <2>2. \A b \in BallotBoxes : B[b].TotalVoters \in Nat /\ C[b].TotalVoters \in Nat
    BY <1>4, <1>5 DEF BallotBox
  <2> QED BY <1>4, <1>5, <1>6, <2>1, <2>2
<1>8. SumFunction(v) = SumFunction(g) + 1
  BY <1>7, SumPlusOne
<1>9. \A b \in BallotBoxes : BoxAddsUp(C[b])
  <2>1. \A b \in BallotBoxes : BoxAddsUp(B[b])
    BY <1>1, <1>4 DEF AddsUp
  <2>2. BoxAddsUp(C[home])
    BY <1>5, <2>1 DEF BoxAddsUp
  <2> QED BY <1>4, <2>1, <2>2
<1>10. s.TotalVotes = SumFunction(f) /\ s.TotalVoters = SumFunction(g)
  BY <1>1, <1>4, <1>6 DEF AddsUp
<1>11. /\ t.TotalVotes = SumFunction([b \in DOMAIN t.BallotBoxs |-> t.BallotBoxs[b].TotalVotes])
       /\ t.TotalVoters = SumFunction([b \in DOMAIN t.BallotBoxs |-> t.BallotBoxs[b].TotalVoters])
  BY <1>3, <1>4, <1>6, <1>7, <1>8, <1>10
<1> QED BY <1>2, <1>3, <1>4, <1>9, <1>11 DEF AddsUp

(* countVote adds one vote to a box, to its day and to half of that day. *)
LEMMA CountVoteAtAddsUp ==
  ASSUME NEW box \in BallotBox, BoxAddsUp(box), NEW other \in BOOLEAN,
         NEW isAfternoon \in BOOLEAN, NEW d \in Days
  PROVE  BoxAddsUp(CountVoteAt(box, other, isAfternoon, d))
<1>1. PICK D : D = box.VotesPerDay /\ D \in [Days -> VotingDay]
  BY DEF BallotBox
<1>2. PICK E, c : E = [D EXCEPT ![d] = CountDay(@, isAfternoon)] /\ c = CountVoteAt(box, other, isAfternoon, d)
  OBVIOUS
<1>3. /\ c.TotalVotes = box.TotalVotes + 1 /\ c.VotesPerDay = E
      /\ c.VotesFromOtherBoxes = IF other THEN box.VotesFromOtherBoxes + 1 ELSE box.VotesFromOtherBoxes
  BY <1>1, <1>2 DEF CountVoteAt
<1>4. /\ E[d] = CountDay(D[d], isAfternoon)
      /\ \A x \in Days \ {d} : E[x] = D[x]
      /\ \A x \in Days : D[x] \in VotingDay
  BY <1>1, <1>2
<1>5. /\ E[d].Total = D[d].Total + 1 /\ DayAddsUp(E[d])
  <2>1. DayAddsUp(D[d])
    BY <1>1 DEF BoxAddsUp
  <2> QED BY <1>4, <2>1 DEF CountDay, DayAddsUp, VotingDay
<1>6. PICK f, g : f = [x \in Days |-> D[x].Total] /\ g = [x \in Days |-> E[x].Total]
  OBVIOUS
<1>7. /\ f \in [Days -> Nat] /\ g \in [Days -> Nat]
      /\ g[d] = f[d] + 1 /\ \A x \in Days \ {d} : g[x] = f[x]
  <2>1. \A x \in Days : D[x].Total \in Nat /\ E[x].Total \in Nat
    BY <1>4, <1>5 DEF VotingDay
  <2> QED BY <1>4, <1>5, <1>6, <2>1
<1>8. SumFunction(g) = SumFunction(f) + 1
  BY <1>7, DaysFinite, SumPlusOne
<1>9. c.TotalVotes = SumFunction([x \in Days |-> c.VotesPerDay[x].Total])
  BY <1>1, <1>3, <1>6, <1>8 DEF BoxAddsUp
<1>10. c.VotesFromOtherBoxes <= c.TotalVotes
  BY <1>3 DEF BoxAddsUp, BallotBox
<1>11. \A x \in Days : DayAddsUp(c.VotesPerDay[x])
  BY <1>1, <1>3, <1>4, <1>5 DEF BoxAddsUp
<1> QED BY <1>2, <1>9, <1>10, <1>11 DEF BoxAddsUp

(* countVote adds one vote to the total and one to the box that voted. *)
LEMMA CountVoteAddsUp ==
  ASSUME IsFiniteSet(BallotBoxes), NEW s \in ElectionStats, HasBoxes(s), AddsUp(s),
         NEW box \in BallotBoxes, NEW home, NEW isAfternoon \in BOOLEAN, NEW d \in Days
  PROVE  AddsUp(CountVote(s, box, home, isAfternoon, d))
<1>1. PICK B : B = s.BallotBoxs /\ B \in [BallotBoxes -> BallotBox]
  BY DEF ElectionStats, HasBoxes
<1>2. PICK t, C : /\ t = CountVote(s, box, home, isAfternoon, d)
                  /\ C = [B EXCEPT ![box] = CountVoteAt(@, home # box, isAfternoon, d)]
  OBVIOUS
<1>3. t.TotalVotes = s.TotalVotes + 1 /\ t.TotalVoters = s.TotalVoters /\ t.BallotBoxs = C
  BY <1>1, <1>2 DEF CountVote
<1>4. /\ DOMAIN B = BallotBoxes /\ DOMAIN C = BallotBoxes
      /\ C[box] = CountVoteAt(B[box], home # box, isAfternoon, d)
      /\ \A b \in BallotBoxes \ {box} : C[b] = B[b]
      /\ \A b \in BallotBoxes : B[b] \in BallotBox
  BY <1>1, <1>2
<1>5. /\ C[box].TotalVotes = B[box].TotalVotes + 1
      /\ C[box].TotalVoters = B[box].TotalVoters
  BY <1>4 DEF CountVoteAt
<1>6. PICK f, g, u, v : /\ f = [b \in BallotBoxes |-> B[b].TotalVotes]
                        /\ u = [b \in BallotBoxes |-> C[b].TotalVotes]
                        /\ g = [b \in BallotBoxes |-> B[b].TotalVoters]
                        /\ v = [b \in BallotBoxes |-> C[b].TotalVoters]
  OBVIOUS
<1>7. /\ g = v /\ f \in [BallotBoxes -> Nat] /\ u \in [BallotBoxes -> Nat]
      /\ u[box] = f[box] + 1 /\ \A b \in BallotBoxes \ {box} : u[b] = f[b]
  <2>1. \A b \in BallotBoxes : C[b].TotalVoters = B[b].TotalVoters
    BY <1>4, <1>5
  <2>2. \A b \in BallotBoxes : B[b].TotalVotes \in Nat /\ C[b].TotalVotes \in Nat
    BY <1>4, <1>5 DEF BallotBox
  <2> QED BY <1>4, <1>5, <1>6, <2>1, <2>2
<1>8. SumFunction(u) = SumFunction(f) + 1
  BY <1>7, SumPlusOne
<1>9. \A b \in BallotBoxes : BoxAddsUp(C[b])
  <2>1. \A b \in BallotBoxes : BoxAddsUp(B[b])
    BY <1>1, <1>4 DEF AddsUp
  <2>2. BoxAddsUp(C[box])
    BY <1>4, <2>1, CountVoteAtAddsUp
  <2> QED BY <1>4, <2>1, <2>2
<1>10. s.TotalVotes = SumFunction(f) /\ s.TotalVoters = SumFunction(g)
  BY <1>1, <1>4, <1>6 DEF AddsUp
<1>11. /\ t.TotalVotes = SumFunction([b \in DOMAIN t.BallotBoxs |-> t.BallotBoxs[b].TotalVotes])
       /\ t.TotalVoters = SumFunction([b \in DOMAIN t.BallotBoxs |-> t.BallotBoxs[b].TotalVoters])
  BY <1>3, <1>4, <1>6, <1>7, <1>8, <1>10
<1> QED BY <1>2, <1>3, <1>4, <1>9, <1>11 DEF AddsUp

\* The copies of the requests in flight become the row when they are saved.
AddUpInv == AddsUp(stats) /\ \A h \in Handlers : At(h, "saveStats") => AddsUp(req[h].copy)

(* No step makes a row or a copy that does not add up. *)
LEMMA AddUpInductive ==
  ASSUME IsFiniteSet(BallotBoxes), TypeInv, AddUpInv, [Next]_vars
  PROVE  AddUpInv'
<1>1. AddsUp(stats')
  BY StatsSources, NewStatsAddUp DEF AddUpInv
<1>2. ASSUME NEW h \in Handlers, Handle(h), Counted(h)
      PROVE  AddsUp(req'[h].copy)
  <2>1. /\ req[h] \in Request /\ req[h].home \in BallotBoxes
        /\ req[h].op = "RegisterVotingStep" => NodeOf[h] \in BallotBoxes
    BY <1>2, HandlingRequest DEF Counted, ReadStats, At, LabelOK
  <2>2. stats \in ElectionStats /\ HasBoxes(stats) /\ AddsUp(stats) /\ req[h].afternoon \in BOOLEAN
    BY <1>2, <2>1 DEF Counted, AddUpInv, TypeInv, TypeOK, Request
  <2>3. CASE req'[h].copy = CountVoter(stats, req[h].home)
    BY <2>1, <2>2, <2>3, CountVoterAddsUp
  <2>4. ASSUME req[h].op = "RegisterVotingStep", NEW day \in Weekdays, DayIndex(day) \in Days,
               req'[h].copy = CountVote(stats, NodeOf[h], req[h].home, req[h].afternoon, DayIndex(day))
        PROVE  AddsUp(req'[h].copy)
    BY <2>1, <2>2, <2>4, CountVoteAddsUp
  <2> QED BY <1>2, <2>3, <2>4 DEF Counted
<1>3. ASSUME NEW h \in Handlers, At(h, "saveStats")' PROVE AddsUp(req'[h].copy)
  BY <1>2, <1>3, CopySources DEF AddUpInv
<1> QED BY <1>1, <1>3 DEF AddUpInv

(* Whatever overlaps, fails or ends, the saved row adds up: it may have lost
   counts to a copy that overtook it, but it is always one copy as a whole, whose
   five counters were incremented together (stats.go). *)
THEOREM StatisticsAddUp == ASSUME IsFiniteSet(BallotBoxes) PROVE Spec => []StatsAddUp
<1>1. Init => TypeInv /\ AddUpInv
  <2> SUFFICES ASSUME Init PROVE TypeInv /\ AddUpInv
    OBVIOUS
  <2>1. stats = ZeroStats /\ \A h \in Handlers : ~At(h, "saveStats")
    BY DEF Init, At, Idle
  <2> QED BY <2>1, InitType, NewStatsAddUp DEF AddUpInv
<1>2. TypeInv /\ AddUpInv /\ [Next]_vars => (TypeInv /\ AddUpInv)'
  BY TypeInductive, AddUpInductive
<1>3. AddUpInv => StatsAddUp
  BY DEF AddUpInv, AddsUp, BoxAddsUp, DayAddsUp, StatsAddUp
<1> QED BY <1>1, <1>2, <1>3, PTL DEF Spec

-----------------------------------------------------------------------------
(* One request at a time *)

Serial == Concurrency = "serial" /\ ~MayExit

OneWriter == \A g, h \in Handlers : Writing(g) /\ Writing(h) => g = h

(* Serial requests are served one voter at a time, and no process ends. *)
LEMMA SerialMeans ==
  ASSUME Serial
  PROVE  /\ OneDesk /\ NoLostWrite /\ Alone /\ Faults = {}
         /\ \A n : ~Crash(n)
<1>1. Faults = {} /\ Concurrency = "serial"
  BY DEF Serial, MayExit
<1>2. OneDesk /\ NoLostWrite /\ \A n : ~Crash(n)
  BY <1>1 DEF OneDesk, NoLostWrite, Crash
<1> QED BY <1>1, <1>2, OneDeskAlone

(* A call writes only when no other does; requests keep their operation. *)
LEMMA WriterInductive ==
  ASSUME Serial, TypeInv, OneWriter, [Next]_vars
  PROVE  OneWriter'
<1>1. ASSUME \A g \in Handlers : Writing(g)' => Writing(g) PROVE OneWriter'
  BY <1>1 DEF OneWriter
<1>2. CASE UNCHANGED vars
  BY <1>1, <1>2 DEF vars, Writing, InFlight
<1>3. CASE Start
  BY <1>1, <1>3 DEF Start, CommitteeMigrates, CommitteeServes, CommitteeGrants, BoxServes,
     Writing, InFlight
<1>4. ASSUME NEW h \in Handlers, Handle(h) PROVE OneWriter'
  <2>1. \A g \in Handlers : Writing(g)' => Writing(g)
    BY <1>4, Moves, HandlingRequest DEF Writing, InFlight, Idle
  <2> QED BY <1>1, <2>1
<1>5. ASSUME NEW h \in Handlers, NEW s \in Students, Call(h, s) PROVE OneWriter'
  <2>1. ASSUME NEW op, NEW label, NEW home, NEW isAfternoon,
               Receive(h, op, NewRequest(op, label, s, home, isAfternoon))
        PROVE  OneWriter'
    <3>1. req'[h].op = op /\ \A g \in Handlers \ {h} : req'[g] = req[g]
      BY <2>1 DEF Receive, NewRequest, TypeInv, TypeOK
    <3>2. op \in {"CreateVoter", "RegisterVotingStep"} => \A g \in Handlers : ~Writing(g)
      BY <2>1 DEF Receive, MayStart, Serial
    <3> QED BY <3>1, <3>2 DEF OneWriter, Writing, InFlight
  <2> QED BY <1>5, <2>1 DEF Call, ReceiveCreateVoter, ReceiveVotingStep, ReceiveCheckVoterStatus,
             ReceiveGetVoter
<1> QED BY <1>2, <1>3, <1>4, <1>5, SerialMeans DEF Next

-----------------------------------------------------------------------------
(* The totals *)

\* The row of the request is written and the statistics do not count it yet.
Owes(r) == r.pc \in {"readStats", "saveStats"}

Exact(s) == s.TotalVoters = Cardinality(Registered) /\ s.TotalVotes = Cardinality(Voted)

\* What a request that is about to count, or to save its count, finds.
Behind(r) ==
  /\ r.pc = "readStats" /\ r.op = "CreateVoter" =>
       stats.TotalVoters + 1 = Cardinality(Registered) /\ stats.TotalVotes = Cardinality(Voted)
  /\ r.pc = "readStats" /\ r.op = "RegisterVotingStep" =>
       stats.TotalVoters = Cardinality(Registered) /\ stats.TotalVotes + 1 = Cardinality(Voted)
  /\ r.pc = "saveStats" => Exact(r.copy)

TotalsInv ==
  /\ (\A h \in Handlers : ~Owes(req[h])) => Exact(stats)
  /\ \A h \in Handlers : Behind(req[h])
  /\ ~HasBoxes(stats) => stats.TotalVoters = 0 /\ stats.TotalVotes = 0

\* Everything that is shown of the registry when one request writes at a time.
SerialInv == TypeInv /\ SafeInv /\ ServedInv /\ OneWriter /\ TotalsInv

(* Who owes a count writes, and nobody else does. *)
LEMMA OneOwes ==
  ASSUME TypeInv, OneWriter, NEW h \in Handlers, Writing(h), NEW g \in Handlers, g # h
  PROVE  ~Owes(req[g])
<1> SUFFICES ASSUME Owes(req[g]) PROVE FALSE
  OBVIOUS
<1>1. InFlight(g)
  BY DEF Owes, InFlight
<1>2. LabelOK(g, req[g])
  BY <1>1 DEF TypeInv, ControlOK
<1>3. Writing(g)
  BY <1>1, <1>2 DEF Owes, LabelOK, Writing
<1> QED BY <1>3 DEF OneWriter

(* Nothing is registered, voted or counted in the beginning. *)
LEMMA InitSerial == ASSUME Finite, Init PROVE OneWriter /\ TotalsInv
<1>1. Registered = {} /\ Voted = {}
  BY DEF Init, Registered, Voted, NoStatus, StatusRow
<1>2. Cardinality(Registered) = 0 /\ Cardinality(Voted) = 0
  BY <1>1, FS_EmptySet
<1>3. \A h \in Handlers : req[h].pc = "idle"
  BY DEF Init, Idle
<1>4. stats.TotalVoters = 0 /\ stats.TotalVotes = 0
  BY DEF Init, ZeroStats
<1> QED BY <1>2, <1>3, <1>4 DEF TotalsInv, OneWriter, Exact, Behind, Owes, Writing, InFlight

(* A step that neither writes a row nor counts one. *)
LEMMA TotalsWait ==
  ASSUME TotalsInv, UNCHANGED <<voters, statuses, stats>>,
         \A g \in Handlers : Owes(req[g]) \/ Owes(req'[g]) => req'[g] = req[g]
  PROVE  TotalsInv'
<1>1. Registered' = Registered /\ Voted' = Voted
  BY DEF Registered, Voted
<1>2. \A g \in Handlers : Owes(req'[g]) => Owes(req[g])
  BY DEF Owes
<1>3. \A g \in Handlers : Owes(req[g]) => Owes(req'[g])
  BY DEF Owes
<1>4. \A g \in Handlers : Behind(req[g])'
  BY <1>1 DEF TotalsInv, Behind, Exact, Owes
<1>5. (\A g \in Handlers : ~Owes(req[g]))' => Exact(stats)'
  <2>1. (\A g \in Handlers : ~Owes(req'[g])) => Exact(stats)
    BY <1>3 DEF TotalsInv
  <2> QED BY <1>1, <2>1 DEF Exact, Owes
<1> QED BY <1>4, <1>5 DEF TotalsInv, HasBoxes

(* A step of the one writer, which may owe a count afterwards. *)
LEMMA TotalsOfWriter ==
  ASSUME TypeInv, OneWriter, TotalsInv, NEW h \in Handlers, Writing(h),
         \A g \in Handlers \ {h} : req'[g] = req[g],
         Behind(req[h])',
         ~Owes(req'[h]) => Exact(stats)',
         ~HasBoxes(stats)' => stats'.TotalVoters = 0 /\ stats'.TotalVotes = 0
  PROVE  TotalsInv'
<1>1. \A g \in Handlers \ {h} : ~Owes(req[g])
  BY OneOwes
<1>2. \A g \in Handlers : Behind(req[g])'
  BY <1>1 DEF Behind, Owes
<1>3. (\A g \in Handlers : ~Owes(req[g]))' => Exact(stats)'
  BY DEF Owes
<1> QED BY <1>2, <1>3 DEF TotalsInv

(* The writer is at a statement before its count: nobody owes one. *)
LEMMA NobodyOwes ==
  ASSUME TypeInv, OneWriter, TotalsInv, NEW h \in Handlers, Writing(h), ~Owes(req[h])
  PROVE  Exact(stats)
  BY OneOwes DEF TotalsInv

(* One element more. *)
LEMMA OneMore ==
  ASSUME NEW A, NEW B, NEW x, IsFiniteSet(A), x \notin A, B = A \cup {x}
  PROVE  Cardinality(B) = Cardinality(A) + 1
  BY FS_AddElement

(* The sets of rows are finite and their sizes numbers. *)
LEMMA SizesType ==
  ASSUME Finite, TypeInv
  PROVE  /\ IsFiniteSet(Registered) /\ Cardinality(Registered) \in Nat
         /\ IsFiniteSet(Voted) /\ Cardinality(Voted) \in Nat
         /\ stats.TotalVoters \in Nat /\ stats.TotalVotes \in Nat
  BY CountsType, TotalsType

(* CreateNewVoter writes the row that it is going to count, or none. *)
LEMMA InsertVoterTotals ==
  ASSUME Serial, Finite, SerialInv, NEW h \in Handlers, InsertVoter(h), NEW v, req[h].voter = v
  PROVE  TotalsInv'
<1>1. /\ TypeInv /\ OneWriter /\ TotalsInv /\ req[h] \in Request /\ LabelOK(h, req[h])
      /\ Writing(h) /\ v \in Students /\ req[h].op = "CreateVoter"
  <2>1. Handle(h)
    BY DEF Handle
  <2> QED BY <2>1, HandlingRequest DEF SerialInv, InsertVoter, At, LabelOK, Writing, Request
<1>2. Exact(stats) /\ UNCHANGED <<stats, statuses>> /\ Voted' = Voted
  BY <1>1, NobodyOwes DEF InsertVoter, At, Owes, Voted
<1>3. req[h].home # NoBox
  BY <1>1, BoxAssumption DEF LabelOK, InsertVoter, At
<1>4. ASSUME Answer(h, 8), UNCHANGED voters PROVE TotalsInv'
  BY <1>1, <1>2, <1>4, AnswerFields, TotalsWait DEF Owes, InsertVoter, At
<1>5. ASSUME Goto(h, "readStats"), voters[v] = NoBox,
             voters' = [voters EXCEPT ![v] = req[h].home]
      PROVE  TotalsInv'
  <2>1. Registered' = Registered \cup {v} /\ v \notin Registered
    BY <1>1, <1>3, <1>5 DEF Registered, TypeInv, TypeOK
  <2>2. Cardinality(Registered') = Cardinality(Registered) + 1
    BY <1>1, <2>1, OneMore, SizesType
  <2>3. /\ req'[h].pc = "readStats" /\ req'[h].op = "CreateVoter"
        /\ \A g \in Handlers \ {h} : req'[g] = req[g]
    BY <1>1, <1>5, GotoFields
  <2>4. Behind(req[h])'
    BY <1>2, <2>2, <2>3 DEF Behind, Exact
  <2> QED BY <1>1, <1>2, <2>3, <2>4, TotalsOfWriter DEF Owes, HasBoxes, TotalsInv
<1>6. Written(req[h].home, NoBox) = {req[h].home}
  BY SerialMeans DEF Written, NoLostWrite
<1> QED BY <1>1, <1>3, <1>4, <1>5, <1>6 DEF InsertVoter

(* RegisterVotingStep writes the row of the vote that it is going to count. *)
LEMMA InsertVotedTotals ==
  ASSUME Serial, Finite, SerialInv, SafeInv', NEW h \in Handlers, InsertVoted(h),
         NEW v, req[h].voter = v
  PROVE  TotalsInv'
<1>1. /\ TypeInv /\ OneWriter /\ TotalsInv /\ req[h] \in Request
      /\ Writing(h) /\ Voting(h) /\ v \in Students /\ req[h].op = "RegisterVotingStep"
  <2>1. Handle(h)
    BY DEF Handle
  <2> QED BY <2>1, HandlingRequest DEF SerialInv, InsertVoted, At, LabelOK, Writing, Voting, Request
<1>2. Exact(stats) /\ UNCHANGED <<stats, voters>> /\ Registered' = Registered
  BY <1>1, NobodyOwes DEF InsertVoted, At, Owes, Registered
<1>3. /\ req'[h].pc = "readStats" /\ req'[h].op = "RegisterVotingStep" /\ req'[h].voter = v
      /\ \A g \in Handlers \ {h} : req'[g] = req[g]
  BY <1>1, GotoFields DEF InsertVoted
<1>4. statuses[v].Status = 0
  BY <1>1 DEF SerialInv, SafeInv, VoteOK, InsertVoted, At
<1>5. statuses'[v].Status = 2
  BY <1>1, <1>3 DEF SafeInv, VoteOK, Voting, InFlight
<1>6. \A s \in Students \ {v} : statuses'[s] = statuses[s]
  BY <1>1 DEF InsertVoted, Record, TypeInv, TypeOK
<1>7. Voted' = Voted \cup {v} /\ v \notin Voted
  BY <1>1, <1>4, <1>5, <1>6 DEF Voted
<1>8. Cardinality(Voted') = Cardinality(Voted) + 1
  BY <1>1, <1>7, OneMore, SizesType
<1>9. Behind(req[h])'
  BY <1>2, <1>3, <1>8 DEF Behind, Exact
<1> QED BY <1>1, <1>2, <1>3, <1>9, TotalsOfWriter DEF Owes, HasBoxes, TotalsInv

(* The rows that hold a ballot, or none, are not counted. *)
LEMMA BallotTotals ==
  ASSUME Serial, SerialInv, NEW h \in Handlers, DeleteStatus(h) \/ InsertBallot(h),
         NEW v, req[h].voter = v
  PROVE  TotalsInv'
<1>1. /\ TypeInv /\ OneWriter /\ TotalsInv /\ req[h] \in Request
      /\ Writing(h) /\ Voting(h) /\ v \in Students
  <2>1. Handle(h)
    BY DEF Handle
  <2> QED BY <2>1, HandlingRequest DEF SerialInv, DeleteStatus, InsertBallot, At, LabelOK,
             Writing, Voting, Request
<1>2. Exact(stats) /\ UNCHANGED <<stats, voters>> /\ Registered' = Registered
  BY <1>1, NobodyOwes DEF DeleteStatus, InsertBallot, At, Owes, Registered
<1>3. /\ ~Owes(req'[h]) /\ \A g \in Handlers \ {h} : req'[g] = req[g]
  BY <1>1, GotoFields, AnswerFields DEF DeleteStatus, InsertBallot, Owes
<1>4. /\ v \in Voted <=> statuses'[v].Status = 2
      /\ \A s \in Students \ {v} : statuses'[s] = statuses[s]
  <2>1. CASE DeleteStatus(h)
    <3>1. statuses[v].Status = 1
      BY <1>1, <2>1 DEF SerialInv, SafeInv, VoteOK, DeleteStatus, At
    <3>2. statuses' = [statuses EXCEPT ![v] = NoStatus]
      BY <2>1, SerialMeans DEF DeleteStatus, Written, NoLostWrite
    <3> QED BY <1>1, <3>1, <3>2 DEF Voted, NoStatus, StatusRow, TypeInv, TypeOK
  <2>2. CASE InsertBallot(h)
    <3>1. PICK row \in Insert(StatusRow(1, NoBox, NoBox), statuses[v]) :
            statuses' = [statuses EXCEPT ![v] = row]
      BY <2>2 DEF InsertBallot, Record
    <3>2. row.Status = 2 <=> statuses[v].Status = 2
      BY <3>1 DEF Insert, Written, StatusRow
    <3> QED BY <1>1, <3>1, <3>2 DEF Voted, TypeInv, TypeOK
  <2> QED BY <2>1, <2>2
<1>5. Voted' = Voted
  BY <1>1, <1>4 DEF Voted
<1> QED BY <1>1, <1>2, <1>3, <1>5, TotalsOfWriter DEF Owes, Behind, Exact, HasBoxes, TotalsInv

(* Counting on the copy, and saving it. *)
LEMMA CountTotals ==
  ASSUME Serial, Finite, SerialInv, NEW h \in Handlers, ReadStats(h) \/ SaveStats(h)
  PROVE  TotalsInv'
<1>1. /\ TypeInv /\ OneWriter /\ TotalsInv /\ req[h] \in Request /\ Writing(h)
      /\ Handle(h) /\ req[h].op \in {"CreateVoter", "RegisterVotingStep"}
  <2>1. Handle(h)
    BY DEF Handle
  <2> QED BY <2>1, HandlingRequest DEF SerialInv, ReadStats, SaveStats, At, LabelOK, Writing
<1>2. UNCHANGED <<voters, statuses>> /\ Registered' = Registered /\ Voted' = Voted
  BY DEF ReadStats, SaveStats, tables, Registered, Voted
<1>3. CASE ReadStats(h)
  <2>1. PICK copy : req' = [req EXCEPT ![h].pc = "saveStats", ![h].copy = copy]
    BY <1>3, ReadStatsEffect DEF SerialInv, Serial
  <2>2. /\ req'[h].pc = "saveStats" /\ \A g \in Handlers \ {h} : req'[g] = req[g]
    BY <1>1, <2>1 DEF TypeInv, TypeOK, Request
  <2>3. Counted(h)
    BY <1>1, <2>2, Moves DEF Idle
  <2>4. Behind(req[h]) /\ req[h].pc = "readStats" /\ stats' = stats
    BY <1>1, <1>3 DEF TotalsInv, ReadStats, At, tables
  <2>5. Exact(req'[h].copy)
    <3>1. CASE req[h].op = "CreateVoter"
      BY <2>3, <2>4, <3>1 DEF Counted, CountVoter, Behind, Exact
    <3>2. CASE req[h].op = "RegisterVotingStep"
      <4>1. PICK day : req'[h].copy = CountVote(stats, NodeOf[h], req[h].home, req[h].afternoon, day)
        BY <2>3, <3>2 DEF Counted
      <4>2. /\ req'[h].copy.TotalVoters = stats.TotalVoters
            /\ req'[h].copy.TotalVotes = stats.TotalVotes + 1
        BY <4>1 DEF CountVote
      <4> QED BY <2>4, <3>2, <4>2 DEF Behind, Exact
    <3> QED BY <1>1, <3>1, <3>2
  <2> QED BY <1>1, <1>2, <2>2, <2>4, <2>5, TotalsOfWriter DEF Behind, Exact, Owes, HasBoxes, TotalsInv
<1>4. CASE SaveStats(h)
  <2>1. stats' = req[h].copy /\ Answer(h, 0) /\ req[h].pc = "saveStats"
    BY <1>4, SerialMeans DEF SaveStats, Written, NoLostWrite, At
  <2>2. Exact(stats)' /\ HasBoxes(stats)'
    BY <1>1, <1>2, <2>1 DEF TotalsInv, Behind, Exact, SerialInv, ServedInv, At, HasBoxes
  <2>3. req'[h].pc = "reply" /\ \A g \in Handlers \ {h} : req'[g] = req[g]
    BY <1>1, <2>1, AnswerFields
  <2> QED BY <1>1, <2>2, <2>3, TotalsOfWriter DEF Behind, Owes
<1> QED BY <1>3, <1>4

(* A request that only reads, or is done, changes nothing but itself. *)
LEMMA ReadersAlone ==
  ASSUME TypeInv, NEW h \in Handlers,
         Find(h) \/ LookupNewVoter(h) \/ Lookup(h) \/ ReadStatus(h) \/ Deliver(h)
  PROVE  /\ UNCHANGED tables /\ ~Owes(req[h]) /\ ~Owes(req'[h])
         /\ \A g \in Handlers \ {h} : req'[g] = req[g]
<1>1. Handle(h) /\ UNCHANGED tables /\ ~Owes(req[h])
  BY DEF Handle, Find, LookupNewVoter, Lookup, ReadStatus, Deliver, At, Owes, tables
<1>2. ~Owes(req'[h])
  <2>1. ~InsertVoter(h) /\ ~InsertVoted(h) /\ ~Counted(h)
    BY DEF InsertVoter, InsertVoted, Counted, ReadStats, At, Find, LookupNewVoter, Lookup,
       ReadStatus, Deliver
  <2>2. req'[h] = Idle \/ (req'[h].pc # "readStats" /\ req'[h].pc # "saveStats")
    BY <1>1, <2>1, Moves
  <2> QED BY <2>2 DEF Owes, Idle
<1>3. ASSUME NEW r, req' = [req EXCEPT ![h] = r] PROVE \A g \in Handlers \ {h} : req'[g] = req[g]
  BY <1>3 DEF TypeInv, TypeOK
<1>4. \E r : req' = [req EXCEPT ![h] = r]
  <2>1. ASSUME NEW code, Answer(h, code) PROVE \E r : req' = [req EXCEPT ![h] = r]
    BY <2>1 DEF Answer
  <2>2. ASSUME NEW label, Goto(h, label) PROVE \E r : req' = [req EXCEPT ![h] = r]
    <3>1. req' = [req EXCEPT ![h] = [req[h] EXCEPT !.pc = label]]
      BY <2>2 DEF Goto
    <3> QED BY <3>1
  <2>3. CASE Find(h)
    BY <2>1, <2>2, <2>3 DEF Find
  <2>4. CASE LookupNewVoter(h)
    BY <2>1, <2>2, <2>4 DEF LookupNewVoter
  <2>5. CASE Lookup(h)
    <3>1. ASSUME NEW home, req' = [req EXCEPT ![h].pc = "readStatus", ![h].home = home]
          PROVE  \E r : req' = [req EXCEPT ![h] = r]
      <4>1. req' = [req EXCEPT ![h] = [req[h] EXCEPT !.pc = "readStatus", !.home = home]]
        BY <3>1
      <4> QED BY <4>1
    <3> QED BY <2>1, <2>5, <3>1 DEF Lookup
  <2>6. CASE ReadStatus(h)
    <3>1. PICK status \in Read(statuses[req[h].voter].Status, 0) :
             CASE req[h].op = "RegisterVotingStep" -> StepAfter(h, status)
               [] req[h].op = "CheckVoterStatus" -> Answer(h, StatusCode(status))
               [] req[h].op = "GetVoter" ->
                    req' = [req EXCEPT ![h].pc = "reply", ![h].home = NoBox, ![h].seen = status]
      BY <2>6 DEF ReadStatus
    <3>2. /\ req[h] \in Request /\ req[h].op # "CreateVoter"
          /\ statuses[req[h].voter] \in VoterStatus
      BY <1>1, <2>6, HandlingRequest DEF ReadStatus, At, LabelOK, TypeInv, TypeOK, Request
    <3>3. status \in 0..2
      BY <3>1, <3>2 DEF Read, VoterStatus
    <3>4. ASSUME StepAfter(h, status) PROVE \E r : req' = [req EXCEPT ![h] = r]
      <4>1. ASSUME req' = [req EXCEPT ![h].pc = "deleteStatus", ![h].seen = status]
            PROVE  \E r : req' = [req EXCEPT ![h] = r]
        <5>1. req' = [req EXCEPT ![h] = [req[h] EXCEPT !.pc = "deleteStatus", !.seen = status]]
          BY <4>1
        <5> QED BY <5>1
      <4>2. CASE status = 0
        BY <2>2, <3>4, <4>2 DEF StepAfter
      <4>3. CASE status = 1
        BY <3>4, <4>1, <4>3 DEF StepAfter
      <4>4. CASE status = 2
        BY <2>1, <3>4, <4>4 DEF StepAfter
      <4> QED BY <3>3, <4>2, <4>3, <4>4
    <3>5. ASSUME req' = [req EXCEPT ![h].pc = "reply", ![h].home = NoBox, ![h].seen = status]
          PROVE  \E r : req' = [req EXCEPT ![h] = r]
      <4>1. req' = [req EXCEPT ![h] = [req[h] EXCEPT !.pc = "reply", !.home = NoBox, !.seen = status]]
        BY <3>5
      <4> QED BY <4>1
    <3>6. req[h].op \in {"RegisterVotingStep", "CheckVoterStatus", "GetVoter"}
      BY <3>2 DEF Request
    <3>7. CASE req[h].op = "RegisterVotingStep"
      BY <3>1, <3>4, <3>7
    <3>8. CASE req[h].op = "CheckVoterStatus"
      BY <2>1, <3>1, <3>8
    <3>9. CASE req[h].op = "GetVoter"
      BY <3>1, <3>5, <3>9
    <3> QED BY <3>6, <3>7, <3>8, <3>9
  <2>7. CASE Deliver(h)
    BY <2>7 DEF Deliver
  <2> QED BY <2>3, <2>4, <2>5, <2>6, <2>7
<1> QED BY <1>1, <1>2, <1>3, <1>4

(* Each statement keeps the totals and the rows together; one step each. *)
LEMMA TotalsInductive ==
  ASSUME Serial, Finite, SerialInv, SafeInv', [Next]_vars
  PROVE  TotalsInv'
<1>0. TypeInv /\ OneWriter /\ TotalsInv
  BY DEF SerialInv
<1>1. CASE UNCHANGED vars
  BY <1>0, <1>1, TotalsWait DEF vars, tables
<1>2. CASE Start
  <2>1. UNCHANGED <<voters, statuses, req>> /\ Registered' = Registered /\ Voted' = Voted
    BY <1>2 DEF Start, CommitteeMigrates, CommitteeServes, CommitteeGrants, BoxServes, tables,
       Registered, Voted
  <2>2. stats' = stats \/ (stats' = newStats /\ ~HasBoxes(stats))
    BY <1>2, SerialMeans DEF Start, CommitteeMigrates, CommitteeServes, CommitteeGrants, BoxServes,
       tables, Written
  <2>3. /\ stats'.TotalVoters = stats.TotalVoters /\ stats'.TotalVotes = stats.TotalVotes
        /\ ~HasBoxes(stats)' => stats'.TotalVoters = 0 /\ stats'.TotalVotes = 0
    BY <1>0, <2>2 DEF newStats, TotalsInv, HasBoxes
  <2> QED BY <1>0, <2>1, <2>3 DEF TotalsInv, Behind, Exact, Owes
<1>3. ASSUME NEW h \in Handlers, NEW s \in Students, Call(h, s) PROVE TotalsInv'
  <2>1. ASSUME NEW op, NEW label \in {"find", "lookup"}, NEW home, NEW isAfternoon,
               Receive(h, op, NewRequest(op, label, s, home, isAfternoon)), UNCHANGED tables
        PROVE  TotalsInv'
    <3>1. req'[h].pc = label /\ \A g \in Handlers \ {h} : req'[g] = req[g]
      BY <1>0, <2>1 DEF Receive, NewRequest, TypeInv, TypeOK
    <3>2. req[h].pc = "idle"
      BY <2>1 DEF Receive, Idle
    <3> QED BY <1>0, <2>1, <3>1, <3>2, TotalsWait DEF Owes, tables
  <2> QED BY <1>3, <2>1 DEF Call, ReceiveCreateVoter, ReceiveVotingStep, ReceiveCheckVoterStatus,
             ReceiveGetVoter, tables
<1>4. ASSUME NEW h \in Handlers,
             Find(h) \/ LookupNewVoter(h) \/ Lookup(h) \/ ReadStatus(h) \/ Deliver(h)
      PROVE  TotalsInv'
  BY <1>0, <1>4, ReadersAlone, TotalsWait DEF tables
<1> QED BY <1>1, <1>2, <1>3, <1>4, InsertVoterTotals, InsertVotedTotals, BallotTotals, CountTotals,
           SerialMeans DEF Next, Handle

(* All that is shown of the registry, together. *)
LEMMA SerialAlways == ASSUME Serial, Finite PROVE Spec => []SerialInv
<1>1. Init => SerialInv
  BY InitType, InitSafe, InitServed, InitSerial DEF SerialInv
<1>2. SerialInv /\ [Next]_vars => SerialInv'
  BY SerialMeans, TypeInductive, SafeInductive, ServedInductive, WriterInductive, TotalsInductive
     DEF SerialInv
<1> QED BY <1>1, <1>2, PTL DEF Spec

(* Between two requests the row of statistics shows exactly the voters and the
   votes of the tables, for every number of students and boxes (stats.go). *)
THEOREM SerialCountsExactly == ASSUME Serial, Finite PROVE Spec => []StatsExact
<1>1. SerialInv => StatsExact
  <2> SUFFICES ASSUME SerialInv, Quiet PROVE Exact(stats)
    BY DEF StatsExact, Exact
  <2>1. \A h \in Handlers : ~Owes(req[h])
    BY DEF SerialInv, Quiet, Writing, Owes, InFlight, TypeInv, ControlOK, LabelOK
  <2> QED BY <2>1 DEF SerialInv, TotalsInv
<1> QED BY <1>1, SerialAlways, PTL

-----------------------------------------------------------------------------
(* Ballots *)

\* The answer that hands out a ballot, when it arrives.
HandsOut(r) == r.pc = "reply" /\ r.op = "RegisterVotingStep" /\ r.code = 0 /\ r.seen = 0

\* The row is there, or the request that deleted it is about to write the next.
OnRecord(s) ==
  granted[s] > 0 =>
    \/ statuses[s].Status > 0
    \/ \E h \in Handlers : At(h, "insertVoted") /\ req[h].voter = s

BallotInv ==
  /\ \A s \in Students : OnRecord(s)
  /\ \A h \in Handlers : HandsOut(req[h]) => statuses[req[h].voter].Status > 0

(* A step that neither changes a row nor ends or begins a request of this kind. *)
LEMMA BallotQuiet ==
  ASSUME BallotInv, UNCHANGED <<statuses, granted>>,
         \A g \in Handlers : At(g, "insertVoted") \/ HandsOut(req'[g]) => req'[g] = req[g]
  PROVE  BallotInv'
<1>1. ASSUME NEW s \in Students PROVE OnRecord(s)'
  <2>1. OnRecord(s)
    BY DEF BallotInv
  <2>2. ASSUME NEW g \in Handlers, At(g, "insertVoted"), req[g].voter = s PROVE OnRecord(s)'
    BY <2>2 DEF OnRecord, At
  <2> QED BY <2>1, <2>2 DEF OnRecord
<1> QED BY <1>1 DEF BallotInv

(* A step of the one request that votes for v. *)
LEMMA BallotStep ==
  ASSUME TypeInv, SafeInv, BallotInv, NEW h \in Handlers, Voting(h),
         NEW v \in Students, req[h].voter = v,
         \A g \in Handlers \ {h} : req'[g] = req[g],
         \A s \in Students \ {v} : statuses'[s] = statuses[s] /\ granted'[s] = granted[s],
         OnRecord(v)',
         HandsOut(req'[h]) => req'[h].voter = v /\ statuses'[v].Status > 0
  PROVE  BallotInv'
<1>1. ASSUME NEW s \in Students \ {v} PROVE OnRecord(s)'
  <2>1. OnRecord(s)
    BY DEF BallotInv
  <2>2. ASSUME NEW g \in Handlers, At(g, "insertVoted"), req[g].voter = s PROVE OnRecord(s)'
    BY <2>2 DEF OnRecord, At
  <2> QED BY <2>1, <2>2 DEF OnRecord
<1>2. ASSUME NEW g \in Handlers \ {h}, HandsOut(req'[g])
      PROVE  statuses'[req'[g].voter].Status > 0
  <2>1. req'[g] = req[g] /\ Voting(g)
    BY <1>2 DEF HandsOut, Voting, InFlight
  <2>2. req[g].voter \in Students \ {v}
    BY <2>1, RequestType DEF Voting, TypeInv, TypeOK, Request, SafeInv, Exclusive
  <2> QED BY <1>2, <2>1, <2>2 DEF BallotInv
<1> QED BY <1>1, <1>2 DEF BallotInv

(* Whether the INSERT meets a row or not, there is one afterwards. *)
LEMMA InsertLeavesRow ==
  ASSUME NoLostWrite, NEW row, row.Status > 0, NEW old \in VoterStatus,
         NEW new \in Insert(row, old)
  PROVE  new.Status > 0
  BY DEF NoLostWrite, Insert, Written, VoterStatus

(* Reading steps and the end of a request without a vote hand nothing out. *)
LEMMA BallotReaders ==
  ASSUME TypeInv, BallotInv, NEW h \in Handlers,
         Find(h) \/ LookupNewVoter(h) \/ Lookup(h) \/ ReadStatus(h)
  PROVE  BallotInv'
<1>1. /\ Handle(h) /\ UNCHANGED <<statuses, granted>> /\ ~At(h, "insertVoted")
      /\ \A g \in Handlers \ {h} : req'[g] = req[g]
  BY ReadersAlone DEF Handle, Find, LookupNewVoter, Lookup, ReadStatus, tables, history, At
<1>2. req[h] \in Request /\ LabelOK(h, req[h]) /\ statuses[req[h].voter] \in VoterStatus
  BY <1>1, HandlingRequest DEF TypeInv, TypeOK, Request
<1>3. ASSUME NEW code, Answer(h, code), code # 0 \/ req[h].op # "RegisterVotingStep"
      PROVE  ~HandsOut(req'[h])
  BY <1>2, <1>3, AnswerFields DEF HandsOut
<1>4. ASSUME NEW label, label # "reply", Goto(h, label) PROVE ~HandsOut(req'[h])
  BY <1>2, <1>4, GotoFields DEF HandsOut
<1>5. ~HandsOut(req'[h])
  <2>1. CASE Find(h)
    BY <1>2, <1>3, <1>4, <2>1 DEF Find, At, LabelOK
  <2>2. CASE LookupNewVoter(h)
    BY <1>2, <1>3, <1>4, <2>2 DEF LookupNewVoter
  <2>3. CASE Lookup(h)
    <3>1. ASSUME NEW home, req' = [req EXCEPT ![h].pc = "readStatus", ![h].home = home]
          PROVE  ~HandsOut(req'[h])
      BY <1>2, <3>1 DEF HandsOut, TypeInv, TypeOK, Request
    <3>2. NotFound(req[h].op) # 0
      BY DEF NotFound
    <3> QED BY <1>3, <2>3, <3>1, <3>2 DEF Lookup
  <2>4. CASE ReadStatus(h)
    <3>1. PICK status \in Read(statuses[req[h].voter].Status, 0) :
             CASE req[h].op = "RegisterVotingStep" -> StepAfter(h, status)
               [] req[h].op = "CheckVoterStatus" -> Answer(h, StatusCode(status))
               [] req[h].op = "GetVoter" ->
                    req' = [req EXCEPT ![h].pc = "reply", ![h].home = NoBox, ![h].seen = status]
      BY <2>4 DEF ReadStatus
    <3>2. status \in 0..2
      BY <1>2, <3>1 DEF Read, VoterStatus
    <3>3. req[h].op \in {"RegisterVotingStep", "CheckVoterStatus", "GetVoter"}
      BY <1>2, <2>4 DEF ReadStatus, At, LabelOK, Request
    <3>4. CASE req[h].op = "RegisterVotingStep"
      <4>1. StepAfter(h, status)
        BY <3>1, <3>4
      <4>2. ASSUME req' = [req EXCEPT ![h].pc = "deleteStatus", ![h].seen = status]
            PROVE  ~HandsOut(req'[h])
        BY <1>2, <4>2 DEF HandsOut, TypeInv, TypeOK, Request
      <4>3. CASE status = 0
        BY <1>4, <4>1, <4>3 DEF StepAfter
      <4>4. CASE status = 1
        BY <4>1, <4>2, <4>4 DEF StepAfter
      <4>5. CASE status = 2
        BY <1>3, <4>1, <4>5 DEF StepAfter
      <4> QED BY <3>2, <4>3, <4>4, <4>5
    <3>5. CASE req[h].op = "CheckVoterStatus"
      BY <1>3, <3>1, <3>5
    <3>6. CASE req[h].op = "GetVoter"
      <4>1. req' = [req EXCEPT ![h].pc = "reply", ![h].home = NoBox, ![h].seen = status]
        BY <3>1, <3>6
      <4>2. req'[h].op = "GetVoter"
        BY <1>2, <3>6, <4>1 DEF TypeInv, TypeOK, Request
      <4> QED BY <4>2 DEF HandsOut
    <3> QED BY <3>3, <3>4, <3>5, <3>6
  <2> QED BY <2>1, <2>2, <2>3, <2>4
<1> QED BY <1>1, <1>5, BallotQuiet

(* The statements that write rows, and the answer that hands a ballot out. *)
LEMMA BallotWrites ==
  ASSUME NoLostWrite, TypeInv, SafeInv, BallotInv, NEW h \in Handlers,
         DeleteStatus(h) \/ InsertVoted(h) \/ InsertBallot(h), NEW v, req[h].voter = v
  PROVE  BallotInv'
<1>1. /\ req[h] \in Request /\ Voting(h) /\ v \in Students /\ granted' = granted
      /\ statuses[v] \in VoterStatus
  <2>1. Handle(h)
    BY DEF Handle
  <2> QED BY <2>1, HandlingRequest DEF DeleteStatus, InsertVoted, InsertBallot, At, LabelOK, Voting,
             Request, TypeInv, TypeOK, history
<1>2. CASE DeleteStatus(h)
  <2>1. /\ req'[h].pc = "insertVoted" /\ req'[h].voter = v
        /\ \A g \in Handlers \ {h} : req'[g] = req[g]
    BY <1>1, <1>2, GotoFields DEF DeleteStatus
  <2>2. \A s \in Students \ {v} : statuses'[s] = statuses[s]
    BY <1>2 DEF DeleteStatus, TypeInv, TypeOK
  <2>3. OnRecord(v)' /\ ~HandsOut(req'[h])
    BY <2>1 DEF OnRecord, HandsOut, At
  <2> QED BY <1>1, <2>1, <2>2, <2>3, BallotStep
<1>3. CASE InsertVoted(h)
  <2>1. req'[h].pc = "readStats" /\ \A g \in Handlers \ {h} : req'[g] = req[g]
    BY <1>1, <1>3, GotoFields DEF InsertVoted
  <2>2. PICK new \in VotedRows(req[h].home, NodeOf[h]) :
          \E row \in Insert(new, statuses[v]) : statuses' = [statuses EXCEPT ![v] = row]
    BY <1>3 DEF InsertVoted, Record
  <2>3. new.Status > 0
    BY <2>2 DEF VotedRows, StatusRow
  <2>4. PICK row \in Insert(new, statuses[v]) : statuses' = [statuses EXCEPT ![v] = row]
    BY <2>2
  <2>5. row.Status > 0
    BY <1>1, <2>3, <2>4, InsertLeavesRow
  <2>6. statuses'[v].Status > 0 /\ \A s \in Students \ {v} : statuses'[s] = statuses[s]
    BY <1>1, <2>4, <2>5 DEF TypeInv, TypeOK
  <2>7. OnRecord(v)' /\ ~HandsOut(req'[h])
    BY <2>1, <2>6 DEF OnRecord, HandsOut
  <2> QED BY <1>1, <2>1, <2>6, <2>7, BallotStep
<1>4. CASE InsertBallot(h)
  <2>1. req'[h].voter = v /\ \A g \in Handlers \ {h} : req'[g] = req[g]
    BY <1>1, <1>4, AnswerFields DEF InsertBallot
  <2>2. PICK row \in Insert(StatusRow(1, NoBox, NoBox), statuses[v]) :
          statuses' = [statuses EXCEPT ![v] = row]
    BY <1>4 DEF InsertBallot, Record
  <2>3. StatusRow(1, NoBox, NoBox).Status > 0
    BY DEF StatusRow
  <2>4. row.Status > 0
    BY <1>1, <2>2, <2>3, InsertLeavesRow
  <2>5. statuses'[v].Status > 0 /\ \A s \in Students \ {v} : statuses'[s] = statuses[s]
    BY <1>1, <2>2, <2>4 DEF TypeInv, TypeOK
  <2>6. OnRecord(v)'
    BY <2>5 DEF OnRecord
  <2> QED BY <1>1, <2>1, <2>5, <2>6, BallotStep
<1> QED BY <1>2, <1>3, <1>4

(* The box takes the answer; its row was written before. *)
LEMMA BallotDelivered ==
  ASSUME TypeInv, SafeInv, BallotInv, NEW h \in Handlers, Deliver(h)
  PROVE  BallotInv'
<1>1. /\ req[h] \in Request /\ ~At(h, "insertVoted") /\ req' = [req EXCEPT ![h] = Idle]
      /\ \A g \in Handlers \ {h} : req'[g] = req[g]
      /\ ~HandsOut(req'[h]) /\ statuses' = statuses
  <2>1. Handle(h)
    BY DEF Handle
  <2> QED BY <2>1, HandlingRequest DEF Deliver, At, Idle, HandsOut, tables, TypeInv, TypeOK
<1>2. CASE HandsOut(req[h])
  <2>1. statuses[req[h].voter].Status > 0 /\ Voting(h) /\ req[h].voter \in Students
    BY <1>1, <1>2 DEF BallotInv, HandsOut, Voting, InFlight, Request
  <2>2. granted' = [granted EXCEPT ![req[h].voter] = @ + 1]
    BY <1>2 DEF Deliver, HandsOut
  <2>3. PICK v \in Students : v = req[h].voter
    BY <2>1
  <2>4. \A s \in Students \ {v} : granted'[s] = granted[s]
    BY <2>2, <2>3 DEF TypeInv, TypeOK
  <2>5. OnRecord(v)'
    BY <1>1, <2>1, <2>3 DEF OnRecord
  <2> QED BY <1>1, <2>1, <2>3, <2>4, <2>5, BallotStep
<1>3. CASE ~HandsOut(req[h])
  <2>1. granted' = granted
    BY <1>3 DEF Deliver, HandsOut, At
  <2> QED BY <1>1, <2>1, BallotQuiet
<1> QED BY <1>2, <1>3

(* The calls that remain: new voters, and counting a vote that is written. *)
LEMMA BallotOthers ==
  ASSUME TypeInv, SafeInv, ServedInv, BallotInv, ~MayExit, NEW h \in Handlers,
         InsertVoter(h) \/ ReadStats(h) \/ SaveStats(h)
  PROVE  BallotInv'
<1>1. /\ Handle(h) /\ UNCHANGED <<statuses, granted>> /\ ~At(h, "insertVoted")
  BY DEF Handle, InsertVoter, ReadStats, SaveStats, tables, history, At
<1>2. req[h] \in Request /\ LabelOK(h, req[h])
  BY <1>1, HandlingRequest
<1>3. ASSUME NEW code, Answer(h, code), req[h].seen = 1 \/ req[h].op = "CreateVoter"
      PROVE  BallotInv'
  <2>1. ~HandsOut(req'[h]) /\ \A g \in Handlers \ {h} : req'[g] = req[g]
    BY <1>2, <1>3, AnswerFields DEF HandsOut
  <2> QED BY <1>1, <2>1, BallotQuiet
<1>4. CASE InsertVoter(h)
  <2>1. req[h].op = "CreateVoter"
    BY <1>2, <1>4 DEF InsertVoter, At, LabelOK
  <2>2. ASSUME Goto(h, "readStats") PROVE BallotInv'
    <3>1. ~HandsOut(req'[h]) /\ \A g \in Handlers \ {h} : req'[g] = req[g]
      BY <1>2, <2>2, GotoFields DEF HandsOut
    <3> QED BY <1>1, <3>1, BallotQuiet
  <2> QED BY <1>3, <1>4, <2>1, <2>2 DEF InsertVoter
<1>5. CASE ReadStats(h)
  <2>1. PICK copy : req' = [req EXCEPT ![h].pc = "saveStats", ![h].copy = copy]
    BY <1>5, ReadStatsEffect
  <2>2. ~HandsOut(req'[h]) /\ \A g \in Handlers \ {h} : req'[g] = req[g]
    BY <1>2, <2>1 DEF HandsOut, TypeInv, TypeOK, Request
  <2> QED BY <1>1, <2>2, BallotQuiet
<1>6. CASE SaveStats(h)
  <2>1. req[h].seen = 1 \/ req[h].op = "CreateVoter"
    BY <1>2, <1>6 DEF SaveStats, At, LabelOK
  <2> QED BY <1>3, <1>6, <2>1 DEF SaveStats
<1> QED BY <1>4, <1>5, <1>6

(* No step forgets a ballot. *)
LEMMA BallotInductive ==
  ASSUME OneDesk, ~MayExit, TypeInv, SafeInv, ServedInv, BallotInv, [Next]_vars
  PROVE  BallotInv'
<1>0. NoLostWrite /\ \A n : ~Crash(n)
  BY DEF OneDesk, MayExit, Crash
<1>1. CASE UNCHANGED vars
  BY <1>1, BallotQuiet DEF vars, tables, history
<1>2. CASE Start
  BY <1>2, BallotQuiet DEF Start, CommitteeMigrates, CommitteeServes, CommitteeGrants, BoxServes,
     tables, history
<1>3. ASSUME NEW h \in Handlers, NEW s \in Students, Call(h, s) PROVE BallotInv'
  <2>1. ASSUME NEW op, NEW label \in {"find", "lookup"}, NEW home, NEW isAfternoon,
               Receive(h, op, NewRequest(op, label, s, home, isAfternoon)),
               UNCHANGED <<statuses, granted>>
        PROVE  BallotInv'
    <3>1. req'[h].pc = label /\ \A g \in Handlers \ {h} : req'[g] = req[g]
      BY <2>1 DEF Receive, NewRequest, TypeInv, TypeOK
    <3>2. req[h].pc = "idle"
      BY <2>1 DEF Receive, Idle
    <3>3. ~HandsOut(req'[h]) /\ ~At(h, "insertVoted")
      BY <3>1, <3>2 DEF HandsOut, At
    <3> QED BY <2>1, <3>1, <3>3, BallotQuiet
  <2> QED BY <1>3, <2>1 DEF Call, ReceiveCreateVoter, ReceiveVotingStep, ReceiveCheckVoterStatus,
             ReceiveGetVoter, tables, history
<1> QED BY <1>0, <1>1, <1>2, <1>3, BallotReaders, BallotWrites, BallotDelivered, BallotOthers
        DEF Next, Handle

(* As long as no process ends, no ballot that was handed out is forgotten, for
   every number of boxes, voters and requests (voter_status.go:81-116). *)
THEOREM NoBallotForgotten == ASSUME OneDesk, ~MayExit PROVE Spec => []BallotOnRecord
<1> DEFINE Inv == TypeInv /\ SafeInv /\ ServedInv /\ BallotInv
<1>1. Init => Inv
  <2>1. Init => BallotInv
    BY DEF Init, BallotInv, OnRecord, HandsOut, Idle
  <2> QED BY <2>1, InitType, InitSafe, InitServed
<1>2. Inv /\ [Next]_vars => Inv'
  BY OneDeskAlone, TypeInductive, SafeInductive, ServedInductive, BallotInductive DEF OneDesk
<1>3. Inv => BallotOnRecord
  <2> SUFFICES ASSUME Inv, Quiet, NEW s \in Students, granted[s] > 0 PROVE statuses[s].Status > 0
    BY DEF BallotOnRecord
  <2>1. \A h \in Handlers : ~At(h, "insertVoted")
    BY DEF Quiet, Writing, InFlight, At, TypeInv, ControlOK, LabelOK
  <2> QED BY <2>1 DEF BallotInv, OnRecord
<1> QED BY <1>1, <1>2, <1>3, PTL DEF Spec
=============================================================================
