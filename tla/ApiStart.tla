------------------------------ MODULE ApiStart ------------------------------
(***************************************************************************)
(* What a starting API process does to the shared database: storage.New,   *)
(* with AutoMigrate of the driver in internal/cockroachdb.                 *)
(*                                                                         *)
(* The GUI starts the process in restart loops, several of them on one     *)
(* node (header_service.dart:53), so starts overlap with each other, on    *)
(* one node and on different ones.  Every statement commits by itself.     *)
(* AutoMigrate stops at the first statement that fails, and storage.New    *)
(* looks neither at that error nor at those of its own statements.         *)
(***************************************************************************)
EXTENDS Integers, Sequences, FiniteSets

CONSTANTS
  BallotBoxes,  \* conf.BallotBoxes, the names of the boxes in their order
  Committee,    \* the node of the election committee; its database user is root
  Loops,        \* the restart loops of all nodes
  NodeOf,       \* the node of each loop
  Columns,      \* the columns of each table
  OldColumns,   \* the columns of the tables that an older release has left, if any
  MaxEvents     \* bound: years that begin and processes that end unasked

Models == <<"EncVoter", "EncVoterStatus", "ElectionStats", "EncChatMessage">>

Tables == {Models[i] : i \in DOMAIN Models}
Boxes == {BallotBoxes[i] : i \in DOMAIN BallotBoxes}
Nodes == Boxes \cup {Committee}
Nobody == "nobody"

ASSUME StartAssumption ==
  /\ BallotBoxes \in Seq(Boxes)
  /\ Committee \notin Boxes /\ Nobody \notin Nodes
  /\ NodeOf \in [Loops -> Nodes]
  /\ DOMAIN Columns = Tables
  /\ \A t \in Tables : Columns[t] # {} /\ OldColumns[t] \subseteq Columns[t]
  /\ MaxEvents \in Nat

VARIABLES
  columns,   \* the columns of each table; none when the table does not exist
  owner,     \* the node whose user created a table
  rows,      \* the years for which election_stats has a row
  users,     \* the ballot boxes whose database user exists
  grants,    \* the rights of those users
  proc,      \* the API process that each loop runs
  year,
  events     \* years that began and processes that ended

database == <<columns, owner, rows, users, grants>>
vars == <<database, proc, year, events>>

-----------------------------------------------------------------------------
(* The statements of storage.New for one ballot box, in their order; those *)
(* that turn on the audit of a table, which nothing depends on, are left out *)

Grant(right, t) == [do |-> "GRANT", right |-> right, table |-> t]

Script ==
  <<[do |-> "CREATE USER", right |-> "NONE", table |-> "EncVoter"],
    Grant("INSERT", "EncChatMessage"), Grant("SELECT", "EncChatMessage"),
    Grant("INSERT", "EncVoterStatus"), Grant("DELETE", "EncVoterStatus"),
    Grant("SELECT", "EncVoterStatus"),
    Grant("SELECT", "EncVoter"),
    Grant("SELECT", "ElectionStats"), Grant("UPDATE", "ElectionStats")>>

Rights == {<<Script[i].right, Script[i].table>> : i \in 2..Len(Script)}

Position == 1..(Len(Script) * Len(BallotBoxes))

BoxAt(n) == BallotBoxes[((n - 1) \div Len(Script)) + 1]
StatementAt(n) == Script[((n - 1) % Len(Script)) + 1]

-----------------------------------------------------------------------------
(* What a user sees and may do; external: CockroachDB *)

Exists(t) == columns[t] # {}

\* information_schema shows a user the tables on which it has some right.
Visible(node, t) ==
  Exists(t) /\ (node \in {Committee, owner[t]} \/ \E r \in grants : r[1] = node /\ r[3] = t)

MayRead(node, t) == node \in {Committee, owner[t]} \/ <<node, "SELECT", t>> \in grants

\* Every user may create tables in the public schema; only root and the owner
\* may change one.
MayChange(node, t) == node \in {Committee, owner[t]}

-----------------------------------------------------------------------------
(* One start *)

\* The connection of a user that does not exist is refused.
CanConnect(node) == node \in users \cup {Committee}

Down == [pc |-> "down"]

At(l, label) == proc[l].pc = label

Table(l) == Models[proc[l].n]

Goto(l, label, n) ==
  proc' = [proc EXCEPT ![l] = [pc |-> label, n |-> n, seen |-> {}, year |-> proc[l].year]]

NextTable(l) ==
  IF proc[l].n = Len(Models) THEN Goto(l, "insertStats", 1)
  ELSE Goto(l, "hasTable", proc[l].n + 1)

\* AutoMigrate returns its error, which storage.New drops.
Abort(l) == Goto(l, "insertStats", 1)

\* GetCockroachDB: without its user the process ends by log.Fatal, and its loop
\* tries again.  The year is read when the process begins: the GUI gives no
\* other one.
Connect(l) ==
  /\ At(l, "down")
  /\ CanConnect(NodeOf[l])
  /\ proc' = [proc EXCEPT ![l] = [pc |-> "hasTable", n |-> 1, seen |-> {}, year |-> year]]
  /\ UNCHANGED <<database, year, events>>

HasTable(l) ==
  /\ At(l, "hasTable")
  /\ Goto(l, IF Visible(NodeOf[l], Table(l)) THEN "readColumns" ELSE "createTable", proc[l].n)
  /\ UNCHANGED <<database, year, events>>

\* CREATE TABLE fails when the table exists: another process was faster, or the
\* user may not see the table.
CreateTable(l) ==
  LET t == Table(l)
  IN /\ At(l, "createTable")
     /\ IF Exists(t) THEN Abort(l) /\ UNCHANGED <<columns, owner>>
        ELSE /\ columns' = [columns EXCEPT ![t] = Columns[t]]
             /\ owner' = [owner EXCEPT ![t] = NodeOf[l]]
             /\ NextTable(l)
     /\ UNCHANGED <<rows, users, grants, year, events>>

\* ColumnTypes reads a row of the table and all its columns at once; those found
\* have the type they should have, so that MigrateColumn leaves them as they are.
ReadColumns(l) ==
  LET t == Table(l)
  IN /\ At(l, "readColumns")
     /\ IF ~MayRead(NodeOf[l], t) THEN Abort(l)
        ELSE IF Columns[t] \subseteq columns[t] THEN NextTable(l)
        ELSE proc' = [proc EXCEPT ![l].pc = "addColumn", ![l].seen = columns[t]]
     /\ UNCHANGED <<database, year, events>>

\* One ALTER TABLE ADD for each column that was not there when they were read.
AddColumn(l) ==
  LET t == Table(l)
  IN /\ At(l, "addColumn")
     /\ \E c \in Columns[t] \ proc[l].seen :
          IF MayChange(NodeOf[l], t) /\ c \notin columns[t]
          THEN /\ columns' = [columns EXCEPT ![t] = @ \cup {c}]
               /\ IF proc[l].seen \cup {c} = Columns[t] THEN NextTable(l)
                  ELSE proc' = [proc EXCEPT ![l].seen = @ \cup {c}]
          ELSE Abort(l) /\ UNCHANGED columns
     /\ UNCHANGED <<owner, rows, users, grants, year, events>>

\* Mutant: the setup of the boxes ends when the year has a row already.
InsertStatsFirst(l) ==
  LET new == Exists("ElectionStats") /\ proc[l].year \notin rows
  IN /\ At(l, "insertStats")
     /\ rows' = IF new /\ MayChange(NodeOf[l], "ElectionStats") THEN rows \cup {proc[l].year} ELSE rows
     /\ Goto(l, IF NodeOf[l] = Committee /\ new /\ 1 \in Position THEN "script" ELSE "listen", 1)
     /\ UNCHANGED <<columns, owner, users, grants, year, events>>

\* db.Create(newStats): a row that exists already stays.  No statement that
\* follows has an effect when a box executes it.
InsertStats(l) ==
  /\ At(l, "insertStats")
  /\ rows' = IF Exists("ElectionStats") /\ MayChange(NodeOf[l], "ElectionStats")
             THEN rows \cup {proc[l].year} ELSE rows
  /\ Goto(l, IF NodeOf[l] = Committee /\ 1 \in Position THEN "script" ELSE "listen", 1)
  /\ UNCHANGED <<columns, owner, users, grants, year, events>>

\* Mutant: a user that exists already ends the loop over the boxes.
ExecuteOnce(l) ==
  LET n == proc[l].n
      s == StatementAt(n)
      b == BoxAt(n)
      known == s.do = "CREATE USER" /\ b \in users
  IN /\ At(l, "script")
     /\ users' = IF s.do = "CREATE USER" THEN users \cup {b} ELSE users
     /\ grants' = IF s.do = "GRANT" /\ Exists(s.table) /\ b \in users
                  THEN grants \cup {<<b, s.right, s.table>>} ELSE grants
     /\ IF known \/ n + 1 \notin Position THEN Goto(l, "listen", 1) ELSE Goto(l, "script", n + 1)
     /\ UNCHANGED <<columns, owner, rows, year, events>>

\* CREATE USER or GRANT, the one at position n.
Execute(l) ==
  LET n == proc[l].n
      s == StatementAt(n)
      b == BoxAt(n)
  IN /\ At(l, "script")
     /\ users' = IF s.do = "CREATE USER" THEN users \cup {b} ELSE users
     /\ grants' = IF s.do = "GRANT" /\ Exists(s.table) /\ b \in users
                  THEN grants \cup {<<b, s.right, s.table>>} ELSE grants
     /\ IF n + 1 \in Position THEN Goto(l, "script", n + 1) ELSE Goto(l, "listen", 1)
     /\ UNCHANGED <<columns, owner, rows, year, events>>

Serving(node) == \E l \in Loops : NodeOf[l] = node /\ At(l, "up")

\* Mutant: the port is taken over.
ListenShared(l) == At(l, "listen") /\ Goto(l, "up", 1) /\ UNCHANGED <<database, year, events>>

\* net.Listen: the port of a node is free, or the process panics.
Listen(l) ==
  /\ At(l, "listen")
  /\ IF Serving(NodeOf[l]) THEN proc' = [proc EXCEPT ![l] = Down] ELSE Goto(l, "up", 1)
  /\ UNCHANGED <<database, year, events>>

Crash(l) ==
  /\ ~At(l, "down")
  /\ events < MaxEvents
  /\ events' = events + 1
  /\ proc' = [proc EXCEPT ![l] = Down]
  /\ UNCHANGED <<database, year>>

\* A start under way keeps the year that it has read.
NewYear ==
  /\ events < MaxEvents
  /\ events' = events + 1
  /\ year' = year + 1
  /\ UNCHANGED <<database, proc>>

-----------------------------------------------------------------------------
(* Specification *)

\* A fresh cluster, or one with tables of an older release of the program.
Init ==
  /\ columns = [t \in Tables |-> OldColumns[t]]
  /\ owner = [t \in Tables |-> IF columns[t] = {} THEN Nobody ELSE Committee]
  /\ rows = {}
  /\ users = {}
  /\ grants = {}
  /\ proc = [l \in Loops |-> Down]
  /\ year = 0
  /\ events = 0

Step(l) ==
  \/ Connect(l)
  \/ HasTable(l)
  \/ CreateTable(l)
  \/ ReadColumns(l)
  \/ AddColumn(l)
  \/ InsertStats(l)
  \/ Execute(l)
  \/ Listen(l)

Next == NewYear \/ \E l \in Loops : Step(l) \/ Crash(l)

Spec == Init /\ [][Next]_vars

\* Each loop starts its process again, and each process goes on.
FairSpec == Spec /\ \A l \in Loops : WF_vars(Step(l))

-----------------------------------------------------------------------------
(* Properties *)

TypeOK ==
  /\ columns \in [Tables -> SUBSET UNION {Columns[t] : t \in Tables}]
  /\ owner \in [Tables -> Nodes \cup {Nobody}]
  /\ rows \subseteq 0..year
  /\ users \subseteq Boxes
  /\ \A r \in grants : r[1] \in Boxes /\ <<r[2], r[3]>> \in Rights
  /\ \A l \in Loops : proc[l] # Down =>
       /\ proc[l].year \in 0..year
       /\ proc[l].n \in IF At(l, "script") THEN Position ELSE DOMAIN Models
       /\ proc[l].seen # {} => At(l, "addColumn") /\ proc[l].seen \subseteq columns[Table(l)]
       /\ At(l, "up") => \A k \in Loops \ {l} : ~(NodeOf[k] = NodeOf[l] /\ At(k, "up"))
  /\ events \in 0..MaxEvents /\ year \in 0..events

\* The database as the operations of pkg/storage need it.
Ready ==
  /\ \A t \in Tables : columns[t] = Columns[t]
  /\ rows # {}
  /\ grants = {<<b, r[1], r[2]>> : b \in Boxes, r \in Rights}

\* However the starts of several loops overlap and end, the tables, the row of
\* statistics, the users and their rights are complete in the end, though
\* AutoMigrate gives up when another process was faster and nobody looks at
\* the errors (storage.New).
SetupCompletes == <>[]Ready

\* Every node with a loop has a serving process in the end (NewServer panics
\* when the port is taken, GetCockroachDB when the user is not there yet).
EveryNodeServes == \A l \in Loops : <>[]Serving(NodeOf[l])
=============================================================================
