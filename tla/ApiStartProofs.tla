--------------------------- MODULE ApiStartProofs ---------------------------
(***************************************************************************)
(* What overlapping starts leave in the database and on the ports of the   *)
(* nodes, for any number of nodes, restart loops and years.                *)
(***************************************************************************)
EXTENDS ApiStart, TLAPS

Pcs == {"down", "hasTable", "createTable", "readColumns", "addColumn", "insertStats",
        "script", "listen", "up"}

Process == [pc : Pcs, n : Int, seen : SUBSET UNION {Columns[t] : t \in Tables}, year : Nat]

\* AutoMigrate walks through the tables; n is the place of one of them.
PlaceOK(p) == p.pc \in {"hasTable", "createTable", "readColumns", "addColumn"} => p.n \in DOMAIN Models

ProcOK ==
  /\ proc \in [Loops -> Process \cup {Down}]
  /\ \A l \in Loops : PlaceOK(proc[l])

\* Rows and starts are of this year or of an earlier one.
YearsOK ==
  /\ year \in Nat
  /\ rows \subseteq 0..year
  /\ \A l \in Loops : proc[l].pc # "down" => proc[l].year \in 0..year

ColumnsOK == columns \in [Tables -> SUBSET UNION {Columns[t] : t \in Tables}]

StartInv == ColumnsOK /\ ProcOK /\ YearsOK

(* Nothing runs in the beginning. *)
LEMMA InitStart == Init => StartInv
<1> SUFFICES ASSUME Init PROVE StartInv
  OBVIOUS
<1>1. \A t \in Tables : OldColumns[t] \subseteq Columns[t]
  BY StartAssumption
<1>2. ColumnsOK
  BY <1>1 DEF Init, ColumnsOK
<1>3. \A l \in Loops : proc[l] = Down /\ proc[l].pc = "down"
  BY DEF Init, Down
<1>4. ProcOK
  BY <1>3 DEF Init, ProcOK, PlaceOK
<1> QED BY <1>2, <1>3, <1>4 DEF Init, StartInv, YearsOK

(* A process that is not down has all its fields. *)
LEMMA ProcType ==
  ASSUME StartInv, NEW l \in Loops, proc[l].pc # "down"
  PROVE  proc[l] \in Process
  BY DEF StartInv, ProcOK, Down

(* One process goes on within its start, or ends. *)
LEMMA ProcMoves ==
  ASSUME StartInv, NEW l \in Loops, NEW p \in Process \cup {Down}, PlaceOK(p),
         proc' = [proc EXCEPT ![l] = p], year' = year,
         p # Down => p.year \in 0..year, ColumnsOK', rows' \subseteq 0..year
  PROVE  StartInv'
<1>1. /\ proc'[l] = p /\ \A k \in Loops \ {l} : proc'[k] = proc[k]
      /\ ProcOK'
  BY DEF StartInv, ProcOK, PlaceOK
<1>2. \A k \in Loops : proc'[k].pc # "down" => proc'[k].year \in 0..year
  BY <1>1 DEF StartInv, YearsOK, Down
<1> QED BY <1>1, <1>2 DEF StartInv, YearsOK

(* Goto keeps the year of the start. *)
LEMMA GotoMoves ==
  ASSUME StartInv, NEW l \in Loops, NEW label \in Pcs, NEW n \in Int, Goto(l, label, n),
         proc[l].pc # "down", year' = year, ColumnsOK', rows' \subseteq 0..year,
         label \in {"hasTable", "createTable", "readColumns", "addColumn"} => n \in DOMAIN Models
  PROVE  StartInv'
<1> DEFINE p == [pc |-> label, n |-> n, seen |-> {}, year |-> proc[l].year]
<1>1. proc[l].year \in 0..year /\ year \in Nat
  BY DEF StartInv, YearsOK
<1>2. p \in Process /\ p.year \in 0..year /\ PlaceOK(p) /\ proc' = [proc EXCEPT ![l] = p]
  BY <1>1 DEF Process, Goto, PlaceOK
<1> HIDE DEF p
<1> QED BY <1>2, ProcMoves

(* No step of a start, no end of a process and no New Year breaks the invariant. *)
LEMMA StartInductive == ASSUME StartInv, [Next]_vars PROVE StartInv'
<1>1. CASE UNCHANGED vars
  BY <1>1 DEF vars, database, StartInv, ColumnsOK, ProcOK, PlaceOK, YearsOK
<1>2. ASSUME NEW l \in Loops, Connect(l) PROVE StartInv'
  <2> DEFINE p == [pc |-> "hasTable", n |-> 1, seen |-> {}, year |-> year]
  <2>1. p \in Process /\ p.year \in 0..year /\ PlaceOK(p) /\ proc' = [proc EXCEPT ![l] = p]
    BY <1>2 DEF Connect, Process, Pcs, StartInv, YearsOK, PlaceOK, Models
  <2>2. year' = year /\ rows' \subseteq 0..year /\ ColumnsOK'
    BY <1>2 DEF Connect, database, StartInv, ColumnsOK, YearsOK
  <2> HIDE DEF p
  <2> QED BY <2>1, <2>2, ProcMoves
<1>3. ASSUME NEW l \in Loops, proc[l].pc # "down",
             \/ NextTable(l) /\ proc[l].n \in DOMAIN Models
             \/ Abort(l)
             \/ \E label \in {"script", "listen", "up"}, n \in Int : Goto(l, label, n),
             year' = year, ColumnsOK', rows' \subseteq 0..year
      PROVE  StartInv'
  <2>1. CASE NextTable(l) /\ proc[l].n \in DOMAIN Models
    <3>1. /\ DOMAIN Models = 1..4 /\ Len(Models) = 4
          /\ proc[l].n \in 1..4 /\ (proc[l].n # 4 => proc[l].n + 1 \in 1..4)
      BY <2>1 DEF Models
    <3>2. CASE proc[l].n = 4
      BY <1>3, <2>1, <3>1, <3>2, GotoMoves DEF NextTable, Pcs
    <3>3. CASE proc[l].n # 4
      BY <1>3, <2>1, <3>1, <3>3, GotoMoves DEF NextTable, Pcs
    <3> QED BY <3>2, <3>3
  <2>2. CASE Abort(l)
    BY <1>3, <2>2, GotoMoves DEF Abort, Pcs
  <2>3. CASE \E label \in {"script", "listen", "up"}, n \in Int : Goto(l, label, n)
    BY <1>3, <2>3, GotoMoves DEF Pcs
  <2> QED BY <1>3, <2>1, <2>2, <2>3
<1>4. ASSUME NEW l \in Loops, proc[l].pc \in {"hasTable", "createTable", "readColumns", "addColumn"}
      PROVE  /\ proc[l] \in Process /\ proc[l].n \in DOMAIN Models /\ proc[l].n \in Int
             /\ Table(l) \in Tables /\ proc[l].year \in 0..year
  <2>1. proc[l] \in Process /\ proc[l].n \in DOMAIN Models /\ proc[l].year \in 0..year
    BY <1>4, ProcType DEF StartInv, ProcOK, PlaceOK, YearsOK
  <2> QED BY <2>1 DEF Process, Table, Tables
<1>5. ASSUME NEW l \in Loops, HasTable(l) PROVE StartInv'
  <2>1. proc[l].pc = "hasTable" /\ proc[l].n \in DOMAIN Models /\ proc[l].n \in Int
    BY <1>4, <1>5 DEF HasTable, At
  <2>2. year' = year /\ rows' \subseteq 0..year /\ ColumnsOK'
    BY <1>5 DEF HasTable, database, StartInv, ColumnsOK, YearsOK
  <2>3. Goto(l, "readColumns", proc[l].n) \/ Goto(l, "createTable", proc[l].n)
    BY <1>5 DEF HasTable
  <2> QED BY <2>1, <2>2, <2>3, GotoMoves DEF Pcs
<1>6. ASSUME NEW l \in Loops, CreateTable(l) PROVE StartInv'
  <2>1. year' = year /\ rows' \subseteq 0..year /\ proc[l].pc = "createTable"
    BY <1>6 DEF CreateTable, At, StartInv, YearsOK
  <2>2. ColumnsOK'
    BY <1>6 DEF CreateTable, StartInv, ColumnsOK
  <2> QED BY <1>3, <1>4, <1>6, <2>1, <2>2 DEF CreateTable
<1>7. ASSUME NEW l \in Loops, NEW p, p = [proc[l] EXCEPT !.pc = "addColumn", !.seen = p.seen],
             proc[l].pc \in {"readColumns", "addColumn"},
             p.seen \in SUBSET UNION {Columns[t] : t \in Tables},
             proc' = [proc EXCEPT ![l] = p], year' = year, rows' \subseteq 0..year, ColumnsOK'
      PROVE  StartInv'
  <2>1. proc[l] \in Process /\ proc[l].n \in DOMAIN Models /\ proc[l].year \in 0..year
    BY <1>4, <1>7
  <2>2. p \in Process /\ p.year \in 0..year /\ p.n = proc[l].n
    BY <1>7, <2>1 DEF Process, Pcs
  <2> QED BY <1>7, <2>1, <2>2, ProcMoves DEF PlaceOK
<1>8. ASSUME NEW l \in Loops, ReadColumns(l) PROVE StartInv'
  <2>1. /\ year' = year /\ rows' \subseteq 0..year /\ proc[l].pc = "readColumns" /\ ColumnsOK'
        /\ columns[Table(l)] \in SUBSET UNION {Columns[t] : t \in Tables}
    BY <1>4, <1>8 DEF ReadColumns, At, database, StartInv, ColumnsOK, YearsOK
  <2>2. CASE NextTable(l) \/ Abort(l)
    BY <1>3, <1>4, <2>1, <2>2
  <2>3. CASE proc' = [proc EXCEPT ![l].pc = "addColumn", ![l].seen = columns[Table(l)]]
    <3>1. PICK p : p = [proc[l] EXCEPT !.pc = "addColumn", !.seen = columns[Table(l)]]
      OBVIOUS
    <3>2. p.seen = columns[Table(l)] /\ proc' = [proc EXCEPT ![l] = p]
      BY <1>4, <2>1, <2>3, <3>1 DEF Process
    <3> QED BY <1>7, <2>1, <3>1, <3>2
  <2> QED BY <1>8, <2>2, <2>3 DEF ReadColumns
<1>9. ASSUME NEW l \in Loops, AddColumn(l) PROVE StartInv'
  <2>1. /\ year' = year /\ rows' \subseteq 0..year /\ proc[l].pc = "addColumn"
        /\ Table(l) \in Tables /\ proc[l] \in Process
    BY <1>4, <1>9 DEF AddColumn, At, StartInv, YearsOK
  <2>2. PICK c \in Columns[Table(l)] :
          IF MayChange(NodeOf[l], Table(l)) /\ c \notin columns[Table(l)]
          THEN /\ columns' = [columns EXCEPT ![Table(l)] = @ \cup {c}]
               /\ IF proc[l].seen \cup {c} = Columns[Table(l)] THEN NextTable(l)
                  ELSE proc' = [proc EXCEPT ![l].seen = @ \cup {c}]
          ELSE Abort(l) /\ UNCHANGED columns
    BY <1>9 DEF AddColumn
  <2>3. c \in UNION {Columns[t] : t \in Tables}
    BY <2>1
  <2>4. ColumnsOK'
    BY <2>1, <2>2, <2>3 DEF StartInv, ColumnsOK
  <2>5. CASE NextTable(l) \/ Abort(l)
    BY <1>3, <1>4, <2>1, <2>4, <2>5
  <2>6. CASE proc' = [proc EXCEPT ![l].seen = @ \cup {c}]
    <3>1. PICK p : p = [proc[l] EXCEPT !.pc = "addColumn", !.seen = proc[l].seen \cup {c}]
      OBVIOUS
    <3>2. p.seen = proc[l].seen \cup {c} /\ p = [proc[l] EXCEPT !.seen = proc[l].seen \cup {c}]
      BY <2>1, <3>1 DEF Process
    <3>3. proc' = [proc EXCEPT ![l] = p]
      BY <2>6, <3>2
    <3>4. p.seen \in SUBSET UNION {Columns[t] : t \in Tables}
      BY <2>1, <2>3, <3>2 DEF Process
    <3> QED BY <1>7, <2>1, <2>4, <3>1, <3>2, <3>3, <3>4
  <2> QED BY <2>2, <2>5, <2>6
<1>10. ASSUME NEW l \in Loops, InsertStats(l) PROVE StartInv'
  <2>1. year' = year /\ proc[l].pc = "insertStats" /\ ColumnsOK'
    BY <1>10 DEF InsertStats, At, StartInv, ColumnsOK
  <2>2. rows' \subseteq 0..year
    BY <1>10, <2>1 DEF InsertStats, StartInv, YearsOK
  <2> QED BY <1>3, <1>10, <2>1, <2>2 DEF InsertStats
<1>11. ASSUME NEW l \in Loops, Execute(l) PROVE StartInv'
  <2>1. year' = year /\ rows' \subseteq 0..year /\ proc[l].pc = "script" /\ ColumnsOK'
    BY <1>11 DEF Execute, At, StartInv, ColumnsOK, YearsOK
  <2>2. proc[l].n + 1 \in Int
    BY <2>1, ProcType DEF Process
  <2>3. Goto(l, "script", proc[l].n + 1) \/ Goto(l, "listen", 1)
    BY <1>11 DEF Execute
  <2>4. \E label \in {"script", "listen", "up"}, n \in Int : Goto(l, label, n)
    BY <2>2, <2>3
  <2> QED BY <1>3, <2>1, <2>4
<1>12. ASSUME NEW l \in Loops, Listen(l) \/ Crash(l) PROVE StartInv'
  <2>1. year' = year /\ rows' \subseteq 0..year /\ ColumnsOK'
    BY <1>12 DEF Listen, Crash, database, StartInv, ColumnsOK, YearsOK
  <2>2. CASE proc' = [proc EXCEPT ![l] = Down]
    <3>1. PlaceOK(Down) /\ Down \in Process \cup {Down}
      BY DEF Down, PlaceOK
    <3> QED BY <2>1, <2>2, <3>1, ProcMoves
  <2>3. CASE proc[l].pc = "listen" /\ Goto(l, "up", 1)
    BY <1>3, <2>1, <2>3
  <2> QED BY <1>12, <2>2, <2>3 DEF Listen, Crash, At
<1>13. CASE NewYear
  <2>1. year' = year + 1 /\ rows' = rows /\ proc' = proc /\ columns' = columns
    BY <1>13 DEF NewYear, database
  <2> QED BY <2>1 DEF StartInv, ColumnsOK, ProcOK, PlaceOK, YearsOK
<1> QED BY <1>1, <1>2, <1>5, <1>6, <1>8, <1>9, <1>10, <1>11, <1>12, <1>13 DEF Next, Step

-----------------------------------------------------------------------------
(* The types of everything a start touches *)

(* The statements of the script name a box each. *)
LEMMA BoxAtType ==
  ASSUME NEW n \in Position
  PROVE  BoxAt(n) \in Boxes
<1>1. Len(Script) = 9
  BY DEF Script
<1>2. Len(BallotBoxes) \in Nat /\ DOMAIN BallotBoxes = 1..Len(BallotBoxes)
  BY StartAssumption
<1>3. n \in 1..(9 * Len(BallotBoxes))
  BY <1>1 DEF Position
<1>4. ((n - 1) \div 9) + 1 \in 1..Len(BallotBoxes)
  BY <1>2, <1>3
<1> QED BY <1>1, <1>2, <1>4 DEF BoxAt, Boxes

(* A right that is granted is one of the list. *)
LEMMA RightAtType ==
  ASSUME NEW n \in Position, StatementAt(n).do = "GRANT"
  PROVE  <<StatementAt(n).right, StatementAt(n).table>> \in Rights
<1>1. Len(Script) = 9
  BY DEF Script
<1>2. Script[1].do = "CREATE USER"
  BY DEF Script, Grant
<1>3. n \in Nat \ {0}
  <2>1. Len(BallotBoxes) \in Nat
    BY StartAssumption
  <2> QED BY <1>1, <2>1 DEF Position
<1>4. PICK i : i = ((n - 1) % 9) + 1
  OBVIOUS
<1>5. i \in 1..9 /\ StatementAt(n) = Script[i]
  <2>1. n - 1 \in Nat
    BY <1>3
  <2>2. (n - 1) % 9 \in 0..8
    BY <2>1
  <2> QED BY <1>1, <1>4, <2>2 DEF StatementAt
<1>6. i \in 2..Len(Script)
  <2>1. Script[i].do # Script[1].do
    BY <1>2, <1>5
  <2>2. i # 1
    BY <2>1
  <2> QED BY <1>1, <1>5, <2>2
<1>7. <<Script[i].right, Script[i].table>> \in Rights
  BY <1>6, Zenon DEF Rights
<1> QED BY <1>5, <1>7

\* What TypeOK says of one process p, when the tables have these columns.
SoundProcess(p, cols) ==
  /\ p.year \in 0..year
  /\ p.n \in IF p.pc = "script" THEN Position ELSE DOMAIN Models
  /\ p.seen # {} => p.pc = "addColumn" /\ p.seen \subseteq cols[Models[p.n]]

(* Columns are added and never dropped. *)
LEMMA ColumnsGrow ==
  ASSUME StartInv, [Next]_vars, NEW t \in Tables
  PROVE  columns[t] \subseteq columns'[t]
<1>1. columns \in [Tables -> SUBSET UNION {Columns[x] : x \in Tables}]
  BY DEF StartInv, ColumnsOK
<1>2. ASSUME NEW l \in Loops, CreateTable(l) PROVE columns[t] \subseteq columns'[t]
  BY <1>1, <1>2 DEF CreateTable, Exists
<1>3. ASSUME NEW l \in Loops, AddColumn(l) PROVE columns[t] \subseteq columns'[t]
  BY <1>1, <1>3 DEF AddColumn
<1> QED BY <1>2, <1>3 DEF Next, vars, database, Step, NewYear, Connect, HasTable,
          ReadColumns, InsertStats, Execute, Listen, Crash

(* One process becomes p; what it leaves in the database has its type. *)
LEMMA TypeMoves ==
  ASSUME StartInv, StartInv', [Next]_vars, TypeOK, NEW l \in Loops, NEW p,
         proc' = [proc EXCEPT ![l] = p],
         year' = year, events' \in 0..MaxEvents, year <= events',
         p # Down => SoundProcess(p, columns'),
         p # Down /\ p.pc = "up" => \A k \in Loops \ {l} : ~(NodeOf[k] = NodeOf[l] /\ At(k, "up")),
         owner' \in [Tables -> Nodes \cup {Nobody}], users' \subseteq Boxes,
         \A r \in grants' : r[1] \in Boxes /\ <<r[2], r[3]>> \in Rights
  PROVE  TypeOK'
<1>1. proc'[l] = p /\ \A k \in Loops \ {l} : proc'[k] = proc[k]
  BY DEF StartInv, ProcOK
<1>2. ASSUME NEW k \in Loops, proc'[k] # Down
      PROVE  /\ proc'[k].year \in 0..year'
             /\ proc'[k].n \in IF At(k, "script")' THEN Position ELSE DOMAIN Models
             /\ proc'[k].seen # {} =>
                  At(k, "addColumn")' /\ proc'[k].seen \subseteq columns'[Table(k)']
  <2>1. CASE k = l
    BY <1>1, <1>2, <2>1 DEF SoundProcess, At, Table
  <2>2. CASE k # l
    <3>1. /\ proc[k].year \in 0..year
          /\ proc[k].n \in IF At(k, "script") THEN Position ELSE DOMAIN Models
          /\ proc[k].seen # {} => At(k, "addColumn") /\ proc[k].seen \subseteq columns[Table(k)]
      BY <1>1, <1>2, <2>2 DEF TypeOK
    <3>2. proc[k].seen # {} => Table(k) \in Tables
      BY <3>1 DEF At, Table, Tables
    <3>3. proc[k].seen # {} => columns[Table(k)] \subseteq columns'[Table(k)]
      BY <3>2, ColumnsGrow
    <3> QED BY <1>1, <2>2, <3>1, <3>3 DEF At, Table
  <2> QED BY <2>1, <2>2
<1>3. ASSUME NEW k \in Loops, At(k, "up")', NEW j \in Loops \ {k}, NodeOf[j] = NodeOf[k], At(j, "up")'
      PROVE  FALSE
  <2>1. proc'[k] # Down /\ proc'[j] # Down
    BY <1>3 DEF At, Down
  <2> QED BY <1>1, <1>3, <2>1 DEF TypeOK, At
<1>4. /\ columns' \in [Tables -> SUBSET UNION {Columns[t] : t \in Tables}]
      /\ rows' \subseteq 0..year'
  BY DEF StartInv, ColumnsOK, YearsOK
<1>5. year' \in 0..events'
  BY DEF TypeOK
<1> QED BY <1>2, <1>3, <1>4, <1>5 DEF TypeOK

(* A step that leaves the owners, the users and the bounds alone. *)
LEMMA TypeGoes ==
  ASSUME StartInv, StartInv', [Next]_vars, TypeOK, NEW l \in Loops, NEW p,
         proc' = [proc EXCEPT ![l] = p],
         p # Down => SoundProcess(p, columns') /\ p.pc # "up",
         UNCHANGED <<owner, users, grants, year, events>>
  PROVE  TypeOK'
<1>1. year \in 0..events /\ events \in 0..MaxEvents
  BY DEF TypeOK
<1>2. /\ owner' \in [Tables -> Nodes \cup {Nobody}] /\ users' \subseteq Boxes
      /\ \A r \in grants' : r[1] \in Boxes /\ <<r[2], r[3]>> \in Rights
  BY DEF TypeOK
<1>3. year' = year /\ events' \in 0..MaxEvents /\ year <= events'
  BY <1>1, StartAssumption
<1> QED BY <1>2, <1>3, TypeMoves

(* Goto keeps the year and forgets the columns that were seen. *)
LEMMA GotoSound ==
  ASSUME StartInv, TypeOK, NEW l \in Loops, NEW label \in Pcs \ {"down"}, NEW n, Goto(l, label, n),
         proc[l].pc # "down", NEW cols,
         n \in IF label = "script" THEN Position ELSE DOMAIN Models
  PROVE  \E p : /\ proc' = [proc EXCEPT ![l] = p] /\ SoundProcess(p, cols)
                /\ p.pc = label /\ p # Down
<1> DEFINE p == [pc |-> label, n |-> n, seen |-> {}, year |-> proc[l].year]
<1>1. proc[l] # Down
  BY DEF Down
<1>2. proc[l].year \in 0..year
  BY <1>1 DEF TypeOK
<1>3. p.pc = label /\ p.n = n /\ p.seen = {} /\ p.year = proc[l].year
  OBVIOUS
<1>4. p # Down
  BY <1>3 DEF Down
<1>5. SoundProcess(p, cols) /\ proc' = [proc EXCEPT ![l] = p]
  BY <1>2, <1>3 DEF SoundProcess, Goto
<1> HIDE DEF p
<1> QED BY <1>3, <1>4, <1>5

(* AutoMigrate goes to the next table, or ends. *)
LEMMA WalkSound ==
  ASSUME StartInv, StartInv', [Next]_vars, TypeOK, NEW l \in Loops,
         proc[l].pc \in {"hasTable", "createTable", "readColumns", "addColumn"},
         \/ NextTable(l)
         \/ Abort(l)
         \/ \E label \in {"createTable", "readColumns"} : Goto(l, label, proc[l].n),
         UNCHANGED <<users, grants, year, events>>, owner' \in [Tables -> Nodes \cup {Nobody}]
  PROVE  TypeOK'
<1>1. proc[l].n \in DOMAIN Models
  BY DEF StartInv, ProcOK, PlaceOK
<1>2. 1 \in DOMAIN Models
  BY DEF Models
<1>3. proc[l].n # Len(Models) => proc[l].n + 1 \in DOMAIN Models
  BY <1>1 DEF Models
<1>4. PICK label \in {"createTable", "readColumns", "insertStats", "hasTable"}, n \in DOMAIN Models :
        Goto(l, label, n)
  BY <1>1, <1>2, <1>3 DEF NextTable, Abort
<1>5. PICK p : proc' = [proc EXCEPT ![l] = p] /\ SoundProcess(p, columns') /\ p.pc = label
  BY <1>4, GotoSound DEF Pcs
<1>6. year \in 0..events /\ events \in 0..MaxEvents
  BY DEF TypeOK
<1>7. /\ users' \subseteq Boxes
      /\ \A r \in grants' : r[1] \in Boxes /\ <<r[2], r[3]>> \in Rights
  BY DEF TypeOK
<1>8. year' = year /\ events' \in 0..MaxEvents /\ year <= events'
  BY <1>6, StartAssumption
<1>9. p.pc # "up"
  BY <1>4, <1>5
<1> QED BY <1>5, <1>7, <1>8, <1>9, TypeMoves

(* Every step keeps the types. *)
LEMMA TypeInductive == ASSUME StartInv, StartInv', TypeOK, [Next]_vars PROVE TypeOK'
<1>1. CASE UNCHANGED vars
  BY <1>1 DEF vars, database, TypeOK, At, Table
<1>2. ASSUME NEW l \in Loops, Connect(l) PROVE TypeOK'
  <2>1. PICK p : p = [pc |-> "hasTable", n |-> 1, seen |-> {}, year |-> year]
    OBVIOUS
  <2>2. SoundProcess(p, columns') /\ p.pc # "up"
    BY <2>1 DEF SoundProcess, StartInv, YearsOK, Models
  <2>3. proc' = [proc EXCEPT ![l] = p] /\ UNCHANGED <<owner, users, grants, year, events>>
    BY <1>2, <2>1 DEF Connect, database
  <2> QED BY <2>2, <2>3, TypeGoes
<1>3. ASSUME NEW l \in Loops, HasTable(l) PROVE TypeOK'
  <2>1. UNCHANGED <<users, grants, year, events>> /\ owner' = owner
    BY <1>3 DEF HasTable, database
  <2>2. \E label \in {"createTable", "readColumns"} : Goto(l, label, proc[l].n)
    BY <1>3 DEF HasTable
  <2>3. owner \in [Tables -> Nodes \cup {Nobody}] /\ proc[l].pc = "hasTable"
    BY <1>3 DEF TypeOK, HasTable, At
  <2> QED BY <2>1, <2>2, <2>3, WalkSound
<1>4. ASSUME NEW l \in Loops, CreateTable(l) PROVE TypeOK'
  <2>1. UNCHANGED <<users, grants, year, events>> /\ proc[l].pc = "createTable"
    BY <1>4 DEF CreateTable, At
  <2>2. owner' \in [Tables -> Nodes \cup {Nobody}]
    <3>1. owner \in [Tables -> Nodes \cup {Nobody}] /\ NodeOf[l] \in Nodes
      BY StartAssumption DEF TypeOK
    <3> QED BY <1>4, <3>1 DEF CreateTable
  <2>3. NextTable(l) \/ Abort(l)
    BY <1>4 DEF CreateTable
  <2> QED BY <2>1, <2>2, <2>3, WalkSound
<1>5. ASSUME NEW l \in Loops, ReadColumns(l) PROVE TypeOK'
  <2>1. UNCHANGED <<owner, users, grants, year, events>> /\ proc[l].pc = "readColumns" /\ columns' = columns
    BY <1>5 DEF ReadColumns, At, database
  <2>2. CASE NextTable(l) \/ Abort(l)
    <3>1. owner' \in [Tables -> Nodes \cup {Nobody}]
      BY <2>1 DEF TypeOK
    <3> QED BY <2>1, <2>2, <3>1, WalkSound
  <2>3. CASE proc' = [proc EXCEPT ![l].pc = "addColumn", ![l].seen = columns[Table(l)]]
    <3>1. PICK p : p = [proc[l] EXCEPT !.pc = "addColumn", !.seen = columns[Table(l)]]
      OBVIOUS
    <3>2. proc[l] \in Process /\ proc[l] # Down
      BY <2>1, ProcType DEF Down
    <3>3. proc[l].year \in 0..year /\ proc[l].n \in DOMAIN Models
      BY <2>1, <3>2 DEF TypeOK, At
    <3>4. /\ p.year = proc[l].year /\ p.n = proc[l].n /\ p.pc = "addColumn"
          /\ p.seen = columns[Models[p.n]]
      BY <3>1, <3>2 DEF Process, Table
    <3>5. SoundProcess(p, columns') /\ p.pc # "up"
      BY <2>1, <3>3, <3>4 DEF SoundProcess
    <3>6. proc' = [proc EXCEPT ![l] = p]
      BY <2>3, <3>1, <3>2 DEF Process
    <3> QED BY <2>1, <3>5, <3>6, TypeGoes
  <2> QED BY <1>5, <2>2, <2>3 DEF ReadColumns
<1>6. ASSUME NEW l \in Loops, AddColumn(l) PROVE TypeOK'
  <2>1. UNCHANGED <<owner, users, grants, year, events>> /\ proc[l].pc = "addColumn"
    BY <1>6 DEF AddColumn, At
  <2>2. CASE NextTable(l) \/ Abort(l)
    <3>1. owner' \in [Tables -> Nodes \cup {Nobody}]
      BY <2>1 DEF TypeOK
    <3> QED BY <2>1, <2>2, <3>1, WalkSound
  <2>3. ASSUME NEW c, columns' = [columns EXCEPT ![Table(l)] = @ \cup {c}],
               proc' = [proc EXCEPT ![l].seen = @ \cup {c}]
        PROVE  TypeOK'
    <3>1. PICK p : p = [proc[l] EXCEPT !.seen = proc[l].seen \cup {c}]
      OBVIOUS
    <3>2. proc[l] \in Process /\ proc[l] # Down
      BY <2>1, ProcType DEF Down
    <3>3. /\ proc[l].year \in 0..year /\ proc[l].n \in DOMAIN Models
          /\ proc[l].seen \subseteq columns[Table(l)]
      BY <2>1, <3>2 DEF TypeOK, At
    <3>4. /\ p.year = proc[l].year /\ p.n = proc[l].n /\ p.pc = "addColumn"
          /\ p.seen = proc[l].seen \cup {c}
      BY <2>1, <3>1, <3>2 DEF Process
    <3>5. columns'[Table(l)] = columns[Table(l)] \cup {c}
      <4>1. Table(l) \in Tables
        BY <3>3 DEF Table, Tables
      <4> QED BY <2>3, <4>1 DEF TypeOK
    <3>6. p.seen \subseteq columns'[Models[p.n]]
      BY <3>3, <3>4, <3>5 DEF Table
    <3>7. SoundProcess(p, columns') /\ p.pc # "up"
      BY <3>3, <3>4, <3>6 DEF SoundProcess
    <3>8. proc' = [proc EXCEPT ![l] = p]
      BY <2>3, <3>1
    <3> QED BY <2>1, <3>7, <3>8, TypeGoes
  <2> QED BY <1>6, <2>2, <2>3 DEF AddColumn
<1>7. ASSUME NEW l \in Loops, InsertStats(l) PROVE TypeOK'
  <2>1. PICK label \in {"script", "listen"} :
          Goto(l, label, 1) /\ (label = "script" => 1 \in Position)
    BY <1>7 DEF InsertStats
  <2>2. proc[l].pc # "down" /\ UNCHANGED <<owner, users, grants, year, events>>
    BY <1>7 DEF InsertStats, At
  <2>3. 1 \in IF label = "script" THEN Position ELSE DOMAIN Models
    BY <2>1 DEF Models
  <2>4. PICK p : proc' = [proc EXCEPT ![l] = p] /\ SoundProcess(p, columns') /\ p.pc = label
    BY <2>1, <2>2, <2>3, GotoSound DEF Pcs
  <2> QED BY <2>2, <2>4, TypeGoes
<1>8. ASSUME NEW l \in Loops, Execute(l) PROVE TypeOK'
  <2>1. PICK n : n = proc[l].n
    OBVIOUS
  <2>2. proc[l].pc = "script" /\ proc[l] # Down /\ n \in Position
    <3>1. At(l, "script")
      BY <1>8 DEF Execute
    <3>2. proc[l].pc = "script" /\ proc[l] # Down
      BY <3>1 DEF At, Down
    <3>3. proc[l].n \in IF At(l, "script") THEN Position ELSE DOMAIN Models
      BY <3>2 DEF TypeOK
    <3> QED BY <2>1, <3>1, <3>2, <3>3
  <2>3. PICK label, next :
          /\ label \in {"script", "listen"} /\ Goto(l, label, next)
          /\ next \in IF label = "script" THEN Position ELSE DOMAIN Models
    <3>1. 1 \in DOMAIN Models
      BY DEF Models
    <3> QED BY <1>8, <3>1 DEF Execute
  <2>4. PICK p : proc' = [proc EXCEPT ![l] = p] /\ SoundProcess(p, columns') /\ p.pc = label
    BY <2>2, <2>3, GotoSound DEF Pcs
  <2>5. users' \subseteq Boxes
    BY <1>8, <2>1, <2>2, BoxAtType DEF Execute, TypeOK
  <2>6. \A r \in grants' : r[1] \in Boxes /\ <<r[2], r[3]>> \in Rights
    <3>1. CASE grants' = grants
      BY <3>1 DEF TypeOK
    <3>2. CASE /\ StatementAt(n).do = "GRANT"
               /\ grants' = grants \cup {<<BoxAt(n), StatementAt(n).right, StatementAt(n).table>>}
      <4>1. \A r \in grants : r[1] \in Boxes /\ <<r[2], r[3]>> \in Rights
        BY DEF TypeOK
      <4>2. BoxAt(n) \in Boxes /\ <<StatementAt(n).right, StatementAt(n).table>> \in Rights
        BY <2>2, <3>2, BoxAtType, RightAtType
      <4>3. PICK b, right, t : b = BoxAt(n) /\ right = StatementAt(n).right /\ t = StatementAt(n).table
        OBVIOUS
      <4>4. grants' = grants \cup {<<b, right, t>>} /\ b \in Boxes /\ <<right, t>> \in Rights
        BY <3>2, <4>2, <4>3
      <4>5. <<b, right, t>>[1] = b /\ <<b, right, t>>[2] = right /\ <<b, right, t>>[3] = t
        OBVIOUS
      <4>6. ASSUME NEW r \in grants', r \notin grants PROVE r[1] \in Boxes /\ <<r[2], r[3]>> \in Rights
        <5>1. r = <<b, right, t>>
          BY <4>4, <4>6
        <5> QED BY <4>4, <4>5, <5>1
      <4> QED BY <4>1, <4>6
    <3> QED BY <1>8, <2>1, <3>1, <3>2 DEF Execute
  <2>7. owner' \in [Tables -> Nodes \cup {Nobody}] /\ year' = year /\ events' = events
    BY <1>8 DEF Execute, TypeOK
  <2>8. events \in 0..MaxEvents /\ year <= events
    <3>1. events \in 0..MaxEvents /\ year \in 0..events
      BY DEF TypeOK
    <3> QED BY <3>1, StartAssumption
  <2> QED BY <2>3, <2>4, <2>5, <2>6, <2>7, <2>8, TypeMoves
<1>9. ASSUME NEW l \in Loops, Listen(l) PROVE TypeOK'
  <2>1. UNCHANGED <<owner, users, grants, year, events>> /\ proc[l].pc = "listen"
    BY <1>9 DEF Listen, At, database
  <2>2. CASE proc' = [proc EXCEPT ![l] = Down]
    BY <2>1, <2>2, TypeGoes
  <2>3. CASE Goto(l, "up", 1) /\ ~Serving(NodeOf[l])
    <3>1. 1 \in DOMAIN Models
      BY DEF Models
    <3>2. PICK p : proc' = [proc EXCEPT ![l] = p] /\ SoundProcess(p, columns')
      BY <2>1, <2>3, <3>1, GotoSound DEF Pcs
    <3>3. \A k \in Loops \ {l} : ~(NodeOf[k] = NodeOf[l] /\ At(k, "up"))
      BY <2>3 DEF Serving
    <3>4. /\ owner' \in [Tables -> Nodes \cup {Nobody}] /\ users' \subseteq Boxes
          /\ \A r \in grants' : r[1] \in Boxes /\ <<r[2], r[3]>> \in Rights
      BY <2>1 DEF TypeOK
    <3>5. year' = year /\ events' \in 0..MaxEvents /\ year <= events'
      <4>1. events \in 0..MaxEvents /\ year \in 0..events
        BY DEF TypeOK
      <4> QED BY <2>1, <4>1, StartAssumption
    <3> QED BY <3>2, <3>3, <3>4, <3>5, TypeMoves
  <2> QED BY <1>9, <2>2, <2>3 DEF Listen
<1>10. ASSUME NEW l \in Loops, Crash(l) PROVE TypeOK'
  <2>1. proc' = [proc EXCEPT ![l] = Down] /\ UNCHANGED <<owner, users, grants>>
    BY <1>10 DEF Crash, database
  <2>2. year' = year /\ events' \in 0..MaxEvents /\ year <= events'
    BY <1>10, StartAssumption DEF Crash, TypeOK
  <2>3. /\ owner' \in [Tables -> Nodes \cup {Nobody}] /\ users' \subseteq Boxes
        /\ \A r \in grants' : r[1] \in Boxes /\ <<r[2], r[3]>> \in Rights
    BY <2>1 DEF TypeOK
  <2> QED BY <2>1, <2>2, <2>3, TypeMoves
<1>11. CASE NewYear
  <2>1. /\ columns' = columns /\ owner' = owner /\ rows' = rows /\ users' = users
        /\ grants' = grants /\ proc' = proc
    BY <1>11 DEF NewYear, database
  <2>2. year' = year + 1 /\ events' = events + 1 /\ events' \in 0..MaxEvents /\ year' \in 0..events'
    BY <1>11, StartAssumption DEF NewYear, TypeOK
  <2>3. 0..year \subseteq 0..year'
    BY <2>2, StartAssumption DEF TypeOK
  <2> QED BY <2>1, <2>2, <2>3 DEF TypeOK, At, Table
<1> QED BY <1>1, <1>2, <1>3, <1>4, <1>5, <1>6, <1>7, <1>8, <1>9, <1>10, <1>11 DEF Next, Step

(* Of everything that overlapping starts leave behind at any statement: a table
   has no column that the program does not know, a right is one of the script's
   and belongs to a box, a start works on columns that are still there, and no
   two processes of one node listen on its port (storage.New, NewServer). *)
THEOREM StartTypeCorrect == Spec => []TypeOK
<1>1. Init => StartInv /\ TypeOK
  <2> SUFFICES ASSUME Init PROVE StartInv /\ TypeOK
    OBVIOUS
  <2>1. StartInv
    BY InitStart
  <2>2. \A l \in Loops : proc[l] = Down
    BY DEF Init
  <2>3. owner \in [Tables -> Nodes \cup {Nobody}]
    BY DEF Init, Nodes
  <2>4. columns \in [Tables -> SUBSET UNION {Columns[t] : t \in Tables}]
    BY <2>1 DEF StartInv, ColumnsOK
  <2> QED BY <2>1, <2>2, <2>3, <2>4, StartAssumption DEF Init, TypeOK
<1>2. StartInv /\ TypeOK /\ [Next]_vars => (StartInv /\ TypeOK)'
  BY StartInductive, TypeInductive
<1> QED BY <1>1, <1>2, PTL DEF Spec
=============================================================================
