---------------------------- MODULE Certificates ----------------------------
(***************************************************************************)
(* The certificates of the API: `campusvote gen tls' (generate_tls.go),    *)
(* the setup that runs it (createElection), and the API server and client  *)
(* of each node, which load what it wrote.                                 *)
(*                                                                         *)
(* A run makes a CA of its own and overwrites, file after file, whatever   *)
(* an earlier run left.  It may fail or be ended between any two files,    *)
(* and createElection does not look at its exit code; a write that fails   *)
(* leaves a truncated file, and the run goes on.  A file holds the run     *)
(* that wrote it and, for a certificate or a key, the place of its key     *)
(* pair in that run; nothing else of it matters.                           *)
(***************************************************************************)
EXTENDS Integers, Sequences

CONSTANTS
  Boxes,      \* the names of the ballot boxes
  Committee,  \* "Election Committee"
  BoxLists,   \* the lists of ballot boxes for which elections are set up
  Aborts,     \* whether runs, and setups, may end in the middle, and writes fail
  MaxRuns,    \* bound: runs of the generator
  MaxEvents   \* bound: writes that fail, deleted setups and processes that end

Names == Boxes \cup {Committee}

ASSUME CertificatesAssumption ==
  /\ Committee \notin Boxes
  /\ BoxLists \subseteq Seq(Boxes)
  /\ Aborts \in BOOLEAN /\ MaxRuns \in Nat /\ MaxEvents \in Nat

VARIABLES
  gen,      \* the latest run of the generator
  made,     \* the certificates in the temporary directory of each box
  archive,  \* those in the exported archive of each box
  node,     \* those in the data directory of each node
  there,    \* which of these directories and archives there are
  started,  \* the nodes whose election was started
  loops,    \* the nodes with a restart loop of the API
  server,   \* the files that the API server of each node has loaded
  client,   \* the files that the API client of each node has loaded
  events

dirs == <<made, archive, node, there>>
processes == <<started, loops, server, client>>
vars == <<gen, dirs, processes, events>>

-----------------------------------------------------------------------------
(* Files *)

Files == <<"ca", "serverCrt", "serverKey", "clientCrt", "clientKey">>
FileNames == {Files[i] : i \in DOMAIN Files}

\* Run 0: there is no such file, or one that does not decode.
NoFile == [run |-> 0, pair |-> 0]
Nothing == [f \in FileNames |-> NoFile]

Contents == [run : 0..MaxRuns, pair : Nat]

\* AppendCertsFromPEM and LoadX509KeyPair, which compares the two public keys.
Loads(d, crt, key) == d["ca"].run # 0 /\ d[crt].run # 0 /\ d[crt] = d[key]

LoadsServer(d) == Loads(d, "serverCrt", "serverKey")
LoadsClient(d) == Loads(d, "clientCrt", "clientKey")

\* Mutual TLS: each side verifies the other's certificate with its own CA.
Trust(s, c) == s["ca"].run = c["clientCrt"].run /\ c["ca"].run = s["serverCrt"].run

Usable(d) == LoadsServer(d) /\ LoadsClient(d) /\ Trust(d, d)

-----------------------------------------------------------------------------
(* The generator: the files of a run, in the order it writes them *)

\* Mutant: the committee's own certificates are forgotten.
PlanBoxesOnly(boxes) == boxes

Plan(boxes) == Append(boxes, Committee)

Last(boxes) == Len(Files) * Len(Plan(boxes))

PlaceAt(n) == ((n - 1) \div Len(Files)) + 1

FileAt(n) == IF n = 0 THEN "ca" ELSE Files[((n - 1) % Len(Files)) + 1]

NameAt(boxes, n) == IF n = 0 THEN Committee ELSE Plan(boxes)[PlaceAt(n)]

ContentAt(run, n) ==
  [run |-> run, pair |-> IF FileAt(n) = "ca" THEN 0 ELSE PlaceAt(n)]

Running == gen.status = "running"

Listed == {gen.boxes[i] : i \in DOMAIN gen.boxes}

\* Fills in file n of the run; content is NoFile when it was only truncated.
Store(content) ==
  LET name == NameAt(gen.boxes, gen.n)
      file == FileAt(gen.n)
  IN \/ /\ name = Committee
        /\ node' = [node EXCEPT ![Committee][file] = content]
        /\ UNCHANGED <<made, there>>
     \/ /\ name # Committee
        /\ made' = [made EXCEPT ![name][file] = content]
        /\ there' = [there EXCEPT !.made = @ \cup {name}]
        /\ UNCHANGED node

\* The form is shown until a setup is complete, and again when it was deleted.
Awaiting == gen.status \in {"none", "aborted"} \/ (gen.status = "done" /\ Committee \notin there.node)

\* Mutant: an aborted run is continued.
GenerateResumed(boxes) ==
  /\ Awaiting
  /\ gen.run < MaxRuns
  /\ gen' = [run |-> gen.run + 1, boxes |-> boxes, n |-> gen.n, status |-> "running", ok |-> FALSE, whole |-> TRUE]
  /\ there' = [there EXCEPT !.node = @ \cup {Committee}]
  /\ UNCHANGED <<made, archive, node, processes, events>>

\* createElection, up to the start of the generator.  All directories of an
\* aborted setup are still there.
Generate(boxes) ==
  /\ Awaiting
  /\ gen.run < MaxRuns
  /\ gen' = [run |-> gen.run + 1, boxes |-> boxes, n |-> 0, status |-> "running", ok |-> FALSE, whole |-> TRUE]
  /\ there' = [there EXCEPT !.node = @ \cup {Committee}]
  /\ UNCHANGED <<made, archive, node, processes, events>>

\* The error of pem.Encode is dropped: the file is whole or truncated.
WriteFile ==
  \E whole \in BOOLEAN :
    /\ Running
    /\ ~whole => Aborts /\ events < MaxEvents
    /\ events' = IF whole THEN events ELSE events + 1
    /\ Store(IF whole THEN ContentAt(gen.run, gen.n) ELSE NoFile)
    /\ gen' = IF gen.n = Last(gen.boxes)
              THEN [gen EXCEPT !.status = "ended", !.ok = TRUE, !.whole = gen.whole /\ whole]
              ELSE [gen EXCEPT !.n = gen.n + 1, !.whole = gen.whole /\ whole]
    /\ UNCHANGED <<archive, processes>>

\* os.Create fails, and the command panics; or the process is ended while it
\* writes, and leaves a truncated file.
Fail ==
  /\ Aborts
  /\ Running
  /\ UNCHANGED <<made, node, there>> \/ Store(NoFile)
  /\ gen' = [gen EXCEPT !.status = "ended"]
  /\ UNCHANGED <<archive, processes, events>>

-----------------------------------------------------------------------------
(* The setup: createElection after the generator, loadBallotBox, delete *)

\* The directories that are exported: that of each listed box, also when the
\* generator did not get to it, and any other there is.
Exported == Listed \cup there.made

\* Mutant: an archive that exists is kept.
ExportNew ==
  /\ gen.status = "ended"
  /\ gen' = [gen EXCEPT !.status = "done"]
  /\ archive' = [b \in Boxes |-> IF b \in Exported \ there.archive THEN made[b] ELSE archive[b]]
  /\ made' = [b \in Boxes |-> Nothing]
  /\ there' = [there EXCEPT !.archive = @ \cup Exported, !.made = {}]
  /\ UNCHANGED <<node, processes, events>>

\* The archives are written, and the temporary directory is deleted.
Export ==
  /\ gen.status = "ended"
  /\ gen' = [gen EXCEPT !.status = "done"]
  /\ archive' = [b \in Boxes |-> IF b \in Exported THEN made[b] ELSE archive[b]]
  /\ made' = [b \in Boxes |-> Nothing]
  /\ there' = [there EXCEPT !.archive = @ \cup Exported, !.made = {}]
  /\ UNCHANGED <<node, processes, events>>

\* After the generator, createElection makes the directories of all boxes.
AbortSetup ==
  /\ Aborts
  /\ gen.status \in {"running", "ended"}
  /\ gen' = [gen EXCEPT !.status = "aborted"]
  /\ \/ UNCHANGED there
     \/ gen.status = "ended" /\ there' = [there EXCEPT !.made = @ \cup Listed]
  /\ UNCHANGED <<made, archive, node, processes, events>>

\* Mutant: the files of the archive replace those of the running box.
LoadBallotBoxAlways(b) ==
  /\ b \in there.archive
  /\ node' = [node EXCEPT ![b] = archive[b]]
  /\ there' = [there EXCEPT !.node = @ \cup {b}]
  /\ UNCHANGED <<gen, made, archive, processes, events>>

\* An archive holds the settings, and perhaps no certificate.  renameSync onto a
\* directory that is not empty throws, and the new files are the ones deleted.
LoadBallotBox(b) ==
  /\ b \notin started
  /\ b \in there.archive
  /\ node' = [node EXCEPT ![b] = IF b \in there.node THEN node[b] ELSE archive[b]]
  /\ there' = [there EXCEPT !.node = @ \cup {b}]
  /\ UNCHANGED <<gen, made, archive, processes, events>>

\* The button ends no process: the API goes on with the files it has loaded, and
\* its loop with those it will find.
Delete(d) ==
  /\ d \in there.node
  /\ events < MaxEvents
  /\ d = Committee => gen.status \in {"done", "aborted"}
  /\ events' = events + 1
  /\ node' = [node EXCEPT ![d] = Nothing]
  /\ there' = [there EXCEPT !.node = @ \ {d}]
  /\ started' = started \ {d}
  /\ client' = [client EXCEPT ![d] = Nothing]
  /\ UNCHANGED <<gen, made, archive, loops, server>>

-----------------------------------------------------------------------------
(* The API of a node: startingElection and NewClient, NewServer *)

\* A client whose files do not fit together never connects: it counts as none.
StartElection(d) ==
  /\ d = Committee => gen.status = "done"
  /\ d \notin started
  /\ d \in there.node
  /\ started' = started \cup {d}
  /\ loops' = loops \cup {d}
  /\ client' = [client EXCEPT ![d] = IF LoadsClient(node[d]) THEN node[d] ELSE Nothing]
  /\ UNCHANGED <<gen, dirs, server, events>>

\* A process that cannot load its certificates panics, and its loop starts
\* another one; the port is free when no other process has it.
NewServer(d) ==
  /\ d \in loops
  /\ server[d] = Nothing
  /\ LoadsServer(node[d])
  /\ server' = [server EXCEPT ![d] = node[d]]
  /\ UNCHANGED <<gen, dirs, started, loops, client, events>>

EndServer(d) ==
  /\ server[d] # Nothing
  /\ events < MaxEvents
  /\ events' = events + 1
  /\ server' = [server EXCEPT ![d] = Nothing]
  /\ UNCHANGED <<gen, dirs, started, loops, client>>

-----------------------------------------------------------------------------
(* Specification *)

Init ==
  /\ gen = [run |-> 0, boxes |-> <<>>, n |-> 0, status |-> "none", ok |-> FALSE, whole |-> TRUE]
  /\ made = [b \in Boxes |-> Nothing]
  /\ archive = [b \in Boxes |-> Nothing]
  /\ node = [d \in Names |-> Nothing]
  /\ there = [made |-> {}, archive |-> {}, node |-> {}]
  /\ started = {}
  /\ loops = {}
  /\ server = [d \in Names |-> Nothing]
  /\ client = [d \in Names |-> Nothing]
  /\ events = 0

Next ==
  \/ \E boxes \in BoxLists : Generate(boxes)
  \/ WriteFile
  \/ Fail
  \/ Export
  \/ AbortSetup
  \/ \E b \in Boxes : LoadBallotBox(b)
  \/ \E d \in Names : Delete(d) \/ StartElection(d) \/ NewServer(d) \/ EndServer(d)

Spec == Init /\ [][Next]_vars

\* Only the restart loop of an API has to go on.
FairSpec == Spec /\ \A d \in Names : WF_vars(NewServer(d))

-----------------------------------------------------------------------------
(* Properties *)

Runs == [run : 0..MaxRuns, boxes : BoxLists \cup {<<>>}, n : Nat, ok : BOOLEAN, whole : BOOLEAN,
         status : {"none", "running", "ended", "done", "aborted"}]

TypeOK ==
  /\ gen \in Runs
  /\ gen.n <= Last(gen.boxes)
  /\ made \in [Boxes -> [FileNames -> Contents]]
  /\ archive \in [Boxes -> [FileNames -> Contents]]
  /\ node \in [Names -> [FileNames -> Contents]]
  /\ server \in [Names -> [FileNames -> Contents]]
  /\ client \in [Names -> [FileNames -> Contents]]
  /\ there \in [made : SUBSET Boxes, archive : SUBSET Boxes, node : SUBSET Names]
  /\ started \subseteq Names /\ loops \subseteq Names
  /\ events \in 0..MaxEvents

\* No file of an earlier run is left, and when none of this run was truncated, a
\* server and a client start with the files and accept each other.
OfTheRun(d) ==
  /\ \A f \in FileNames : d[f].run \in {0, gen.run}
  /\ gen.whole => Usable(d)

\* A run that exits with 0 has replaced whatever earlier runs left behind, at any
\* file they ended at, for the committee and every listed box; only a write of
\* its own that failed unnoticed can leave them unusable (GenerateTLSCerts).
RunRepairs ==
  gen.ok /\ gen.status = "ended" =>
    OfTheRun(node[Committee]) /\ \A b \in Listed : OfTheRun(made[b])

\* So do the archives that createElection exports after such a run, whatever
\* directories an aborted setup left in the temporary directory.
ArchivesWork ==
  gen.ok /\ gen.status = "done" => \A b \in Listed : OfTheRun(archive[b])

\* "The encrypted ZIP-file can be imported to setup a ballotbox": the archives of
\* a setup that came to its end work (createElection).  A generator that ended early
\* breaks it.
ExportedWorks == gen.status = "done" => \A b \in Listed : Usable(archive[b])

\* A started node with good files gets an API that its client can call, and keeps
\* it until the setup is deleted: only an API process of an earlier setup that
\* still runs stands in the way (the restart loop of startCampusVoteAPI).
StartedIsReachable ==
  \A d \in Names :
    (d \in started /\ Usable(node[d]) /\ server[d] \in {Nothing, node[d]}) ~>
      (d \notin started \/ (server[d] # Nothing /\ client[d] # Nothing /\ Trust(server[d], client[d])))
=============================================================================
