------------------------- MODULE CertificatesProofs --------------------------
(***************************************************************************)
(* What a run of the generator leaves behind, for any lists of ballot      *)
(* boxes, also with a name that occurs twice, and any number of runs that  *)
(* fail or end at any file, and of writes that fail unnoticed.             *)
(***************************************************************************)
EXTENDS Certificates, TLAPS

-----------------------------------------------------------------------------
(* The files in their order *)

\* The place of file n, n > 0, among the five of its directory.
Index(n) == ((n - 1) % 5) + 1

(* There are five files. *)
LEMMA FilesAre ==
  /\ Len(Files) = 5 /\ DOMAIN Files = 1..5
  /\ Files[1] = "ca" /\ Files[2] = "serverCrt" /\ Files[3] = "serverKey"
  /\ Files[4] = "clientCrt" /\ Files[5] = "clientKey"
  /\ FileNames = {"ca", "serverCrt", "serverKey", "clientCrt", "clientKey"}
<1>1. Len(Files) = 5 /\ DOMAIN Files = 1..5
  BY DEF Files
<1>2. /\ Files[1] = "ca" /\ Files[2] = "serverCrt" /\ Files[3] = "serverKey"
      /\ Files[4] = "clientCrt" /\ Files[5] = "clientKey"
  BY DEF Files
<1>3. \A i \in 1..5 : i = 1 \/ i = 2 \/ i = 3 \/ i = 4 \/ i = 5
  OBVIOUS
<1>4. FileNames = {Files[1], Files[2], Files[3], Files[4], Files[5]}
  BY <1>1, <1>3 DEF FileNames
<1> QED BY <1>1, <1>2, <1>4

(* File n + 1 is the next one of the same directory, or the first one of the
   next directory. *)
LEMMA Places ==
  ASSUME NEW n \in Nat \ {0}
  PROVE  /\ PlaceAt(n) \in Nat \ {0} /\ Index(n) \in 1..5
         /\ n = 5 * (PlaceAt(n) - 1) + Index(n)
         /\ FileAt(n) = Files[Index(n)]
         /\ Index(n) # 5 => PlaceAt(n + 1) = PlaceAt(n) /\ Index(n + 1) = Index(n) + 1
         /\ Index(n) = 5 => PlaceAt(n + 1) = PlaceAt(n) + 1 /\ Index(n + 1) = 1
         /\ PlaceAt(1) = 1 /\ Index(1) = 1
<1>1. PlaceAt(n) = ((n - 1) \div 5) + 1 /\ PlaceAt(n + 1) = ((n + 1 - 1) \div 5) + 1
  BY FilesAre DEF PlaceAt
<1>2. FileAt(n) = Files[Index(n)]
  BY FilesAre DEF FileAt, Index
<1>3. PlaceAt(n) \in Nat \ {0} /\ Index(n) \in 1..5 /\ n = 5 * (PlaceAt(n) - 1) + Index(n)
  BY <1>1 DEF Index
<1>4. Index(n) # 5 => PlaceAt(n + 1) = PlaceAt(n) /\ Index(n + 1) = Index(n) + 1
  BY <1>1 DEF Index
<1>5. Index(n) = 5 => PlaceAt(n + 1) = PlaceAt(n) + 1 /\ Index(n + 1) = 1
  BY <1>1 DEF Index
<1>6. PlaceAt(1) = 1 /\ Index(1) = 1
  BY FilesAre DEF PlaceAt, Index
<1> QED BY <1>2, <1>3, <1>4, <1>5, <1>6

(* The list of a run ends with the committee. *)
LEMMA PlanIs ==
  ASSUME NEW boxes \in Seq(Boxes)
  PROVE  /\ Len(Plan(boxes)) = Len(boxes) + 1 /\ Len(boxes) \in Nat
         /\ Last(boxes) = 5 * (Len(boxes) + 1)
         /\ Plan(boxes)[Len(boxes) + 1] = Committee
         /\ \A i \in 1..Len(boxes) : Plan(boxes)[i] = boxes[i] /\ boxes[i] \in Boxes
         /\ \A i \in 1..(Len(boxes) + 1) : Plan(boxes)[i] \in Names
<1>1. /\ Len(Plan(boxes)) = Len(boxes) + 1 /\ Len(boxes) \in Nat
      /\ Plan(boxes)[Len(boxes) + 1] = Committee
      /\ \A i \in 1..Len(boxes) : Plan(boxes)[i] = boxes[i] /\ boxes[i] \in Boxes
  BY DEF Plan
<1>2. Last(boxes) = 5 * (Len(boxes) + 1)
  BY <1>1, FilesAre DEF Last
<1>3. \A i \in 1..(Len(boxes) + 1) : Plan(boxes)[i] \in Names
  BY <1>1 DEF Names
<1> QED BY <1>1, <1>2, <1>3

(* File n belongs to a directory of the list. *)
LEMMA NameIs ==
  ASSUME NEW boxes \in Seq(Boxes), NEW n \in Nat, n <= Last(boxes)
  PROVE  /\ NameAt(boxes, n) \in Names /\ FileAt(n) \in FileNames
         /\ n # 0 => /\ NameAt(boxes, n) = Plan(boxes)[PlaceAt(n)]
                     /\ PlaceAt(n) \in 1..(Len(boxes) + 1)
         /\ \A run : ContentAt(run, n).run = run /\ ContentAt(run, n).pair \in Nat
<1>1. CASE n = 0
  BY <1>1, FilesAre DEF NameAt, FileAt, ContentAt, Names
<1>2. CASE n # 0
  <2>1. PlaceAt(n) \in 1..(Len(boxes) + 1)
    <3>1. PICK p, i, l : p = PlaceAt(n) /\ i = Index(n) /\ l = Len(boxes)
      OBVIOUS
    <3>2. p \in Nat \ {0} /\ i \in 1..5 /\ n = 5 * (p - 1) + i
      BY <1>2, <3>1, Places
    <3>3. l \in Nat /\ n <= 5 * (l + 1)
      BY <3>1, PlanIs
    <3>4. p \in 1..(l + 1)
      BY <3>2, <3>3
    <3> QED BY <3>1, <3>4
  <2>2. FileAt(n) \in FileNames
    BY <1>2, Places, FilesAre DEF FileNames
  <2>3. NameAt(boxes, n) = Plan(boxes)[PlaceAt(n)]
    BY <1>2 DEF NameAt
  <2> QED BY <2>1, <2>2, <2>3, PlanIs DEF ContentAt
<1> QED BY <1>1, <1>2

-----------------------------------------------------------------------------
(* Types *)

Certs == [FileNames -> Contents]

Presence == [made : SUBSET Boxes, archive : SUBSET Boxes, node : SUBSET Names]

(* Nothing is a directory, too. *)
LEMMA NothingIs == Nothing \in Certs /\ NoFile \in Contents
  BY CertificatesAssumption DEF Nothing, NoFile, Contents, Certs

(* The list of a run names ballot boxes. *)
LEMMA BoxesAre ==
  ASSUME TypeOK
  PROVE  gen.boxes \in Seq(Boxes) /\ gen.n \in Nat /\ gen.n <= Last(gen.boxes) /\ gen.run \in 0..MaxRuns
<1>1. /\ gen.boxes \in BoxLists \cup {<<>>} /\ gen.n \in Nat /\ gen.n <= Last(gen.boxes)
      /\ gen.run \in 0..MaxRuns
  BY DEF TypeOK, Runs
<1>2. BoxLists \subseteq Seq(Boxes) /\ <<>> \in Seq(Boxes)
  BY CertificatesAssumption
<1> QED BY <1>1, <1>2

(* Nobody has done anything yet. *)
LEMMA InitCerts == Init => TypeOK
<1> SUFFICES ASSUME Init PROVE TypeOK
  OBVIOUS
<1>1. gen \in Runs
  BY CertificatesAssumption DEF Init, Runs
<1>2. gen.n <= Last(gen.boxes)
  <2>1. gen.n = 0 /\ gen.boxes = <<>> /\ <<>> \in Seq(Boxes) /\ Len(<<>>) = 0
    BY DEF Init
  <2>2. Last(gen.boxes) = 5
    <3>1. Last(<<>>) = 5 * (Len(<<>>) + 1)
      BY <2>1, PlanIs
    <3> QED BY <2>1, <3>1
  <2> QED BY <2>1, <2>2
<1>3. there \in Presence
  BY DEF Init, Presence
<1> QED BY <1>1, <1>2, <1>3, NothingIs, CertificatesAssumption DEF Init, TypeOK, Certs, Presence

\* The directory that a run fills for a name.
Dir(name) == IF name = Committee THEN node[Committee] ELSE made[name]

(* A file is filled in, or truncated; all others stay. *)
LEMMA StoreType ==
  ASSUME TypeOK, NEW content \in Contents, Store(content),
         NEW name, name = NameAt(gen.boxes, gen.n), NEW file, file = FileAt(gen.n)
  PROVE  /\ made' \in [Boxes -> Certs] /\ node' \in [Names -> Certs] /\ there' \in Presence
         /\ \A other \in Names \ {name} : Dir(other)' = Dir(other)
         /\ Dir(name)'[file] = content
         /\ \A f \in FileNames \ {file} : Dir(name)'[f] = Dir(name)[f]
<1>1. name \in Names /\ file \in FileNames /\ Committee \in Names
  BY BoxesAre, NameIs DEF Names
<1>2. made \in [Boxes -> Certs] /\ node \in [Names -> Certs] /\ there \in Presence
  BY DEF TypeOK, Certs, Presence
<1>3. CASE name = Committee
  <2>1. PICK dir : dir = [node[name] EXCEPT ![file] = content]
    OBVIOUS
  <2>2. node' = [node EXCEPT ![name] = dir] /\ made' = made /\ there' = there
    BY <1>3, <2>1 DEF Store
  <2>3. node[name] \in Certs
    BY <1>1, <1>2
  <2>4. /\ dir \in Certs /\ dir[file] = content
        /\ \A f \in FileNames \ {file} : dir[f] = node[name][f]
    BY <1>1, <2>1, <2>3 DEF Certs
  <2> QED BY <1>1, <1>2, <1>3, <2>2, <2>4 DEF Dir
<1>4. CASE name # Committee
  <2>1. PICK dir : dir = [made[name] EXCEPT ![file] = content]
    OBVIOUS
  <2>2. made' = [made EXCEPT ![name] = dir] /\ node' = node /\ name \in Boxes
    BY <1>1, <1>4, <2>1 DEF Store, Names
  <2>5. there' \in Presence
    <3>1. there' = [there EXCEPT !.made = there.made \cup {name}]
      BY <1>4 DEF Store
    <3> QED BY <1>2, <2>2, <3>1 DEF Presence
  <2>3. made[name] \in Certs
    BY <1>2, <2>2
  <2>4. /\ dir \in Certs /\ dir[file] = content
        /\ \A f \in FileNames \ {file} : dir[f] = made[name][f]
    BY <1>1, <2>1, <2>3 DEF Certs
  <2> QED BY <1>1, <1>2, <1>4, <2>2, <2>4, <2>5 DEF Dir, Names
<1> QED BY <1>3, <1>4

(* Every step keeps the types. *)
LEMMA TypeInductive == ASSUME TypeOK, [Next]_vars PROVE TypeOK'
<1>1. ASSUME UNCHANGED gen PROVE (gen.n <= Last(gen.boxes))'
  BY <1>1 DEF TypeOK
<1>2. CASE UNCHANGED vars
  BY <1>1, <1>2 DEF vars, dirs, processes, TypeOK
<1>3. ASSUME NEW boxes \in BoxLists, Generate(boxes) PROVE TypeOK'
  <2>1. gen' \in Runs
    BY <1>3, CertificatesAssumption DEF Generate, Awaiting, TypeOK, Runs
  <2>2. gen'.n = 0 /\ gen'.boxes = boxes /\ Last(boxes) = 5 * (Len(boxes) + 1) /\ Len(boxes) \in Nat
    BY <1>3, PlanIs, CertificatesAssumption DEF Generate
  <2>3. there' \in Presence
    BY <1>3 DEF Generate, TypeOK, Presence, Names
  <2>4. (gen.n <= Last(gen.boxes))'
    BY <2>2
  <2> QED BY <1>3, <2>1, <2>3, <2>4 DEF Generate, processes, TypeOK, Presence
<1>4. CASE WriteFile
  <2>1. PICK whole \in BOOLEAN :
          /\ ~whole => events < MaxEvents
          /\ events' = IF whole THEN events ELSE events + 1
          /\ Store(IF whole THEN ContentAt(gen.run, gen.n) ELSE NoFile)
          /\ gen' = IF gen.n = Last(gen.boxes)
                    THEN [gen EXCEPT !.status = "ended", !.ok = TRUE, !.whole = gen.whole /\ whole]
                    ELSE [gen EXCEPT !.n = gen.n + 1, !.whole = gen.whole /\ whole]
    BY <1>4 DEF WriteFile
  <2>2. PICK content \in Contents : content = IF whole THEN ContentAt(gen.run, gen.n) ELSE NoFile
    <3>1. ContentAt(gen.run, gen.n) \in Contents
      BY BoxesAre, NameIs DEF ContentAt, Contents
    <3> QED BY <3>1, NothingIs
  <2>3. made' \in [Boxes -> Certs] /\ node' \in [Names -> Certs] /\ there' \in Presence
    BY <2>1, <2>2, StoreType
  <2>4. Last(gen.boxes) \in Nat
    BY BoxesAre, PlanIs
  <2>5. /\ gen' \in Runs
        /\ gen'.boxes = gen.boxes /\ gen'.n <= Last(gen.boxes)
    <3>1. gen \in Runs /\ gen.n <= Last(gen.boxes)
      BY DEF TypeOK
    <3>2. PICK w \in BOOLEAN : w = (gen.whole /\ whole)
      OBVIOUS
    <3>3. CASE gen' = [gen EXCEPT !.status = "ended", !.ok = TRUE, !.whole = w]
      BY <3>1, <3>3 DEF Runs
    <3>4. CASE gen.n # Last(gen.boxes) /\ gen' = [gen EXCEPT !.n = gen.n + 1, !.whole = w]
      <4>1. gen.n \in Nat
        BY <3>1 DEF Runs
      <4>2. PICK m \in Nat : m = gen.n + 1 /\ m <= Last(gen.boxes)
        BY <2>4, <3>1, <3>4, <4>1
      <4>3. gen' = [gen EXCEPT !.n = m, !.whole = w]
        BY <3>4, <4>2
      <4> QED BY <3>1, <4>2, <4>3 DEF Runs
    <3> QED BY <2>1, <3>2, <3>3, <3>4
  <2>6. events' \in 0..MaxEvents
    <3>1. events \in 0..MaxEvents /\ MaxEvents \in Nat
      BY CertificatesAssumption DEF TypeOK
    <3> QED BY <2>1, <3>1
  <2> QED BY <1>4, <2>3, <2>5, <2>6 DEF WriteFile, processes, TypeOK, Certs, Presence
<1>5. CASE Fail
  <2>1. made' \in [Boxes -> Certs] /\ node' \in [Names -> Certs] /\ there' \in Presence
    <3>1. CASE UNCHANGED <<made, node, there>>
      BY <3>1 DEF TypeOK, Certs, Presence
    <3>2. CASE Store(NoFile)
      BY <3>2, NothingIs, StoreType
    <3> QED BY <1>5, <3>1, <3>2 DEF Fail
  <2>2. gen' \in Runs /\ gen'.boxes = gen.boxes /\ gen'.n = gen.n
    BY <1>5 DEF Fail, TypeOK, Runs
  <2> QED BY <1>5, <2>1, <2>2 DEF Fail, processes, TypeOK, Certs, Presence
<1>6. CASE Export
  <2>1. made' \in [Boxes -> Certs] /\ archive' \in [Boxes -> Certs]
    BY <1>6, NothingIs DEF Export, TypeOK, Certs
  <2>2. gen' \in Runs /\ gen'.boxes = gen.boxes /\ gen'.n = gen.n
    BY <1>6 DEF Export, TypeOK, Runs
  <2>3. Exported \subseteq Boxes
    BY BoxesAre DEF Exported, Listed, TypeOK
  <2>4. there' \in Presence
    BY <1>6, <2>3 DEF Export, TypeOK, Presence
  <2> QED BY <1>6, <2>1, <2>2, <2>4 DEF Export, processes, TypeOK, Certs, Presence
<1>7. CASE AbortSetup
  <2>1. gen' \in Runs /\ gen'.boxes = gen.boxes /\ gen'.n = gen.n
    BY <1>7 DEF AbortSetup, TypeOK, Runs
  <2>2. Listed \subseteq Boxes
    BY BoxesAre DEF Listed
  <2>3. there' \in Presence
    BY <1>7, <2>2 DEF AbortSetup, TypeOK, Presence
  <2> QED BY <1>7, <2>1, <2>3 DEF AbortSetup, processes, TypeOK, Presence
<1>8. ASSUME NEW b \in Boxes, LoadBallotBox(b) PROVE TypeOK'
  <2>1. node' \in [Names -> Certs] /\ there' \in Presence
    <3>1. b \in Names /\ node \in [Names -> Certs] /\ archive[b] \in Certs /\ there \in Presence
      BY DEF TypeOK, Certs, Names, Presence
    <3>2. there' = [there EXCEPT !.node = there.node \cup {b}]
      BY <1>8 DEF LoadBallotBox
    <3>3. there' \in Presence
      BY <3>1, <3>2 DEF Presence
    <3>4. node' \in [Names -> Certs]
      BY <1>8, <3>1 DEF LoadBallotBox
    <3> QED BY <3>3, <3>4
  <2> QED BY <1>1, <1>8, <2>1 DEF LoadBallotBox, processes, TypeOK, Certs, Presence
<1>9. ASSUME NEW d \in Names, Delete(d) PROVE TypeOK'
  <2>1. node' \in [Names -> Certs] /\ client' \in [Names -> Certs] /\ there' \in Presence
    BY <1>9, NothingIs DEF Delete, TypeOK, Certs, Presence
  <2>2. events' \in 0..MaxEvents
    BY <1>9, CertificatesAssumption DEF Delete, TypeOK
  <2> QED BY <1>1, <1>9, <2>1, <2>2 DEF Delete, TypeOK, Certs, Presence
<1>10. ASSUME NEW d \in Names, StartElection(d) PROVE TypeOK'
  <2>1. client' \in [Names -> Certs]
    BY <1>10, NothingIs DEF StartElection, TypeOK, Certs
  <2> QED BY <1>1, <1>10, <2>1 DEF StartElection, dirs, TypeOK, Certs
<1>11. ASSUME NEW d \in Names, NewServer(d) PROVE TypeOK'
  <2>1. server' \in [Names -> Certs]
    BY <1>11 DEF NewServer, TypeOK, Certs
  <2> QED BY <1>1, <1>11, <2>1 DEF NewServer, dirs, TypeOK, Certs
<1>12. ASSUME NEW d \in Names, EndServer(d) PROVE TypeOK'
  <2>1. server' \in [Names -> Certs] /\ events' \in 0..MaxEvents
    BY <1>12, NothingIs, CertificatesAssumption DEF EndServer, TypeOK, Certs
  <2> QED BY <1>1, <1>12, <2>1 DEF EndServer, dirs, TypeOK, Certs
<1> QED BY <1>2, <1>3, <1>4, <1>5, <1>6, <1>7, <1>8, <1>9, <1>10, <1>11, <1>12 DEF Next

-----------------------------------------------------------------------------
(* What a run has done so far *)

\* All five files are of this run, and each certificate fits its key.
Whole(d, run) ==
  /\ \A f \in FileNames : d[f].run = run
  /\ d["serverCrt"] = d["serverKey"] /\ d["clientCrt"] = d["clientKey"]

\* No file is of another run, and all are of this one when no write failed.
Fits(d, run, whole) ==
  /\ \A f \in FileNames : d[f].run \in {0, run}
  /\ whole => Whole(d, run)

\* File i of a directory as the run writes it for the name at place p, or as a
\* write that fails leaves it.
Written(content, run, p, i, whole) ==
  /\ content \in {NoFile, [run |-> run, pair |-> IF i = 1 THEN 0 ELSE p]}
  /\ whole => content = [run |-> run, pair |-> IF i = 1 THEN 0 ELSE p]

\* The directories of the names before place p fit, but that of the name at
\* place p, if it occurred before; its first k files are those of place p.
WrittenTo(p, k) ==
  /\ \A q \in 1..(p - 1) : Plan(gen.boxes)[q] # Plan(gen.boxes)[p] =>
       Fits(Dir(Plan(gen.boxes)[q]), gen.run, gen.whole)
  /\ \A i \in 1..k : Written(Dir(Plan(gen.boxes)[p])[Files[i]], gen.run, p, i, gen.whole)

AllFit == \A q \in 1..(Len(gen.boxes) + 1) : Fits(Dir(Plan(gen.boxes)[q]), gen.run, gen.whole)

RunInv ==
  /\ gen.status # "none" => gen.run # 0
  /\ Running => ~gen.ok
  /\ Running /\ gen.n # 0 => WrittenTo(PlaceAt(gen.n), Index(gen.n) - 1)
  /\ gen.ok /\ gen.status = "ended" => AllFit
  /\ gen.ok /\ gen.status = "done" => \A b \in Listed : Fits(archive[b], gen.run, gen.whole)

(* A failed write does not make what was written before worse. *)
LEMMA StillFits ==
  ASSUME NEW d, NEW run, NEW whole, NEW less, less => whole, Fits(d, run, whole)
  PROVE  Fits(d, run, less)
  BY DEF Fits

(* A whole directory is good for a server and a client that accept each other. *)
LEMMA WholeIsUsable ==
  ASSUME NEW d, NEW run, run # 0, Whole(d, run)
  PROVE  Usable(d)
  BY FilesAre DEF Whole, Usable, LoadsServer, LoadsClient, Loads, Trust

(* What fits leaves nothing of another run, and is good when no write failed. *)
LEMMA FittingIsOfTheRun ==
  ASSUME NEW d, gen.run # 0, Fits(d, gen.run, gen.whole)
  PROVE  OfTheRun(d)
  BY WholeIsUsable DEF Fits, OfTheRun

(* The invariant gives what the setup relies on. *)
LEMMA InvRepairs == ASSUME TypeOK, RunInv PROVE RunRepairs /\ ArchivesWork
<1>1. /\ gen.boxes \in Seq(Boxes)
      /\ gen.status # "none" => gen.run # 0
  BY BoxesAre DEF RunInv
<1>2. ASSUME gen.ok, gen.status = "ended"
      PROVE  OfTheRun(node[Committee]) /\ \A b \in Listed : OfTheRun(made[b])
  <2>1. AllFit /\ gen.run # 0
    BY <1>1, <1>2 DEF RunInv
  <2>2. Fits(node[Committee], gen.run, gen.whole)
    <3>1. Fits(Dir(Plan(gen.boxes)[Len(gen.boxes) + 1]), gen.run, gen.whole)
      BY <1>1, <2>1, PlanIs DEF AllFit
    <3> QED BY <1>1, <3>1, PlanIs DEF Dir
  <2>3. ASSUME NEW b \in Listed PROVE Fits(made[b], gen.run, gen.whole)
    <3>1. PICK i \in 1..Len(gen.boxes) : b = gen.boxes[i]
      BY <1>1, <2>3 DEF Listed
    <3>2. Plan(gen.boxes)[i] = b /\ b \in Boxes /\ i \in 1..(Len(gen.boxes) + 1)
      BY <1>1, <3>1, PlanIs
    <3>3. Fits(Dir(b), gen.run, gen.whole)
      BY <2>1, <3>2 DEF AllFit
    <3> QED BY <3>2, <3>3, CertificatesAssumption DEF Dir
  <2> QED BY <2>1, <2>2, <2>3, FittingIsOfTheRun
<1>3. ASSUME gen.ok, gen.status = "done", NEW b \in Listed PROVE OfTheRun(archive[b])
  BY <1>1, <1>3, FittingIsOfTheRun DEF RunInv
<1> QED BY <1>2, <1>3 DEF RunRepairs, ArchivesWork

(* The steps that do not run the generator keep what it wrote. *)
LEMMA RunRests ==
  ASSUME TypeOK, RunInv, UNCHANGED <<gen, made, archive>>,
         gen.status \in {"running", "ended"} => node'[Committee] = node[Committee]
  PROVE  RunInv'
<1>1. gen.status \in {"running", "ended"} => \A name : Dir(name)' = Dir(name)
  BY DEF Dir
<1>2. WrittenTo(PlaceAt(gen.n), Index(gen.n) - 1) /\ Running =>
        WrittenTo(PlaceAt(gen.n), Index(gen.n) - 1)'
  BY <1>1 DEF WrittenTo, Running
<1>3. AllFit /\ gen.status = "ended" => AllFit'
  BY <1>1 DEF AllFit
<1> QED BY <1>2, <1>3 DEF RunInv, Running, Listed

(* Each file that a run writes brings it to the next one, or to its end. *)
LEMMA RunWrites == ASSUME TypeOK, RunInv, WriteFile PROVE RunInv'
<1>0. PICK boxes, l, n, p, i, run :
        /\ boxes = gen.boxes /\ l = Len(gen.boxes) + 1 /\ n = gen.n
        /\ p = PlaceAt(n) /\ i = Index(n) /\ run = gen.run
  OBVIOUS
<1>1. /\ boxes \in Seq(Boxes) /\ n \in Nat /\ n <= 5 * l /\ l \in Nat \ {0}
      /\ run \in 0..MaxRuns /\ run # 0 /\ Last(boxes) = 5 * l
      /\ Running /\ ~gen.ok
  <2>1. boxes \in Seq(Boxes) /\ n \in Nat /\ n <= Last(boxes) /\ run \in 0..MaxRuns
    BY <1>0, BoxesAre
  <2>2. Last(boxes) = 5 * l /\ l \in Nat \ {0}
    BY <1>0, <2>1, PlanIs
  <2>3. Running /\ ~gen.ok /\ run # 0
    BY <1>0 DEF WriteFile, RunInv, Running
  <2> QED BY <2>1, <2>2, <2>3
<1>2. PICK whole \in BOOLEAN, content \in Contents :
        /\ content = IF whole THEN ContentAt(run, n) ELSE NoFile
        /\ Store(content)
        /\ gen' = IF n = Last(boxes)
                  THEN [gen EXCEPT !.status = "ended", !.ok = TRUE, !.whole = gen.whole /\ whole]
                  ELSE [gen EXCEPT !.n = n + 1, !.whole = gen.whole /\ whole]
  <2>1. PICK whole \in BOOLEAN :
        /\ Store(IF whole THEN ContentAt(gen.run, gen.n) ELSE NoFile)
        /\ gen' = IF gen.n = Last(gen.boxes)
                  THEN [gen EXCEPT !.status = "ended", !.ok = TRUE, !.whole = gen.whole /\ whole]
                  ELSE [gen EXCEPT !.n = gen.n + 1, !.whole = gen.whole /\ whole]
    BY DEF WriteFile
  <2>2. PICK content \in Contents : content = IF whole THEN ContentAt(gen.run, gen.n) ELSE NoFile
    <3>1. ContentAt(gen.run, gen.n) \in Contents
      BY BoxesAre, NameIs DEF ContentAt, Contents
    <3> QED BY <3>1, NothingIs
  <2> QED BY <1>0, <2>1, <2>2
<1>3. PICK less \in BOOLEAN : less = (gen.whole /\ whole)
  OBVIOUS
<1>4. /\ n = Last(boxes) => gen' = [gen EXCEPT !.status = "ended", !.ok = TRUE, !.whole = less]
      /\ n # Last(boxes) => gen' = [gen EXCEPT !.n = n + 1, !.whole = less]
  BY <1>2, <1>3
<1>5. (less => gen.whole) /\ (less => whole)
  BY <1>3
<1>6. /\ n = Last(boxes) => /\ gen'.boxes = boxes /\ gen'.run = run /\ gen'.whole = less
                            /\ gen'.status = "ended" /\ gen'.ok
      /\ n # Last(boxes) => /\ gen'.boxes = boxes /\ gen'.run = run /\ gen'.whole = less
                            /\ gen'.n = n + 1 /\ gen'.status = "running" /\ ~gen'.ok
  BY <1>0, <1>1, <1>4 DEF TypeOK, Runs, Running
<1>7. CASE n = 0
  <2>1. /\ gen'.n = 1 /\ gen'.run = gen.run
        /\ gen'.status = "running" /\ ~gen'.ok
    BY <1>0, <1>1, <1>7, <1>6
  <2>2. PlaceAt(1) = 1 /\ Index(1) = 1
    BY Places
  <2>3. WrittenTo(PlaceAt(gen.n), Index(gen.n) - 1)'
    BY <2>1, <2>2 DEF WrittenTo
  <2> QED BY <1>0, <1>1, <2>1, <2>3 DEF RunInv, Running
<1>8. CASE n # 0
  <2>0. PICK name : name = Plan(boxes)[p]
    OBVIOUS
  <2>1. /\ p \in 1..l /\ i \in 1..5 /\ n = 5 * (p - 1) + i
        /\ NameAt(boxes, n) = name /\ FileAt(n) = Files[i] /\ FileAt(n) \in FileNames
        /\ name \in Names
    <3>1. n \in Nat \ {0}
      BY <1>1, <1>8
    <3>2. /\ i \in 1..5 /\ n = 5 * (p - 1) + i /\ FileAt(n) = Files[i]
      BY <1>0, <3>1, Places
    <3>3. n <= Last(boxes)
      BY <1>1
    <3>4. /\ NameAt(boxes, n) = name /\ FileAt(n) \in FileNames /\ name \in Names
          /\ p \in 1..l
      BY <1>0, <1>1, <1>8, <2>0, <3>3, NameIs
    <3> QED BY <3>2, <3>4
  <2>3. Written(content, run, p, i, less)
    <3>1. Files[i] = "ca" <=> i = 1
      BY <2>1, FilesAre
    <3>2. ContentAt(run, n) = [run |-> run, pair |-> IF i = 1 THEN 0 ELSE p]
      BY <1>0, <2>1, <3>1 DEF ContentAt
    <3> QED BY <1>2, <1>5, <3>2 DEF Written
  <2>4. WrittenTo(p, i - 1)
    BY <1>0, <1>1, <1>8 DEF RunInv
  <2>5. /\ \A other \in Names \ {name} : Dir(other)' = Dir(other)
        /\ Dir(name)'[Files[i]] = content
        /\ \A f \in FileNames \ {Files[i]} : Dir(name)'[f] = Dir(name)[f]
    BY <1>0, <1>2, <2>0, <2>1, StoreType
  <2>6. /\ \A q \in 1..(p - 1) : Plan(boxes)[q] # name => Fits(Dir(Plan(boxes)[q])', run, less)
        /\ \A k \in 1..i : Written(Dir(name)'[Files[k]], run, p, k, less)
    <3>1. ASSUME NEW q \in 1..(p - 1), Plan(boxes)[q] # name
          PROVE  Fits(Dir(Plan(boxes)[q])', run, less)
      <4>1. q \in 1..(Len(boxes) + 1)
        BY <1>0, <1>1, <2>1
      <4>2. Plan(boxes)[q] \in Names
        BY <1>1, <4>1, PlanIs
      <4>3. Fits(Dir(Plan(boxes)[q]), run, gen.whole)
        BY <1>0, <2>0, <2>4, <3>1 DEF WrittenTo
      <4>4. Fits(Dir(Plan(boxes)[q]), run, less)
        BY <1>5, <4>3, StillFits
      <4> QED BY <2>5, <3>1, <4>2, <4>4
    <3>2. ASSUME NEW k \in 1..i
          PROVE  Written(Dir(name)'[Files[k]], run, p, k, less)
      <4>1. CASE k = i
        BY <2>3, <2>5, <4>1
      <4>2. CASE k # i
        <5>1. k \in 1..(i - 1) /\ k \in 1..5
          BY <2>1, <3>2, <4>2
        <5>2. Files[k] \in FileNames \ {Files[i]}
          BY <2>1, <4>2, <5>1, FilesAre
        <5>3. Written(Dir(name)[Files[k]], run, p, k, gen.whole)
          BY <1>0, <2>0, <2>4, <5>1 DEF WrittenTo
        <5>4. Written(Dir(name)[Files[k]], run, p, k, less)
          BY <1>5, <5>3 DEF Written
        <5>5. Dir(name)'[Files[k]] = Dir(name)[Files[k]]
          BY <2>5, <5>2
        <5> QED BY <5>4, <5>5
      <4> QED BY <4>1, <4>2
    <3> QED BY <3>1, <3>2
  <2>7. CASE i # 5
    <3>1. /\ gen'.n = n + 1 /\ gen'.boxes = boxes /\ gen'.run = run /\ gen'.whole = less
          /\ gen'.status = "running" /\ ~gen'.ok
      <4>1. n # Last(boxes)
        BY <1>1, <2>1, <2>7
      <4> QED BY <1>6, <4>1
    <3>2. PlaceAt(n + 1) = p /\ Index(n + 1) = i + 1
      <4>1. n \in Nat \ {0} /\ Index(n) # 5
        BY <1>0, <1>1, <1>8, <2>7
      <4> QED BY <1>0, <4>1, Places
    <3>3. WrittenTo(PlaceAt(gen.n), Index(gen.n) - 1)'
      <4>1. (Index(gen.n) - 1)' = i /\ PlaceAt(gen.n)' = p /\ gen'.boxes = gen.boxes
        BY <1>0, <2>1, <3>1, <3>2
      <4> QED BY <1>0, <2>0, <2>6, <3>1, <4>1 DEF WrittenTo
    <3> QED BY <1>1, <3>1, <3>3 DEF RunInv, Running
  <2>8. CASE i = 5
    <3>1. Fits(Dir(name)', run, less)
      <4>1. PICK dir : dir = Dir(name)'
        OBVIOUS
      <4>2. \A k \in 1..5 : Written(dir[Files[k]], run, p, k, less)
        BY <2>6, <2>8, <4>1
      <4>3. /\ Written(dir["ca"], run, p, 1, less) /\ Written(dir["serverCrt"], run, p, 2, less)
            /\ Written(dir["serverKey"], run, p, 3, less) /\ Written(dir["clientCrt"], run, p, 4, less)
            /\ Written(dir["clientKey"], run, p, 5, less)
        <5>1. 1 \in 1..5 /\ 2 \in 1..5 /\ 3 \in 1..5 /\ 4 \in 1..5 /\ 5 \in 1..5
          OBVIOUS
        <5> QED BY <4>2, <5>1, FilesAre
      <4>4. \A f \in FileNames : dir[f].run \in {0, run}
        BY <4>3, FilesAre DEF Written, NoFile
      <4>5. less => /\ dir["ca"] = [run |-> run, pair |-> 0]
                    /\ dir["serverCrt"] = [run |-> run, pair |-> p]
                    /\ dir["serverKey"] = [run |-> run, pair |-> p]
                    /\ dir["clientCrt"] = [run |-> run, pair |-> p]
                    /\ dir["clientKey"] = [run |-> run, pair |-> p]
        BY <4>3 DEF Written
      <4>6. less => Whole(dir, run)
        BY <4>5, FilesAre DEF Whole
      <4> QED BY <4>1, <4>4, <4>6 DEF Fits
    <3>2. \A q \in 1..p : Fits(Dir(Plan(boxes)[q])', run, less)
      BY <2>0, <2>1, <2>6, <3>1
    <3>3. CASE p = l
      <4>1. n = Last(boxes)
        BY <1>1, <2>1, <2>8, <3>3
      <4>2. /\ gen'.boxes = boxes /\ gen'.run = run /\ gen'.whole = less
            /\ gen'.status = "ended" /\ gen'.ok
        BY <1>6, <4>1
      <4>3. AllFit'
        BY <1>0, <3>2, <3>3, <4>2 DEF AllFit
      <4> QED BY <1>1, <4>2, <4>3 DEF RunInv, Running
    <3>4. CASE p # l
      <4>1. n # Last(boxes)
        BY <1>1, <2>1, <2>8, <3>4
      <4>2. /\ gen'.n = n + 1 /\ gen'.boxes = boxes /\ gen'.run = run /\ gen'.whole = less
            /\ gen'.status = "running" /\ ~gen'.ok
        BY <1>6, <4>1
      <4>3. PlaceAt(n + 1) = p + 1 /\ Index(n + 1) = 1
        <5>1. n \in Nat \ {0} /\ Index(n) = 5
          BY <1>0, <1>1, <1>8, <2>8
        <5> QED BY <1>0, <5>1, Places
      <4>4. WrittenTo(PlaceAt(gen.n), Index(gen.n) - 1)'
        BY <1>0, <2>0, <2>1, <3>2, <4>2, <4>3 DEF WrittenTo
      <4> QED BY <1>1, <4>2, <4>4 DEF RunInv, Running
    <3> QED BY <3>3, <3>4
  <2> QED BY <2>7, <2>8
<1> QED BY <1>7, <1>8

(* Every step keeps the invariant of the runs. *)
LEMMA RunInductive == ASSUME TypeOK, RunInv, [Next]_vars PROVE RunInv'
<1>1. CASE UNCHANGED vars
  BY <1>1, RunRests DEF vars, dirs
<1>2. ASSUME NEW boxes \in BoxLists, Generate(boxes) PROVE RunInv'
  <2>1. /\ gen'.n = 0 /\ gen'.status = "running" /\ gen'.ok = FALSE /\ gen'.run = gen.run + 1
    BY <1>2 DEF Generate
  <2>2. gen'.run # 0
    BY <2>1, BoxesAre
  <2> QED BY <2>1, <2>2 DEF RunInv, Running
<1>3. CASE Fail
  <2>1. gen'.status = "ended" /\ ~gen'.ok /\ gen'.run = gen.run /\ gen.run # 0
    BY <1>3 DEF Fail, TypeOK, Runs, RunInv, Running
  <2> QED BY <2>1 DEF RunInv, Running
<1>4. CASE Export
  <2>1. /\ gen.status = "ended" /\ gen'.status = "done" /\ gen'.ok = gen.ok /\ gen'.run = gen.run
        /\ gen'.boxes = gen.boxes /\ gen'.whole = gen.whole /\ gen.run # 0
    BY <1>4 DEF Export, TypeOK, Runs, RunInv
  <2>2. ASSUME gen.ok, NEW b \in Listed PROVE Fits(archive'[b], gen.run, gen.whole)
    <3>1. gen.boxes \in Seq(Boxes) /\ AllFit
      BY <2>1, <2>2, BoxesAre DEF RunInv
    <3>2. PICK i \in 1..Len(gen.boxes) : b = gen.boxes[i]
      BY <3>1 DEF Listed
    <3>3. Plan(gen.boxes)[i] = b /\ b \in Boxes /\ i \in 1..(Len(gen.boxes) + 1)
      BY <3>1, <3>2, PlanIs
    <3>4. Fits(Dir(b), gen.run, gen.whole)
      BY <3>1, <3>3 DEF AllFit
    <3>5. archive'[b] = made[b] /\ Dir(b) = made[b]
      BY <1>4, <2>2, <3>3, CertificatesAssumption DEF Export, Exported, Dir
    <3> QED BY <3>4, <3>5
  <2>3. Listed' = Listed
    BY <2>1 DEF Listed
  <2> QED BY <2>1, <2>2, <2>3 DEF RunInv, Running
<1>5. CASE AbortSetup
  <2>1. gen'.status = "aborted" /\ gen'.run = gen.run /\ gen.run # 0
    BY <1>5 DEF AbortSetup, TypeOK, Runs, RunInv
  <2> QED BY <2>1 DEF RunInv, Running
<1>6. ASSUME NEW b \in Boxes, LoadBallotBox(b) PROVE RunInv'
  <2>1. node'[Committee] = node[Committee]
    BY <1>6, CertificatesAssumption DEF LoadBallotBox, TypeOK, Names
  <2> QED BY <1>6, <2>1, RunRests DEF LoadBallotBox
<1>7. ASSUME NEW d \in Names, Delete(d) PROVE RunInv'
  <2>1. gen.status \in {"running", "ended"} => node'[Committee] = node[Committee]
    BY <1>7 DEF Delete, TypeOK, Names
  <2> QED BY <1>7, <2>1, RunRests DEF Delete
<1>8. ASSUME NEW d \in Names, StartElection(d) \/ NewServer(d) \/ EndServer(d) PROVE RunInv'
  BY <1>8, RunRests DEF StartElection, NewServer, EndServer, dirs
<1> QED BY <1>1, <1>2, <1>3, <1>4, <1>5, <1>6, <1>7, <1>8, RunWrites DEF Next

-----------------------------------------------------------------------------
(* Theorems *)

(* The invariants, together. *)
LEMMA CertsAlways == Spec => [](TypeOK /\ RunInv)
<1>1. Init => TypeOK /\ RunInv
  BY InitCerts DEF Init, RunInv, Running
<1>2. TypeOK /\ RunInv /\ [Next]_vars => (TypeOK /\ RunInv)'
  BY TypeInductive, RunInductive
<1> QED BY <1>1, <1>2, PTL DEF Spec

(* Files are files of a run or missing, and a run writes no more of them than
   its list has (GenerateTLSCerts). *)
THEOREM CertificatesTypeCorrect == Spec => []TypeOK
  BY CertsAlways, PTL

(* Whatever runs before it left behind, at any file they ended at, and whichever
   names its list repeats: when a run exits with 0, no file of another run is
   left for the committee or a listed box, and unless a write of its own failed
   unnoticed, a server and a client start with the files and accept each other
   (GenerateTLSCerts). *)
THEOREM RunsRepair == Spec => []RunRepairs
<1>1. TypeOK /\ RunInv => RunRepairs
  BY InvRepairs
<1> QED BY <1>1, CertsAlways, PTL

(* The same holds of the archives that createElection exports after such a run,
   also next to directories that an aborted setup left in the temporary
   directory (createElection). *)
THEOREM ExportedArchivesWork == Spec => []ArchivesWork
<1>1. TypeOK /\ RunInv => ArchivesWork
  BY InvRepairs
<1> QED BY <1>1, CertsAlways, PTL
=============================================================================
