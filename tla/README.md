# Campus Vote: a TLA+ model of the electoral directory and of its nodes

Campus Vote registers who has voted in a student election. Every ballot box and
the election committee run the same desktop program: a GUI (Flutter), an API
process (Go, gRPC on the loopback interface) and a node of one replicated
CockroachDB. There is no central server: the boxes meet only in the tables.

The requirements are in `README.md` of the repository (lines 27 to 30): every
vote is recorded, nobody votes twice, the data are consistent whenever they can
be read, and a crash loses nothing. The code has no transaction and no lock:
each SQL statement commits by itself, and most results of statements are not
looked at. What the directory guarantees is therefore a question about
interleavings, failures and crashes between statements. Each node in turn has a GUI
that sets it up, stores what it is, and starts its services, in code that goes on
after every await with whatever state it then finds. These two questions are what
this project is about.

## Inventory

| Component | State | Operations | What is hard |
|---|---|---|---|
| Electoral directory, `pkg/storage/storage.go`, `voter.go` | tables `enc_voters`, `enc_voter_statuses` | CreateNewVoter, RegisterVotingStep, CheckVoterStatus, GetVoterByStudentId | two boxes and one student; DELETE then INSERT; errors that nobody looks at |
| Statistics, `pkg/storage/stats.go` | one row of `election_stats` | countVoter, countVote, GetElectionStats | read, change and save of a whole row; index of the day |
| Chat storage, `storage.go`, `chat.go` | table `enc_chat_messages` | SendChatMessage, ReadChat | dropped error of an INSERT, colliding keys, undecryptable messages |
| Field encryption, `crypto.go`, `voter.go` | none | encrypt, decrypt | none (data) |
| API server, `pkg/api/server.go`, `cmd/campusvote/server_cmd.go` | requests in flight | four calls on the directory, statistics, two chat calls | a panic or `log.Fatal` in one request ends all of them |
| Configuration, `pkg/core/conf.go` | connection pools | GetCockroachDB | a new pool for every operation; `log.Fatal` |
| API client and command line, `pkg/api/client.go`, `cmd/campusvote` | place in a CSV file | import, validation | an error is dropped and the nil answer used |
| State controller, `gui/lib/core/state` | state of the GUI, stored state, setup data | changeState, restart | overlapping changes, stale setup data, failed starts |
| Node start, `gui/lib/header` | restart loops of the API and of the database | startCampusVoteAPI, startCockroachNode | duplicate loops, retries that nobody waits for |
| Election setup, `gui/lib/setup` | role of the node, files | createElection, loadBallotBox, loadCommittee, delete | a restart in the middle, a role that is never taken back |
| Desk, `gui/lib/dashboard/widgets` | popups with a voter, calls under way | look up, voting step | stale popup, second press while a call runs, lost answer |
| Dashboard and chat view, `gui/lib/dashboard`, `gui/lib/chat` | last answer, the future of the last build | polls every five seconds, a call for each build | answers that overtake each other, an error that stays |
| Start of the API, `storage.New`, `internal/cockroachdb` | tables with their columns, owners and rights; database users | AutoMigrate, newStats, CREATE USER, GRANT, listen | restart loops that overlap on one node; errors of the migration that nobody looks at |
| TLS keys of the API, `pkg/util/generate_tls.go`, export and import of the boxes' files | directories of certificates, archives, loaded files | gen tls, export, load, delete | a run that ends between two files; a write that fails unnoticed; a process that goes on with deleted files |
| Settings, widgets, themes, generated code | | | left aside: layout, generated code |

The components interact like this. The desk of a box calls its own API process
(gRPC over loopback, one goroutine for each call). The process reads the name of
the box in the client's certificate, looks the voter up, and runs the statements
of RegisterVotingStep, then those of countVote, against the shared tables. The
committee's process creates the tables, the statistics and a database user for
each box when it starts; its users import the voters by CreateVoter. The GUI
starts the API process in a loop that starts it again whenever it ends.

What makes each part correct, and the hazards with their lines, are listed in
`PROJECT.json` (`hazards`).

## Modules

| Module | What it is |
|---|---|
| `ElectoralDirectory` | The abstract specification: each student goes unknown, registered, ballot, voted in atomic steps, and a vote is accepted once, after it is recorded. With `MayLose` a failure forgets that students have ballots. |
| `VoterRegistry` | The code: the tables, the API processes and the requests in flight, one action for each SQL statement. |
| `Desk` | The form and the popups of each ballot box, composed with `VoterRegistry`: every action of a desk is a call, an answer or nothing for the registry. |
| `VoterImport` | The tools that walk through the file of voters (`gen voter`, the import of the GUI, `check`), composed with `VoterRegistry`. |
| `ClientState` | The GUI of one node: state machine, setup, deletion, start of the services, restarts. One action between two awaits. |
| `ApiStart` | What starting API processes do to the database, statement by statement, while their restart loops overlap. |
| `Certificates` | The certificates of the API: generator, archives, setups, and the servers and clients that load them. |
| `Chat` | The chat and the two pages that poll, with answers in any order. |
| `MC...` | The instances for TLC of the module of that name. |

| Proofs | Of |
|---|---|
| `VoterRegistryProofs` | type correctness; no vote twice, none lost (`OneDesk`); what a row of `enc_voter_statuses` says; `VoterRegistry` implements `ElectoralDirectory`; when no process ends |
| `VoterRegistryCounts` | sums that add up, bounds of the statistics, exact statistics, and that no ballot is forgotten |
| `DeskProofs` | what the desks have to see to so that votes count once; when labels tell the truth |
| `VoterImportProofs` | types; what imports achieve |
| `ApiStartProofs` | types |
| `CertificatesProofs` | types; what a run of the generator repairs, and what the exported archives hold |
| `ChatProofs` | types; a written message stays readable |
| `ClientStateProofs` | types; what the GUI may do and has stored |

### VoterRegistry and the code

State:

| Variable | Code |
|---|---|
| `api` | the API process of a node: down, starting (the committee's, in `storage.New`), up |
| `users` | the boxes whose database user exists and has its rights |
| `voters` | `enc_voters`: the home ballot box of each student with a row |
| `statuses` | `enc_voter_statuses`; status 0 stands for no row, which the code never writes |
| `stats` | the row of `election_stats`, with totals, boxes, days, mornings and afternoons |
| `req` | for each goroutine its place in the code and its local variables (`copy` is the struct `stats` of countVoter and countVote) |
| `steps` | bound: calls of RegisterVotingStep for one student |
| `recorded`, `granted`, `accepted` | history: statuses ever written, answers by which a ballot was handed out or a vote accepted |

A request is a program with one label before each statement:

    GetVoter             find, lookup, readStatus
    CheckVoterStatus     lookup, readStatus
    CreateVoter          lookup, insertVoter, readStats, saveStats
    RegisterVotingStep   lookup, readStatus, insertBallot
                         lookup, readStatus, deleteStatus, insertVoted, readStats, saveStats

and `reply` at the end, when only the answer is left to deliver. Code between two
statements belongs to the action of the statement before it: it works on local
variables. The actions of different requests interleave in every way.

Failures:
- `"read"`: a SELECT fails. GORM leaves the struct at its zero values, decryption
  fails, and the caller takes that for "not found" (GetVoterByStudentId) or for
  "has not voted" (CheckVoterStatus). In countVoter and countVote the list of
  boxes is empty, and the index into it panics.
- `"write"`: an INSERT, DELETE or UPDATE changes nothing. Only CreateNewVoter
  looks at the result.
- `"crash"`: a process ends at any point (`log.Fatal` in GetCockroachDB, a panic,
  the machine). Its requests end with it and the GUI starts it again.

Rights are modelled: only the committee's database user may insert voters and
create the statistics, and the committee's name is not in the list of boxes, so
a step that it tries to register is refused.

Which requests overlap is not the code's decision. The constant `Concurrency`
names the three assumptions about the world under which we ask what holds:
- `"any"`: any requests overlap;
- `"voter"`: a student is served by one box at a time, which waits for the
  answer, so no two requests for a step of one student overlap;
- `"serial"`: no two writing requests overlap.

What the model abstracts from:
- names, faculties and the encryption of the fields; a row is readable or it is not;
- the statement runs atomically at one moment, whatever node it is sent to
  (CockroachDB's default isolation is serializable); how it gets there is external;
- the stored statistics list the boxes of the configuration, as they do when the
  boxes do not change after the first start;
- CREATE USER and the GRANTs of one box are one step; module `ApiStart` has them
  one by one, with the migration of existing tables; the AUDIT statements are left out;
- the random number that decides whether home and voting box are stored is a choice;
- the day of each vote is a choice among `Weekdays`, independent of the vote before.

### ClientState and the code

| Variable | Code |
|---|---|
| `role` | what the person at this node wants to set up; not known to the code |
| `state`, `setupData`, `boxData` | the fields of `CampusVoteState`; setup data is told apart by where it came from, a picked file by whether the password fits |
| `client` | whether the singleton of the API client is registered |
| `popup` | the file picker with the password dialog, or the popup that starts the election |
| `calls` | for each running call of changeState the stack of what it and its callers still have to do |
| `retries`, `nodeLoops`, `apiLoops` | calls of startCockroachNode that nobody waits for; restart loops of the database and of the API |
| `password`, `nullRead` | whether the keyring has the password of the database; history: whether the API was to be started without one (`header_service.dart:51` and 72) |
| `keys` | the keyring: stored state, the flag of the committee, the password of the box's file, whether the cluster is initialised |
| `files`, `wiping` | the application directory: `campusvote.bb`, and the settings in `.committee` and `.ballotbox`; whether it is being deleted |

A label on a stack stands for the code from one await to the next. changeState
sets the state and pushes what its handler has to do (`Entered`); a handler ends
with `write`, which stores the state of that moment, not the one it was called for.
For example a start by the button is

    pressed                          password stored, popup closed
    self node api client             startingElection
    toStarted                        changeState(ELECTION_STARTED): self node api client write
    again                            and once more
    write

and a failure anywhere in `self .. client` leaves them all (`StartFails`). An
exception that nobody catches takes the whole stack with it (`Throw`). The program
can end at any await (`Restart`): the memory is fresh then, the keyring and the
files remain, and createElection and loadBallotBox leave what they had written.

What the model abstracts from: the contents of settings, certificates and archives;
the export of the boxes' files (`Certificates`); the validation of forms; the voter
import (`VoterImport`). The
readiness check of the database has no effect because the code does not await it
(`header_service.dart:157`).

### Desk and the code

`popups` are the popups that are open at a desk, one on top of the other: each has the
voter, and the status of the voter as it was read (`voter_info.dart`). `press` is, for
each handler of `VoterRegistry`, the button whose call it serves. The form reads the
voter (`PressCheck`, `TakeVoter`) and is covered as long as a popup is open; a check can
be pressed again while another runs, and opens a second popup. The one button of a popup is labelled by
the status that was read then, and its call carries the student id alone (`PressStep`).
The code disables no button while a call runs, so that it is pressed again; it keeps no
voter to one desk; and a popup is closed at any time (`Close`), while its call goes on.
Any answer pops the popup that is on top at that moment (`TakeStep`), also that of
another voter; when the popup of the call is closed already, the callback uses a context
that is gone and throws, or not, while the popup fades out. When the API ends during a
call, the call throws and the popup stays (`CallFails`).

`steps` and `overlapped` are history: how many voting steps a voter had when his or her
popup was filled, and the voters of whom two steps ran at the same time.

Outside the model: a pop when no popup is left, which closes the page of the program.
The committee's page shows the same form (`main_frame.dart`), but a voting step of the
committee is refused (code 4), which the runs of the registry have.

### VoterImport and the code

`tool` is the place of each tool in its file: before a row, in a call, done, or dead
(a panic, or an exception that ends the loop). `NoAnswer` is what each of them makes
of a call without an answer: `gen voter` drops the error and dereferences the nil
answer, the GUI's call throws, and the validation takes a missing voter for one
with status 0. An id that is not a number is only logged by `gen voter`, which then
registers student 0 (`IdOf`), and ends the other two (`Indigestible`). The codes of
CreateVoter are not looked at. `report` is what the validation writes, and `truth`
the history of what it should have known. The columns of a row are abstracted to the
id, the home box and whether a cell is missing.

### ApiStart and the code

`proc` is the API process of each restart loop with its place in `storage.New`: for each of the
four tables `hasTable`, `createTable` or `readColumns` and `addColumn`, as AutoMigrate
goes (`internal/cockroachdb/migrator.go` and GORM's migrator over it), then `insertStats`,
the `script` of CREATE USER and GRANTs for each box, and `listen`. A statement that
fails ends AutoMigrate (`Abort`) and nothing else. What a database user sees and may
do is external, by how CockroachDB treats users: root and the owner of a table may
change it, information_schema shows a user the tables on which it has a right.
Two loops on one node come from two presses of a button (`header_service.dart:53`);
the second process finds the port taken and panics (`Listen`). `rows` are the years
of `election_stats`, whose key is the year that the process read when it began
(`server_cmd.go:74`; the GUI does not pass the flag). A new year may begin while a
start is under way (`NewYear`), which then inserts the row of the old one.

### Certificates and the code

A file is the run of the generator that wrote it and, for a certificate or a key, the
place of its key pair in that run: what `LoadX509KeyPair` and the verification of mutual TLS tell
apart (`Loads`, `Trust`). `WriteFile` writes one file of a run, in the order of
`generate_tls.go`, or truncates it and goes on, since the errors of `pem.Encode` are
dropped; `gen.whole` remembers whether that happened. `Fail` ends a run between two
files, or inside one, and `AbortSetup` ends the GUI's createElection, which does not look
at the exit code of the generator. `Export` and `LoadBallotBox` move the directories of
the boxes; `there` says which directories and archives exist, also those without a
certificate: a directory that has something in it keeps what it has when an archive is
loaded.

`server` and `client` are the files that a process has loaded: each loads once. The
button that deletes a setup ends no process and no restart loop (`loops`): the old
server goes on with the files it has, and its loop with those it will find (`Delete`).
A restart of the program or of the computer, which would end both, is not modelled.

### Chat and the code

`calls` are calls under way: a poll that has not read yet (`read`), an answer that has
not arrived (`arrive`), a message before the time is taken (`stamp`) and before the
INSERT (`insert`). The key of a message is the clock of the sending process; its INSERT
writes the row or fails, for a row with the same time or for any other reason, and the
sender is told OK (`Insert`: `accepted`, and `written` only in the first case). A row
that was encrypted with another password shows as an error text and as an empty message
of the year zero (`Entries`). A page that is left drops the answers of its polls
(`Show`). The statistics are the number of votes of `VoterRegistry`, which a stale copy
may lower (`Count`).

`dash` is the State object of the dashboard: the statistics of the last answer, what its
FutureBuilder shows (`view`), and whether it is to be built again (`dirty`). A build
starts a poll of its own and forgets the future of the build before (`Build`); setState
is called only for other statistics (`Arrive`, `dashboard_view.dart:232`). When the call
of a build fails the page is an error (`Crash`) until a later build's call ends well;
the error of a timer's call is nobody's. The page before the start of an election, which
polls nothing, is left out.

## Properties

### VoterRegistry

Whatever happens (run `registry_any`): the row of statistics adds up
(`StatsAddUp`), no vote is recorded for somebody who was not recorded with a ballot
and registered before (`VotedHadBallot`), and a row that names ballot boxes names the
right ones (`RowsNameHomeBox`).

With one box at a time for each voter (`registry_voter`): no second vote is accepted
(`AtMostOneVote`), an accepted vote stays on record (`AcceptedIsRecorded`), the row
of a vote is final though the code deletes rows (`VotedIsFinal`), and the whole is an
`ElectoralDirectory` (`DirectorySpec`). Nothing in the program sees to that assumption:
without it the run `double_vote` finds two accepted votes of one student at two boxes.
An accepted vote survives every crash, but a ballot does not: a process that ends
between DELETE and INSERT forgets it (`BallotOnRecord`, below). An import that overlaps
with votes saves stale statistics, and so do boxes that serve different students: counts
get lost, but no vote is counted that is not recorded (`VotesNeverOvercounted`; the run
has one student, the theorem any number).

With one writing request at a time (`registry_serial`): the statistics are exact
(`StatsExact`), every recorded vote
is counted in the end (`VotedIsCounted`), and no process ends when the votes fall on
Monday to Friday (`ApiStaysUp`).

The refinement maps a student to "voted" by the row of status 2, to "ballot" by
that of status 1 or by a request between its DELETE and its INSERT, and to
"registered" by a row in `enc_voters`. The INSERT of the vote is the moment at
which the vote is cast; the request that ends before it lets the ballot be
forgotten, which the abstract specification allows only with `MayLose`.

### Desk

What the server leaves to the desks, and the desks leave to the workers, is one thing:
that no two voting steps of a voter run at the same time. However buttons are pressed,
at whichever desk, on popups however old, and again after calls that failed, a vote is
accepted once and is on record as long as that does not happen
(`VoteCountsUnlessOverlapped`). It does happen, at two desks or at one where a worker presses
twice: `AtMostOneVote` fails at the desk.

A button does what its label says, though the label is from an earlier read and the
server looks at the status anew, if no step of the voter was under way then and none was
begun since (`StepIsLabel`); every press ends, with an answer or without (`PressEnds`).

### VoterImport

An import that comes to the end of its file has registered every student whom a row
names with a listed box (`FinishedImportIsComplete`), with the box of the first good
row (`FirstRowCounts`), and counts nobody twice (`VotersNeverOvercounted`), while
other imports run, reads fail and the API ends; and no tool hangs (`ToolsEnd`). The run
`validation` shows that the report of the validation calls unknown students entitled
to vote.

### ClientState

When buttons are pressed at any time, everything may fail (except that the API
client's certificates can be read), and anybody deletes setups (run `client_any`):
an election that is shown as started between two calls has a client and restart
loops for the database and the API (`StartedHasServices`), although a failed start
goes on to ELECTION_STARTED, and the state that is shown is the one stored
(`StoredIsShown`), although calls overlap and store each other's states. The API alone
may lack its loop: a deletion of the setup while a start is under way lets it read no
password (`PasswordIsStored` fails).

When users wait for what they began, the stored setup can be read, and boxes do not
delete theirs (run `client`): at every await the disk and the keyring together have
what a restart needs (`StoredIsRestorable`), every start comes to an end (`StartEnds`),
and a node that stored a started election starts it again after a crash
(`ElectionResumes`). A box that does delete its setup and loads a file again becomes a
committee (`OnlyCommitteeCreates` fails).

### ApiStart

However starts overlap and processes end, the tables, the row of statistics, the
users and their rights are complete in the end (`SetupCompletes`), although AutoMigrate gives
up when another process was faster; and each node serves in the end
(`EveryNodeServes`). That the row of statistics that `db.First` reads stays the same is
no property: a start that straddles New Year can put the row of an earlier year before it.

### Certificates

A run that exits with 0 has replaced whatever earlier runs left: no file of another run is
there, and when no write of its own failed unnoticed, a server and a client start with
the files and accept each other (`RunRepairs`). The same holds of the archives exported
after it (`ArchivesWork`). Of a setup that came to its end it does not hold, since the
exit code is not looked at (`ExportedWorks` fails). A started node with
good files gets an API that its client can call, unless an API process of an earlier
setup still runs there (`StartedIsReachable`).

### Chat

However polls, builds and failures overtake each other, a page that stays open holds in
the end what is stored, and no dashboard waits for ever (`PagesConverge`);
the error that a build's call has left may stay in its place. A message that was written
can be read by everybody with the sender's password, for good (`WrittenIsReadable`). That
a message was accepted does not mean that it was written (`AcceptedIsWritten` fails).

## Runs and bounds

| Run | Instance | Result |
|---|---|---|
| `registry_any` | 1 student, 3 steps, all faults, any overlap, Sunday and Monday | holds |
| `registry_voter` | 1 student, 4 steps, failing reads and crashes; the committee makes every call | holds |
| `registry_serial` | 2 students, 3 steps each, no faults, Monday and Friday, mornings and afternoons | holds |
| `desk` | 1 desk with two calls at once, 1 student, 3 steps, crashes | holds |
| `import` | 2 tools in four combinations, 3 files of up to 4 rows, failing reads and crashes | holds |
| `client` | both roles, 2 overlapping calls of changeState (the start popup may be used while one runs), 5 events, 4 loops | holds |
| `client_any` | both roles, 2 overlapping calls, every button at any time, all failures but that of the certificates, 4 events, 3 loops | holds |
| `start` | the committee with 2 restart loops and a box with 1, an old table without one column, 1 event | holds |
| `tls` | 2 boxes, setups with both or one of them, 2 runs of the generator, 1 event | holds |
| `chat` | 2 nodes with different passwords, 2 points in time, 2 calls, 2 writes, 1 event | holds |
| `double_vote` | 1 student, 4 steps, no faults, any overlap | `AtMostOneVote` violated |
| `validation` | an import and a validation of one file, no faults | `EligibleIsRegistered` violated |

The violations are findings about the code: each contradicts a sentence of the
documentation or of the program (`PROJECT.json`, `findings`).

Why the bounds are enough:
- Registry: two boxes are the least at which home and voting box differ and at which two boxes
  compete. Three steps of one student are a ballot, a vote and a further attempt, and
  a fourth lets a request of each box run into the window of the other's DELETE. Two
  students are the least at which requests overlap without sharing a row of statuses.
  Monday and Friday are the first and the last index of the days, Sunday is outside.
  The only counter that is bounded is `steps` (`MaxSteps`). Each node has one handler:
  two requests of one desk overlap no more than those of two.
- Desk: one voter, since popups of other voters differ from those of the same only in
  what their steps do. Two calls of one desk are the least that overlap; the popups that
  two checks open are as stale as those of two desks. The theorems are about any number of desks.
- Import: two tools that write (or one and a validation), files in which a
  first home box is not listed, an id is not a number, a student is named twice, a
  row is cut off.
- ClientState: one node, since nodes share nothing but files that people carry. An
  event is a button pressed or the end of the program (`MaxEvents`): five are a setup,
  a start, a restart, a deletion and another setup. `MaxLoops` bounds how often the
  initialisation of the cluster is tried again; nothing depends on the number of loops
  beyond the first.
- ApiStart: two loops of the user who may create everything and one of a user who
  may not; a second box would run the same script. The event is a New Year or the end
  of a process, which is what makes a third start overlap.
- Certificates: the second run meets what the first left at any file; two boxes, of
  which the second setup may list only one.
- Chat: two calls are the least that overtake each other, also those of a timer and a
  build; two times are the least that collide or not. With two passwords each node has
  messages that it cannot read among those it can; who shares a password reads the same.

The slots for calls are symmetric: `client_any`, which has no liveness property, uses
that (`CallSymmetry`); no definition tells them apart.

The check for deadlock is on where something always may happen, and off where the
system really may stop: a node whose user has used up the events (`client`,
`client_any`), pages that are left when all events are used up (`chat`), tools that are all done
(`import`, `validation`), and setups that are complete (`tls`).

Five properties of the modules are in no run, because the code breaks them. Each states
what the documentation or a comment promises; added to the run named here, with the
change of one constant where there is one, TLC finds the steps that break it:

| Property | Run | What it means |
|---|---|---|
| `BallotOnRecord` | `registry_serial` with `Faults = {"crash"}` | a process that ends between the DELETE of the ballot and the INSERT of the vote leaves a student who was handed a ballot as one who has none (`README.md:30`: "Data loss due to system crashes must be prevented.") |
| `OnlyCommitteeCreates` | `client` with `"box"` in `Deleters` | a ballot box that deletes its setup and loads a file again still has its setupData, so that INITIALIZING_ELECTION creates an election and sets the flag of the committee (`setup_services.dart:58`: "Only committee setups new elections.") |
| | `client` with `"load"` in `Hasty` | the same without any deletion: a file that is loaded while the call of the program start still runs lets that call store the state of the unfinished load, which is restored after a restart and handled as an election to create |
| `PasswordIsStored` | `client` with `"delete"` in `Hasty` | a deletion empties the keyring while a start is under way, which reads the password afterwards; `password!` throws, and the API has no restart loop (`header_service.dart:72`: "function is only called after creating entry") |
| `AcceptedIsWritten` | `chat` | the error of the INSERT of a message is dropped, and its sender is told OK (`README.md:30`: "errors must be reliably identifiable.") |
| `ExportedWorks` | `tls` | the exit code of `gen tls` is not looked at: archives without usable certificates are exported (`setup_services.dart:30`: "The encrypted ZIP-file can be imported to setup a ballotbox.") |

What happens outside the assumptions of the runs can be seen in the same way:

| Change | Violated then | What it means |
|---|---|---|
| `registry_serial` with `Concurrency = "voter"` | `StatsExact` | two boxes that save the whole row lose a count |
| `registry_serial` with `Weekdays = {0, ..., 6}` | `ApiStaysUp` | a vote on the weekend has no index and ends the process |
| `desk` with `AtMostOneVote` as an invariant | `AtMostOneVote` | a button that is pressed twice while its call runs lets one student vote twice |
| `desk` with `Faults = {"read"}` | `StepIsLabel` | a failed read of the status labels the button for a ballot, or turns a vote into one |
| `import` with `Faults = {"write"}` | `FirstRowCounts`, `FinishedImportIsComplete` | the code of the failed INSERT is only logged |
| `client` with `"create"`, `"load"` or `"delete"` in `Hasty`, or `"restore"` or `"wipe"` in `Failures` | `StoredIsRestorable` | a call that overlaps a deletion or a second setup, or one that ends halfway, stores a state or leaves one without its setup |
| `client_any` with `"certs"` in `Failures` | `StartedHasServices` | the start goes on without a client |

## Fairness

- VoterRegistry (`FairSpec`, used by `VotedIsCounted`): `WF_vars(Handle(h))`: a goroutine that
  can take a step takes one, as the Go scheduler and the database see to, since no
  action of a handler waits for another. `WF_vars(Start)`: the committee's start goes on
  and the restart loops of the GUI (`header_service.dart`, lines 53 to 77) start a
  process that ended. Clients and crashes have none.
- Desk: `WF(Wait(h))`, an answer that is there is taken, or its absence noticed, by
  the event loop; `WF(Serve(h))` as above. Nobody has to press anything.
- VoterImport: `WF(Work(i))`, the loop of a tool goes on; `WF(Serve(h))`. Nothing makes
  the API start again.
- ClientState: `WF_vars(Continue(c))`: a call whose await has completed goes on;
  awaits complete because files, keyring and processes answer (startCockroachNode
  waits for `cockroach init` only, and not for the node). Users press nothing they need
  not, the retries and the deletion of the files have no fairness, and the program may
  end again and again up to the bound.
- ApiStart: `WF(Step(l))` for each restart loop: `while (true)` around
  `Process.run` starts the process again whenever it ended, and a statement is answered.
- Certificates: `WF(NewServer(d))`, the same restart loop of a node that has one (`loops`).
  Nobody has to finish a setup.
- Chat: `WF(Serve(c))`, a call is answered; `SF(Poll(n))` and `SF(Build(n))`, since a timer
  fires every five seconds, and a page that is dirty is built with the next frame, whatever
  the slots for calls, which are a bound of the model, do in between.

## What is proved

With TLAPS, for every value of the constants that the named assumptions allow. The
assumptions are conditions on the constants that choose what may happen:
`NoLostWrite`: no write fails silently. `OneDesk`: that, and `Concurrency` is
`"voter"` or `"serial"`. `~MayExit`: no fault at all, and no vote on the weekend, so that no
process ends. `Serial`: that, and one writing request at a time. `Finite`: finitely
many students and handlers. The assumptions on `Hasty`, `Deleters` and `Failures` of
`ClientState` are needed one by one: the table above shows what is violated without them.

| Theorem | Assumes | States |
|---|---|---|
| `TypeCorrect` | | `TypeOK` |
| `BallotBeforeVote` | | `VotedHadBallot` |
| `HomeBoxNamed` | | `RowsNameHomeBox` |
| `VotersCountedOnce` | `Finite` | `VotersNeverOvercounted` |
| `StatisticsAddUp` | finitely many ballot boxes | `StatsAddUp` |
| `NoDoubleVote`, `NoAcceptedVoteLost`, `VotedRowIsFinal` | `OneDesk` | `AtMostOneVote`, `AcceptedIsRecorded`, `VotedIsFinal` |
| `RegistryImplementsDirectory` | `OneDesk` | `DirectorySpec` |
| `NoProcessEnds` | `~MayExit` | `ApiStaysUp` |
| `VotesCountedOnce` | `OneDesk`, `Finite` | `VotesNeverOvercounted` |
| `NoBallotForgotten` | `OneDesk`, `~MayExit` | `BallotOnRecord` |
| `SerialCountsExactly` | `Serial`, `Finite` | `StatsExact` |
| `VotesCountUnlessOverlapped` | `NoLostWrite` | `VoteCountsUnlessOverlapped` |
| `ButtonDoesWhatItSays` | `"read" \notin Faults` | `StepIsLabel` |
| `ImportComplete`, `FirstRowWins` | `NoLostWrite` | `FinishedImportIsComplete`, `FirstRowCounts` |
| `ImportCountsOnce` | `NoLostWrite`, `Finite` | `VotersNeverOvercounted`, of imports |
| `ImportTypeCorrect` | | `ImportTypeOK` |
| `StartTypeCorrect` | | `TypeOK` |
| `RunsRepair`, `ExportedArchivesWork`, `CertificatesTypeCorrect` | | `RunRepairs`, `ArchivesWork`, `TypeOK` |
| `WrittenStaysReadable`, `ChatTypeCorrect` | | `WrittenIsReadable`, `TypeOK` |
| `ShownIsStored`, `ClientTypeCorrect` | | `StoredIsShown`, `TypeOK` |
| `StartedRunsServices` | `"certs" \notin Failures` | `StartedHasServices` |
| `StoredRestores` | `Hasty \subseteq {"start"}`, `"box" \notin Deleters`, neither `"restore"` nor `"wipe"` in `Failures` | `StoredIsRestorable` |

Few of these properties are inductive. The arguments:

- `TypeInv` adds `LabelOK` to the types: at each label, what operation the request is,
  which status it has read and whether a home box is known. Without it `CountVoter` could be applied at no box.
- `SafeInv` (`OneDesk`). No two requests for a step of one student are in flight
  (`Exclusive`). For each of them (`VoteOK`): before its DELETE and its INSERT nothing
  was accepted and the student has no row of a vote, at the INSERT there is no row at
  all, so it succeeds, and after it there is the row. A student whose vote was accepted
  once has the row, and no request that could accept another is on its way (`OnceOK`).
  The status that a request read thus stays true while it runs, unless the read
  failed: then the request goes for a ballot, its INSERT meets the existing row, and
  the answer hands out a ballot but accepts nothing.
- `RowsInv`, with any overlap: a request beyond the read of a status
  1 knows that a ballot was recorded, and one beyond its lookup knows the home box.
- The refinement: by `TypeInv`, `SafeInv` and `ServedInv` (the row of statistics
  lists the boxes as soon as anybody works on it, and so does each copy, so that
  only `MayExit` ends a process) every step is a step of the directory or leaves all
  stages as they are. `NoProcessEnds` needs `TypeInv` and `ServedInv` alone.
- Bounds of the statistics: the stored total plus the requests that are
  going to count (for a saved copy, the total in it) never exceed the rows; lost
  updates only lower the left side. Exactly: with one writer (`OneWriter`) each request
  that wrote its row owes one count, and its copy is exact (`TotalsInv`).
- `AddUpInv`: the stored row adds up and so does each copy that is to be saved; a count
  raises one day, its box and the total together, so copies that overwrite each other
  still add up. That a sum grows by one when one of its terms does, whichever set it runs
  over, is proved from a smallest counterexample among the subsets of the finite set.
- `BallotInv`: who was handed a ballot has a row, or a request between DELETE and
  INSERT; an answer that hands out a ballot follows the INSERT of its row, whether that met a row or not.
- `DeskProofs`: `SafeApart` is `SafeInv` of the registry for each voter who is not in
  `overlapped`: a step that begins while none of the same voter runs keeps it, whatever
  popup it comes from, and a step that begins while one runs puts the voter into the set.
  `LabelInv`, for a call that began when as many steps of its voter had begun as when the
  popup was filled: none of them has changed the row since (a step that had not ended when the status
  was asked for makes the count -1, which nothing equals), so the status that the step
  reads is the one on the label.
- `ImportInv`: the students of the rows that a tool has passed are registered, and a
  call in flight is for the tool's row and has registered its student when its answer
  is ready. `OwnInv`: every call in flight belongs to a tool. So the INSERT that succeeds
  is for the first good row: an earlier one would have been registered when it was
  passed. The registry's invariants carry over since each step of a tool is one of the
  registry.
- `StartInv`: columns, places and years have their types, and rows and starts are of
  this year or an earlier one. `TypeOK` needs it, and that columns are never dropped, for
  the columns that a start has seen and goes by later.
- `RunInv` (`Certificates`): what a run of the generator has written so far carries its
  number, file by file in the order of its plan, or is truncated and remembered as such,
  whatever was there before; a run that is over with 0 has passed the whole plan, and
  the archives are made of it.
- `Inv` (`Chat`): rows are only added, and there is one for each written message. The
  sorted history loses no entry, since no two entries of rows that decrypt have the same
  time.
- `ClientState`: a call is a stack of labels, and `StacksOK` says which label may follow
  which: without it nothing is known of what a call does after its next await. On it
  rest, each for any overlap that its theorem allows:
  - `ShownInv`: when the shown state is not the stored one, some call is going to store it.
  - `ServicesInv`: when the election is shown as started, what does not run yet is still
    ahead of a call.
  - `BoxInv`: before its setup is there, a box has at most one call, of a few shapes
    (`BoxEarly`); after it, its calls hold only the labels of a start (`SetUp`).
    The flag of the committee is on none of them.
  - `LoadedInv`: a box that stored an advanced state has its file, the password of it and the
    unpacked setup.
  - `CreatorInv`: as long as the election of the committee is not created, it has one call at
    a time, which stores an advanced state only when the election is on the disk. Afterwards
    the election stays (`Created`) until the button deletes it. That button is there for a
    registered client when no call runs; as long as a client is registered, or a service is
    still to be started, and the election is not shown as started, some call will still
    show it (`Ahead`). So a deletion begins in `ELECTION_STARTED`, which has no button that
    starts an election, and is alone until the keyring is empty.

Only model-checked: liveness (`VotedIsCounted`, `PressEnds`, `ToolsEnd`, `StartEnds`,
`ElectionResumes`, `SetupCompletes`, `EveryNodeServes`, `StartedIsReachable`, `PagesConverge`), which is
beyond the prover. The invariants and action properties of all passing runs are proved,
under the assumptions of the table.

## Not modelled

- Settings, widgets, themes, localization: no state of the election. Whether it is
  afternoon is a setting of the box; the models let each vote carry either value.
- Generated code: a call is one request and one answer.
- The cipher, the archive format and the contents of certificates: the models
  keep what their readers tell apart (the password, the run, the key pair).
- The connection pools that `GetCockroachDB` opens and never closes: the limit is a
  configuration of the database; only the end of the process by a connection that
  cannot be opened is there.
- The certificates of the database, made by an external program, and the database
  itself: isolation, replication and rights are taken from how the code relies on them.
- Of the driver: types of columns, sequences, indexes, constraints and quoting, which
  the four tables do not reach.
- The calls of the Go client that nothing in the repository makes.
