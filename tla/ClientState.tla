----------------------------- MODULE ClientState -----------------------------
(***************************************************************************)
(* The GUI of one node: its state machine (core/state/state_controller     *)
(* .dart), the setup of an election or of a ballot box (setup/), and the   *)
(* start of the services (core/state/state_service.dart, header/).         *)
(*                                                                         *)
(* changeState enters a state and handles it, which may change the state   *)
(* again; it is asynchronous, so calls overlap.  A call is modelled by the *)
(* stack of what it still has to do: the labels stand for the code between *)
(* two awaits.  The program can end at any await; files and the keyring    *)
(* remain.                                                                 *)
(***************************************************************************)
EXTENDS Integers, SequencesExt

CONSTANTS
  Roles,     \* what the person at this node sets up: "committee", "box"
  Deleters,  \* the roles that also press the button to delete the setup
  Hasty,     \* the buttons that are pressed while an earlier call still runs
  Failures,  \* what may fail: creating an election, loading a box's file,
             \* restoring a stored setup, finding the own network address,
             \* initialising the cluster, reading the client's certificates;
             \* "wipe": the program may end while it deletes the setup
  Calls,     \* slots for calls of changeState
  MaxEvents, \* bound: buttons pressed and programs ended
  MaxLoops   \* bound: retries of the initialisation

Buttons == {"create", "load", "start", "delete"}

ASSUME UserAssumption ==
  /\ Roles \subseteq {"committee", "box"}
  /\ Deleters \subseteq Roles
  /\ Hasty \subseteq Buttons
  /\ Failures \subseteq {"create", "load", "restore", "self", "init", "certs", "wipe"}
  /\ Calls # {}
  /\ MaxEvents \in Nat /\ MaxLoops \in Nat

VARIABLES
  role,       \* what the person at this node sets up
  state,      \* CampusVoteState.state
  setupData,  \* CampusVoteState.setupData: "none", or where it came from
  boxData,    \* the picked file with its password, and whether they fit
  client,     \* whether the API client is registered
  popup,      \* the dialog that is open: "none", "load" (a file), "start"
  calls,      \* what each running call of changeState still has to do
  retries,    \* calls of startCockroachNode that nobody waits for
  nodeLoops,  \* loops that restart the node of the database
  apiLoops,   \* loops that restart the API
  password,   \* whether the keyring has the password of the database
  nullRead,   \* history: whether the API was to be started without it
  keys,       \* the keyring (FlutterSecureStorage)
  files,      \* the application directory
  wiping,     \* whether its deletion is under way
  events

memory == <<state, setupData, boxData, client, popup>>
services == <<retries, nodeLoops, apiLoops, password, nullRead>>
disk == <<keys, files, wiping>>
vars == <<role, memory, calls, services, disk, events>>

CVStates == {"AWAITING_SETUP", "INITIALIZING_ELECTION", "READY_TO_START_ELECTION",
             "STARTING_ELECTION", "ELECTION_STARTED"}

\* A setup is the person's own election or that of the file of a ballot box.
Setups == {"none", "own", "box"}

NoKeys == [state |-> "none", committee |-> FALSE, boxKey |-> "none", initialized |-> FALSE]

\* campusvote.bb, and settings.json in .committee and .ballotbox; "partial" is
\* a directory with other files but no settings.
NoFiles == [boxFile |-> "none", committee |-> "none", box |-> "none"]

Dir == IF keys.committee THEN "committee" ELSE "box"     \* getCVDataDir

-----------------------------------------------------------------------------
(* changeState *)

StartServices == <<"self", "node", "api", "client">>

\* The state that is entered in the end and what is left to do there, when
\* changeState runs until its first await.
Entered(new, data) ==
  CASE new = "AWAITING_SETUP" -> [state |-> new, todo |-> <<"readState", "write">>]
    [] new = "INITIALIZING_ELECTION" /\ data # "none" ->
         [state |-> new, todo |-> <<"flag", "create", "write">>]
    [] new = "INITIALIZING_ELECTION" /\ data = "none" ->
         [state |-> new, todo |-> <<"load", "write">>]
    [] new = "READY_TO_START_ELECTION" -> [state |-> new, todo |-> <<"write">>]
    [] new = "STARTING_ELECTION" /\ data # "none" ->
         [state |-> new, todo |-> StartServices \o <<"toStarted", "again", "write">>]
    [] new = "STARTING_ELECTION" /\ data = "none" ->
         [state |-> "AWAITING_SETUP", todo |-> <<"readState", "write", "write">>]
    [] new = "ELECTION_STARTED" /\ data # "none" ->
         [state |-> new, todo |-> StartServices \o <<"write">>]
    [] new = "ELECTION_STARTED" /\ data = "none" ->
         [state |-> "READY_TO_START_ELECTION", todo |-> <<"write", "write">>]

\* Call c enters a state with this setup data, and goes on with rest after it.
ChangeState(c, new, data, rest) ==
  /\ state' = Entered(new, data).state
  /\ setupData' = data
  /\ calls' = [calls EXCEPT ![c] = Entered(new, data).todo \o rest]

At(c, label) == calls[c] # <<>> /\ Head(calls[c]) = label

Rest(c) == Tail(calls[c])

Done(c) == calls' = [calls EXCEPT ![c] = Rest(c)]

\* An exception that nobody catches ends the call and all its callers.
Throw(c) == calls' = [calls EXCEPT ![c] = <<>>]

\* Storing the state is the last thing that _handleState does.
WriteState(c) ==
  /\ At(c, "write")
  /\ keys' = [keys EXCEPT !.state = state]
  /\ Done(c)
  /\ UNCHANGED <<role, memory, services, files, wiping, events>>
-----------------------------------------------------------------------------
(* AWAITING_SETUP: a fresh program looks for what it stored *)

\* A node that never stored a state reads a null.
ReadStateUnchecked(c) ==
  /\ At(c, "readState")
  /\ calls' = [calls EXCEPT ![c] =
       IF keys.state = "AWAITING_SETUP" THEN Rest(c)
       ELSE <<"restore", keys.state>> \o Rest(c)]
  /\ UNCHANGED <<role, memory, services, disk, events>>

\* Only a setup is restored, not an election that had started.
ReadStateForgetful(c) ==
  /\ At(c, "readState")
  /\ calls' = [calls EXCEPT ![c] =
       IF keys.state \in {"none", "AWAITING_SETUP", "ELECTION_STARTED"} THEN Rest(c)
       ELSE <<"restore", keys.state>> \o Rest(c)]
  /\ UNCHANGED <<role, memory, services, disk, events>>

\* The name that was read stays on the stack until the setup is loaded.
ReadState(c) ==
  /\ At(c, "readState")
  /\ calls' = [calls EXCEPT ![c] =
       IF keys.state \in {"none", "AWAITING_SETUP"} THEN Rest(c)
       ELSE <<"restore", keys.state>> \o Rest(c)]
  /\ UNCHANGED <<role, memory, services, disk, events>>

\* loadBallotBox unpacks the file into the node's directory, unless there is
\* something in it, and takes the settings that are there afterwards.
Unpacked == [files EXCEPT ![Dir] = IF @ = "none" THEN "box" ELSE @]

Restored == IF keys.committee THEN files ELSE Unpacked

\* loadCommittee never unpacks: getCVDataDir has just created the directory.
MayRestore ==
  /\ Restored[Dir] \in {"own", "box"}
  /\ keys.committee \/ (keys.boxKey = "good" /\ files.boxFile = "good")

Restore(c) ==
  /\ At(c, "restore")
  /\ \/ /\ MayRestore
        /\ files' = Restored
        /\ ChangeState(c, calls[c][2], Restored[Dir], Tail(Rest(c)))
     \/ /\ ~MayRestore \/ "restore" \in Failures
        /\ Throw(c)
        /\ UNCHANGED <<state, setupData, files>>
  /\ UNCHANGED <<role, boxData, client, popup, services, keys, wiping, events>>

-----------------------------------------------------------------------------
(* INITIALIZING_ELECTION *)

\* A setup that fails leaves AWAITING_SETUP, and its exception to the caller.
SetupFails(c) == ChangeState(c, "AWAITING_SETUP", setupData, <<>>)

\* createElection: from now on this node is the committee.
WriteFlag(c) ==
  /\ At(c, "flag")
  /\ keys' = [keys EXCEPT !.committee = TRUE]
  /\ Done(c)
  /\ UNCHANGED <<role, memory, services, files, wiping, events>>

\* What createElection leaves when it ends too early: before the directory has
\* anything in it, before the settings are saved, and after that.
LeftByCreate ==
  {[files EXCEPT !.committee = left] :
     left \in {files.committee, setupData,
               IF files.committee = "none" THEN "partial" ELSE files.committee}}

\* loadBallotBox copies the picked file before it knows that the password fits.
LeftByLoad == {files, [files EXCEPT !.boxFile = boxData]}

CreateElection(c) ==
  /\ At(c, "create")
  /\ \/ /\ files' = [files EXCEPT !.committee = setupData]
        /\ ChangeState(c, "READY_TO_START_ELECTION", setupData, Rest(c))
     \/ /\ "create" \in Failures
        /\ files' \in LeftByCreate
        /\ SetupFails(c)
  /\ UNCHANGED <<role, boxData, client, popup, services, keys, wiping, events>>

\* A node whose directory has something in it keeps that, whatever the file says.
LoadBallotBox(c) ==
  /\ At(c, "load")
  /\ \/ /\ boxData = "good"
        /\ Unpacked[Dir] \in {"own", "box"}
        /\ files' = [Unpacked EXCEPT !.boxFile = boxData]
        /\ setupData' = Unpacked[Dir]
        /\ calls' = [calls EXCEPT ![c] = <<"boxKey">> \o Rest(c)]
        /\ UNCHANGED state
     \/ /\ boxData = "bad" \/ Unpacked[Dir] = "partial"
        /\ files' = [files EXCEPT !.boxFile = boxData]
        /\ SetupFails(c)
     \/ /\ "load" \in Failures
        /\ SetupFails(c)
        /\ files' \in LeftByLoad
  /\ UNCHANGED <<role, boxData, client, popup, services, keys, wiping, events>>

\* The password of the box's file is used and not stored.
WriteBoxKeyNever(c) ==
  /\ At(c, "boxKey")
  /\ ChangeState(c, "READY_TO_START_ELECTION", setupData, Rest(c))
  /\ UNCHANGED <<role, boxData, client, popup, services, disk, events>>

WriteBoxKey(c) ==
  /\ At(c, "boxKey")
  /\ keys' = [keys EXCEPT !.boxKey = boxData]
  /\ ChangeState(c, "READY_TO_START_ELECTION", setupData, Rest(c))
  /\ UNCHANGED <<role, boxData, client, popup, services, files, wiping, events>>

-----------------------------------------------------------------------------
(* STARTING_ELECTION, ELECTION_STARTED: startingElection *)

\* What follows startingElection in the handler that called it.
AfterServices(c) ==
  LET i == SelectInSeq(calls[c], LAMBDA label : label \notin Range(StartServices))
  IN SubSeq(calls[c], i, Len(calls[c]))

\* The exception is not caught.
StartFailsUncaught(c) == Throw(c) /\ UNCHANGED <<state, setupData>>

\* The state is assigned without changeState, and never stored.
StartFailsUnstored(c) ==
  /\ state' = "READY_TO_START_ELECTION"
  /\ Throw(c)
  /\ UNCHANGED setupData

\* The handler of ELECTION_STARTED takes every error for services that run.
StartFailsIgnored(c) ==
  LET after == AfterServices(c)
  IN IF Head(after) = "toStarted"
     THEN ChangeState(c, "READY_TO_START_ELECTION", setupData, Tail(after))
     ELSE calls' = [calls EXCEPT ![c] = after] /\ UNCHANGED <<state, setupData>>

\* Both handlers go back to READY_TO_START_ELECTION; that of STARTING_ELECTION
\* goes on with ELECTION_STARTED after it.
StartFails(c) ==
  LET after == AfterServices(c)
  IN ChangeState(c, "READY_TO_START_ELECTION", setupData,
                 IF Head(after) = "toStarted" THEN Tail(after) ELSE after)

\* getBallotBoxSelf throws when no network interface has the address of a box.
FindSelf(c) ==
  /\ At(c, "self")
  /\ \/ Done(c) /\ UNCHANGED <<state, setupData>>
     \/ ~keys.committee /\ "self" \in Failures /\ StartFails(c)
  /\ UNCHANGED <<role, boxData, client, popup, services, disk, events>>

\* The committee initialises the cluster; when that fails another call, which
\* nobody waits for, starts the node once more.
InitCluster(pending) ==
  IF keys.committee /\ ~keys.initialized
  THEN \/ keys' = [keys EXCEPT !.initialized = TRUE] /\ retries' = pending
       \/ /\ "init" \in Failures
          /\ nodeLoops < MaxLoops
          /\ retries' = pending + 1
          /\ UNCHANGED keys
  ELSE retries' = pending /\ UNCHANGED keys

StartCockroachNode(c) ==
  /\ At(c, "node")
  /\ nodeLoops' = nodeLoops + 1
  /\ InitCluster(retries)
  /\ Done(c)
  /\ UNCHANGED <<role, memory, apiLoops, password, nullRead, files, wiping, events>>

RetryCockroachNode ==
  /\ retries > 0
  /\ nodeLoops' = nodeLoops + 1
  /\ InitCluster(retries - 1)
  /\ UNCHANGED <<role, memory, calls, apiLoops, password, nullRead, files, wiping, events>>

\* Without a password the isolate of the loop throws, which nobody awaits.
StartCampusVoteAPI(c) ==
  /\ At(c, "api")
  /\ IF password THEN apiLoops' = apiLoops + 1 /\ UNCHANGED nullRead
                 ELSE nullRead' = TRUE /\ UNCHANGED apiLoops
  /\ Done(c)
  /\ UNCHANGED <<role, memory, retries, nodeLoops, password, disk, events>>

\* Every failure to register is taken for a client that is registered already;
\* only ELECTION_STARTED goes on after it.
RegisterClient(c) ==
  /\ At(c, "client")
  /\ \/ /\ ~client
        /\ client' = TRUE
        /\ Done(c)
        /\ UNCHANGED <<state, setupData>>
     \/ /\ client \/ "certs" \in Failures
        /\ UNCHANGED client
        /\ IF Head(Rest(c)) = "toStarted" THEN StartFails(c)
           ELSE Done(c) /\ UNCHANGED <<state, setupData>>
  /\ UNCHANGED <<role, boxData, popup, services, disk, events>>

\* Once in the try of STARTING_ELECTION, and again after it.
ToStarted(c) ==
  /\ At(c, "toStarted") \/ At(c, "again")
  /\ ChangeState(c, "ELECTION_STARTED", setupData, Rest(c))
  /\ UNCHANGED <<role, boxData, client, popup, services, disk, events>>

-----------------------------------------------------------------------------
(* Buttons, and the end of the program *)

\* Nothing that a button or the start of the program began is still running.
Idle == ~wiping /\ \A c \in Calls : calls[c] = <<>>

Press(c, button) ==
  /\ events < MaxEvents
  /\ events' = events + 1
  /\ calls[c] = <<>>
  /\ button \in Hasty \/ popup # "none" \/ Idle

\* setup_form.dart
PressCreate(c) ==
  /\ Press(c, "create")
  /\ role = "committee" /\ state = "AWAITING_SETUP" /\ popup = "none"
  /\ ChangeState(c, "INITIALIZING_ELECTION", "own", <<>>)
  /\ UNCHANGED <<role, boxData, client, popup, services, disk>>

OpenPopup(dialog) ==
  /\ popup = "none"
  /\ popup' = dialog
  /\ dialog \in Hasty \/ Idle
  /\ \/ dialog = "load" /\ role = "box" /\ state = "AWAITING_SETUP"
     \/ dialog = "start" /\ state = "READY_TO_START_ELECTION"
  /\ UNCHANGED <<role, state, setupData, boxData, client, calls, services, disk, events>>

ClosePopup ==
  /\ popup # "none"
  /\ popup' = "none"
  /\ UNCHANGED <<role, state, setupData, boxData, client, calls, services, disk, events>>

\* setup_view.dart; the state is not looked at again when the dialog is closed.
PressLoad(c, data) ==
  /\ Press(c, "load")
  /\ popup = "load"
  /\ popup' = "none"
  /\ boxData' = data
  /\ ChangeState(c, "INITIALIZING_ELECTION", setupData, <<>>)
  /\ UNCHANGED <<role, client, services, disk>>

\* start_election_popup.dart; the popup closes after the password is stored,
\* and the keyring stores what it is asked to in order.
PressStart(c) ==
  /\ Press(c, "start")
  /\ popup = "start"
  /\ password' = TRUE
  /\ calls' = [calls EXCEPT ![c] = <<"pressed">>]
  /\ UNCHANGED <<role, memory, retries, nodeLoops, apiLoops, nullRead, disk>>

\* When the popup was closed in the meantime, closing it may throw.
StartElection(c) ==
  /\ At(c, "pressed")
  /\ \/ ChangeState(c, "STARTING_ELECTION", setupData, <<>>)
     \/ popup # "start" /\ Throw(c) /\ UNCHANGED <<state, setupData>>
  /\ popup' = "none"
  /\ UNCHANGED <<role, boxData, client, services, disk, events>>

\* setup_view.dart; without a client its unregistration throws, and nothing
\* is deleted.
PressDelete(c) ==
  /\ Press(c, "delete")
  /\ role \in Deleters /\ state # "AWAITING_SETUP" /\ popup = "none" /\ client
  /\ client' = FALSE
  /\ calls' = [calls EXCEPT ![c] = <<"wipe">>]
  /\ UNCHANGED <<role, state, setupData, boxData, popup, services, disk>>

\* Future.wait: the files, the keyring and changeState, which reads the keyring
\* after it was emptied.  Nothing orders the files and the keyring.
Wipe(c) ==
  /\ At(c, "wipe")
  /\ wiping' = TRUE
  /\ state' = "AWAITING_SETUP"
  /\ calls' = [calls EXCEPT ![c] = <<"deleteAll">> \o Entered("AWAITING_SETUP", setupData).todo]
  /\ UNCHANGED <<role, setupData, boxData, client, popup, services, keys, files, events>>

WipeKeys(c) ==
  /\ At(c, "deleteAll")
  /\ keys' = NoKeys
  /\ password' = FALSE
  /\ Done(c)
  /\ UNCHANGED <<role, memory, retries, nodeLoops, apiLoops, nullRead, files, wiping, events>>

WipeFiles ==
  /\ wiping
  /\ wiping' = FALSE
  /\ files' = NoFiles
  /\ UNCHANGED <<role, memory, calls, services, keys, events>>

Deleting == wiping \/ \E c \in Calls : At(c, "deleteAll")

\* What a program that was just started has in memory, on these files.
Fresh ==
  /\ state' = "AWAITING_SETUP" /\ setupData' = "none" /\ boxData' = "none"
  /\ client' = FALSE /\ popup' = "none"
  /\ retries' = 0 /\ nodeLoops' = 0 /\ apiLoops' = 0 /\ nullRead' = FALSE
  /\ \E c \in Calls :
       calls' = [d \in Calls |-> IF d = c THEN Entered("AWAITING_SETUP", "none").todo ELSE <<>>]

Restart ==
  /\ events < MaxEvents
  /\ Deleting => "wipe" \in Failures
  /\ events' = events + 1
  /\ Fresh
  /\ wiping' = FALSE
  /\ files' \in {files}
        \cup (IF wiping THEN {NoFiles} ELSE {})
        \cup (IF \E c \in Calls : At(c, "create") THEN LeftByCreate ELSE {})
        \cup (IF \E c \in Calls : At(c, "load") THEN LeftByLoad ELSE {})
  /\ UNCHANGED <<role, keys, password>>

-----------------------------------------------------------------------------
(* Specification *)

Init ==
  /\ role \in Roles
  /\ state = "AWAITING_SETUP" /\ setupData = "none" /\ boxData = "none"
  /\ client = FALSE /\ popup = "none"
  /\ retries = 0 /\ nodeLoops = 0 /\ apiLoops = 0
  /\ password = FALSE /\ nullRead = FALSE
  /\ calls \in {[d \in Calls |-> IF d = c THEN Entered(state, "none").todo ELSE <<>>] : c \in Calls}
  /\ keys = NoKeys /\ files = NoFiles /\ wiping = FALSE
  /\ events = 0

Continue(c) ==
  \/ WriteState(c)
  \/ ReadState(c)
  \/ Restore(c)
  \/ WriteFlag(c)
  \/ CreateElection(c)
  \/ LoadBallotBox(c)
  \/ WriteBoxKey(c)
  \/ FindSelf(c)
  \/ StartCockroachNode(c)
  \/ StartCampusVoteAPI(c)
  \/ RegisterClient(c)
  \/ ToStarted(c)
  \/ StartElection(c)
  \/ Wipe(c)
  \/ WipeKeys(c)

PressAny(c) ==
  \/ PressCreate(c)
  \/ \E data \in {"good", "bad"} : PressLoad(c, data)
  \/ PressStart(c)
  \/ PressDelete(c)

Next ==
  \/ \E c \in Calls : Continue(c) \/ PressAny(c)
  \/ \E dialog \in {"load", "start"} : OpenPopup(dialog)
  \/ ClosePopup
  \/ RetryCockroachNode
  \/ WipeFiles
  \/ Restart

Spec == Init /\ [][Next]_vars

\* Code that runs goes on; nobody has to press a button.
Fairness == \A c \in Calls : WF_vars(Continue(c))

FairSpec == Spec /\ Fairness

-----------------------------------------------------------------------------
(* Properties *)

Labels == {"readState", "restore", "flag", "create", "load", "boxKey", "self", "node", "api",
           "client", "toStarted", "again", "pressed", "wipe", "deleteAll", "write"} \cup CVStates

TypeOK ==
  /\ role \in Roles
  /\ state \in CVStates
  /\ setupData \in Setups
  /\ boxData \in {"none", "good", "bad"}
  /\ client \in BOOLEAN
  /\ popup \in {"none", "load", "start"}
  /\ calls \in [Calls -> Seq(Labels)]
  /\ retries \in Nat /\ nodeLoops \in Nat /\ apiLoops \in Nat
  /\ password \in BOOLEAN /\ nullRead \in BOOLEAN
  /\ keys \in [state : CVStates \cup {"none"}, committee : BOOLEAN, boxKey : {"none", "good", "bad"},
              initialized : BOOLEAN]
  /\ files \in [boxFile : {"none", "good", "bad"}, committee : Setups \cup {"partial"},
               box : Setups \cup {"partial"}]
  /\ wiping \in BOOLEAN
  /\ events \in 0..MaxEvents

\* After a crash at any await, a node that stored an advanced state finds on
\* its disk and in its keyring the setup that _handleState loads for it.
StoredIsRestorable == ~Deleting /\ keys.state \notin {"none", "AWAITING_SETUP"} => MayRestore

\* setup_services.dart:58: "Only committee setups new elections."  A box that deletes
\* its setup and loads a file again breaks it.
OnlyCommitteeCreates == keys.committee => role = "committee"

\* The election is shown as started only with an API client, and with loops
\* that keep the database and the API running, even when a first start failed;
\* the API alone may lack its loop, when the program read no password for it.
StartedHasServices ==
  Idle /\ state = "ELECTION_STARTED" => client /\ nodeLoops > 0 /\ (apiLoops > 0 \/ nullRead)

\* header_service.dart:72: "function is only called after creating entry".  A deletion
\* while a start is under way breaks it.
PasswordIsStored == ~nullRead

\* Between two calls the keyring has the state that is shown, or the program
\* could not restore it.
StoredIsShown == Idle /\ state # "AWAITING_SETUP" => keys.state = state

\* A start ends, with services or back at the button, whatever fails.
StartEnds == state = "STARTING_ELECTION" ~> state # "STARTING_ELECTION"

\* A fresh program that stored a started election starts it again, unless its
\* setup is being deleted: no crash at any await makes a node forget it.
ElectionResumes ==
  state = "AWAITING_SETUP" /\ keys.state = "ELECTION_STARTED" ~>
    state = "ELECTION_STARTED" \/ keys = NoKeys
=============================================================================
