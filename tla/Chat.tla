-------------------------------- MODULE Chat --------------------------------
(***************************************************************************)
(* The chat of the nodes, and the two pages that poll: the chat view and   *)
(* the dashboard with the election statistics.                             *)
(*                                                                         *)
(* A timer calls for new data every five seconds and never waits for the   *)
(* answer to an earlier call; sending a message is not waited for either.  *)
(* Answers arrive in any order, and the page shows the one that came last. *)
(* The dashboard is built anew when its statistics change, and each build  *)
(* makes a call of its own, whose error takes the place of the statistics. *)
(* A message is a row with the time of the sending API process as its key; *)
(* the error of the INSERT is dropped.                                     *)
(***************************************************************************)
EXTENDS Integers, Sequences, FiniteSets, SequencesExt

CONSTANTS
  Nodes,      \* ballot boxes and committee; a certificate has the node's name
  Texts,      \* what people write
  Passwords,  \* passwords of the database
  password,   \* the one that each node was given and keeps
  Times,      \* the points in time that a row can tell apart, above 0
  Calls,      \* bound: calls under way at the same time
  MaxWrites,  \* bound: messages, and changes of the statistics
  MaxEvents   \* bound: changes of the page, failing reads, processes that end

ASSUME ChatAssumption ==
  /\ Times \subseteq Nat \ {0}
  /\ "" \notin Nodes   \* it is the sender of what is no message
  /\ password \in [Nodes -> Passwords]
  /\ MaxWrites \in Nat /\ MaxEvents \in Nat

VARIABLES
  rows,      \* enc_chat_messages: the row of each time, or NoRow
  total,     \* the stored statistics, by their number of votes
  page,      \* the page that each node shows
  shown,     \* the messages on the chat page
  dash,      \* the state of the dashboard
  calls,     \* the calls of the API that are under way
  accepted,  \* history: the messages whose sender is told that all is well
  written,   \* history: the messages whose INSERT wrote a row
  writes, events

widgets == <<shown, dash>>
history == <<accepted, written>>
vars == <<page, rows, total, widgets, calls, history, writes, events>>

-----------------------------------------------------------------------------
(* Messages *)

NoRow == [sender |-> "", text |-> "", key |-> ""]
Idle == [do |-> "nothing"]
Blank == <<>>
Pages == {"chat", "dashboard", "other"}

Message(at, sender, text) == [at |-> at, sender |-> sender, text |-> text]

\* The cipher is made from the password and authenticates what it decrypts.
Decrypts(row, key) == row.key = key

\* Two entries stand for a row that was encrypted with another password: the
\* error text, and the empty message, whose time is before all others.
Entries(row, at, key) ==
  IF Decrypts(row, key) THEN {Message(at, row.sender, row.text)}
  ELSE {Message(at, "", "Message failed to decrypt"), Message(0, "", "")}

Stored == {t \in Times : rows[t] # NoRow}

\* chatMessageSlice.Less
Less(m1, m2) == m1.at < m2.at

\* sort.Sort: no two messages that are sorted have the same time.
Sorted(messages) ==
  LET n == Cardinality(messages)
  IN CHOOSE f \in [1..n -> messages] : \A i, j \in 1..n : i < j => Less(f[i], f[j])

\* Mutant: the first row that does not decrypt ends the loop.
ReadChatStops(key) ==
  LET broken == {t \in Stored : rows[t].key # key}
      before == {t \in Stored : \A b \in broken : t < b}
  IN Sorted({Message(t, rows[t].sender, rows[t].text) : t \in before})

\* ReadChat: the readable messages by their time, after one empty message for
\* each row that does not decrypt.
ReadChat(key) ==
  LET entries(t) == Entries(rows[t], t, key)
      broken == {t \in Stored : ~Decrypts(rows[t], key)}
  IN [i \in 1..Cardinality(broken) |-> Message(0, "", "")]
       \o Sorted({m \in UNION {entries(t) : t \in Stored} : m.at # 0})

\* ReadChatHistory and the page, which shows the newest message first;
\* GetElectionStats and the dashboard.
Answer(n) == IF page[n] = "chat" THEN Reverse(ReadChat(password[n])) ELSE total

-----------------------------------------------------------------------------
(* The pages *)

NoStats == -1

\* A new State object: it is to be built, and a FutureBuilder starts to wait.
NewDashboard == [stats |-> NoStats, view |-> "spinner", dirty |-> TRUE]

\* The call of a page of n is under way: to the API, or back with its answer.
Polling(c, n) == calls[c] # Idle /\ calls[c].node = n /\ calls[c].do \in {"read", "arrive"}

ReadCall(n, build) == [do |-> "read", node |-> n, build |-> build]

\* Mutant: the timer fires once.
PollOnce(n) ==
  \E c \in Calls :
    /\ page[n] # "other" /\ shown[n] = Blank /\ dash[n].stats = NoStats
    /\ calls[c] = Idle
    /\ calls' = [calls EXCEPT ![c] = ReadCall(n, FALSE)]
    /\ UNCHANGED <<page, rows, total, widgets, history, writes, events>>

\* updateMessages, updateStats: the timer of the page.
Poll(n) ==
  \E c \in Calls :
    /\ page[n] # "other"
    /\ calls[c] = Idle
    /\ calls' = [calls EXCEPT ![c] = ReadCall(n, FALSE)]
    /\ UNCHANGED <<page, rows, total, widgets, history, writes, events>>

\* build: the FutureBuilder drops its earlier future for a new updateStats(),
\* and shows an earlier error until that ends.
Build(n) ==
  \E c \in Calls :
    /\ page[n] = "dashboard" /\ dash[n].dirty
    /\ calls[c] = Idle
    /\ calls' = [d \in Calls |-> IF d = c THEN ReadCall(n, TRUE)
                                 ELSE IF Polling(d, n) THEN [calls[d] EXCEPT !.build = FALSE]
                                 ELSE calls[d]]
    /\ dash' = [dash EXCEPT ![n] = [stats |-> dash[n].stats, dirty |-> FALSE,
                                    view |-> IF dash[n].view = "error" THEN "error" ELSE "spinner"]]
    /\ UNCHANGED <<page, rows, total, shown, history, writes, events>>

\* sendChatMessage: two calls, and neither is waited for.
Send(n, text) ==
  \E c, d \in Calls :
    /\ page[n] = "chat"
    /\ writes < MaxWrites
    /\ c # d /\ calls[c] = Idle /\ calls[d] = Idle
    /\ calls' = [calls EXCEPT ![c] = [do |-> "stamp", node |-> n, text |-> text],
                              ![d] = ReadCall(n, FALSE)]
    /\ writes' = writes + 1
    /\ UNCHANGED <<page, rows, total, widgets, history, events>>

\* Mutant: an answer to the old page is taken by the new one.
ShowUndisposed(n, p) ==
  /\ events < MaxEvents /\ events' = events + 1
  /\ page[n] # p
  /\ page' = [page EXCEPT ![n] = p]
  /\ shown' = [shown EXCEPT ![n] = Blank]
  /\ dash' = [dash EXCEPT ![n] = NewDashboard]
  /\ UNCHANGED <<rows, total, calls, history, writes>>

\* Another page, with a State of its own; answers to the old one find it disposed.
Show(n, p) ==
  /\ events < MaxEvents /\ events' = events + 1
  /\ page[n] # p
  /\ page' = [page EXCEPT ![n] = p]
  /\ shown' = [shown EXCEPT ![n] = Blank]
  /\ dash' = [dash EXCEPT ![n] = NewDashboard]
  /\ calls' = [c \in Calls |-> IF Polling(c, n) THEN Idle ELSE calls[c]]
  /\ UNCHANGED <<rows, total, history, writes>>

\* The messages of an answer are always another list; statistics are set when
\* they are other statistics, and the FutureBuilder shows the end of its future.
Arrive(c) ==
  LET n == calls[c].node
      answer == calls[c].answer
  IN /\ calls[c].do = "arrive"
     /\ calls' = [calls EXCEPT ![c] = Idle]
     /\ \/ /\ page[n] = "chat"
           /\ shown' = [shown EXCEPT ![n] = answer]
           /\ UNCHANGED dash
        \/ /\ page[n] = "dashboard"
           /\ dash' = [dash EXCEPT ![n] = [stats |-> answer,
                                           dirty |-> dash[n].dirty \/ dash[n].stats # answer,
                                           view |-> IF calls[c].build THEN "stats" ELSE dash[n].view]]
           /\ UNCHANGED shown
     /\ UNCHANGED <<page, rows, total, history, writes, events>>

-----------------------------------------------------------------------------
(* The API *)

Answered(c, answer) ==
  [do |-> "arrive", node |-> calls[c].node, build |-> calls[c].build, answer |-> answer]

Read(c) ==
  /\ calls[c].do = "read"
  /\ calls' = [calls EXCEPT ![c] = Answered(c, Answer(calls[c].node))]
  /\ UNCHANGED <<page, rows, total, widgets, history, writes, events>>

\* A SELECT fails: the chat answers with an error, which leaves the page as it
\* is; the statistics are all zero.
ReadFails(c) ==
  /\ calls[c].do = "read"
  /\ events < MaxEvents /\ events' = events + 1
  /\ calls' = [calls EXCEPT ![c] =
       IF page[calls[c].node] = "chat" THEN Idle ELSE Answered(c, 0)]
  /\ UNCHANGED <<page, rows, total, widgets, history, writes>>

\* time.Now() of the sender's API process; the clocks of two nodes differ.
Stamp(c) ==
  \E t \in Times :
    /\ calls[c].do = "stamp"
    /\ calls' = [calls EXCEPT ![c] = [do |-> "insert", node |-> calls[c].node, text |-> calls[c].text, at |-> t]]
    /\ UNCHANGED <<page, rows, total, widgets, history, writes, events>>

Row(c) == [sender |-> calls[c].node, text |-> calls[c].text, key |-> password[calls[c].node]]

\* db.Create: the INSERT writes the row, or fails: for a row with the same time,
\* or because the database cannot be reached.  The sender is told OK.
Insert(c) ==
  LET at == calls[c].at
      message == [at |-> at, row |-> Row(c)]
  IN /\ calls[c].do = "insert"
     /\ \/ /\ rows[at] = NoRow
           /\ rows' = [rows EXCEPT ![at] = Row(c)]
           /\ written' = written \cup {message}
        \/ UNCHANGED <<rows, written>>
     /\ accepted' = accepted \cup {message}
     /\ calls' = [calls EXCEPT ![c] = Idle]
     /\ UNCHANGED <<page, total, widgets, writes, events>>

\* The API process of a node ends and its calls fail.  The call of a build leaves
\* an error on the dashboard; a timer's error is nobody's, and the page goes on.
Crash(n) ==
  LET ends(c) == calls[c] # Idle /\ calls[c].node = n /\ calls[c].do # "arrive"
  IN /\ events < MaxEvents /\ events' = events + 1
     /\ calls' = [c \in Calls |-> IF ends(c) THEN Idle ELSE calls[c]]
     /\ dash' = IF \E c \in Calls : ends(c) /\ calls[c].do = "read" /\ calls[c].build
                THEN [dash EXCEPT ![n].view = "error"] ELSE dash
     /\ UNCHANGED <<page, rows, total, shown, history, writes>>

\* What module VoterRegistry does to the row of statistics: a stale copy that
\* is saved may make the number smaller.
Count ==
  /\ writes < MaxWrites /\ writes' = writes + 1
  /\ total' \in 1..(total + 1)
  /\ UNCHANGED <<page, rows, widgets, calls, history, events>>

-----------------------------------------------------------------------------
(* Specification *)

Init ==
  /\ rows = [t \in Times |-> NoRow]
  /\ total = 0
  /\ page \in [Nodes -> Pages]
  /\ shown = [n \in Nodes |-> Blank]
  /\ dash = [n \in Nodes |-> NewDashboard]
  /\ calls = [c \in Calls |-> Idle]
  /\ accepted = {}
  /\ written = {}
  /\ writes = 0
  /\ events = 0

Serve(c) == Read(c) \/ Stamp(c) \/ Insert(c) \/ Arrive(c)

Next ==
  \/ \E n \in Nodes :
       \/ Poll(n) \/ Build(n)
       \/ \E text \in Texts : Send(n, text)
       \/ \E p \in Pages : Show(n, p)
       \/ Crash(n)
  \/ \E c \in Calls : Serve(c) \/ ReadFails(c)
  \/ Count

Spec == Init /\ [][Next]_vars

\* The timer of a page goes on, a page that is to be built is built, and every
\* call is answered in the end.
FairSpec ==
  /\ Spec
  /\ \A n \in Nodes : SF_vars(Poll(n)) /\ SF_vars(Build(n))
  /\ \A c \in Calls : WF_vars(Serve(c))

-----------------------------------------------------------------------------
(* Properties *)

Rows == [sender : Nodes, text : Texts, key : Passwords] \cup {NoRow}

Dashboards == [stats : 0..MaxWrites \cup {NoStats}, view : {"spinner", "stats", "error"}, dirty : BOOLEAN]

TypeOK ==
  /\ rows \in [Times -> Rows]
  /\ page \in [Nodes -> Pages]
  /\ dash \in [Nodes -> Dashboards]
  /\ \A n \in Nodes : page[n] # "chat" => shown[n] = Blank
  /\ \A n \in Nodes : page[n] # "dashboard" => dash[n] = NewDashboard
  /\ \A c \in Calls : calls[c] # Idle =>
       /\ calls[c].node \in Nodes
       /\ calls[c].do \in {"read", "arrive"} => page[calls[c].node] # "other"
       /\ calls[c].do = "insert" => calls[c].at \in Times
  /\ total \in 0..writes /\ writes \in 0..MaxWrites /\ events \in 0..MaxEvents

\* A message that was written is read by every node with the sender's password,
\* whatever other rows do not decrypt there, and whatever is sent later with the
\* same time (ReadChat, decryptChatMessage).
WrittenIsReadable ==
  \A a \in written : \A n \in Nodes : password[n] = a.row.key =>
    Contains(ReadChat(password[n]), Message(a.at, a.row.sender, a.row.text))

\* "errors must be reliably identifiable": a message whose sender is told that
\* all is well was written (SendChatMessage).  A failed INSERT breaks it.
AcceptedIsWritten == accepted \subseteq written

\* However polls, builds and failures overtake each other, a page that stays open
\* holds in the end what is stored, and does not wait for ever (updateMessages,
\* updateStats).
PagesConverge ==
  \A n \in Nodes : <>[](/\ page[n] = "chat" => shown[n] = Answer(n)
                        /\ page[n] = "dashboard" => dash[n].stats = total /\ dash[n].view # "spinner")
=============================================================================
