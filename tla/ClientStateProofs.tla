------------------------- MODULE ClientStateProofs --------------------------
(***************************************************************************)
(* What the GUI of a node may do and has stored, for any number of calls   *)
(* of changeState that overlap and any number of buttons and restarts.     *)
(***************************************************************************)
EXTENDS ClientState, SequenceTheorems, TLAPS

-----------------------------------------------------------------------------
(* Invariants *)

KeysType == [state : CVStates \cup {"none"}, committee : BOOLEAN, boxKey : {"none", "good", "bad"},
             initialized : BOOLEAN]

FilesType == [boxFile : {"none", "good", "bad"}, committee : Setups \cup {"partial"},
              box : Setups \cup {"partial"}]

Early == {"AWAITING_SETUP", "INITIALIZING_ELECTION"}

Late == CVStates \ Early

\* What comes after a label on every stack.
Follow(label) ==
  CASE label = "restore" -> Late \cup {"INITIALIZING_ELECTION"}
    [] label = "deleteAll" -> {"readState"}
    [] label = "flag" -> {"create"}
    [] label = "self" -> {"node"}
    [] label = "node" -> {"api"}
    [] label = "api" -> {"client"}
    [] label = "client" -> {"toStarted", "write"}
    [] label = "toStarted" -> {"again"}
    [] label = "write" -> {"write", "again"}
    [] OTHER -> {"write"}

Ends == {"write", "pressed", "wipe"}

StackOK(s) ==
  /\ s # <<>> => s[Len(s)] \in Ends
  /\ \A i \in 1..(Len(s) - 1) : s[i] \notin {"pressed", "wipe"} /\ s[i + 1] \in Follow(s[i])

StacksOK == \A c \in Calls : StackOK(calls[c])

TypeInv == TypeOK /\ StacksOK

\* Call c stores the state before it ends.
Pending(c) ==
  /\ calls[c] # <<>>
  /\ Head(calls[c]) \notin {"pressed", "wipe", "deleteAll", "restore"}
  /\ Head(calls[c]) = "readState" => keys.state \in {"none", "AWAITING_SETUP"}

ShownInv ==
  state # "AWAITING_SETUP" /\ keys.state # state => \E c \in Calls : Pending(c)

AtAny(labels) == \E c \in Calls : calls[c] # <<>> /\ Head(calls[c]) \in labels

\* The program has come to the start of the API.
ApiTried == apiLoops > 0 \/ nullRead

ServicesInv ==
  state = "ELECTION_STARTED" =>
    /\ client \/ AtAny({"self", "node", "api", "client", "wipe"})
    /\ ApiTried \/ AtAny({"self", "node", "api"})
    /\ nodeLoops > 0 \/ AtAny({"self", "node"})

ServiceLabels == {"self", "node", "api", "client"}

LateLabels == ServiceLabels \cup {"toStarted", "again", "write", "pressed"}

Alone(c) == \A d \in Calls \ {c} : calls[d] = <<>>

EarlyStacks ==
  {<<>>, <<"write">>, <<"readState", "write">>, <<"load", "write">>, <<"boxKey", "write">>}
    \cup {<<"restore", new, "write">> : new \in Late}

NextIn(c, labels) == calls[c] # <<>> /\ Head(calls[c]) \in labels

\* A box before its setup is there, and after.
BoxEarly ==
  /\ popup # "start"
  /\ popup = "load" => state = "AWAITING_SETUP" /\ \A c \in Calls : calls[c] = <<>>
  /\ \A c \in Calls : calls[c] \in EarlyStacks
  /\ \A c \in Calls : calls[c] # <<>> => Alone(c)
  /\ setupData # "none" <=> AtAny({"boxKey"})
  /\ state = "INITIALIZING_ELECTION" <=> AtAny({"load", "boxKey"})

LabelsIn(labels) == \A c \in Calls : Range(calls[c]) \subseteq labels

\* The calls and dialogs of a node whose setup is there.
SetUp ==
  /\ setupData # "none"
  /\ popup # "load"
  /\ LabelsIn(LateLabels)

BoxInv ==
  role # "committee" =>
    /\ ~keys.committee /\ keys.state # "INITIALIZING_ELECTION" /\ ~wiping
    /\ state \in Early => BoxEarly
    /\ state \in Late => SetUp

\* What a box has stored.
LoadedInv ==
  role # "committee" =>
    /\ state \in Late \/ keys.state \in Late => MayRestore
    /\ state \in Early /\ keys.state \in Late => AtAny({"readState", "restore"})
    /\ AtAny({"boxKey"}) =>
         boxData = "good" /\ files.boxFile = "good" /\ files.box \in {"own", "box"}

\* Call c still shows the election as started, whatever happens to its services.
Ahead(c) == Range(calls[c]) \cap {"toStarted", "again"} # {}

CreatorStacks ==
  {<<>>, <<"write">>, <<"readState", "write">>, <<"deleteAll", "readState", "write">>,
   <<"flag", "create", "write">>, <<"create", "write">>}
    \cup {<<"restore", new, "write">> : new \in Late}

Created == keys.committee /\ files.committee \in {"own", "box"}

\* The committee before its election is created, and while a setup is deleted.
CreatorEarly ==
  /\ popup = "none" /\ ~client
  /\ \A c \in Calls : calls[c] \in CreatorStacks
  /\ \A c \in Calls : calls[c] # <<>> => Alone(c)
  /\ state = "INITIALIZING_ELECTION" <=> AtAny({"flag", "create"})
  /\ AtAny({"flag", "create"}) => setupData # "none" /\ ~wiping
  /\ AtAny({"create"}) => keys.committee
  /\ AtAny({"restore"}) => keys.state \in Late
  /\ keys.state \in Late =>
       AtAny({"deleteAll"}) \/ (AtAny({"readState", "restore"}) /\ ~wiping /\ Created)

\* After that: the setup is deleted only when the election has started.
CreatorLate ==
  /\ ~wiping /\ Created
  /\ \/ /\ SetUp
        /\ (client \/ AtAny(ServiceLabels)) /\ state # "ELECTION_STARTED" =>
             \E c \in Calls : Ahead(c)
     \/ /\ state = "ELECTION_STARTED" /\ popup = "none" /\ ~client
        /\ \E c \in Calls : calls[c] = <<"wipe">> /\ Alone(c)

CreatorInv ==
  role = "committee" =>
    /\ keys.state # "INITIALIZING_ELECTION"
    /\ state \in Early => CreatorEarly
    /\ state \in Late => CreatorLate

-----------------------------------------------------------------------------
(* Stacks *)

(* What changeState does before its first await. *)
LEMMA EnteredIs ==
  ASSUME NEW new \in CVStates, NEW data \in Setups
  PROVE  LET e == Entered(new, data)
         IN /\ new = "AWAITING_SETUP" =>
                 e.state = new /\ e.todo = <<"readState", "write">>
            /\ new = "INITIALIZING_ELECTION" /\ data # "none" =>
                 e.state = new /\ e.todo = <<"flag", "create", "write">>
            /\ new = "INITIALIZING_ELECTION" /\ data = "none" =>
                 e.state = new /\ e.todo = <<"load", "write">>
            /\ new = "READY_TO_START_ELECTION" => e.state = new /\ e.todo = <<"write">>
            /\ new = "STARTING_ELECTION" /\ data # "none" =>
                 e.state = new /\ e.todo = StartServices \o <<"toStarted", "again", "write">>
            /\ new = "STARTING_ELECTION" /\ data = "none" =>
                 e.state = "AWAITING_SETUP" /\ e.todo = <<"readState", "write", "write">>
            /\ new = "ELECTION_STARTED" /\ data # "none" =>
                 e.state = new /\ e.todo = StartServices \o <<"write">>
            /\ new = "ELECTION_STARTED" /\ data = "none" =>
                 e.state = "READY_TO_START_ELECTION" /\ e.todo = <<"write", "write">>
<1>1. CASE new = "AWAITING_SETUP"
  BY <1>1 DEF Entered
<1>2. CASE new = "INITIALIZING_ELECTION"
  BY <1>2 DEF Entered
<1>3. CASE new = "READY_TO_START_ELECTION"
  BY <1>3 DEF Entered
<1>4. CASE new = "STARTING_ELECTION"
  BY <1>4 DEF Entered
<1>5. CASE new = "ELECTION_STARTED"
  BY <1>5 DEF Entered
<1> QED BY <1>1, <1>2, <1>3, <1>4, <1>5 DEF CVStates

(* Stacks of one, two or three labels. *)
LEMMA FewOK ==
  ASSUME NEW a \in Labels, NEW b \in Labels, NEW c \in Labels,
         a \notin {"pressed", "wipe"}, b \notin {"pressed", "wipe"}
  PROVE  /\ a \in Ends => StackOK(<<a>>)
         /\ b \in Follow(a) /\ b \in Ends => StackOK(<<a, b>>)
         /\ b \in Follow(a) /\ c \in Follow(b) /\ c \in Ends => StackOK(<<a, b, c>>)
         /\ <<a>> \in Seq(Labels) /\ Len(<<a>>) = 1 /\ <<a>>[1] = a
         /\ <<a, b>> \in Seq(Labels) /\ Len(<<a, b>>) = 2 /\ <<a, b>>[1] = a /\ <<a, b>>[2] = b
         /\ <<a, b, c>> \in Seq(Labels) /\ Len(<<a, b, c>>) = 3 /\ <<a, b, c>>[1] = a
         /\ <<a, b, c>>[2] = b /\ <<a, b, c>>[3] = c
<1>1. /\ <<a>> \in Seq(Labels) /\ Len(<<a>>) = 1 /\ <<a>>[1] = a
      /\ <<a, b>> \in Seq(Labels) /\ Len(<<a, b>>) = 2 /\ <<a, b>>[1] = a /\ <<a, b>>[2] = b
      /\ <<a, b, c>> \in Seq(Labels) /\ Len(<<a, b, c>>) = 3 /\ <<a, b, c>>[1] = a
      /\ <<a, b, c>>[2] = b /\ <<a, b, c>>[3] = c
  OBVIOUS
<1> HIDE DEF Labels
<1>2. /\ \A i \in 1..(1 - 1) : FALSE
      /\ \A i \in 1..(2 - 1) : i = 1
      /\ \A i \in 1..(3 - 1) : i = 1 \/ i = 2
  OBVIOUS
<1>3. a \in Ends => StackOK(<<a>>)
  BY <1>1, <1>2 DEF StackOK
<1>4. b \in Follow(a) /\ b \in Ends => StackOK(<<a, b>>)
  BY <1>1, <1>2 DEF StackOK
<1>5. b \in Follow(a) /\ c \in Follow(b) /\ c \in Ends => StackOK(<<a, b, c>>)
  BY <1>1, <1>2 DEF StackOK
<1> QED BY <1>1, <1>3, <1>4, <1>5

(* The services are started in their order, before anything else. *)
LEMMA ServicesOK ==
  ASSUME NEW t \in Seq(Labels), StackOK(t), t # <<>>, t[1] \in {"toStarted", "write"}
  PROVE  /\ StartServices \o t \in Seq(Labels) /\ StackOK(StartServices \o t)
         /\ Len(StartServices \o t) = Len(t) + 4
         /\ StartServices \o t # <<>>
         /\ (StartServices \o t)[Len(StartServices \o t)] = t[Len(t)]
         /\ (StartServices \o t)[1] = "self"
         /\ \A i \in 1..4 : (StartServices \o t)[i] \in ServiceLabels
         /\ \A i \in 1..Len(t) : (StartServices \o t)[i + 4] = t[i]
<1> DEFINE s == StartServices
<1>1. /\ s \in Seq(Labels) /\ Len(s) = 4
      /\ s[1] = "self" /\ s[2] = "node" /\ s[3] = "api" /\ s[4] = "client"
  BY DEF StartServices, Labels
<1>2. Len(t) \in Nat \ {0}
  BY EmptySeq
<1> HIDE DEF s
<1>3. /\ s \o t \in Seq(Labels) /\ Len(s \o t) = Len(t) + 4
      /\ \A i \in 1..Len(s \o t) : (s \o t)[i] = IF i <= 4 THEN s[i] ELSE t[i - 4]
  <2>1. /\ s \o t \in Seq(Labels) /\ Len(s \o t) = Len(s) + Len(t)
        /\ \A i \in 1..(Len(s) + Len(t)) : (s \o t)[i] = IF i <= Len(s) THEN s[i] ELSE t[i - Len(s)]
    BY <1>1, ConcatProperties
  <2> QED BY <1>1, <1>2, <2>1
<1>4. /\ (s \o t)[1] = "self" /\ (s \o t)[2] = "node" /\ (s \o t)[3] = "api" /\ (s \o t)[4] = "client"
      /\ \A i \in 1..Len(t) : (s \o t)[i + 4] = t[i]
  BY <1>1, <1>2, <1>3
<1>5. \A i \in 1..4 : i = 1 \/ i = 2 \/ i = 3 \/ i = 4
  OBVIOUS
<1>6. (s \o t)[Len(s \o t)] = t[Len(t)] /\ (s \o t)[Len(s \o t)] \in Ends
  BY <1>2, <1>3, <1>4 DEF StackOK
<1>7. ASSUME NEW i \in 1..(Len(s \o t) - 1)
      PROVE  (s \o t)[i] \notin {"pressed", "wipe"} /\ (s \o t)[i + 1] \in Follow((s \o t)[i])
  <2> USE <1>2, <1>4
  <2>1. CASE i = 1
    BY <2>1 DEF Follow
  <2>2. CASE i = 2
    BY <2>2 DEF Follow
  <2>4. CASE i = 3
    BY <2>4 DEF Follow
  <2>5. CASE i = 4
    <3>1. (s \o t)[i + 1] = t[1]
      BY <2>5
    <3> QED BY <2>5, <3>1 DEF Follow
  <2>3. CASE i > 4
    <3> DEFINE j == i - 4
    <3>1. j \in 1..(Len(t) - 1) /\ (s \o t)[i] = t[j] /\ (s \o t)[i + 1] = t[j + 1]
      BY <1>2, <1>3, <1>4, <2>3
    <3> HIDE DEF j
    <3> QED BY <3>1 DEF StackOK
  <2>6. i \in 1..4 \/ i > 4
    BY <1>3
  <2> QED BY <1>5, <2>1, <2>2, <2>3, <2>4, <2>5, <2>6
<1>8. StackOK(s \o t)
  BY <1>6, <1>7 DEF StackOK
<1>9. \A i \in 1..4 : (s \o t)[i] \in ServiceLabels
  BY <1>4, <1>5 DEF ServiceLabels
<1>10. s \o t # <<>>
  BY <1>2, <1>3
<1> QED BY <1>3, <1>4, <1>6, <1>8, <1>9, <1>10 DEF s

(* changeState keeps the order of labels, and ends with storing the state. *)
LEMMA EnteredOK ==
  ASSUME NEW new \in CVStates, NEW data \in Setups
  PROVE  /\ Entered(new, data).state \in CVStates
         /\ Entered(new, data).todo \in Seq(Labels)
         /\ Entered(new, data).todo # <<>>
         /\ StackOK(Entered(new, data).todo)
         /\ Entered(new, data).todo[Len(Entered(new, data).todo)] = "write"
<1> DEFINE Good(s) == s \in Seq(Labels) /\ s # <<>> /\ StackOK(s) /\ s[Len(s)] = "write"
<1>1. /\ {"readState", "write", "load", "flag", "create", "again", "toStarted"} \subseteq Labels
      /\ "write" \in Ends
      /\ "write" \in Follow("readState") /\ "write" \in Follow("load") /\ "create" \in Follow("flag")
      /\ "write" \in Follow("create") /\ "write" \in Follow("write")
      /\ "again" \in Follow("toStarted") /\ "write" \in Follow("again")
  BY DEF Labels, Ends, Follow
<1>2. Good(<<"write">>)
  BY <1>1, FewOK
<1>3. Good(<<"readState", "write">>) /\ Good(<<"load", "write">>) /\ Good(<<"write", "write">>)
  BY <1>1, FewOK
<1>4. Good(<<"flag", "create", "write">>)
  BY <1>1, FewOK
<1>5. Good(<<"readState", "write", "write">>)
  BY <1>1, FewOK
<1>6. Good(<<"toStarted", "again", "write">>)
  BY <1>1, FewOK
<1>7. Good(StartServices \o <<"write">>)
  <2>1. Len(<<"write">>) = 1 /\ <<"write">>[1] = "write"
    OBVIOUS
  <2> QED BY <1>2, <2>1, ServicesOK
<1>8. Good(StartServices \o <<"toStarted", "again", "write">>)
  <2>1. /\ Len(<<"toStarted", "again", "write">>) = 3 
        /\ <<"toStarted", "again", "write">>[1] = "toStarted"
        /\ <<"toStarted", "again", "write">>[3] = "write"
    OBVIOUS
  <2> QED BY <1>6, <2>1, ServicesOK
<1> HIDE DEF Good
<1>9. Good(Entered(new, data).todo) /\ Entered(new, data).state \in CVStates
  <2>1. CASE new = "AWAITING_SETUP"
    BY <1>3, <2>1, EnteredIs
  <2>2. CASE new = "INITIALIZING_ELECTION" /\ data # "none"
    BY <1>4, <2>2, EnteredIs
  <2>3. CASE new = "INITIALIZING_ELECTION" /\ data = "none"
    BY <1>3, <2>3, EnteredIs
  <2>4. CASE new = "READY_TO_START_ELECTION"
    BY <1>2, <2>4, EnteredIs
  <2>5. CASE new = "STARTING_ELECTION" /\ data # "none"
    BY <1>8, <2>5, EnteredIs
  <2>6. CASE new = "STARTING_ELECTION" /\ data = "none"
    BY <1>5, <2>6, EnteredIs DEF CVStates
  <2>7. CASE new = "ELECTION_STARTED" /\ data # "none"
    BY <1>7, <2>7, EnteredIs
  <2>8. CASE new = "ELECTION_STARTED" /\ data = "none"
    BY <1>3, <2>8, EnteredIs DEF CVStates
  <2> QED BY <2>1, <2>2, <2>3, <2>4, <2>5, <2>6, <2>7, <2>8 DEF CVStates
<1> QED BY <1>9 DEF Good

(* The first service finds the node itself. *)
LEMMA FirstService ==
  /\ (StartServices \o <<"toStarted", "again", "write">>)[1] = "self"
  /\ (StartServices \o <<"write">>)[1] = "self"
<1>1. /\ {"toStarted", "again", "write"} \subseteq Labels /\ "write" \in Ends
      /\ "again" \in Follow("toStarted") /\ "write" \in Follow("again")
  BY DEF Labels, Ends, Follow
<1>2. /\ <<"toStarted", "again", "write">> \in Seq(Labels)
      /\ StackOK(<<"toStarted", "again", "write">>)
  BY <1>1, FewOK
<1>3. <<"write">> \in Seq(Labels) /\ StackOK(<<"write">>)
  BY <1>1, FewOK
<1>4. /\ <<"toStarted", "again", "write">>[1] = "toStarted" /\ <<"write">>[1] = "write"
      /\ <<"toStarted", "again", "write">> # <<>> /\ <<"write">> # <<>>
  OBVIOUS
<1> QED BY <1>2, <1>3, <1>4, ServicesOK

(* A call that goes on with a caller's rest keeps the order of labels. *)
LEMMA ConcatOK ==
  ASSUME NEW s \in Seq(Labels), NEW t \in Seq(Labels), StackOK(s), StackOK(t),
         s # <<>>, s[Len(s)] = "write", t # <<>> => t[1] \in {"write", "again"}
  PROVE  /\ s \o t \in Seq(Labels) /\ StackOK(s \o t) /\ s \o t # <<>>
         /\ Len(s \o t) = Len(s) + Len(t)
         /\ \A i \in 1..Len(s \o t) : (s \o t)[i] = IF i <= Len(s) THEN s[i] ELSE t[i - Len(s)]
         /\ Head(s \o t) = s[1]
<1>1. /\ s \o t \in Seq(Labels) /\ Len(s \o t) = Len(s) + Len(t)
      /\ \A i \in 1..Len(s \o t) : (s \o t)[i] = IF i <= Len(s) THEN s[i] ELSE t[i - Len(s)]
  BY ConcatProperties
<1>2. Len(s) \in Nat \ {0} /\ Len(t) \in Nat /\ (Len(t) # 0 => t # <<>>)
  BY EmptySeq, LenProperties
<1>3. ASSUME NEW i \in 1..(Len(s \o t) - 1)
      PROVE  (s \o t)[i] \notin {"pressed", "wipe"} /\ (s \o t)[i + 1] \in Follow((s \o t)[i])
  <2>1. CASE i < Len(s)
    BY <1>1, <1>2, <2>1 DEF StackOK
  <2>3. CASE i = Len(s)
    BY <1>1, <1>2, <2>3 DEF Follow
  <2>4. CASE i > Len(s)
    <3> DEFINE j == i - Len(s)
    <3>1. j \in 1..(Len(t) - 1) /\ (s \o t)[i] = t[j] /\ (s \o t)[i + 1] = t[j + 1]
      BY <1>1, <1>2, <2>4
    <3> HIDE DEF j
    <3> QED BY <3>1 DEF StackOK
  <2> QED BY <1>2, <2>1, <2>3, <2>4
<1>4. (s \o t)[Len(s \o t)] \in Ends
  <2>1. CASE Len(t) = 0
    BY <1>1, <1>2, <2>1 DEF Ends
  <2>2. CASE Len(t) # 0
    BY <1>1, <1>2, <2>2 DEF StackOK
  <2> QED BY <2>1, <2>2
<1>5. s \o t # <<>> /\ Head(s \o t) = s[1]
  BY <1>1, <1>2
<1> QED BY <1>1, <1>3, <1>4, <1>5 DEF StackOK

(* What is left of a stack, and what comes next. *)
LEMMA TailOK ==
  ASSUME NEW s \in Seq(Labels), StackOK(s), s # <<>>
  PROVE  /\ Tail(s) \in Seq(Labels) /\ StackOK(Tail(s))
         /\ Head(s) = s[1] /\ Head(s) \in Labels
         /\ Len(Tail(s)) = Len(s) - 1 /\ Len(s) \in Nat \ {0}
         /\ \A i \in 1..Len(Tail(s)) : Tail(s)[i] = s[i + 1]
         /\ Tail(s) = <<>> => Head(s) \in Ends
         /\ Tail(s) # <<>> => /\ Head(s) \notin {"pressed", "wipe"}
                              /\ Tail(s)[1] \in Follow(Head(s)) /\ Tail(s)[1] = s[2]
                              /\ Head(Tail(s)) = Tail(s)[1]
<1>1. /\ Tail(s) \in Seq(Labels) /\ Len(Tail(s)) = Len(s) - 1 /\ Len(s) \in Nat \ {0}
      /\ \A i \in 1..Len(Tail(s)) : Tail(s)[i] = s[i + 1]
  BY HeadTailProperties, EmptySeq
<1>2. Head(s) = s[1] /\ Head(s) \in Labels
  BY <1>1, HeadTailProperties
<1>3. StackOK(Tail(s))
  BY <1>1 DEF StackOK
<1>4. Tail(s) = <<>> => Len(s) = 1
  BY <1>1, EmptySeq
<1>5. Tail(s) = <<>> => Head(s) \in Ends
  BY <1>1, <1>2, <1>4 DEF StackOK
<1>6. ASSUME Tail(s) # <<>>
      PROVE  /\ Head(s) \notin {"pressed", "wipe"}
             /\ Tail(s)[1] \in Follow(Head(s)) /\ Tail(s)[1] = s[2]
             /\ Head(Tail(s)) = Tail(s)[1]
  <2>1. Len(s) > 1
    BY <1>1, <1>6, EmptySeq
  <2>2. Tail(s)[1] = s[2] /\ Head(Tail(s)) = Tail(s)[1]
    BY <1>1, <2>1
  <2>3. Head(s) \notin {"pressed", "wipe"} /\ s[2] \in Follow(s[1])
    BY <1>1, <1>2, <2>1 DEF StackOK
  <2> QED BY <1>2, <2>2, <2>3
<1> QED BY <1>1, <1>2, <1>3, <1>5, <1>6

(* Short stacks. *)
LEMMA TailFew ==
  ASSUME NEW a \in Labels, NEW b \in Labels, NEW c \in Labels
  PROVE  /\ Tail(<<a>>) = <<>> /\ Tail(<<a, b>>) = <<b>> /\ Tail(<<a, b, c>>) = <<b, c>>
         /\ Head(<<a>>) = a /\ Head(<<a, b>>) = a /\ Head(<<a, b, c>>) = a
         /\ <<a>> # <<>> /\ <<a, b>> # <<>> /\ <<a, b, c>> # <<>>
         /\ <<a, b, c>>[2] = b
<1> HIDE DEF Labels
<1>1. /\ Head(<<a>>) = a /\ Head(<<a, b>>) = a /\ Head(<<a, b, c>>) = a
      /\ <<a>> # <<>> /\ <<a, b>> # <<>> /\ <<a, b, c>> # <<>>
      /\ <<a, b, c>>[2] = b
  OBVIOUS
<1>2. Tail(<<a>>) = <<>>
  OBVIOUS
<1>3. Tail(<<a, b>>) = <<b>>
  OBVIOUS
<1>4. Tail(<<a, b, c>>) = <<b, c>>
  OBVIOUS
<1> QED BY <1>1, <1>2, <1>3, <1>4

(* Short stacks that are put one on the other. *)
LEMMA ConcatFew ==
  ASSUME NEW a \in Labels, NEW b \in Labels, NEW c \in Labels
  PROVE  /\ <<a>> \o <<b>> = <<a, b>>
         /\ <<a>> \o <<b, c>> = <<a, b, c>>
         /\ <<a, b>> \o <<c>> = <<a, b, c>>
<1> HIDE DEF Labels
<1> DEFINE Fits(s, t, u) ==
      /\ s \in Seq(Labels) /\ t \in Seq(Labels) /\ u \in Seq(Labels)
      /\ Len(s) \in 1..2 /\ Len(t) \in 1..2 /\ Len(u) = Len(s) + Len(t)
      /\ \A i \in 1..Len(s) : u[i] = s[i]
      /\ \A i \in 1..Len(t) : u[i + Len(s)] = t[i]
    Cat(s, t, u) == s \o t = u
<1>1. ASSUME NEW s, NEW t, NEW u, Fits(s, t, u)
      PROVE  Cat(s, t, u)
  <2>1. /\ s \o t \in Seq(Labels) /\ Len(s \o t) = Len(s) + Len(t)
        /\ \A i \in 1..(Len(s) + Len(t)) : (s \o t)[i] = IF i <= Len(s) THEN s[i] ELSE t[i - Len(s)]
    BY <1>1, ConcatProperties
  <2>2. ASSUME NEW i \in 1..Len(u)
        PROVE  (s \o t)[i] = u[i]
    <3>1. CASE i <= Len(s)
      BY <1>1, <2>1, <3>1
    <3>2. CASE i > Len(s)
      <4>1. PICK j \in Int : j = i - Len(s)
        <5>1. i \in Int /\ Len(s) \in Int
          BY <1>1
        <5> QED BY <5>1
      <4>2. j \in 1..Len(t) /\ j + Len(s) = i /\ ~(i <= Len(s))
        BY <1>1, <2>1, <3>2, <4>1
      <4> QED BY <1>1, <2>1, <4>1, <4>2
    <3> QED BY <1>1, <3>1, <3>2
  <2> QED BY <1>1, <2>1, <2>2, SeqEqual
<1>2. /\ <<a>> \in Seq(Labels) /\ Len(<<a>>) = 1 /\ <<a>>[1] = a
      /\ <<b>> \in Seq(Labels) /\ Len(<<b>>) = 1 /\ <<b>>[1] = b
      /\ <<c>> \in Seq(Labels) /\ Len(<<c>>) = 1 /\ <<c>>[1] = c
      /\ <<a, b>> \in Seq(Labels) /\ Len(<<a, b>>) = 2 /\ <<a, b>>[1] = a /\ <<a, b>>[2] = b
      /\ <<b, c>> \in Seq(Labels) /\ Len(<<b, c>>) = 2 /\ <<b, c>>[1] = b /\ <<b, c>>[2] = c
      /\ <<a, b, c>> \in Seq(Labels) /\ Len(<<a, b, c>>) = 3 /\ <<a, b, c>>[1] = a
      /\ <<a, b, c>>[2] = b /\ <<a, b, c>>[3] = c
  OBVIOUS
<1>3. /\ \A i : i \in 1..1 <=> i = 1
      /\ \A i : i \in 1..2 <=> i = 1 \/ i = 2
  OBVIOUS
<1> HIDE DEF Fits, Cat
<1>4. <<a>> \o <<b>> = <<a, b>>
  <2>1. PICK s, t, u : s = <<a>> /\ t = <<b>> /\ u = <<a, b>>
    OBVIOUS
  <2>2. Fits(s, t, u)
    <3>1. /\ s \in Seq(Labels) /\ t \in Seq(Labels) /\ u \in Seq(Labels)
          /\ Len(s) = 1 /\ Len(t) = 1 /\ Len(u) = 2
      BY <1>2, <2>1
    <3>2. (\A i \in 1..1 : u[i] = s[i]) /\ (\A i \in 1..1 : u[i + 1] = t[i])
      BY <1>2, <1>3, <2>1
    <3> QED BY <3>1, <3>2 DEF Fits
  <2>3. Cat(s, t, u)
    BY <1>1, <2>2
  <2> QED BY <2>1, <2>3 DEF Cat
<1>5. <<a>> \o <<b, c>> = <<a, b, c>>
  <2>1. PICK s, t, u : s = <<a>> /\ t = <<b, c>> /\ u = <<a, b, c>>
    OBVIOUS
  <2>2. Fits(s, t, u)
    <3>1. /\ s \in Seq(Labels) /\ t \in Seq(Labels) /\ u \in Seq(Labels)
          /\ Len(s) = 1 /\ Len(t) = 2 /\ Len(u) = 3
      BY <1>2, <2>1
    <3>2. (\A i \in 1..1 : u[i] = s[i]) /\ (\A i \in 1..2 : u[i + 1] = t[i])
      BY <1>2, <1>3, <2>1
    <3> QED BY <3>1, <3>2 DEF Fits
  <2>3. Cat(s, t, u)
    BY <1>1, <2>2
  <2> QED BY <2>1, <2>3 DEF Cat
<1>6. <<a, b>> \o <<c>> = <<a, b, c>>
  <2>1. PICK s, t, u : s = <<a, b>> /\ t = <<c>> /\ u = <<a, b, c>>
    OBVIOUS
  <2>2. Fits(s, t, u)
    <3>1. /\ s \in Seq(Labels) /\ t \in Seq(Labels) /\ u \in Seq(Labels)
          /\ Len(s) = 2 /\ Len(t) = 1 /\ Len(u) = 3
      BY <1>2, <2>1
    <3>2. (\A i \in 1..2 : u[i] = s[i]) /\ (\A i \in 1..1 : u[i + 2] = t[i])
      BY <1>2, <1>3, <2>1
    <3> QED BY <3>1, <3>2 DEF Fits
  <2>3. Cat(s, t, u)
    BY <1>1, <2>2
  <2> QED BY <2>1, <2>3 DEF Cat
<1> QED BY <1>4, <1>5, <1>6

(* The labels of a stack. *)
LEMMA RangeIs ==
  ASSUME NEW s \in Seq(Labels)
  PROVE  /\ \A x : x \in Range(s) <=> \E i \in 1..Len(s) : s[i] = x
         /\ \A i \in 1..Len(s) : s[i] \in Range(s)
         /\ Range(s) \subseteq Labels
<1>1. DOMAIN s = 1..Len(s) /\ \A i \in 1..Len(s) : s[i] \in Labels
  BY LenProperties
<1> QED BY <1>1 DEF Range

(* The labels of two stacks that are put one on the other. *)
LEMMA RangeConcat ==
  ASSUME NEW s \in Seq(Labels), NEW t \in Seq(Labels)
  PROVE  Range(s \o t) = Range(s) \cup Range(t)
<1> DEFINE u == s \o t
<1>1. /\ u \in Seq(Labels) /\ Len(u) = Len(s) + Len(t) /\ Len(s) \in Nat /\ Len(t) \in Nat
      /\ \A i \in 1..Len(u) : u[i] = IF i <= Len(s) THEN s[i] ELSE t[i - Len(s)]
  BY ConcatProperties, LenProperties
<1> HIDE DEF u
<1>2. ASSUME NEW x \in Range(u)
      PROVE  x \in Range(s) \/ x \in Range(t)
  <2>1. PICK i \in 1..Len(u) : u[i] = x
    BY <1>1, RangeIs
  <2>2. CASE i <= Len(s)
    BY <1>1, <2>1, <2>2, RangeIs
  <2>3. CASE i > Len(s)
    <3>1. i - Len(s) \in 1..Len(t) /\ t[i - Len(s)] = x
      BY <1>1, <2>1, <2>3
    <3> QED BY <3>1, RangeIs
  <2> QED BY <1>1, <2>2, <2>3
<1>3. ASSUME NEW x \in Range(s)
      PROVE  x \in Range(u)
  <2>1. PICK i \in 1..Len(s) : s[i] = x
    BY RangeIs
  <2>2. i \in 1..Len(u) /\ u[i] = x
    BY <1>1, <2>1
  <2> QED BY <1>1, <2>2, RangeIs
<1>4. ASSUME NEW x \in Range(t)
      PROVE  x \in Range(u)
  <2>1. PICK i \in 1..Len(t) : t[i] = x
    BY RangeIs
  <2>2. PICK j \in Int : j = i + Len(s)
    BY <1>1
  <2>3. j \in 1..Len(u) /\ ~(j <= Len(s)) /\ j - Len(s) = i
    BY <1>1, <2>2
  <2>4. u[j] = x
    BY <1>1, <2>1, <2>3
  <2> QED BY <1>1, <2>3, <2>4, RangeIs
<1> QED BY <1>2, <1>3, <1>4 DEF u

(* The labels of a stack are its top label and those under it. *)
LEMMA RangeTail ==
  ASSUME NEW s \in Seq(Labels), s # <<>>
  PROVE  Range(s) = {Head(s)} \cup Range(Tail(s))
<1>1. /\ Tail(s) \in Seq(Labels) /\ Len(Tail(s)) = Len(s) - 1 /\ Len(s) \in Nat \ {0}
      /\ \A i \in 1..Len(Tail(s)) : Tail(s)[i] = s[i + 1]
      /\ Head(s) = s[1]
  BY HeadTailProperties, EmptySeq
<1>2. ASSUME NEW x \in Range(s)
      PROVE  x = Head(s) \/ x \in Range(Tail(s))
  <2>1. PICK i \in 1..Len(s) : s[i] = x
    BY RangeIs
  <2>2. CASE i # 1
    <3>1. i - 1 \in 1..Len(Tail(s)) /\ Tail(s)[i - 1] = s[i - 1 + 1] /\ i - 1 + 1 = i
      BY <1>1, <2>2
    <3> QED BY <1>1, <2>1, <3>1, RangeIs
  <2> QED BY <1>1, <2>1, <2>2
<1>3. Head(s) \in Range(s)
  BY <1>1, RangeIs
<1>4. ASSUME NEW x \in Range(Tail(s))
      PROVE  x \in Range(s)
  <2>1. PICK i \in 1..Len(Tail(s)) : Tail(s)[i] = x
    BY <1>1, RangeIs
  <2>2. i + 1 \in 1..Len(s) /\ s[i + 1] = x
    BY <1>1, <2>1
  <2> QED BY <2>2, RangeIs
<1> QED BY <1>2, <1>3, <1>4

(* The labels of what changeState has to do. *)
LEMMA RangeFew ==
  /\ Range(<<>>) = {}
  /\ \A a : Range(<<a>>) = {a}
  /\ \A a, b : Range(<<a, b>>) = {a, b}
  /\ \A a, b, c : Range(<<a, b, c>>) = {a, b, c}
  /\ Range(StartServices) = ServiceLabels
<1>1. \A i : i \in 1..1 <=> i = 1
  OBVIOUS
<1>2. \A i : i \in 1..2 <=> i = 1 \/ i = 2
  OBVIOUS
<1>3. \A i : i \in 1..3 <=> i = 1 \/ i = 2 \/ i = 3
  OBVIOUS
<1>4. \A i : i \in 1..4 <=> i = 1 \/ i = 2 \/ i = 3 \/ i = 4
  OBVIOUS
<1>5. Range(<<>>) = {}
  BY DEF Range
<1>6. ASSUME NEW a PROVE Range(<<a>>) = {a}
  BY <1>1 DEF Range
<1>7. ASSUME NEW a, NEW b PROVE Range(<<a, b>>) = {a, b}
  BY <1>2 DEF Range
<1>8. ASSUME NEW a, NEW b, NEW c PROVE Range(<<a, b, c>>) = {a, b, c}
  BY <1>3 DEF Range
<1>9. Range(StartServices) = ServiceLabels
  BY <1>4 DEF Range, StartServices, ServiceLabels
<1> QED BY <1>5, <1>6, <1>7, <1>8, <1>9

(* The rest of a stack from its i-th label on. *)
LEMMA SuffixOK ==
  ASSUME NEW s \in Seq(Labels), StackOK(s), NEW i \in 1..Len(s)
  PROVE  LET t == SubSeq(s, i, Len(s))
         IN /\ t \in Seq(Labels) /\ StackOK(t) /\ t # <<>> /\ Len(t) = Len(s) - i + 1
            /\ Head(t) = s[i] /\ t[1] = s[i]
            /\ \A k \in 1..Len(t) : t[k] = s[k + i - 1]
<1> DEFINE t == SubSeq(s, i, Len(s))
<1>1. Len(s) \in Nat /\ \A k \in 1..Len(s) : s[k] \in Labels
  BY LenProperties, ElementOfSeq
<1>2. \A k \in i..Len(s) : s[k] \in Labels
  BY <1>1
<1>3. t \in Seq(Labels) /\ Len(t) = Len(s) - i + 1 /\ \A k \in 1..Len(t) : t[k] = s[i + k - 1]
  BY <1>1, <1>2, SubSeqProperties
<1> HIDE DEF t
<1>4. t # <<>> /\ Len(t) \in Nat \ {0} /\ t[1] = s[i] /\ Head(t) = t[1]
  BY <1>1, <1>3
<1>5. t[Len(t)] \in Ends
  BY <1>1, <1>3 DEF StackOK
<1>6. ASSUME NEW k \in 1..(Len(t) - 1)
      PROVE  t[k] \notin {"pressed", "wipe"} /\ t[k + 1] \in Follow(t[k])
  <2> DEFINE j == i + k - 1
  <2>1. j \in 1..(Len(s) - 1) /\ t[k] = s[j] /\ t[k + 1] = s[j + 1]
    BY <1>1, <1>3
  <2> HIDE DEF j
  <2> QED BY <2>1 DEF StackOK
<1>7. StackOK(t)
  BY <1>5, <1>6 DEF StackOK
<1>8. \A k \in 1..Len(t) : t[k] = s[k + i - 1]
  BY <1>1, <1>3
<1> QED BY <1>3, <1>4, <1>7, <1>8 DEF t

(* The first label after those of the services. *)
LEMMA AfterServicesIs ==
  ASSUME NEW c \in Calls, NEW i \in 1..Len(calls[c]), Len(calls[c]) \in Nat,
         calls[c][i] \notin ServiceLabels, \A j \in 1..(i - 1) : calls[c][j] \in ServiceLabels
  PROVE  AfterServices(c) = SubSeq(calls[c], i, Len(calls[c]))
<1> DEFINE I == {j \in 1..Len(calls[c]) : calls[c][j] \notin Range(StartServices)}
<1>1. Range(StartServices) = ServiceLabels
  BY RangeFew
<1>2. i \in I /\ \A j \in I : i <= j
  BY <1>1
<1>3. \A x \in I : (\A y \in I : x <= y) => x = i
  BY <1>2
<1> HIDE DEF I
<1>4. Min(I) = i
  BY <1>2, <1>3 DEF Min
<1>5. SelectInSeq(calls[c], LAMBDA label : label \notin Range(StartServices)) = i
  BY <1>2, <1>4 DEF SelectInSeq, I
<1> QED BY <1>5 DEF AfterServices

(* Labels in front of a stack. *)
LEMMA PushOne ==
  ASSUME NEW a \in Labels, NEW t \in Seq(Labels), StackOK(t), t # <<>>,
         a \notin {"pressed", "wipe"}, t[1] \in Follow(a)
  PROVE  /\ <<a>> \o t \in Seq(Labels) /\ StackOK(<<a>> \o t)
         /\ <<a>> \o t # <<>> /\ Head(<<a>> \o t) = a
         /\ Len(<<a>> \o t) = Len(t) + 1 /\ (<<a>> \o t)[1] = a
         /\ \A i \in 1..Len(t) : (<<a>> \o t)[i + 1] = t[i]
<1> DEFINE s == <<a>>
<1>1. s \in Seq(Labels) /\ Len(s) = 1 /\ s[1] = a
  OBVIOUS
<1>2. Len(t) \in Nat \ {0}
  BY EmptySeq
<1> HIDE DEF s
<1>3. /\ s \o t \in Seq(Labels) /\ Len(s \o t) = Len(s) + Len(t)
      /\ \A i \in 1..(Len(s) + Len(t)) : (s \o t)[i] = IF i <= Len(s) THEN s[i] ELSE t[i - Len(s)]
  BY <1>1, ConcatProperties
<1>4. /\ Len(s \o t) = Len(t) + 1 /\ (s \o t)[1] = a
      /\ \A i \in 1..Len(t) : (s \o t)[i + 1] = t[i]
      /\ s \o t # <<>> /\ Head(s \o t) = a
  BY <1>1, <1>2, <1>3
<1>5. (s \o t)[Len(s \o t)] \in Ends
  BY <1>2, <1>4 DEF StackOK
<1>6. ASSUME NEW i \in 1..(Len(s \o t) - 1)
      PROVE  (s \o t)[i] \notin {"pressed", "wipe"} /\ (s \o t)[i + 1] \in Follow((s \o t)[i])
  <2>1. CASE i = 1
    BY <1>2, <1>4, <2>1
  <2>2. CASE i # 1
    <3> DEFINE j == i - 1
    <3>1. j \in 1..(Len(t) - 1) /\ (s \o t)[i] = t[j] /\ (s \o t)[i + 1] = t[j + 1]
      BY <1>2, <1>4, <2>2
    <3> HIDE DEF j
    <3> QED BY <3>1 DEF StackOK
  <2> QED BY <2>1, <2>2
<1>7. StackOK(s \o t)
  BY <1>5, <1>6 DEF StackOK
<1> QED BY <1>3, <1>4, <1>7 DEF s

(* A stack on which two labels are put. *)
LEMMA PushTwo ==
  ASSUME NEW a \in Labels, NEW b \in Labels, NEW t \in Seq(Labels), StackOK(t), t # <<>>,
         a \notin {"pressed", "wipe"}, b \notin {"pressed", "wipe"}, b \in Follow(a), t[1] \in Follow(b)
  PROVE  /\ <<a, b>> \o t \in Seq(Labels) /\ StackOK(<<a, b>> \o t)
         /\ <<a, b>> \o t # <<>> /\ Head(<<a, b>> \o t) = a
         /\ Len(<<a, b>> \o t) = Len(t) + 2
         /\ (<<a, b>> \o t)[1] = a /\ (<<a, b>> \o t)[2] = b
         /\ \A i \in 1..Len(t) : (<<a, b>> \o t)[i + 2] = t[i]
<1> DEFINE s == <<a, b>>
<1>1. s \in Seq(Labels) /\ Len(s) = 2 /\ s[1] = a /\ s[2] = b
  OBVIOUS
<1>2. Len(t) \in Nat \ {0}
  BY EmptySeq
<1> HIDE DEF s
<1>3. /\ s \o t \in Seq(Labels) /\ Len(s \o t) = Len(s) + Len(t)
      /\ \A i \in 1..(Len(s) + Len(t)) : (s \o t)[i] = IF i <= Len(s) THEN s[i] ELSE t[i - Len(s)]
  BY <1>1, ConcatProperties
<1>4. /\ Len(s \o t) = Len(t) + 2 /\ (s \o t)[1] = a /\ (s \o t)[2] = b
      /\ \A i \in 1..Len(t) : (s \o t)[i + 2] = t[i]
      /\ s \o t # <<>> /\ Head(s \o t) = a
  BY <1>1, <1>2, <1>3
<1>5. (s \o t)[Len(s \o t)] \in Ends
  BY <1>2, <1>4 DEF StackOK
<1>6. ASSUME NEW i \in 1..(Len(s \o t) - 1)
      PROVE  (s \o t)[i] \notin {"pressed", "wipe"} /\ (s \o t)[i + 1] \in Follow((s \o t)[i])
  <2>1. CASE i = 1
    BY <1>2, <1>4, <2>1
  <2>2. CASE i = 2
    <3>1. (s \o t)[i + 1] = t[1]
      BY <1>2, <1>4, <2>2
    <3> QED BY <1>4, <2>2, <3>1
  <2>3. CASE i > 2
    <3> DEFINE j == i - 2
    <3>1. j \in 1..(Len(t) - 1) /\ (s \o t)[i] = t[j] /\ (s \o t)[i + 1] = t[j + 1]
      BY <1>2, <1>4, <2>3
    <3> HIDE DEF j
    <3> QED BY <3>1 DEF StackOK
  <2> QED BY <2>1, <2>2, <2>3
<1>7. StackOK(s \o t)
  BY <1>5, <1>6 DEF StackOK
<1> QED BY <1>3, <1>4, <1>7 DEF s

-----------------------------------------------------------------------------
(* Steps of a call *)

(* One call goes on, the others wait. *)
LEMMA OneMoves ==
  ASSUME TypeInv, NEW c \in Calls, NEW t \in Seq(Labels), StackOK(t),
         calls' = [calls EXCEPT ![c] = t]
  PROVE  /\ calls' \in [Calls -> Seq(Labels)] /\ StacksOK'
         /\ calls'[c] = t /\ \A d \in Calls \ {c} : calls'[d] = calls[d]
<1>1. calls \in [Calls -> Seq(Labels)] /\ \A d \in Calls : StackOK(calls[d])
  BY DEF TypeInv, TypeOK, StacksOK
<1>2. calls' \in [Calls -> Seq(Labels)] /\ calls'[c] = t /\ \A d \in Calls \ {c} : calls'[d] = calls[d]
  BY <1>1
<1>3. \A d \in Calls : StackOK(calls'[d])
  BY <1>1, <1>2 DEF StackOK
<1> QED BY <1>2, <1>3 DEF StacksOK, StackOK

(* A label is done. *)
LEMMA DoneOK ==
  ASSUME TypeInv, NEW c \in Calls, calls[c] # <<>>, Done(c)
  PROVE  /\ calls' \in [Calls -> Seq(Labels)] /\ StacksOK'
         /\ calls'[c] = Tail(calls[c]) /\ \A d \in Calls \ {c} : calls'[d] = calls[d]
         /\ Range(calls[c]) = {Head(calls[c])} \cup Range(calls'[c])
         /\ calls'[c] = <<>> => Head(calls[c]) \in Ends
         /\ calls'[c] # <<>> => Head(calls'[c]) \in Follow(Head(calls[c]))
<1>1. calls[c] \in Seq(Labels) /\ StackOK(calls[c])
  BY DEF TypeInv, TypeOK, StacksOK
<1>2. /\ Tail(calls[c]) \in Seq(Labels) /\ StackOK(Tail(calls[c]))
      /\ Tail(calls[c]) = <<>> => Head(calls[c]) \in Ends
      /\ Tail(calls[c]) # <<>> => Head(Tail(calls[c])) \in Follow(Head(calls[c]))
      /\ Range(calls[c]) = {Head(calls[c])} \cup Range(Tail(calls[c]))
  BY <1>1, TailOK, RangeTail
<1> QED BY <1>2, OneMoves DEF Done, Rest

(* A call that throws ends. *)
LEMMA ThrowOK ==
  ASSUME TypeInv, NEW c \in Calls, Throw(c)
  PROVE  /\ calls' \in [Calls -> Seq(Labels)] /\ StacksOK'
         /\ calls'[c] = <<>> /\ \A d \in Calls \ {c} : calls'[d] = calls[d]
<1>1. <<>> \in Seq(Labels) /\ StackOK(<<>>)
  BY DEF StackOK
<1> QED BY <1>1, OneMoves DEF Throw

\* Stack u has the labels of s and those of t.
Joins(u, s, t) == Range(u) = Range(s) \cup Range(t)

(* changeState, called by code that goes on with rest. *)
LEMMA ChangeOK ==
  ASSUME TypeInv, NEW c \in Calls, NEW new \in CVStates, NEW data \in Setups,
         NEW rest \in Seq(Labels), StackOK(rest), rest # <<>> => rest[1] \in {"write", "again"},
         ChangeState(c, new, data, rest)
  PROVE  /\ calls' \in [Calls -> Seq(Labels)] /\ StacksOK'
         /\ calls'[c] = Entered(new, data).todo \o rest
         /\ calls'[c] # <<>> /\ Head(calls'[c]) = Entered(new, data).todo[1]
         /\ Joins(calls'[c], Entered(new, data).todo, rest)
         /\ \A d \in Calls \ {c} : calls'[d] = calls[d]
         /\ state' \in CVStates /\ setupData' \in Setups
         /\ state' = Entered(new, data).state /\ setupData' = data
<1> DEFINE s == Entered(new, data).todo
<1>1. s \in Seq(Labels) /\ s # <<>> /\ StackOK(s) /\ s[Len(s)] = "write"
  BY EnteredOK
<1> HIDE DEF s
<1>2. s \o rest \in Seq(Labels) /\ StackOK(s \o rest) /\ s \o rest # <<>> /\ Head(s \o rest) = s[1]
  BY <1>1, ConcatOK
<1>3. calls' = [calls EXCEPT ![c] = s \o rest] /\ state' = Entered(new, data).state /\ setupData' = data
  BY DEF ChangeState, s
<1>4. Entered(new, data).state \in CVStates
  BY EnteredOK
<1>5. Joins(s \o rest, s, rest)
  BY <1>1, RangeConcat DEF Joins
<1> QED BY <1>2, <1>3, <1>4, <1>5, OneMoves DEF s

(* What a start of the services is called by. *)
LEMMA AfterServicesOK ==
  ASSUME TypeInv, NEW c \in Calls,
         At(c, "self") \/ (At(c, "client") /\ Head(Rest(c)) = "toStarted")
  PROVE  LET after == AfterServices(c)
         IN /\ after \in Seq(Labels) /\ StackOK(after) /\ after # <<>>
            /\ Head(after) = after[1] /\ after[1] \in {"toStarted", "write"}
            /\ Range(after) \subseteq Range(calls[c])
<1> PICK s : s = calls[c]
  OBVIOUS
<1>1. s \in Seq(Labels) /\ StackOK(s)
  BY DEF TypeInv, TypeOK, StacksOK
<1>2. s # <<>> /\ Head(s) = s[1] /\ Len(s) \in Nat \ {0}
  BY <1>1, EmptySeq, TailOK DEF At
<1>3. ASSUME NEW i \in 1..(Len(s) - 1)
      PROVE  /\ s[i] \notin {"pressed", "wipe"} /\ s[i + 1] \in Follow(s[i])
  BY <1>1 DEF StackOK
<1>4. s[Len(s)] \in {"write", "pressed", "wipe"}
  BY <1>1, <1>2 DEF StackOK, Ends
<1>5. ASSUME NEW i \in 1..Len(s), s[i] \in {"toStarted", "write"},
             \A j \in 1..(i - 1) : s[j] \in ServiceLabels
      PROVE  LET after == AfterServices(c)
             IN /\ after \in Seq(Labels) /\ StackOK(after) /\ after # <<>>
                /\ Head(after) = after[1] /\ after[1] \in {"toStarted", "write"}
                /\ Range(after) \subseteq Range(calls[c])
  <2>1. s[i] \notin ServiceLabels
    BY <1>5 DEF ServiceLabels
  <2>2. AfterServices(c) = SubSeq(s, i, Len(s))
    BY <1>2, <1>5, <2>1, AfterServicesIs
  <2>3. LET t == SubSeq(s, i, Len(s))
        IN /\ t \in Seq(Labels) /\ StackOK(t) /\ t # <<>> /\ Len(t) = Len(s) - i + 1
           /\ Head(t) = s[i] /\ t[1] = s[i]
           /\ \A k \in 1..Len(t) : t[k] = s[k + i - 1]
    BY <1>1, SuffixOK
  <2>4. ASSUME NEW x \in Range(SubSeq(s, i, Len(s)))
        PROVE  x \in Range(s)
    <3>1. PICK k \in 1..Len(SubSeq(s, i, Len(s))) : SubSeq(s, i, Len(s))[k] = x
      BY <2>3, RangeIs
    <3>2. k + i - 1 \in 1..Len(s) /\ s[k + i - 1] = x
      BY <1>2, <2>3, <3>1
    <3> QED BY <1>1, <3>2, RangeIs
  <2> QED BY <1>5, <2>2, <2>3, <2>4
<1>6. ASSUME NEW i \in 1..Len(s), s[i] \notin {"write", "pressed", "wipe"}
      PROVE  i + 1 \in 1..Len(s) /\ s[i + 1] \in Follow(s[i])
  <2>1. i # Len(s)
    BY <1>4, <1>6
  <2>2. i \in 1..(Len(s) - 1) /\ i + 1 \in 1..Len(s)
    BY <1>2, <2>1
  <2> QED BY <1>3, <2>2
<1>7. /\ Follow("self") = {"node"} /\ Follow("node") = {"api"} /\ Follow("api") = {"client"}
      /\ Follow("client") = {"toStarted", "write"}
  BY DEF Follow
<1>8. CASE At(c, "self")
  <2>1. s[1] = "self"
    BY <1>2, <1>8 DEF At
  <2>2. 2 \in 1..Len(s) /\ s[2] = "node"
    BY <1>2, <1>6, <1>7, <2>1
  <2>3. 3 \in 1..Len(s) /\ s[3] = "api"
    BY <1>6, <1>7, <2>2
  <2>4. 4 \in 1..Len(s) /\ s[4] = "client"
    BY <1>6, <1>7, <2>3
  <2>5. 5 \in 1..Len(s) /\ s[5] \in {"toStarted", "write"}
    BY <1>6, <1>7, <2>4
  <2>6. \A j \in 1..(5 - 1) : j = 1 \/ j = 2 \/ j = 3 \/ j = 4
    OBVIOUS
  <2>7. \A j \in 1..(5 - 1) : s[j] \in ServiceLabels
    BY <2>1, <2>2, <2>3, <2>4, <2>6 DEF ServiceLabels
  <2> QED BY <1>5, <2>5, <2>7
<1>9. CASE At(c, "client") /\ Head(Rest(c)) = "toStarted"
  <2>1. s[1] = "client"
    BY <1>2, <1>9 DEF At
  <2>2. 2 \in 1..Len(s)
    BY <1>2, <1>6, <2>1
  <2>3. Tail(s) # <<>>
    BY <1>1, <1>2, <2>1, TailOK DEF Ends
  <2>4. s[2] = "toStarted"
    BY <1>1, <1>2, <1>9, <2>3, TailOK DEF Rest
  <2>5. \A j \in 1..(2 - 1) : s[j] \in ServiceLabels
    BY <2>1 DEF ServiceLabels
  <2> QED BY <1>5, <2>2, <2>4, <2>5
<1> QED BY <1>8, <1>9

(* A start that fails goes back to the button, and on with what follows. *)
LEMMA StartFailsOK ==
  ASSUME TypeInv, NEW c \in Calls, StartFails(c),
         At(c, "self") \/ (At(c, "client") /\ Head(Rest(c)) = "toStarted")
  PROVE  /\ calls' \in [Calls -> Seq(Labels)] /\ StacksOK'
         /\ state' = "READY_TO_START_ELECTION" /\ setupData' = setupData
         /\ \A d \in Calls \ {c} : calls'[d] = calls[d]
         /\ calls'[c] # <<>> /\ Head(calls'[c]) = "write"
         /\ Range(calls'[c]) \subseteq Range(calls[c]) \cup {"write"}
         /\ At(c, "client") => "again" \in Range(calls'[c])
<1>1. PICK after : after = AfterServices(c)
  OBVIOUS
<1>2. PICK rest : rest = IF Head(after) = "toStarted" THEN Tail(after) ELSE after
  OBVIOUS
<1>3. /\ after \in Seq(Labels) /\ StackOK(after) /\ after # <<>>
      /\ Head(after) = after[1] /\ after[1] \in {"toStarted", "write"}
      /\ Range(after) \subseteq Range(calls[c])
  BY <1>1, AfterServicesOK
<1>4. /\ Tail(after) \in Seq(Labels) /\ StackOK(Tail(after))
      /\ after[1] = "toStarted" => Tail(after) # <<>> /\ Tail(after)[1] = "again"
      /\ Range(Tail(after)) \subseteq Range(after)
  BY <1>3, TailOK, RangeTail DEF Follow, Ends
<1>5. rest \in Seq(Labels) /\ StackOK(rest) /\ rest # <<>> /\ rest[1] \in {"write", "again"}
  BY <1>2, <1>3, <1>4
<1>6. ChangeState(c, "READY_TO_START_ELECTION", setupData, rest)
  BY <1>1, <1>2 DEF StartFails
<1>7. setupData \in Setups /\ "READY_TO_START_ELECTION" \in CVStates
  BY DEF TypeInv, TypeOK, CVStates
<1>8. /\ Entered("READY_TO_START_ELECTION", setupData).todo = <<"write">>
      /\ Entered("READY_TO_START_ELECTION", setupData).state = "READY_TO_START_ELECTION"
      /\ <<"write">>[1] = "write" /\ Range(<<"write">>) = {"write"}
  BY <1>7, EnteredIs, RangeFew
<1>9. /\ calls' \in [Calls -> Seq(Labels)] /\ StacksOK'
      /\ calls'[c] # <<>> /\ Head(calls'[c]) = Entered("READY_TO_START_ELECTION", setupData).todo[1]
      /\ Joins(calls'[c], Entered("READY_TO_START_ELECTION", setupData).todo, rest)
      /\ \A d \in Calls \ {c} : calls'[d] = calls[d]
      /\ state' = Entered("READY_TO_START_ELECTION", setupData).state /\ setupData' = setupData
  BY <1>5, <1>6, <1>7, ChangeOK
<1>10. Range(rest) \subseteq Range(calls[c])
  BY <1>2, <1>3, <1>4
<1>11. ASSUME At(c, "client")
       PROVE  "again" \in Range(rest)
  <2>1. Head(Rest(c)) = "toStarted"
    BY <1>11 DEF At
  <2>2. after[1] = "toStarted"
    <3> PICK s : s = calls[c]
      OBVIOUS
    <3>1. s \in Seq(Labels) /\ StackOK(s) /\ s # <<>> /\ Head(s) = "client"
      BY <1>11 DEF TypeInv, TypeOK, StacksOK, At
    <3>2. /\ Tail(s) # <<>> /\ s[1] = "client" /\ s[2] = "toStarted" /\ Len(s) \in Nat \ {0}
          /\ Len(Tail(s)) = Len(s) - 1 /\ Len(Tail(s)) # 0
      <4>1. /\ Tail(s) \in Seq(Labels) /\ Head(s) = s[1] /\ Len(Tail(s)) = Len(s) - 1
            /\ Len(s) \in Nat \ {0}
            /\ Tail(s) = <<>> => Head(s) \in Ends
            /\ Tail(s) # <<>> => Tail(s)[1] = s[2] /\ Head(Tail(s)) = Tail(s)[1]
        BY <3>1, TailOK
      <4>2. Tail(s) # <<>>
        BY <3>1, <4>1 DEF Ends
      <4> QED BY <2>1, <3>1, <4>1, <4>2, EmptySeq DEF Rest
    <3>3. \A j \in 1..(2 - 1) : s[j] \in ServiceLabels
      BY <3>2 DEF ServiceLabels
    <3>4. 2 \in 1..Len(s) /\ s[2] \notin ServiceLabels
      BY <3>2 DEF ServiceLabels
    <3>5. after = SubSeq(s, 2, Len(s))
      BY <1>1, <3>2, <3>3, <3>4, AfterServicesIs
    <3> QED BY <3>1, <3>2, <3>4, <3>5, SuffixOK
  <2>3. rest[1] = "again"
    BY <1>2, <1>3, <1>4, <2>2
  <2>4. 1 \in 1..Len(rest)
    BY <1>5, EmptySeq
  <2> QED BY <1>5, <2>3, <2>4, RangeIs
<1> QED BY <1>8, <1>9, <1>10, <1>11 DEF Joins

(* The files that a setup or an unpacking leaves. *)
LEMMA FilesOK ==
  ASSUME TypeInv
  PROVE  /\ Unpacked \in FilesType /\ Restored \in FilesType
         /\ LeftByCreate \subseteq FilesType /\ LeftByLoad \subseteq FilesType
         /\ [files EXCEPT !.committee = setupData] \in FilesType
         /\ [files EXCEPT !.boxFile = boxData] \in FilesType
         /\ [Unpacked EXCEPT !.boxFile = boxData] \in FilesType
         /\ Dir \in {"committee", "box"}
         /\ Unpacked[Dir] = (IF files[Dir] = "none" THEN "box" ELSE files[Dir])
         /\ \A x \in {"committee", "box"} \ {Dir} : Unpacked[x] = files[x]
         /\ Unpacked.boxFile = files.boxFile
<1>1. files \in FilesType /\ setupData \in Setups /\ boxData \in {"none", "good", "bad"}
  BY DEF TypeInv, TypeOK, FilesType
<1>2. Dir \in {"committee", "box"}
  BY DEF Dir
<1>3. /\ Unpacked \in FilesType
      /\ Unpacked[Dir] = (IF files[Dir] = "none" THEN "box" ELSE files[Dir])
      /\ \A x \in {"committee", "box"} \ {Dir} : Unpacked[x] = files[x]
      /\ Unpacked.boxFile = files.boxFile
  BY <1>1, <1>2 DEF Unpacked, FilesType, Setups
<1>4. Restored \in FilesType
  BY <1>1, <1>3 DEF Restored
<1>5. /\ [files EXCEPT !.committee = setupData] \in FilesType
      /\ [files EXCEPT !.boxFile = boxData] \in FilesType
      /\ [Unpacked EXCEPT !.boxFile = boxData] \in FilesType
  BY <1>1, <1>3 DEF FilesType
<1>6. LeftByLoad \subseteq FilesType
  BY <1>1, <1>5 DEF LeftByLoad
<1>7. LeftByCreate \subseteq FilesType
  <2>1. ASSUME NEW left \in {files.committee, setupData,
                     IF files.committee = "none" THEN "partial" ELSE files.committee}
        PROVE  [files EXCEPT !.committee = left] \in FilesType
    BY <1>1 DEF FilesType, Setups
  <2> QED BY <2>1 DEF LeftByCreate
<1> QED BY <1>2, <1>3, <1>4, <1>5, <1>6, <1>7

(* A node that stored something looks for its setup. *)
LEMMA ReadStateOK ==
  ASSUME TypeInv, NEW c \in Calls, ReadState(c)
  PROVE  /\ calls' \in [Calls -> Seq(Labels)] /\ StacksOK'
         /\ \A d \in Calls \ {c} : calls'[d] = calls[d]
         /\ calls[c] # <<>> /\ Head(calls[c]) = "readState" /\ calls'[c] # <<>>
         /\ Tail(calls[c]) # <<>> /\ Head(Tail(calls[c])) = "write"
         /\ keys.state \in {"none", "AWAITING_SETUP"} =>
              calls'[c] = Tail(calls[c]) /\ Head(calls'[c]) = "write"
         /\ keys.state \notin {"none", "AWAITING_SETUP"} =>
              calls'[c] = <<"restore", keys.state>> \o Tail(calls[c]) /\ Head(calls'[c]) = "restore"
<1> PICK s : s = calls[c]
  OBVIOUS
<1>1. s \in Seq(Labels) /\ StackOK(s) /\ keys \in KeysType
  BY DEF TypeInv, TypeOK, StacksOK, KeysType
<1>2. s # <<>> /\ Head(s) = "readState"
  BY DEF ReadState, At
<1>3. /\ Tail(s) \in Seq(Labels) /\ StackOK(Tail(s))
      /\ Tail(s) # <<>> /\ Tail(s)[1] = "write" /\ Head(Tail(s)) = "write"
  <2>1. /\ Tail(s) \in Seq(Labels) /\ StackOK(Tail(s))
        /\ Tail(s) = <<>> => Head(s) \in Ends
        /\ Tail(s) # <<>> => Tail(s)[1] \in Follow(Head(s)) /\ Head(Tail(s)) = Tail(s)[1]
    BY <1>1, <1>2, TailOK
  <2> QED BY <1>2, <2>1 DEF Ends, Follow
<1>4. CASE keys.state \in {"none", "AWAITING_SETUP"}
  <2>1. Done(c)
    BY <1>4 DEF ReadState, Done, NoKeys
  <2> QED BY <1>2, <1>3, <1>4, <2>1, DoneOK
<1>5. CASE keys.state \notin {"none", "AWAITING_SETUP"}
  <2> PICK x : x = keys.state
    OBVIOUS
  <2> PICK t : t = Tail(s)
    OBVIOUS
  <2>1. /\ x \in Labels /\ x \notin {"pressed", "wipe"}
        /\ x \in Follow("restore") /\ "write" \in Follow(x) /\ "restore" \in Labels
    BY <1>1, <1>5 DEF KeysType, CVStates, Labels, Follow, Late, Early
  <2>2. t \in Seq(Labels) /\ StackOK(t) /\ t # <<>> /\ t[1] = "write"
    BY <1>3
  <2>3. /\ <<"restore", x>> \o t \in Seq(Labels) /\ StackOK(<<"restore", x>> \o t)
        /\ <<"restore", x>> \o t # <<>> /\ Head(<<"restore", x>> \o t) = "restore"
    <3>1. t[1] \in Follow(x) /\ "restore" \notin {"pressed", "wipe"}
      BY <2>1, <2>2
    <3>2. <<"restore", x>> \o t \in Seq(Labels) /\ StackOK(<<"restore", x>> \o t)
      BY <2>1, <2>2, <3>1, PushTwo
    <3>3. <<"restore", x>> \o t # <<>> /\ Head(<<"restore", x>> \o t) = "restore"
      BY <2>1, <2>2, <3>1, PushTwo
    <3> QED BY <3>2, <3>3
  <2>4. calls' = [calls EXCEPT ![c] = <<"restore", x>> \o t]
    BY <1>5 DEF ReadState, Rest
  <2>5. /\ calls' \in [Calls -> Seq(Labels)] /\ StacksOK'
        /\ calls'[c] = <<"restore", x>> \o t /\ \A d \in Calls \ {c} : calls'[d] = calls[d]
    BY <2>3, <2>4, OneMoves
  <2> QED BY <1>2, <1>3, <1>5, <2>3, <2>5
<1> QED BY <1>4, <1>5

\* The state that a call is about to restore, and what its callers still do.
Name(c) == calls[c][2]

Callers(c) == Tail(Tail(calls[c]))

(* What a call knows that restores a setup. *)
LEMMA RestoringIs ==
  ASSUME TypeInv, NEW c \in Calls, At(c, "restore")
  PROVE  /\ Name(c) \in Late \cup {"INITIALIZING_ELECTION"} /\ Name(c) \in CVStates
         /\ Callers(c) \in Seq(Labels) /\ StackOK(Callers(c))
         /\ Callers(c) # <<>> /\ Callers(c)[1] = "write"
         /\ Range(calls[c]) = {"restore", Name(c)} \cup Range(Callers(c))
<1> PICK s : s = calls[c]
  OBVIOUS
<1>1. s \in Seq(Labels) /\ StackOK(s) /\ s # <<>> /\ Head(s) = "restore"
  BY DEF TypeInv, TypeOK, StacksOK, At
<1>2. /\ Tail(s) \in Seq(Labels) /\ StackOK(Tail(s)) /\ Tail(s) # <<>>
      /\ s[2] \in Late \cup {"INITIALIZING_ELECTION"} /\ Head(Tail(s)) = s[2]
      /\ Range(s) = {"restore"} \cup Range(Tail(s))
  <2>1. /\ Tail(s) \in Seq(Labels) /\ StackOK(Tail(s))
        /\ Tail(s) = <<>> => Head(s) \in Ends
        /\ Tail(s) # <<>> => /\ Tail(s)[1] \in Follow(Head(s)) /\ Head(Tail(s)) = Tail(s)[1]
                             /\ Tail(s)[1] = s[2]
        /\ Range(s) = {Head(s)} \cup Range(Tail(s))
    BY <1>1, TailOK, RangeTail
  <2> QED BY <1>1, <2>1 DEF Ends, Follow
<1>3. s[2] \in CVStates /\ s[2] \notin Ends /\ Follow(s[2]) = {"write"}
  BY <1>2 DEF Late, CVStates, Ends, Follow
<1> PICK t : t = Tail(s)
  OBVIOUS
<1>4. /\ Tail(t) \in Seq(Labels) /\ StackOK(Tail(t))
      /\ Tail(t) # <<>> /\ Tail(t)[1] = "write"
      /\ Range(t) = {s[2]} \cup Range(Tail(t))
  <2>1. /\ Tail(t) \in Seq(Labels) /\ StackOK(Tail(t))
        /\ Tail(t) = <<>> => Head(t) \in Ends
        /\ Tail(t) # <<>> => Tail(t)[1] \in Follow(Head(t))
        /\ Range(t) = {Head(t)} \cup Range(Tail(t))
    BY <1>2, TailOK, RangeTail
  <2> QED BY <1>2, <1>3, <2>1
<1> QED BY <1>2, <1>3, <1>4 DEF Name, Callers

(* A setup is restored, or the program fails. *)
LEMMA RestoreOK ==
  ASSUME TypeInv, NEW c \in Calls, Restore(c)
  PROVE  /\ calls' \in [Calls -> Seq(Labels)] /\ StacksOK'
         /\ \A d \in Calls \ {c} : calls'[d] = calls[d]
         /\ At(c, "restore") /\ state' \in CVStates /\ setupData' \in Setups /\ files' \in FilesType
         /\ \/ /\ MayRestore /\ files' = Restored
               /\ setupData' = Restored[Dir] /\ setupData' \in {"own", "box"} /\ state' = Name(c)
               /\ calls'[c] = Entered(Name(c), setupData').todo \o Callers(c)
               /\ calls'[c] # <<>> /\ Head(calls'[c]) = Entered(Name(c), setupData').todo[1]
               /\ Joins(calls'[c], Entered(Name(c), setupData').todo, Callers(c))
            \/ /\ ~MayRestore \/ "restore" \in Failures
               /\ calls'[c] = <<>> /\ UNCHANGED <<state, setupData, files>>
<1>1. /\ At(c, "restore") /\ Restored \in FilesType
      /\ state \in CVStates /\ setupData \in Setups /\ files \in FilesType
  BY FilesOK DEF Restore, TypeInv, TypeOK, FilesType
<1>2. CASE MayRestore /\ files' = Restored /\ ChangeState(c, calls[c][2], Restored[Dir], Tail(Rest(c)))
  <2> PICK data : data = Restored[Dir]
    OBVIOUS
  <2>1. data \in {"own", "box"} /\ data \in Setups
    BY <1>2 DEF MayRestore, Setups
  <2>2. ChangeState(c, Name(c), data, Callers(c))
    BY <1>2 DEF Name, Callers, Rest
  <2>3. /\ Name(c) \in CVStates /\ Name(c) # "AWAITING_SETUP"
        /\ Callers(c) \in Seq(Labels) /\ StackOK(Callers(c)) /\ Callers(c)[1] = "write"
    BY <1>1, RestoringIs DEF Late, Early
  <2>4. /\ calls' \in [Calls -> Seq(Labels)] /\ StacksOK'
        /\ calls'[c] = Entered(Name(c), data).todo \o Callers(c)
        /\ calls'[c] # <<>> /\ Head(calls'[c]) = Entered(Name(c), data).todo[1]
        /\ Joins(calls'[c], Entered(Name(c), data).todo, Callers(c))
        /\ \A d \in Calls \ {c} : calls'[d] = calls[d]
        /\ state' = Entered(Name(c), data).state /\ setupData' = data
    BY <2>1, <2>2, <2>3, ChangeOK
  <2>5. Entered(Name(c), data).state = Name(c)
    BY <2>1, <2>3, EnteredIs DEF CVStates
  <2> QED BY <1>1, <1>2, <2>1, <2>3, <2>4, <2>5
<1>3. CASE (~MayRestore \/ "restore" \in Failures) /\ Throw(c) /\ UNCHANGED <<state, setupData, files>>
  BY <1>1, <1>3, ThrowOK
<1> QED BY <1>2, <1>3 DEF Restore

(* A setup that fails. *)
LEMMA SetupFailsOK ==
  ASSUME TypeInv, NEW c \in Calls, SetupFails(c)
  PROVE  /\ calls' \in [Calls -> Seq(Labels)] /\ StacksOK'
         /\ \A d \in Calls \ {c} : calls'[d] = calls[d]
         /\ state' = "AWAITING_SETUP" /\ setupData' = setupData
         /\ calls'[c] = <<"readState", "write">>
<1>1. setupData \in Setups /\ "AWAITING_SETUP" \in CVStates
  BY DEF TypeInv, TypeOK, CVStates
<1>2. <<>> \in Seq(Labels) /\ StackOK(<<>>)
  BY DEF StackOK
<1>3. ChangeState(c, "AWAITING_SETUP", setupData, <<>>)
  BY DEF SetupFails
<1>4. /\ calls' \in [Calls -> Seq(Labels)] /\ StacksOK'
      /\ calls'[c] = Entered("AWAITING_SETUP", setupData).todo \o <<>>
      /\ \A d \in Calls \ {c} : calls'[d] = calls[d]
      /\ state' = Entered("AWAITING_SETUP", setupData).state /\ setupData' = setupData
  BY <1>1, <1>2, <1>3, ChangeOK
<1>5. /\ Entered("AWAITING_SETUP", setupData).state = "AWAITING_SETUP"
      /\ Entered("AWAITING_SETUP", setupData).todo = <<"readState", "write">>
      /\ Entered("AWAITING_SETUP", setupData).todo \in Seq(Labels)
  BY <1>1, EnteredIs, EnteredOK
<1>6. Entered("AWAITING_SETUP", setupData).todo \o <<>> = Entered("AWAITING_SETUP", setupData).todo
  BY <1>5, ConcatEmptySeq
<1> QED BY <1>4, <1>5, <1>6

(* The button of a setup is enabled. *)
LEMMA ReadyOK ==
  ASSUME TypeInv, NEW c \in Calls, NEW t \in Seq(Labels), StackOK(t), t # <<>>, t[1] = "write",
         ChangeState(c, "READY_TO_START_ELECTION", setupData, t)
  PROVE  /\ calls' \in [Calls -> Seq(Labels)] /\ StacksOK'
         /\ \A d \in Calls \ {c} : calls'[d] = calls[d]
         /\ state' = "READY_TO_START_ELECTION" /\ setupData' = setupData
         /\ calls'[c] # <<>> /\ Head(calls'[c]) = "write"
         /\ Range(calls'[c]) = {"write"} \cup Range(t)
<1>1. setupData \in Setups /\ "READY_TO_START_ELECTION" \in CVStates
  BY DEF TypeInv, TypeOK, CVStates
<1>2. /\ calls' \in [Calls -> Seq(Labels)] /\ StacksOK'
      /\ calls'[c] # <<>> /\ Head(calls'[c]) = Entered("READY_TO_START_ELECTION", setupData).todo[1]
      /\ Joins(calls'[c], Entered("READY_TO_START_ELECTION", setupData).todo, t)
      /\ \A d \in Calls \ {c} : calls'[d] = calls[d]
      /\ state' = Entered("READY_TO_START_ELECTION", setupData).state /\ setupData' = setupData
  BY <1>1, ChangeOK
<1>3. /\ Entered("READY_TO_START_ELECTION", setupData).todo = <<"write">>
      /\ Entered("READY_TO_START_ELECTION", setupData).state = "READY_TO_START_ELECTION"
      /\ <<"write">>[1] = "write" /\ Range(<<"write">>) = {"write"}
  BY <1>1, EnteredIs, RangeFew
<1> QED BY <1>2, <1>3 DEF Joins

(* The settings of an election are created. *)
LEMMA CreateOK ==
  ASSUME TypeInv, NEW c \in Calls, CreateElection(c)
  PROVE  /\ calls' \in [Calls -> Seq(Labels)] /\ StacksOK'
         /\ \A d \in Calls \ {c} : calls'[d] = calls[d]
         /\ At(c, "create") /\ setupData' = setupData /\ files' \in FilesType
         /\ \/ /\ files' = [files EXCEPT !.committee = setupData]
               /\ state' = "READY_TO_START_ELECTION"
               /\ calls'[c] # <<>> /\ Head(calls'[c]) = "write"
               /\ Range(calls'[c]) = {"write"} \cup Range(Tail(calls[c]))
            \/ /\ files' \in LeftByCreate
               /\ state' = "AWAITING_SETUP" /\ calls'[c] = <<"readState", "write">>
<1> PICK s : s = calls[c]
  OBVIOUS
<1>1. s \in Seq(Labels) /\ StackOK(s) /\ s # <<>> /\ Head(s) = "create"
  BY DEF TypeInv, TypeOK, StacksOK, At, CreateElection
<1>2. Tail(s) \in Seq(Labels) /\ StackOK(Tail(s)) /\ Tail(s) # <<>> /\ Tail(s)[1] = "write"
  BY <1>1, TailOK DEF Ends, Follow
<1>3. CASE /\ files' = [files EXCEPT !.committee = setupData]
           /\ ChangeState(c, "READY_TO_START_ELECTION", setupData, Rest(c))
  <2>1. ChangeState(c, "READY_TO_START_ELECTION", setupData, Tail(s))
    BY <1>3 DEF Rest
  <2>2. files' \in FilesType
    BY <1>3, FilesOK
  <2> QED BY <1>1, <1>2, <1>3, <2>1, <2>2, ReadyOK DEF At
<1>4. CASE files' \in LeftByCreate /\ SetupFails(c)
  <2>1. files' \in FilesType
    BY <1>4, FilesOK
  <2> QED BY <1>1, <1>4, <2>1, SetupFailsOK DEF At
<1> QED BY <1>3, <1>4 DEF CreateElection

(* A box's file is loaded. *)
LEMMA LoadOK ==
  ASSUME TypeInv, NEW c \in Calls, LoadBallotBox(c)
  PROVE  /\ calls' \in [Calls -> Seq(Labels)] /\ StacksOK'
         /\ \A d \in Calls \ {c} : calls'[d] = calls[d]
         /\ At(c, "load") /\ setupData' \in Setups /\ files' \in FilesType
         /\ \/ /\ boxData = "good" /\ Unpacked[Dir] \in {"own", "box"}
               /\ files' = [Unpacked EXCEPT !.boxFile = boxData]
               /\ setupData' = Unpacked[Dir] /\ state' = state
               /\ calls'[c] = <<"boxKey">> \o Tail(calls[c])
               /\ calls'[c] # <<>> /\ Head(calls'[c]) = "boxKey"
            \/ /\ files' \in LeftByLoad
               /\ state' = "AWAITING_SETUP" /\ setupData' = setupData
               /\ calls'[c] = <<"readState", "write">>
<1> PICK s : s = calls[c]
  OBVIOUS
<1>1. s \in Seq(Labels) /\ StackOK(s) /\ s # <<>> /\ Head(s) = "load" /\ setupData \in Setups
  BY DEF TypeInv, TypeOK, StacksOK, At, LoadBallotBox
<1>2. Tail(s) \in Seq(Labels) /\ StackOK(Tail(s)) /\ Tail(s) # <<>> /\ Tail(s)[1] = "write"
  BY <1>1, TailOK DEF Ends, Follow
<1>3. CASE /\ boxData = "good" /\ Unpacked[Dir] \in {"own", "box"}
           /\ files' = [Unpacked EXCEPT !.boxFile = boxData]
           /\ setupData' = Unpacked[Dir]
           /\ calls' = [calls EXCEPT ![c] = <<"boxKey">> \o Rest(c)]
           /\ UNCHANGED state
  <2>1. /\ <<"boxKey">> \o Tail(s) \in Seq(Labels) /\ StackOK(<<"boxKey">> \o Tail(s))
        /\ <<"boxKey">> \o Tail(s) # <<>> /\ Head(<<"boxKey">> \o Tail(s)) = "boxKey"
    <3>1. "boxKey" \in Labels /\ Tail(s)[1] \in Follow("boxKey")
      BY <1>2 DEF Labels, Follow
    <3> QED BY <1>2, <3>1, PushOne
  <2>2. calls' = [calls EXCEPT ![c] = <<"boxKey">> \o Tail(s)]
    BY <1>3 DEF Rest
  <2>3. /\ calls' \in [Calls -> Seq(Labels)] /\ StacksOK'
        /\ calls'[c] = <<"boxKey">> \o Tail(s) /\ \A d \in Calls \ {c} : calls'[d] = calls[d]
    BY <2>1, <2>2, OneMoves
  <2>4. files' \in FilesType /\ setupData' \in Setups
    BY <1>3, FilesOK DEF Setups
  <2> QED BY <1>1, <1>3, <2>1, <2>3, <2>4 DEF At
<1>4. CASE files' \in LeftByLoad /\ SetupFails(c)
  <2>1. files' \in FilesType
    BY <1>4, FilesOK
  <2> QED BY <1>1, <1>4, <2>1, SetupFailsOK DEF At
<1>5. CASE files' = [files EXCEPT !.boxFile = boxData] /\ SetupFails(c)
  BY <1>4, <1>5 DEF LeftByLoad
<1> QED BY <1>3, <1>4, <1>5 DEF LoadBallotBox

(* The box is set up when the password of its file is stored. *)
LEMMA BoxKeyOK ==
  ASSUME TypeInv, NEW c \in Calls, WriteBoxKey(c)
  PROVE  /\ calls' \in [Calls -> Seq(Labels)] /\ StacksOK'
         /\ \A d \in Calls \ {c} : calls'[d] = calls[d]
         /\ At(c, "boxKey") /\ state' = "READY_TO_START_ELECTION" /\ setupData' = setupData
         /\ calls'[c] # <<>> /\ Head(calls'[c]) = "write"
         /\ Range(calls'[c]) = {"write"} \cup Range(Tail(calls[c]))
         /\ keys' = [keys EXCEPT !.boxKey = boxData] /\ keys' \in KeysType
<1> PICK s : s = calls[c]
  OBVIOUS
<1>1. s \in Seq(Labels) /\ StackOK(s) /\ s # <<>> /\ Head(s) = "boxKey"
  BY DEF TypeInv, TypeOK, StacksOK, At, WriteBoxKey
<1>2. Tail(s) \in Seq(Labels) /\ StackOK(Tail(s)) /\ Tail(s) # <<>> /\ Tail(s)[1] = "write"
  BY <1>1, TailOK DEF Ends, Follow
<1>3. ChangeState(c, "READY_TO_START_ELECTION", setupData, Tail(s))
  BY DEF WriteBoxKey, Rest
<1>4. keys' = [keys EXCEPT !.boxKey = boxData] /\ keys' \in KeysType
  BY DEF WriteBoxKey, TypeInv, TypeOK, KeysType
<1> QED BY <1>1, <1>2, <1>3, <1>4, ReadyOK DEF At

(* A node without a network address is ready to start again. *)
LEMMA FindSelfOK ==
  ASSUME TypeInv, NEW c \in Calls, FindSelf(c)
  PROVE  /\ calls' \in [Calls -> Seq(Labels)] /\ StacksOK'
         /\ \A d \in Calls \ {c} : calls'[d] = calls[d]
         /\ At(c, "self") /\ setupData' = setupData /\ calls'[c] # <<>>
         /\ Range(calls'[c]) \subseteq Range(calls[c]) \cup {"write"}
         /\ \/ /\ state' = state /\ calls'[c] = Tail(calls[c]) /\ Head(calls'[c]) = "node"
               /\ Range(calls[c]) = {"self"} \cup Range(calls'[c])
            \/ /\ ~keys.committee
               /\ state' = "READY_TO_START_ELECTION" /\ Head(calls'[c]) = "write"
<1>1. At(c, "self") /\ calls[c] # <<>> /\ Head(calls[c]) = "self"
  BY DEF FindSelf, At
<1>2. CASE Done(c) /\ UNCHANGED <<state, setupData>>
  <2>1. /\ calls' \in [Calls -> Seq(Labels)] /\ StacksOK'
        /\ calls'[c] = Tail(calls[c]) /\ \A d \in Calls \ {c} : calls'[d] = calls[d]
        /\ Range(calls[c]) = {"self"} \cup Range(calls'[c])
        /\ calls'[c] = <<>> => "self" \in Ends
        /\ calls'[c] # <<>> => Head(calls'[c]) \in Follow("self")
    BY <1>1, <1>2, DoneOK
  <2>2. "self" \notin Ends /\ Follow("self") = {"node"}
    BY DEF Ends, Follow
  <2> QED BY <1>1, <1>2, <2>1, <2>2
<1>3. CASE ~keys.committee /\ StartFails(c)
  BY <1>1, <1>3, StartFailsOK
<1> QED BY <1>2, <1>3 DEF FindSelf

(* A client that cannot register is ready to start again, unless it has started. *)
LEMMA RegisterOK ==
  ASSUME TypeInv, NEW c \in Calls, RegisterClient(c)
  PROVE  /\ calls' \in [Calls -> Seq(Labels)] /\ StacksOK'
         /\ \A d \in Calls \ {c} : calls'[d] = calls[d]
         /\ At(c, "client") /\ setupData' = setupData /\ calls'[c] # <<>>
         /\ Range(calls'[c]) \subseteq Range(calls[c]) \cup {"write"}
         /\ \/ /\ client' = TRUE \/ (client' = client /\ (client \/ "certs" \in Failures))
               /\ state' = state /\ calls'[c] = Tail(calls[c])
               /\ Head(calls'[c]) \in {"toStarted", "write"}
               /\ Range(calls[c]) = {"client"} \cup Range(calls'[c])
            \/ /\ client' = client
               /\ state' = "READY_TO_START_ELECTION" /\ Head(calls'[c]) = "write"
               /\ "again" \in Range(calls'[c])
<1>1. At(c, "client") /\ calls[c] # <<>> /\ Head(calls[c]) = "client"
  BY DEF RegisterClient, At
<1>2. CASE Done(c) /\ UNCHANGED <<state, setupData>> /\ (client' = TRUE \/ (client' = client /\ (client \/ "certs" \in Failures)))
  <2>1. /\ calls' \in [Calls -> Seq(Labels)] /\ StacksOK'
        /\ calls'[c] = Tail(calls[c]) /\ \A d \in Calls \ {c} : calls'[d] = calls[d]
        /\ Range(calls[c]) = {"client"} \cup Range(calls'[c])
        /\ calls'[c] = <<>> => "client" \in Ends
        /\ calls'[c] # <<>> => Head(calls'[c]) \in Follow("client")
    BY <1>1, <1>2, DoneOK
  <2>2. "client" \notin Ends /\ Follow("client") = {"toStarted", "write"}
    BY DEF Ends, Follow
  <2> QED BY <1>1, <1>2, <2>1, <2>2
<1>3. CASE Head(Rest(c)) = "toStarted" /\ StartFails(c) /\ client' = client
  BY <1>1, <1>3, StartFailsOK
<1> QED BY <1>2, <1>3 DEF RegisterClient

(* A node with a setup goes on to the started election, another one is ready. *)
LEMMA ToStartedOK ==
  ASSUME TypeInv, NEW c \in Calls, ToStarted(c)
  PROVE  /\ calls' \in [Calls -> Seq(Labels)] /\ StacksOK'
         /\ \A d \in Calls \ {c} : calls'[d] = calls[d]
         /\ At(c, "toStarted") \/ At(c, "again")
         /\ setupData' = setupData /\ calls'[c] # <<>>
         /\ setupData # "none" => 
              /\ state' = "ELECTION_STARTED" /\ Head(calls'[c]) = "self"
              /\ Range(calls'[c]) \subseteq Range(calls[c]) \cup ServiceLabels \cup {"write"}
         /\ setupData = "none" =>
              /\ state' = "READY_TO_START_ELECTION" /\ Head(calls'[c]) = "write"
<1> PICK s : s = calls[c]
  OBVIOUS
<1>1. /\ s \in Seq(Labels) /\ StackOK(s) /\ s # <<>> /\ Head(s) \in {"toStarted", "again"}
      /\ setupData \in Setups /\ "ELECTION_STARTED" \in CVStates
  BY DEF TypeInv, TypeOK, StacksOK, At, ToStarted, CVStates
<1>2. /\ Tail(s) \in Seq(Labels) /\ StackOK(Tail(s)) /\ Tail(s) # <<>>
      /\ Tail(s)[1] \in {"write", "again"} /\ Range(s) = {Head(s)} \cup Range(Tail(s))
  BY <1>1, TailOK, RangeTail DEF Ends, Follow
<1> PICK t : t = Tail(s)
  OBVIOUS
<1>3. ChangeState(c, "ELECTION_STARTED", setupData, t)
  BY DEF ToStarted, Rest
<1>4. /\ calls' \in [Calls -> Seq(Labels)] /\ StacksOK'
      /\ calls'[c] # <<>> /\ Head(calls'[c]) = Entered("ELECTION_STARTED", setupData).todo[1]
      /\ Joins(calls'[c], Entered("ELECTION_STARTED", setupData).todo, t)
      /\ \A d \in Calls \ {c} : calls'[d] = calls[d]
      /\ state' = Entered("ELECTION_STARTED", setupData).state /\ setupData' = setupData
  BY <1>1, <1>2, <1>3, ChangeOK
<1>5. ASSUME setupData # "none"
      PROVE  /\ Entered("ELECTION_STARTED", setupData).state = "ELECTION_STARTED" /\ Entered("ELECTION_STARTED", setupData).todo[1] = "self"
             /\ Range(Entered("ELECTION_STARTED", setupData).todo) = ServiceLabels \cup {"write"}
  <2>1. Entered("ELECTION_STARTED", setupData).state = "ELECTION_STARTED" /\ Entered("ELECTION_STARTED", setupData).todo = StartServices \o <<"write">>
    BY <1>1, <1>5, EnteredIs
  <2>2. <<"write">> \in Seq(Labels) /\ StackOK(<<"write">>) /\ <<"write">>[1] = "write"
    BY FewOK DEF Labels, Ends
  <2>3. (StartServices \o <<"write">>)[1] = "self"
    BY <2>2, ServicesOK
  <2>4. StartServices \in Seq(Labels)
    BY DEF StartServices, Labels
  <2>5. Range(StartServices \o <<"write">>) = ServiceLabels \cup {"write"}
    BY <2>2, <2>4, RangeConcat, RangeFew
  <2> QED BY <2>1, <2>3, <2>5
<1>6. ASSUME setupData = "none"
      PROVE  Entered("ELECTION_STARTED", setupData).state = "READY_TO_START_ELECTION" /\ Entered("ELECTION_STARTED", setupData).todo[1] = "write"
  <2>1. Entered("ELECTION_STARTED", setupData).state = "READY_TO_START_ELECTION" /\ Entered("ELECTION_STARTED", setupData).todo = <<"write", "write">>
    BY <1>1, <1>6, EnteredIs
  <2> QED BY <2>1
<1>7. At(c, "toStarted") \/ At(c, "again")
  BY DEF ToStarted
<1> QED BY <1>2, <1>4, <1>5, <1>6, <1>7 DEF Joins

(* The start button does nothing, starts the election, or finds no setup. *)
LEMMA StartElectionOK ==
  ASSUME TypeInv, NEW c \in Calls, StartElection(c)
  PROVE  /\ calls' \in [Calls -> Seq(Labels)] /\ StacksOK'
         /\ \A d \in Calls \ {c} : calls'[d] = calls[d]
         /\ At(c, "pressed") /\ setupData' = setupData /\ state' \in CVStates /\ popup' = "none"
         /\ \/ calls'[c] = <<>> /\ state' = state
            \/ /\ setupData # "none" /\ state' = "STARTING_ELECTION"
               /\ calls'[c] # <<>> /\ Head(calls'[c]) = "self"
               /\ Range(calls'[c]) = ServiceLabels \cup {"toStarted", "again", "write"}
            \/ /\ setupData = "none" /\ state' = "AWAITING_SETUP"
               /\ calls'[c] # <<>> /\ Head(calls'[c]) = "readState"
<1>1. /\ setupData \in Setups /\ "STARTING_ELECTION" \in CVStates /\ state \in CVStates
      /\ At(c, "pressed") /\ popup' = "none" /\ "AWAITING_SETUP" \in CVStates
  BY DEF TypeInv, TypeOK, StartElection, CVStates
<1>2. CASE Throw(c) /\ UNCHANGED <<state, setupData>>
  BY <1>1, <1>2, ThrowOK
<1>3. CASE ChangeState(c, "STARTING_ELECTION", setupData, <<>>)
  <2> PICK t : t = <<>>
    OBVIOUS
  <2>1. t \in Seq(Labels) /\ StackOK(t) /\ Range(t) = {}
    BY RangeFew DEF StackOK
  <2>2. /\ calls' \in [Calls -> Seq(Labels)] /\ StacksOK'
        /\ calls'[c] # <<>> /\ Head(calls'[c]) = Entered("STARTING_ELECTION", setupData).todo[1]
        /\ Joins(calls'[c], Entered("STARTING_ELECTION", setupData).todo, t)
        /\ \A d \in Calls \ {c} : calls'[d] = calls[d]
        /\ state' = Entered("STARTING_ELECTION", setupData).state /\ setupData' = setupData
    BY <1>1, <1>3, <2>1, ChangeOK
  <2>3. ASSUME setupData # "none"
        PROVE  /\ Entered("STARTING_ELECTION", setupData).state = "STARTING_ELECTION" /\ Entered("STARTING_ELECTION", setupData).todo[1] = "self"
               /\ Range(Entered("STARTING_ELECTION", setupData).todo) = ServiceLabels \cup {"toStarted", "again", "write"}
    <3>1. /\ Entered("STARTING_ELECTION", setupData).state = "STARTING_ELECTION"
          /\ Entered("STARTING_ELECTION", setupData).todo = StartServices \o <<"toStarted", "again", "write">>
      BY <1>1, <2>3, EnteredIs
    <3>2. /\ <<"toStarted", "again", "write">> \in Seq(Labels)
          /\ StackOK(<<"toStarted", "again", "write">>)
          /\ <<"toStarted", "again", "write">>[1] = "toStarted"
          /\ <<"toStarted", "again", "write">> # <<>>
      <4>1. /\ {"toStarted", "again", "write"} \subseteq Labels /\ "write" \in Ends
            /\ "again" \in Follow("toStarted") /\ "write" \in Follow("again")
        BY DEF Labels, Ends, Follow
      <4> QED BY <4>1, FewOK
    <3>3. (StartServices \o <<"toStarted", "again", "write">>)[1] = "self"
      BY <3>2, ServicesOK
    <3>4. StartServices \in Seq(Labels)
      BY DEF StartServices, Labels
    <3>5. Range(StartServices \o <<"toStarted", "again", "write">>)
            = ServiceLabels \cup {"toStarted", "again", "write"}
      <4>1. Range(<<"toStarted", "again", "write">>) = {"toStarted", "again", "write"}
        BY RangeFew
      <4>2. Range(StartServices \o <<"toStarted", "again", "write">>)
              = Range(StartServices) \cup Range(<<"toStarted", "again", "write">>)
        BY <3>2, <3>4, RangeConcat
      <4> QED BY <4>1, <4>2, RangeFew
    <3> QED BY <3>1, <3>3, <3>5
  <2>4. ASSUME setupData = "none"
        PROVE  Entered("STARTING_ELECTION", setupData).state = "AWAITING_SETUP" /\ Entered("STARTING_ELECTION", setupData).todo[1] = "readState"
    <3>1. Entered("STARTING_ELECTION", setupData).state = "AWAITING_SETUP" /\ Entered("STARTING_ELECTION", setupData).todo = <<"readState", "write", "write">>
      BY <1>1, <2>4, EnteredIs
    <3> QED BY <3>1
  <2> QED BY <1>1, <2>1, <2>2, <2>3, <2>4 DEF CVStates, Joins
<1> QED BY <1>2, <1>3 DEF StartElection

(* The deletion begins with the keyring and ends with a read of the stored state. *)
LEMMA WipeOK ==
  ASSUME TypeInv, NEW c \in Calls, Wipe(c)
  PROVE  /\ calls' \in [Calls -> Seq(Labels)] /\ StacksOK'
         /\ \A d \in Calls \ {c} : calls'[d] = calls[d]
         /\ At(c, "wipe") /\ calls'[c] = <<"deleteAll", "readState", "write">>
<1>1. setupData \in Setups /\ "AWAITING_SETUP" \in CVStates /\ At(c, "wipe")
  BY DEF TypeInv, TypeOK, CVStates, Wipe
<1>2. Entered("AWAITING_SETUP", setupData).todo = <<"readState", "write">>
  BY <1>1, EnteredIs
<1>3. calls' = [calls EXCEPT ![c] = <<"deleteAll">> \o <<"readState", "write">>]
  BY <1>2 DEF Wipe
<1>4. <<"deleteAll">> \o <<"readState", "write">> = <<"deleteAll", "readState", "write">>
  BY ConcatFew DEF Labels
<1>5. /\ <<"deleteAll", "readState", "write">> \in Seq(Labels)
      /\ StackOK(<<"deleteAll", "readState", "write">>)
  <2>1. /\ {"deleteAll", "readState", "write"} \subseteq Labels /\ "write" \in Ends
        /\ "readState" \in Follow("deleteAll") /\ "write" \in Follow("readState")
    BY DEF Labels, Ends, Follow
  <2> QED BY <2>1, FewOK
<1>6. calls' = [calls EXCEPT ![c] = <<"deleteAll", "readState", "write">>]
  BY <1>3, <1>4
<1> QED BY <1>1, <1>5, <1>6, OneMoves

-----------------------------------------------------------------------------
(* Types *)

(* The person at a node does not change. *)
LEMMA RoleStays == [Next]_vars => role' = role
<1>1. ASSUME NEW c \in Calls, Continue(c)
      PROVE  role' = role
  BY <1>1 DEF Continue, WriteState, ReadState, Restore, WriteFlag, CreateElection, LoadBallotBox,
              WriteBoxKey, FindSelf, StartCockroachNode, StartCampusVoteAPI, RegisterClient,
              ToStarted, StartElection, Wipe, WipeKeys
<1>2. ASSUME NEW c \in Calls, PressAny(c)
      PROVE  role' = role
  BY <1>2 DEF PressAny, PressCreate, PressLoad, PressStart, PressDelete
<1>3. ASSUME NEW dialog, OpenPopup(dialog)
      PROVE  role' = role
  BY <1>3 DEF OpenPopup
<1> QED BY <1>1, <1>2, <1>3
     DEF Next, vars, ClosePopup, RetryCockroachNode, WipeFiles, Restart

(* Whether the password is stored, and was missed, is yes or no. *)
LEMMA PasswordTyped ==
  ASSUME TypeInv, [Next]_vars
  PROVE  password' \in BOOLEAN /\ nullRead' \in BOOLEAN
<1>1. password \in BOOLEAN /\ nullRead \in BOOLEAN
  BY DEF TypeInv, TypeOK
<1>2. ASSUME NEW c \in Calls, Continue(c)
      PROVE  password' \in BOOLEAN /\ nullRead' \in BOOLEAN
  BY <1>1, <1>2
     DEF Continue, WriteState, ReadState, Restore, WriteFlag, CreateElection, LoadBallotBox,
         WriteBoxKey, FindSelf, StartCockroachNode, StartCampusVoteAPI, RegisterClient,
         ToStarted, StartElection, Wipe, WipeKeys, services
<1>3. ASSUME NEW c \in Calls, PressAny(c)
      PROVE  password' \in BOOLEAN /\ nullRead' \in BOOLEAN
  BY <1>1, <1>3 DEF PressAny, PressCreate, PressLoad, PressStart, PressDelete, services
<1>4. ASSUME \/ \E dialog \in {"load", "start"} : OpenPopup(dialog)
             \/ ClosePopup \/ WipeFiles \/ RetryCockroachNode \/ Restart \/ UNCHANGED vars
      PROVE  password' \in BOOLEAN /\ nullRead' \in BOOLEAN
  BY <1>1, <1>4
     DEF OpenPopup, ClosePopup, WipeFiles, RetryCockroachNode, Restart, Fresh, vars, services
<1> QED BY <1>2, <1>3, <1>4 DEF Next

(* The program starts with one call, in the right order. *)
LEMMA TypeInit == Init => TypeInv
<1> SUFFICES ASSUME Init PROVE TypeInv
  OBVIOUS
<1>1. PICK c \in Calls : calls = [d \in Calls |-> IF d = c THEN Entered(state, "none").todo ELSE <<>>]
  BY DEF Init
<1>2. Entered(state, "none").todo \in Seq(Labels) /\ StackOK(Entered(state, "none").todo)
  BY EnteredOK DEF Init, CVStates, Setups
<1>3. <<>> \in Seq(Labels) /\ StackOK(<<>>)
  BY DEF StackOK
<1>4. calls \in [Calls -> Seq(Labels)] /\ StacksOK
  BY <1>1, <1>2, <1>3 DEF StacksOK
<1>5. events \in 0..MaxEvents
  BY UserAssumption DEF Init
<1>6. /\ role \in Roles /\ state \in CVStates /\ setupData \in Setups
      /\ boxData \in {"none", "good", "bad"} /\ client \in BOOLEAN
      /\ popup \in {"none", "load", "start"} /\ wiping \in BOOLEAN
      /\ retries \in Nat /\ nodeLoops \in Nat /\ apiLoops \in Nat
      /\ password \in BOOLEAN /\ nullRead \in BOOLEAN
  BY DEF Init, CVStates, Setups
<1>7. keys \in [state : CVStates \cup {"none"}, committee : BOOLEAN, boxKey : {"none", "good", "bad"},
                initialized : BOOLEAN]
  BY DEF Init, NoKeys
<1>8. files \in [boxFile : {"none", "good", "bad"}, committee : Setups \cup {"partial"},
                 box : Setups \cup {"partial"}]
  BY DEF Init, NoFiles, Setups
<1> QED BY <1>4, <1>5, <1>6, <1>7, <1>8 DEF TypeInv, TypeOK

(* The cluster is initialised, or another call tries again. *)
LEMMA InitClusterOK ==
  ASSUME TypeInv, NEW pending \in Nat, InitCluster(pending)
  PROVE  /\ keys' \in KeysType /\ retries' \in Nat
         /\ keys'.state = keys.state /\ keys'.committee = keys.committee
         /\ keys'.boxKey = keys.boxKey
<1>1. keys \in KeysType
  BY DEF TypeInv, TypeOK, KeysType
<1>2. CASE keys' = [keys EXCEPT !.initialized = TRUE] /\ retries' = pending
  BY <1>1, <1>2 DEF KeysType
<1>3. CASE keys' = keys /\ retries' \in {pending, pending + 1}
  BY <1>1, <1>3
<1> QED BY <1>2, <1>3 DEF InitCluster

(* Steps of a call that runs. *)
LEMMA ContinueTyped ==
  ASSUME TypeInv, NEW c \in Calls, Continue(c)
  PROVE  TypeInv'
<1>1. keys \in KeysType /\ files \in FilesType /\ TypeOK
  BY DEF TypeInv, TypeOK, KeysType, FilesType
<1>2. /\ role \in Roles /\ state \in CVStates /\ setupData \in Setups
      /\ boxData \in {"none", "good", "bad"} /\ client \in BOOLEAN
      /\ popup \in {"none", "load", "start"} /\ wiping \in BOOLEAN
      /\ retries \in Nat /\ nodeLoops \in Nat /\ apiLoops \in Nat /\ events \in 0..MaxEvents
  BY <1>1 DEF TypeOK
<1>3. ASSUME calls' \in [Calls -> Seq(Labels)], StacksOK', state' \in CVStates, setupData' \in Setups,
             keys' \in KeysType, files' \in FilesType, role' = role, client' \in BOOLEAN,
             boxData' = boxData, popup' \in {"none", "load", "start"},
             retries' \in Nat, nodeLoops' \in Nat, apiLoops' \in Nat,
             wiping' \in BOOLEAN, events' = events
      PROVE  TypeInv'
  <2>1. password' \in BOOLEAN /\ nullRead' \in BOOLEAN
    BY PasswordTyped DEF Next
  <2> QED BY <1>2, <1>3, <2>1 DEF TypeInv, TypeOK, KeysType, FilesType
<1>4. CASE WriteState(c)
  <2>1. calls[c] # <<>> /\ Done(c)
    BY <1>4 DEF WriteState, At
  <2>2. keys' \in KeysType
    BY <1>1, <1>2, <1>4 DEF WriteState, KeysType
  <2>3. calls' \in [Calls -> Seq(Labels)] /\ StacksOK'
    BY <2>1, DoneOK
  <2> QED BY <1>1, <1>2, <1>3, <1>4, <2>2, <2>3 DEF WriteState, memory, services
<1>5. CASE ReadState(c)
  <2>1. calls' \in [Calls -> Seq(Labels)] /\ StacksOK'
    BY <1>5, ReadStateOK
  <2> QED BY <1>1, <1>2, <1>3, <1>5, <2>1 DEF ReadState, memory, services, disk
<1>6. CASE Restore(c)
  <2>1. /\ calls' \in [Calls -> Seq(Labels)] /\ StacksOK'
        /\ state' \in CVStates /\ setupData' \in Setups /\ files' \in FilesType
    BY <1>6, RestoreOK
  <2> QED BY <1>1, <1>2, <1>3, <1>6, <2>1 DEF Restore, services
<1>7. CASE WriteFlag(c)
  <2>1. calls[c] # <<>> /\ Done(c)
    BY <1>7 DEF WriteFlag, At
  <2>2. keys' \in KeysType
    BY <1>1, <1>7 DEF WriteFlag, KeysType
  <2>3. calls' \in [Calls -> Seq(Labels)] /\ StacksOK'
    BY <2>1, DoneOK
  <2> QED BY <1>1, <1>2, <1>3, <1>7, <2>2, <2>3 DEF WriteFlag, memory, services
<1>8. CASE CreateElection(c)
  <2>1. /\ calls' \in [Calls -> Seq(Labels)] /\ StacksOK'
        /\ state' \in CVStates /\ setupData' = setupData /\ files' \in FilesType
    BY <1>8, CreateOK DEF CVStates
  <2> QED BY <1>1, <1>2, <1>3, <1>8, <2>1 DEF CreateElection, services
<1>9. CASE LoadBallotBox(c)
  <2>1. /\ calls' \in [Calls -> Seq(Labels)] /\ StacksOK'
        /\ state' \in CVStates /\ setupData' \in Setups /\ files' \in FilesType
    BY <1>2, <1>9, LoadOK DEF CVStates
  <2> QED BY <1>1, <1>2, <1>3, <1>9, <2>1 DEF LoadBallotBox, services
<1>10. CASE WriteBoxKey(c)
  <2>1. /\ calls' \in [Calls -> Seq(Labels)] /\ StacksOK'
        /\ state' \in CVStates /\ setupData' = setupData /\ keys' \in KeysType
    BY <1>10, BoxKeyOK DEF CVStates
  <2> QED BY <1>1, <1>2, <1>3, <1>10, <2>1 DEF WriteBoxKey, services
<1>11. CASE FindSelf(c)
  <2>1. /\ calls' \in [Calls -> Seq(Labels)] /\ StacksOK'
        /\ state' \in CVStates /\ setupData' = setupData
    BY <1>2, <1>11, FindSelfOK DEF CVStates
  <2> QED BY <1>1, <1>2, <1>3, <1>11, <2>1 DEF FindSelf, services, disk
<1>12. CASE StartCockroachNode(c)
  <2>1. calls[c] # <<>> /\ Done(c)
    BY <1>12 DEF StartCockroachNode, At
  <2>2. calls' \in [Calls -> Seq(Labels)] /\ StacksOK'
    BY <2>1, DoneOK
  <2>3. keys' \in KeysType /\ retries' \in Nat /\ nodeLoops' \in Nat
    BY <1>2, <1>12, InitClusterOK DEF StartCockroachNode
  <2> QED BY <1>1, <1>2, <1>3, <1>12, <2>2, <2>3 DEF StartCockroachNode, memory
<1>13. CASE StartCampusVoteAPI(c)
  <2>1. calls[c] # <<>> /\ Done(c)
    BY <1>13 DEF StartCampusVoteAPI, At
  <2>2. calls' \in [Calls -> Seq(Labels)] /\ StacksOK'
    BY <2>1, DoneOK
  <2>3. apiLoops' \in Nat
    BY <1>2, <1>13 DEF StartCampusVoteAPI
  <2> QED BY <1>1, <1>2, <1>3, <1>13, <2>2, <2>3 DEF StartCampusVoteAPI, memory, disk
<1>14. CASE RegisterClient(c)
  <2>1. /\ calls' \in [Calls -> Seq(Labels)] /\ StacksOK' /\ client' \in BOOLEAN
        /\ state' \in CVStates /\ setupData' = setupData
    BY <1>2, <1>14, RegisterOK DEF CVStates
  <2> QED BY <1>1, <1>2, <1>3, <1>14, <2>1 DEF RegisterClient, services, disk
<1>15. CASE ToStarted(c)
  <2>1. /\ calls' \in [Calls -> Seq(Labels)] /\ StacksOK'
        /\ state' \in CVStates /\ setupData' = setupData
    BY <1>15, ToStartedOK DEF CVStates
  <2> QED BY <1>1, <1>2, <1>3, <1>15, <2>1 DEF ToStarted, services, disk
<1>16. CASE StartElection(c)
  <2>1. /\ calls' \in [Calls -> Seq(Labels)] /\ StacksOK'
        /\ state' \in CVStates /\ setupData' = setupData /\ popup' = "none"
    BY <1>16, StartElectionOK
  <2> QED BY <1>1, <1>2, <1>3, <1>16, <2>1 DEF StartElection, services, disk
<1>17. CASE Wipe(c)
  <2>1. calls' \in [Calls -> Seq(Labels)] /\ StacksOK'
    BY <1>17, WipeOK
  <2>2. state' \in CVStates /\ wiping' = TRUE
    BY <1>17 DEF Wipe, CVStates
  <2> QED BY <1>1, <1>2, <1>3, <1>17, <2>1, <2>2 DEF Wipe, services
<1>18. CASE WipeKeys(c)
  <2>1. calls[c] # <<>> /\ Done(c)
    BY <1>18 DEF WipeKeys, At
  <2>2. calls' \in [Calls -> Seq(Labels)] /\ StacksOK'
    BY <2>1, DoneOK
  <2>3. keys' \in KeysType
    BY <1>18 DEF WipeKeys, NoKeys, KeysType
  <2> QED BY <1>1, <1>2, <1>3, <1>18, <2>2, <2>3 DEF WipeKeys, memory, services
<1> QED BY <1>4, <1>5, <1>6, <1>7, <1>8, <1>9, <1>10, <1>11, <1>12, <1>13, <1>14, <1>15, <1>16,
           <1>17, <1>18 DEF Continue

(* Buttons. *)
LEMMA PressCreateOK ==
  ASSUME TypeInv, NEW c \in Calls, PressCreate(c)
  PROVE  /\ calls' \in [Calls -> Seq(Labels)] /\ StacksOK' /\ calls[c] = <<>>
         /\ \A d \in Calls \ {c} : calls'[d] = calls[d]
         /\ state' = "INITIALIZING_ELECTION" /\ setupData' = "own"
         /\ calls'[c] = <<"flag", "create", "write">>
<1>1. "own" \in Setups /\ "INITIALIZING_ELECTION" \in CVStates
  BY DEF Setups, CVStates
<1>2. <<>> \in Seq(Labels) /\ StackOK(<<>>) /\ calls[c] = <<>>
  BY DEF StackOK, PressCreate, Press
<1>3. ChangeState(c, "INITIALIZING_ELECTION", "own", <<>>)
  BY DEF PressCreate
<1>4. /\ calls' \in [Calls -> Seq(Labels)] /\ StacksOK'
      /\ calls'[c] = Entered("INITIALIZING_ELECTION", "own").todo \o <<>>
      /\ \A d \in Calls \ {c} : calls'[d] = calls[d]
      /\ state' = Entered("INITIALIZING_ELECTION", "own").state /\ setupData' = "own"
  BY <1>1, <1>2, <1>3, ChangeOK
<1>5. /\ Entered("INITIALIZING_ELECTION", "own").state = "INITIALIZING_ELECTION"
      /\ Entered("INITIALIZING_ELECTION", "own").todo = <<"flag", "create", "write">>
      /\ Entered("INITIALIZING_ELECTION", "own").todo \in Seq(Labels)
  BY <1>1, EnteredIs, EnteredOK
<1>6. Entered("INITIALIZING_ELECTION", "own").todo \o <<>> = Entered("INITIALIZING_ELECTION", "own").todo
  BY <1>5, ConcatEmptySeq
<1> QED BY <1>2, <1>4, <1>5, <1>6

(* A picked file starts a call that loads it, or creates an election if there is a
   setup. *)
LEMMA PressLoadOK ==
  ASSUME TypeInv, NEW c \in Calls, NEW data \in {"good", "bad"}, PressLoad(c, data)
  PROVE  /\ calls' \in [Calls -> Seq(Labels)] /\ StacksOK' /\ calls[c] = <<>>
         /\ \A d \in Calls \ {c} : calls'[d] = calls[d]
         /\ state' = "INITIALIZING_ELECTION" /\ setupData' = setupData
         /\ calls'[c] # <<>> /\ Head(calls'[c]) \in {"flag", "load"}
         /\ setupData = "none" => calls'[c] = <<"load", "write">>
<1>1. setupData \in Setups /\ "INITIALIZING_ELECTION" \in CVStates
  BY DEF TypeInv, TypeOK, CVStates
<1>2. <<>> \in Seq(Labels) /\ StackOK(<<>>) /\ calls[c] = <<>>
  BY DEF StackOK, PressLoad, Press
<1>3. ChangeState(c, "INITIALIZING_ELECTION", setupData, <<>>)
  BY DEF PressLoad
<1>4. /\ calls' \in [Calls -> Seq(Labels)] /\ StacksOK'
      /\ calls'[c] = Entered("INITIALIZING_ELECTION", setupData).todo \o <<>>
      /\ calls'[c] # <<>> /\ Head(calls'[c]) = Entered("INITIALIZING_ELECTION", setupData).todo[1]
      /\ \A d \in Calls \ {c} : calls'[d] = calls[d]
      /\ state' = Entered("INITIALIZING_ELECTION", setupData).state /\ setupData' = setupData
  BY <1>1, <1>2, <1>3, ChangeOK
<1>5. /\ Entered("INITIALIZING_ELECTION", setupData).state = "INITIALIZING_ELECTION"
      /\ Entered("INITIALIZING_ELECTION", setupData).todo
           = IF setupData = "none" THEN <<"load", "write">> ELSE <<"flag", "create", "write">>
      /\ Entered("INITIALIZING_ELECTION", setupData).todo \in Seq(Labels)
  BY <1>1, EnteredIs, EnteredOK
<1>6. Entered("INITIALIZING_ELECTION", setupData).todo \o <<>>
        = Entered("INITIALIZING_ELECTION", setupData).todo
  BY <1>5, ConcatEmptySeq
<1>7. <<"load", "write">>[1] = "load" /\ <<"flag", "create", "write">>[1] = "flag"
  OBVIOUS
<1> QED BY <1>2, <1>4, <1>5, <1>6, <1>7

(* A button that does something before it calls changeState. *)
LEMMA PushOK ==
  ASSUME TypeInv, NEW c \in Calls, NEW label \in {"pressed", "wipe"},
         calls' = [calls EXCEPT ![c] = <<label>>]
  PROVE  /\ calls' \in [Calls -> Seq(Labels)] /\ StacksOK' /\ calls'[c] = <<label>>
         /\ \A d \in Calls \ {c} : calls'[d] = calls[d]
<1>1. <<label>> \in Seq(Labels) /\ Len(<<label>>) = 1 /\ <<label>>[1] = label
  BY DEF Labels
<1>2. StackOK(<<label>>)
  <2>1. \A i \in 1..(1 - 1) : FALSE
    OBVIOUS
  <2> QED BY <1>1, <2>1 DEF StackOK, Ends
<1> QED BY <1>1, <1>2, OneMoves

(* A fresh program. *)
LEMMA FreshOK ==
  ASSUME Fresh
  PROVE  /\ calls' \in [Calls -> Seq(Labels)] /\ StacksOK'
         /\ \E c \in Calls : /\ calls'[c] = <<"readState", "write">>
                             /\ \A d \in Calls \ {c} : calls'[d] = <<>>
<1>1. PICK c \in Calls :
        calls' = [d \in Calls |-> IF d = c THEN Entered("AWAITING_SETUP", "none").todo ELSE <<>>]
  BY DEF Fresh
<1>2. "AWAITING_SETUP" \in CVStates /\ "none" \in Setups
  BY DEF CVStates, Setups
<1>3. /\ Entered("AWAITING_SETUP", "none").todo = <<"readState", "write">>
      /\ <<"readState", "write">> \in Seq(Labels) /\ StackOK(<<"readState", "write">>)
  BY <1>2, EnteredIs, EnteredOK
<1>4. <<>> \in Seq(Labels) /\ StackOK(<<>>)
  BY DEF StackOK
<1>5. /\ calls' \in [Calls -> Seq(Labels)] /\ calls'[c] = <<"readState", "write">>
      /\ \A d \in Calls \ {c} : calls'[d] = <<>>
  BY <1>1, <1>3, <1>4
<1>6. \A d \in Calls : StackOK(calls'[d])
  BY <1>3, <1>4, <1>5 DEF StackOK
<1> QED BY <1>5, <1>6 DEF StacksOK, StackOK

(* A button keeps the types and the order of every call. *)
LEMMA PressTyped ==
  ASSUME TypeInv, NEW c \in Calls, PressAny(c)
  PROVE  TypeInv'
<1>1. keys \in KeysType /\ files \in FilesType /\ TypeOK
  BY DEF TypeInv, TypeOK, KeysType, FilesType
<1>2. /\ role \in Roles /\ state \in CVStates /\ setupData \in Setups
      /\ boxData \in {"none", "good", "bad"} /\ client \in BOOLEAN
      /\ popup \in {"none", "load", "start"} /\ wiping \in BOOLEAN
      /\ retries \in Nat /\ nodeLoops \in Nat /\ apiLoops \in Nat /\ events \in 0..MaxEvents
  BY <1>1 DEF TypeOK
<1>3. events' \in 0..MaxEvents
  <2>1. events < MaxEvents /\ events' = events + 1
    BY DEF PressAny, PressCreate, PressLoad, PressStart, PressDelete, Press
  <2> QED BY <1>2, <2>1, UserAssumption
<1>4. /\ role' = role /\ keys' = keys /\ files' = files /\ wiping' = wiping
      /\ retries' = retries /\ nodeLoops' = nodeLoops /\ apiLoops' = apiLoops
  BY DEF PressAny, PressCreate, PressLoad, PressStart, PressDelete, disk, services
<1>5. ASSUME calls' \in [Calls -> Seq(Labels)], StacksOK', state' \in CVStates, setupData' \in Setups,
             boxData' \in {"none", "good", "bad"}, client' \in BOOLEAN, popup' \in {"none", "load", "start"}
      PROVE  TypeInv'
  <2>1. password' \in BOOLEAN /\ nullRead' \in BOOLEAN
    BY PasswordTyped DEF Next
  <2> QED BY <1>1, <1>2, <1>3, <1>4, <1>5, <2>1 DEF TypeInv, TypeOK, KeysType, FilesType
<1>6. CASE PressCreate(c)
  <2>1. /\ calls' \in [Calls -> Seq(Labels)] /\ StacksOK'
        /\ state' \in CVStates /\ setupData' \in Setups
    BY <1>6, PressCreateOK DEF CVStates, Setups
  <2> QED BY <1>2, <1>5, <1>6, <2>1 DEF PressCreate
<1>7. ASSUME NEW data \in {"good", "bad"}, PressLoad(c, data)
      PROVE  TypeInv'
  <2>1. /\ calls' \in [Calls -> Seq(Labels)] /\ StacksOK'
        /\ state' \in CVStates /\ setupData' = setupData
    BY <1>7, PressLoadOK DEF CVStates
  <2> QED BY <1>2, <1>5, <1>7, <2>1 DEF PressLoad
<1>8. CASE PressStart(c)
  <2>1. calls' \in [Calls -> Seq(Labels)] /\ StacksOK'
    BY <1>8, PushOK DEF PressStart
  <2> QED BY <1>2, <1>5, <1>8, <2>1 DEF PressStart, memory
<1>9. CASE PressDelete(c)
  <2>1. calls' \in [Calls -> Seq(Labels)] /\ StacksOK'
    BY <1>9, PushOK DEF PressDelete
  <2> QED BY <1>2, <1>5, <1>9, <2>1 DEF PressDelete
<1> QED BY <1>6, <1>7, <1>8, <1>9 DEF PressAny

(* What the program does when no call runs, and its end. *)
LEMMA RestartTyped ==
  ASSUME TypeInv, Restart
  PROVE  TypeInv'
<1>1. /\ keys \in KeysType /\ files \in FilesType /\ role \in Roles /\ events \in 0..MaxEvents
  BY DEF TypeInv, TypeOK, KeysType, FilesType
<1>2. events' \in 0..MaxEvents
  BY <1>1, UserAssumption DEF Restart
<1>3. files' \in FilesType
  <2>1. NoFiles \in FilesType
    BY DEF NoFiles, FilesType, Setups
  <2>2. \/ files' = files \/ files' = NoFiles \/ files' \in LeftByCreate \/ files' \in LeftByLoad
    BY DEF Restart
  <2> QED BY <1>1, <2>1, <2>2, FilesOK
<1>4. calls' \in [Calls -> Seq(Labels)] /\ StacksOK'
  BY FreshOK DEF Restart
<1>5. /\ state' \in CVStates /\ setupData' \in Setups /\ boxData' = "none" /\ client' = FALSE
      /\ popup' = "none" /\ retries' = 0 /\ nodeLoops' = 0 /\ apiLoops' = 0
      /\ wiping' = FALSE /\ role' = role /\ keys' = keys
  BY DEF Restart, Fresh, CVStates, Setups
<1>6. /\ boxData' \in {"none", "good", "bad"} /\ client' \in BOOLEAN
      /\ popup' \in {"none", "load", "start"} /\ wiping' \in BOOLEAN
      /\ retries' \in Nat /\ nodeLoops' \in Nat /\ apiLoops' \in Nat
  BY <1>5
<1>7. password' \in BOOLEAN /\ nullRead' \in BOOLEAN
  BY PasswordTyped DEF Next
<1> QED BY <1>1, <1>2, <1>3, <1>4, <1>5, <1>6, <1>7 DEF TypeInv, TypeOK, KeysType, FilesType

(* Every step keeps the types and the order of every call. *)
LEMMA TypeNext == TypeInv /\ [Next]_vars => TypeInv'
<1> SUFFICES ASSUME TypeInv, [Next]_vars PROVE TypeInv'
  OBVIOUS
<1>1. keys \in KeysType /\ files \in FilesType /\ TypeOK /\ StacksOK
  BY DEF TypeInv, TypeOK, KeysType, FilesType
<1>2. /\ popup \in {"none", "load", "start"} /\ wiping \in BOOLEAN
      /\ retries \in Nat /\ nodeLoops \in Nat
  BY <1>1 DEF TypeOK
<1>3. CASE \E c \in Calls : Continue(c) \/ PressAny(c)
  BY <1>3, ContinueTyped, PressTyped
<1>4. ASSUME NEW dialog \in {"load", "start"}, OpenPopup(dialog)
      PROVE  TypeInv'
  BY <1>1, <1>4 DEF OpenPopup, TypeInv, TypeOK, StacksOK, StackOK, services, disk
<1>5. CASE ClosePopup
  BY <1>1, <1>5 DEF ClosePopup, TypeInv, TypeOK, StacksOK, StackOK, services, disk
<1>6. CASE RetryCockroachNode
  <2>1. retries - 1 \in Nat
    BY <1>2, <1>6 DEF RetryCockroachNode
  <2>2. keys' \in KeysType /\ retries' \in Nat
    BY <1>6, <2>1, InitClusterOK DEF RetryCockroachNode
  <2>3. nodeLoops' \in Nat
    BY <1>2, <1>6 DEF RetryCockroachNode
  <2> QED BY <1>1, <1>6, <2>2, <2>3
       DEF RetryCockroachNode, TypeInv, TypeOK, StacksOK, StackOK, memory, KeysType
<1>7. CASE WipeFiles
  <2>1. files' \in FilesType /\ wiping' = FALSE
    BY <1>7 DEF WipeFiles, NoFiles, FilesType, Setups
  <2> QED BY <1>1, <1>7, <2>1
       DEF WipeFiles, TypeInv, TypeOK, StacksOK, StackOK, memory, services, FilesType
<1>8. CASE Restart
  BY <1>8, RestartTyped
<1>9. CASE UNCHANGED vars
  BY <1>1, <1>9 DEF vars, memory, services, disk, TypeInv, TypeOK, StacksOK, StackOK
<1> QED BY <1>3, <1>4, <1>5, <1>6, <1>7, <1>8, <1>9 DEF Next

(* So they hold in every state. *)
LEMMA TypeAlways == Spec => []TypeInv
<1> QED BY TypeInit, TypeNext, PTL DEF Spec

(* The state of the GUI keeps its shape, and every call the order of what it does. *)
THEOREM ClientTypeCorrect == Spec => []TypeOK
<1>1. TypeInv => TypeOK
  BY DEF TypeInv
<1> QED BY <1>1, TypeAlways, PTL

-----------------------------------------------------------------------------
(* What is stored is what is shown *)

\* Code whose next step is not one of these stores the state before it ends.
Forgetful == {"pressed", "wipe", "deleteAll", "restore", "readState"}

(* A call with such a step to do makes good for every change of the state. *)
LEMMA PendingShows ==
  ASSUME NEW c \in Calls, calls'[c] # <<>>, Head(calls'[c]) \notin Forgetful
  PROVE  ShownInv'
<1>1. Pending(c)'
  BY DEF Pending, Forgetful
<1> QED BY <1>1 DEF ShownInv

(* A step that changes neither the state nor what is stored leaves the calls
   that will store it. *)
LEMMA ShownKept ==
  ASSUME ShownInv, NEW c \in Calls, \A d \in Calls \ {c} : calls'[d] = calls[d],
         state' = state, keys'.state = keys.state, ~Pending(c)
  PROVE  ShownInv'
<1>1. ASSUME NEW d \in Calls, Pending(d)
      PROVE  Pending(d)'
  <2>1. d # c /\ calls'[d] = calls[d]
    BY <1>1
  <2> QED BY <1>1, <2>1 DEF Pending
<1> QED BY <1>1 DEF ShownInv

(* A call that changes the state goes on to store it. *)
LEMMA ShownContinue ==
  ASSUME TypeInv, ShownInv, NEW c \in Calls, Continue(c)
  PROVE  ShownInv'
<1>1. ASSUME state' = "AWAITING_SETUP" PROVE ShownInv'
  BY <1>1 DEF ShownInv
<1>2. ASSUME calls[c] # <<>>, Done(c), NEW next \in Labels \ Forgetful,
             Head(calls[c]) \notin Ends, Follow(Head(calls[c])) = {next}
      PROVE  ShownInv'
  <2>1. calls'[c] # <<>> /\ Head(calls'[c]) = next
    BY <1>2, DoneOK
  <2> QED BY <1>2, <2>1, PendingShows
<1>3. CASE WriteState(c)
  <2>1. keys'.state = state /\ state' = state
    BY <1>3 DEF WriteState, memory, TypeInv, TypeOK
  <2> QED BY <2>1 DEF ShownInv
<1>4. CASE ReadState(c)
  <2>1. CASE keys.state \in {"none", "AWAITING_SETUP"}
    BY <1>4, <2>1, ReadStateOK, PendingShows DEF Forgetful
  <2>2. CASE keys.state \notin {"none", "AWAITING_SETUP"}
    <3>1. ~Pending(c)
      BY <1>4, <2>2, ReadStateOK DEF Pending
    <3>2. state' = state /\ keys' = keys /\ \A d \in Calls \ {c} : calls'[d] = calls[d]
      BY <1>4, ReadStateOK DEF ReadState, memory, disk
    <3> QED BY <3>1, <3>2, ShownKept
  <2> QED BY <2>1, <2>2
<1>5. CASE Restore(c)
  <2>1. /\ At(c, "restore") /\ \A d \in Calls \ {c} : calls'[d] = calls[d]
        /\ \/ /\ setupData' \in {"own", "box"}
              /\ calls'[c] # <<>> /\ Head(calls'[c]) = Entered(Name(c), setupData').todo[1]
           \/ state' = state
    BY <1>5, RestoreOK
  <2>2. CASE state' = state
    <3>1. ~Pending(c) /\ keys' = keys
      BY <1>5, <2>1 DEF Pending, At, Restore
    <3> QED BY <2>1, <2>2, <3>1, ShownKept
  <2>3. CASE /\ setupData' \in {"own", "box"}
             /\ calls'[c] # <<>> /\ Head(calls'[c]) = Entered(Name(c), setupData').todo[1]
    <3> PICK x : x = Name(c)
      OBVIOUS
    <3> PICK data : data = setupData'
      OBVIOUS
    <3>1. x \in CVStates /\ x # "AWAITING_SETUP" /\ data \in Setups /\ data # "none"
      BY <2>1, <2>3, RestoringIs DEF Late, Early, Setups
    <3>2. Entered(x, data).todo[1] \in {"flag", "write", "self"}
      <4>1. \/ Entered(x, data).todo = <<"flag", "create", "write">>
            \/ Entered(x, data).todo = <<"write">>
            \/ Entered(x, data).todo = StartServices \o <<"toStarted", "again", "write">>
            \/ Entered(x, data).todo = StartServices \o <<"write">>
        BY <3>1, EnteredIs DEF CVStates
      <4>2. /\ (StartServices \o <<"toStarted", "again", "write">>)[1] = "self"
            /\ (StartServices \o <<"write">>)[1] = "self"
        BY FirstService
      <4> QED BY <4>1, <4>2
    <3> QED BY <2>3, <3>2, PendingShows DEF Forgetful
  <2> QED BY <2>1, <2>2, <2>3
<1>6. CASE WriteFlag(c)
  <2>1. calls[c] # <<>> /\ Head(calls[c]) = "flag" /\ Done(c)
    BY <1>6 DEF WriteFlag, At
  <2>2. "create" \in Labels \ Forgetful /\ "flag" \notin Ends /\ Follow("flag") = {"create"}
    BY DEF Labels, Forgetful, Ends, Follow
  <2> QED BY <1>2, <2>1, <2>2
<1>7. CASE CreateElection(c)
  BY <1>1, <1>7, CreateOK, PendingShows DEF Forgetful
<1>8. CASE LoadBallotBox(c)
  BY <1>1, <1>8, LoadOK, PendingShows DEF Forgetful
<1>9. CASE WriteBoxKey(c)
  BY <1>9, BoxKeyOK, PendingShows DEF Forgetful
<1>10. CASE FindSelf(c)
  BY <1>10, FindSelfOK, PendingShows DEF Forgetful
<1>11. CASE StartCockroachNode(c)
  <2>1. calls[c] # <<>> /\ Head(calls[c]) = "node" /\ Done(c)
    BY <1>11 DEF StartCockroachNode, At
  <2>2. "api" \in Labels \ Forgetful /\ "node" \notin Ends /\ Follow("node") = {"api"}
    BY DEF Labels, Forgetful, Ends, Follow
  <2> QED BY <1>2, <2>1, <2>2
<1>12. CASE StartCampusVoteAPI(c)
  <2>1. calls[c] # <<>> /\ Head(calls[c]) = "api" /\ Done(c)
    BY <1>12 DEF StartCampusVoteAPI, At
  <2>2. "client" \in Labels \ Forgetful /\ "api" \notin Ends /\ Follow("api") = {"client"}
    BY DEF Labels, Forgetful, Ends, Follow
  <2> QED BY <1>2, <2>1, <2>2
<1>13. CASE RegisterClient(c)
  BY <1>13, RegisterOK, PendingShows DEF Forgetful
<1>14. CASE ToStarted(c)
  BY <1>14, ToStartedOK, PendingShows DEF Forgetful
<1>15. CASE StartElection(c)
  <2>1. /\ \A d \in Calls \ {c} : calls'[d] = calls[d]
        /\ At(c, "pressed")
        /\ \/ state' = state
           \/ state' = "AWAITING_SETUP"
           \/ calls'[c] # <<>> /\ Head(calls'[c]) = "self"
    BY <1>15, StartElectionOK
  <2>2. ~Pending(c) /\ keys' = keys
    BY <1>15, <2>1 DEF Pending, At, StartElection, disk
  <2> QED BY <1>1, <2>1, <2>2, ShownKept, PendingShows DEF Forgetful
<1>16. CASE Wipe(c)
  BY <1>1, <1>16 DEF Wipe
<1>17. CASE WipeKeys(c)
  <2>1. calls'[c] # <<>> /\ Head(calls'[c]) = "readState"
    BY <1>17, DoneOK DEF WipeKeys, At, Follow, Ends
  <2>2. keys'.state = "none"
    BY <1>17 DEF WipeKeys, NoKeys
  <2>3. Pending(c)'
    BY <2>1, <2>2 DEF Pending
  <2> QED BY <2>3 DEF ShownInv
<1> QED BY <1>3, <1>4, <1>5, <1>6, <1>7, <1>8, <1>9, <1>10, <1>11, <1>12, <1>13, <1>14, <1>15,
           <1>16, <1>17 DEF Continue

(* Buttons, dialogs and restarts leave a call that stores the state, or change
   none. *)
LEMMA ShownNext == TypeInv /\ ShownInv /\ [Next]_vars => ShownInv'
<1> SUFFICES ASSUME TypeInv, ShownInv, [Next]_vars PROVE ShownInv'
  OBVIOUS
<1>1. ASSUME calls' = calls, state' = state, keys'.state = keys.state
      PROVE  ShownInv'
  BY <1>1 DEF ShownInv, Pending
<1>2. ASSUME NEW c \in Calls, Continue(c)
      PROVE  ShownInv'
  BY <1>2, ShownContinue
<1>3. ASSUME NEW c \in Calls, PressCreate(c)
      PROVE  ShownInv'
  <2>1. calls'[c] = <<"flag", "create", "write">>
    BY <1>3, PressCreateOK
  <2> QED BY <2>1, PendingShows DEF Forgetful
<1>4. ASSUME NEW c \in Calls, NEW data \in {"good", "bad"}, PressLoad(c, data)
      PROVE  ShownInv'
  BY <1>4, PressLoadOK, PendingShows DEF Forgetful
<1>5. ASSUME NEW c \in Calls, PressStart(c) \/ PressDelete(c)
      PROVE  ShownInv'
  <2>1. ~Pending(c) /\ state' = state /\ keys' = keys
    BY <1>5 DEF PressStart, PressDelete, Press, Pending, memory, disk
  <2>2. \A d \in Calls \ {c} : calls'[d] = calls[d]
    BY <1>5, PushOK DEF PressStart, PressDelete
  <2> QED BY <2>1, <2>2, ShownKept
<1>6. ASSUME \/ \E dialog \in {"load", "start"} : OpenPopup(dialog)
             \/ ClosePopup \/ WipeFiles \/ UNCHANGED vars
      PROVE  ShownInv'
  BY <1>1, <1>6 DEF OpenPopup, ClosePopup, WipeFiles, vars, memory, disk
<1>7. CASE RetryCockroachNode
  <2>1. retries - 1 \in Nat
    BY <1>7 DEF RetryCockroachNode, TypeInv, TypeOK
  <2>2. keys'.state = keys.state
    BY <1>7, <2>1, InitClusterOK DEF RetryCockroachNode
  <2> QED BY <1>1, <1>7, <2>2 DEF RetryCockroachNode, memory
<1>8. CASE Restart
  BY <1>8 DEF Restart, Fresh, ShownInv
<1> QED BY <1>2, <1>3, <1>4, <1>5, <1>6, <1>7, <1>8 DEF Next, PressAny

(* The state that a node shows between two calls is the one that it finds in its
   keyring after a crash, whatever fails and however the calls overlap. *)
THEOREM ShownIsStored == Spec => []StoredIsShown
<1>1. Init => ShownInv
  BY DEF Init, ShownInv
<1>2. TypeInv /\ ShownInv => StoredIsShown
  BY DEF StoredIsShown, Idle, ShownInv, Pending
<1> QED BY <1>1, <1>2, TypeAlways, ShownNext, PTL DEF Spec

-----------------------------------------------------------------------------
(* A started election has its services *)

(* A service runs, or a call is about to start it: either the call that moves
   sees to that, or it did not before. *)
LEMMA ServicesStep ==
  ASSUME ServicesInv, NEW c \in Calls, \A d \in Calls \ {c} : calls'[d] = calls[d],
         state' = "ELECTION_STARTED" => state = "ELECTION_STARTED",
         \/ client' \/ NextIn(c, {"self", "node", "api", "client", "wipe"})'
         \/ (client => client') /\ ~NextIn(c, {"self", "node", "api", "client", "wipe"}),
         \/ ApiTried' \/ NextIn(c, {"self", "node", "api"})'
         \/ (ApiTried => ApiTried') /\ ~NextIn(c, {"self", "node", "api"}),
         \/ nodeLoops' > 0 \/ NextIn(c, {"self", "node"})'
         \/ (nodeLoops > 0 => nodeLoops' > 0) /\ ~NextIn(c, {"self", "node"})
  PROVE  ServicesInv'
<1>1. ASSUME NEW labels, AtAny(labels), ~NextIn(c, labels)
      PROVE  AtAny(labels)'
  <2>1. PICK d \in Calls : calls[d] # <<>> /\ Head(calls[d]) \in labels
    BY <1>1 DEF AtAny
  <2>2. d # c /\ calls'[d] = calls[d]
    BY <1>1, <2>1 DEF NextIn
  <2> QED BY <2>1, <2>2 DEF AtAny
<1>2. ASSUME NEW labels, NextIn(c, labels)'
      PROVE  AtAny(labels)'
  BY <1>2 DEF AtAny, NextIn
<1> HIDE DEF AtAny, NextIn
<1> SUFFICES ASSUME state' = "ELECTION_STARTED"
             PROVE  /\ client' \/ AtAny({"self", "node", "api", "client", "wipe"})'
                    /\ ApiTried' \/ AtAny({"self", "node", "api"})'
                    /\ nodeLoops' > 0 \/ AtAny({"self", "node"})'
  BY DEF ServicesInv
<1>3. /\ client \/ AtAny({"self", "node", "api", "client", "wipe"})
      /\ ApiTried \/ AtAny({"self", "node", "api"})
      /\ nodeLoops > 0 \/ AtAny({"self", "node"})
  BY DEF ServicesInv
<1>4. client' \/ AtAny({"self", "node", "api", "client", "wipe"})'
  BY <1>1, <1>2, <1>3
<1>5. ApiTried' \/ AtAny({"self", "node", "api"})'
  BY <1>1, <1>2, <1>3
<1>6. nodeLoops' > 0 \/ AtAny({"self", "node"})'
  BY <1>1, <1>2, <1>3
<1> QED BY <1>4, <1>5, <1>6

(* A call that begins to start the services sees to all of them. *)
LEMMA ServicesBegin ==
  ASSUME NEW c \in Calls, calls'[c] # <<>>, Head(calls'[c]) \in {"self", "node"}
  PROVE  ServicesInv'
<1>1. /\ AtAny({"self", "node", "api", "client", "wipe"})'
      /\ AtAny({"self", "node", "api"})' /\ AtAny({"self", "node"})'
  BY DEF AtAny
<1> HIDE DEF AtAny
<1> QED BY <1>1 DEF ServicesInv

(* A call that shows the election as started has started the services, or starts
   them. *)
LEMMA ServicesContinue ==
  ASSUME TypeInv, ServicesInv, "certs" \notin Failures, NEW c \in Calls, Continue(c)
  PROVE  ServicesInv'
<1>1. ASSUME state' # "ELECTION_STARTED" PROVE ServicesInv'
  BY <1>1 DEF ServicesInv
<1>2. ASSUME NEW label \in {"write", "readState", "restore", "flag", "load", "pressed", "deleteAll"},
             calls[c] # <<>>, Head(calls[c]) = label,
             \A d \in Calls \ {c} : calls'[d] = calls[d], state' = state,
             client' = client, ApiTried' = ApiTried, nodeLoops' = nodeLoops
      PROVE  ServicesInv'
  <2>1. /\ ~NextIn(c, {"self", "node", "api", "client", "wipe"})
        /\ ~NextIn(c, {"self", "node", "api"}) /\ ~NextIn(c, {"self", "node"})
    BY <1>2 DEF NextIn
  <2> QED BY <1>2, <2>1, ServicesStep
<1>3. CASE WriteState(c)
  BY <1>2, <1>3, DoneOK DEF WriteState, At, memory, services, ApiTried
<1>4. CASE ReadState(c)
  BY <1>2, <1>4, ReadStateOK DEF ReadState, memory, services, ApiTried
<1>5. CASE Restore(c)
  <2>1. /\ At(c, "restore") /\ \A d \in Calls \ {c} : calls'[d] = calls[d]
        /\ \/ /\ setupData' \in {"own", "box"} /\ state' = Name(c)
              /\ calls'[c] # <<>> /\ Head(calls'[c]) = Entered(Name(c), setupData').todo[1]
           \/ state' = state
    BY <1>5, RestoreOK
  <2>2. CASE state' = state
    BY <1>2, <1>5, <2>1, <2>2 DEF Restore, At, services, ApiTried
  <2>3. CASE /\ setupData' \in {"own", "box"} /\ state' = Name(c)
             /\ calls'[c] # <<>> /\ Head(calls'[c]) = Entered(Name(c), setupData').todo[1]
    <3> PICK data : data = setupData'
      OBVIOUS
    <3>1. data \in Setups /\ data # "none"
      BY <2>3 DEF Setups
    <3>2. ASSUME Name(c) = "ELECTION_STARTED" PROVE Head(calls'[c]) = "self"
      BY <2>3, <3>1, <3>2, EnteredIs, FirstService DEF CVStates
    <3> QED BY <1>1, <2>3, <3>2, ServicesBegin
  <2> QED BY <2>1, <2>2, <2>3
<1>6. CASE WriteFlag(c)
  BY <1>2, <1>6, DoneOK DEF WriteFlag, At, memory, services, ApiTried
<1>7. CASE CreateElection(c)
  BY <1>1, <1>7, CreateOK
<1>8. CASE LoadBallotBox(c)
  <2>1. /\ At(c, "load") /\ \A d \in Calls \ {c} : calls'[d] = calls[d]
        /\ state' = state \/ state' = "AWAITING_SETUP"
    BY <1>8, LoadOK
  <2> QED BY <1>1, <1>2, <1>8, <2>1 DEF LoadBallotBox, At, services, ApiTried
<1>9. CASE WriteBoxKey(c)
  BY <1>1, <1>9, BoxKeyOK
<1>10. CASE FindSelf(c)
  BY <1>1, <1>10, FindSelfOK, ServicesBegin
<1>11. CASE StartCockroachNode(c)
  <2>1. calls[c] # <<>> /\ Head(calls[c]) = "node" /\ Done(c) /\ nodeLoops \in Nat
    BY <1>11 DEF StartCockroachNode, At, TypeInv, TypeOK
  <2>2. /\ calls'[c] # <<>> /\ Head(calls'[c]) = "api"
        /\ \A d \in Calls \ {c} : calls'[d] = calls[d]
    BY <2>1, DoneOK DEF Ends, Follow
  <2>3. state' = state /\ ApiTried' = ApiTried /\ client' = client /\ nodeLoops' > 0
    BY <1>11, <2>1 DEF StartCockroachNode, memory, ApiTried
  <2>4. /\ NextIn(c, {"self", "node", "api", "client", "wipe"})'
        /\ NextIn(c, {"self", "node", "api"})'
    BY <2>2 DEF NextIn
  <2> QED BY <2>2, <2>3, <2>4, ServicesStep
<1>12. CASE StartCampusVoteAPI(c)
  <2>1. calls[c] # <<>> /\ Head(calls[c]) = "api" /\ Done(c) /\ apiLoops \in Nat
    BY <1>12 DEF StartCampusVoteAPI, At, TypeInv, TypeOK
  <2>2. /\ calls'[c] # <<>> /\ Head(calls'[c]) = "client"
        /\ \A d \in Calls \ {c} : calls'[d] = calls[d]
    BY <2>1, DoneOK DEF Ends, Follow
  <2>3. state' = state /\ nodeLoops' = nodeLoops /\ client' = client /\ ApiTried'
    BY <1>12, <2>1 DEF StartCampusVoteAPI, memory, ApiTried
  <2>4. /\ NextIn(c, {"self", "node", "api", "client", "wipe"})'
        /\ ~NextIn(c, {"self", "node"})
    BY <2>1, <2>2 DEF NextIn
  <2> QED BY <2>2, <2>3, <2>4, ServicesStep
<1>13. CASE RegisterClient(c)
  <2>1. /\ At(c, "client") /\ \A d \in Calls \ {c} : calls'[d] = calls[d]
        /\ (client' = TRUE /\ state' = state) \/ state' = "READY_TO_START_ELECTION"
    BY <1>13, RegisterOK DEF TypeInv, TypeOK
  <2>2. ApiTried' = ApiTried /\ nodeLoops' = nodeLoops
    BY <1>13 DEF RegisterClient, services, ApiTried
  <2>3. ~NextIn(c, {"self", "node", "api"}) /\ ~NextIn(c, {"self", "node"})
    BY <2>1 DEF NextIn, At
  <2> QED BY <1>1, <2>1, <2>2, <2>3, ServicesStep
<1>14. CASE ToStarted(c)
  BY <1>1, <1>14, ToStartedOK, ServicesBegin
<1>15. CASE StartElection(c)
  <2>1. /\ \A d \in Calls \ {c} : calls'[d] = calls[d]
        /\ At(c, "pressed")
        /\ state' = state \/ state' = "AWAITING_SETUP" \/ state' = "STARTING_ELECTION"
    BY <1>15, StartElectionOK
  <2> QED BY <1>1, <1>2, <1>15, <2>1 DEF StartElection, At, services, ApiTried
<1>16. CASE Wipe(c)
  BY <1>1, <1>16 DEF Wipe
<1>17. CASE WipeKeys(c)
  BY <1>2, <1>17, DoneOK DEF WipeKeys, At, memory, services, ApiTried
<1> QED BY <1>3, <1>4, <1>5, <1>6, <1>7, <1>8, <1>9, <1>10, <1>11, <1>12, <1>13, <1>14, <1>15,
           <1>16, <1>17 DEF Continue

(* No other step stops a service, but for a restart, which shows no election. *)
LEMMA ServicesNext ==
  ASSUME "certs" \notin Failures
  PROVE  TypeInv /\ ServicesInv /\ [Next]_vars => ServicesInv'
<1> SUFFICES ASSUME TypeInv, ServicesInv, [Next]_vars PROVE ServicesInv'
  OBVIOUS
<1>1. ASSUME calls' = calls, state' = state, client' = client, ApiTried' = ApiTried,
             nodeLoops > 0 => nodeLoops' > 0
      PROVE  ServicesInv'
  BY <1>1 DEF ServicesInv, AtAny
<1>2. ASSUME NEW c \in Calls, Continue(c)
      PROVE  ServicesInv'
  BY <1>2, ServicesContinue
<1>3. ASSUME NEW c \in Calls, PressCreate(c)
      PROVE  ServicesInv'
  BY <1>3, PressCreateOK DEF ServicesInv
<1>4. ASSUME NEW c \in Calls, NEW data \in {"good", "bad"}, PressLoad(c, data)
      PROVE  ServicesInv'
  BY <1>4, PressLoadOK DEF ServicesInv
<1>5. ASSUME NEW c \in Calls, PressStart(c) \/ PressDelete(c)
      PROVE  ServicesInv'
  <2>1. /\ state' = state /\ ApiTried' = ApiTried /\ nodeLoops' = nodeLoops /\ calls[c] = <<>>
    BY <1>5 DEF PressStart, PressDelete, Press, memory, services, ApiTried
  <2>2. \A d \in Calls \ {c} : calls'[d] = calls[d]
    BY <1>5, PushOK DEF PressStart, PressDelete
  <2>3. /\ ~NextIn(c, {"self", "node", "api", "client", "wipe"})
        /\ ~NextIn(c, {"self", "node", "api"}) /\ ~NextIn(c, {"self", "node"})
    BY <2>1 DEF NextIn
  <2>4. client' = client \/ NextIn(c, {"self", "node", "api", "client", "wipe"})'
    <3>1. CASE PressDelete(c)
      <4>1. calls'[c] = <<"wipe">>
        BY <3>1, PushOK DEF PressDelete
      <4> QED BY <4>1 DEF NextIn
    <3>2. CASE PressStart(c)
      BY <3>2 DEF PressStart, memory
    <3> QED BY <1>5, <3>1, <3>2
  <2> QED BY <2>1, <2>2, <2>3, <2>4, ServicesStep
<1>6. ASSUME \/ \E dialog \in {"load", "start"} : OpenPopup(dialog)
             \/ ClosePopup \/ WipeFiles \/ UNCHANGED vars
      PROVE  ServicesInv'
  BY <1>1, <1>6 DEF OpenPopup, ClosePopup, WipeFiles, vars, memory, services, ApiTried
<1>7. CASE RetryCockroachNode
  <2>1. nodeLoops' > 0
    BY <1>7 DEF RetryCockroachNode, TypeInv, TypeOK
  <2> QED BY <1>1, <1>7, <2>1 DEF RetryCockroachNode, memory, ApiTried
<1>8. CASE Restart
  BY <1>8 DEF Restart, Fresh, ServicesInv
<1> QED BY <1>2, <1>3, <1>4, <1>5, <1>6, <1>7, <1>8 DEF Next, PressAny

(* An election is shown as started only with its client, its database and its API,
   which lacks a loop only if no password was read for it, while the certificates
   of the client can be read: without them a fresh program goes on as if it had a
   client (state_controller.dart:147). *)
THEOREM StartedRunsServices ==
  ASSUME "certs" \notin Failures
  PROVE  Spec => []StartedHasServices
<1>1. Init => ServicesInv
  BY DEF Init, ServicesInv
<1>2. ServicesInv => StartedHasServices
  BY DEF StartedHasServices, Idle, ServicesInv, AtAny, ApiTried
<1>3. TypeInv /\ ServicesInv /\ [Next]_vars => ServicesInv'
  BY ServicesNext
<1> QED BY <1>1, <1>2, <1>3, TypeAlways, PTL DEF Spec

-----------------------------------------------------------------------------
(* A box restores, and does not create *)

(* The label of a call says what it does next. *)
LEMMA ContinueHead ==
  ASSUME NEW c \in Calls, Continue(c)
  PROVE  /\ calls[c] # <<>>
         /\ \/ Head(calls[c]) = "write" /\ WriteState(c)
            \/ Head(calls[c]) = "readState" /\ ReadState(c)
            \/ Head(calls[c]) = "restore" /\ Restore(c)
            \/ Head(calls[c]) = "flag" /\ WriteFlag(c)
            \/ Head(calls[c]) = "create" /\ CreateElection(c)
            \/ Head(calls[c]) = "load" /\ LoadBallotBox(c)
            \/ Head(calls[c]) = "boxKey" /\ WriteBoxKey(c)
            \/ Head(calls[c]) = "self" /\ FindSelf(c)
            \/ Head(calls[c]) = "node" /\ StartCockroachNode(c)
            \/ Head(calls[c]) = "api" /\ StartCampusVoteAPI(c)
            \/ Head(calls[c]) = "client" /\ RegisterClient(c)
            \/ Head(calls[c]) \in {"toStarted", "again"} /\ ToStarted(c)
            \/ Head(calls[c]) = "pressed" /\ StartElection(c)
            \/ Head(calls[c]) = "wipe" /\ Wipe(c)
            \/ Head(calls[c]) = "deleteAll" /\ WipeKeys(c)
<1>1. CASE WriteState(c)
  BY <1>1 DEF WriteState, At
<1>2. CASE ReadState(c)
  BY <1>2 DEF ReadState, At
<1>3. CASE Restore(c)
  BY <1>3 DEF Restore, At
<1>4. CASE WriteFlag(c)
  BY <1>4 DEF WriteFlag, At
<1>5. CASE CreateElection(c)
  BY <1>5 DEF CreateElection, At
<1>6. CASE LoadBallotBox(c)
  BY <1>6 DEF LoadBallotBox, At
<1>7. CASE WriteBoxKey(c)
  BY <1>7 DEF WriteBoxKey, At
<1>8. CASE FindSelf(c)
  BY <1>8 DEF FindSelf, At
<1>9. CASE StartCockroachNode(c)
  BY <1>9 DEF StartCockroachNode, At
<1>10. CASE StartCampusVoteAPI(c)
  BY <1>10 DEF StartCampusVoteAPI, At
<1>11. CASE RegisterClient(c)
  BY <1>11 DEF RegisterClient, At
<1>12. CASE ToStarted(c)
  BY <1>12 DEF ToStarted, At
<1>13. CASE StartElection(c)
  BY <1>13 DEF StartElection, At
<1>14. CASE Wipe(c)
  BY <1>14 DEF Wipe, At
<1>15. CASE WipeKeys(c)
  BY <1>15 DEF WipeKeys, At
<1> QED BY <1>1, <1>2, <1>3, <1>4, <1>5, <1>6, <1>7, <1>8, <1>9, <1>10, <1>11, <1>12, <1>13,
           <1>14, <1>15 DEF Continue

(* The calls of a box that has no setup. *)
LEMMA EarlyKinds ==
  ASSUME NEW s \in EarlyStacks, s # <<>>
  PROVE  /\ Head(s) \in {"write", "readState", "load", "boxKey", "restore"}
         /\ Head(s) = "write" => Tail(s) = <<>>
         /\ Head(s) \in {"readState", "load", "boxKey"} => Tail(s) = <<"write">>
         /\ Head(s) = "restore" => s[2] \in Late /\ Tail(Tail(s)) = <<"write">>
<1>1. {"write", "readState", "load", "boxKey", "restore"} \subseteq Labels /\ Late \subseteq Labels
  BY DEF Labels, Late
<1>2. CASE s = <<"write">>
  BY <1>1, <1>2, TailFew
<1>3. ASSUME NEW x \in {"readState", "load", "boxKey"}, s = <<x, "write">>
      PROVE  Head(s) = x /\ Tail(s) = <<"write">>
  BY <1>1, <1>3, TailFew
<1>4. ASSUME NEW new \in Late, s = <<"restore", new, "write">>
      PROVE  Head(s) = "restore" /\ s[2] \in Late /\ Tail(Tail(s)) = <<"write">>
  <2>1. /\ Head(s) = "restore" /\ s[2] = new /\ Tail(s) = <<new, "write">>
        /\ Tail(<<new, "write">>) = <<"write">>
    BY <1>1, <1>4, TailFew
  <2> QED BY <2>1
<1>5. \/ s = <<"write">>
      \/ \E x \in {"readState", "load", "boxKey"} : s = <<x, "write">>
      \/ \E new \in Late : s = <<"restore", new, "write">>
  BY DEF EarlyStacks
<1>6. CASE s = <<"write">>
  <2>1. Head(s) = "write" /\ Tail(s) = <<>>
    BY <1>1, <1>6, TailFew
  <2> QED BY <2>1
<1> QED BY <1>3, <1>4, <1>5, <1>6

(* A box whose only call does this is before its setup. *)
LEMMA SoleEarly ==
  ASSUME NEW c \in Calls, \A d \in Calls \ {c} : calls'[d] = <<>>, calls'[c] \in EarlyStacks,
         popup' = "none", state' = "INITIALIZING_ELECTION" <=> NextIn(c, {"load", "boxKey"})',
         setupData' # "none" <=> NextIn(c, {"boxKey"})'
  PROVE  BoxEarly'
<1>1. <<>> \in EarlyStacks
  BY DEF EarlyStacks
<1>2. /\ AtAny({"boxKey"})' <=> NextIn(c, {"boxKey"})'
      /\ AtAny({"load", "boxKey"})' <=> NextIn(c, {"load", "boxKey"})'
  BY DEF AtAny, NextIn
<1>3. \A d \in Calls : calls'[d] \in EarlyStacks
  BY <1>1
<1>4. \A d \in Calls : calls'[d] # <<>> => Alone(d)'
  BY DEF Alone
<1> QED BY <1>2, <1>3, <1>4 DEF BoxEarly

(* The labels of a setup that is entered for a box. *)
LEMMA LateTodo ==
  ASSUME NEW new \in Late, NEW data \in Setups, data # "none"
  PROVE  Range(Entered(new, data).todo) \subseteq LateLabels
<1>1. \/ Entered(new, data).todo = <<"write">>
      \/ Entered(new, data).todo = StartServices \o <<"toStarted", "again", "write">>
      \/ Entered(new, data).todo = StartServices \o <<"write">>
  BY EnteredIs DEF Late, Early, CVStates
<1>2. /\ Range(<<"write">>) = {"write"} /\ Range(StartServices) = ServiceLabels
      /\ Range(<<"toStarted", "again", "write">>) = {"toStarted", "again", "write"}
  BY RangeFew
<1>3. /\ StartServices \in Seq(Labels) /\ <<"write">> \in Seq(Labels)
      /\ <<"toStarted", "again", "write">> \in Seq(Labels)
  BY DEF StartServices, Labels
<1>4. /\ Range(StartServices \o <<"write">>) = Range(StartServices) \cup Range(<<"write">>)
      /\ Range(StartServices \o <<"toStarted", "again", "write">>)
           = Range(StartServices) \cup Range(<<"toStarted", "again", "write">>)
  BY <1>3, RangeConcat
<1> QED BY <1>1, <1>2, <1>4 DEF LateLabels

(* Only the call that moves has other labels than before. *)
LEMMA LateStep ==
  ASSUME NEW labels, NEW c \in Calls, Range(calls'[c]) \subseteq labels,
         \A d \in Calls \ {c} : Range(calls'[d]) \subseteq labels
  PROVE  LabelsIn(labels)'
<1> QED BY DEF LabelsIn

(* What a box does when it is not running a call. *)
LEMMA BoxFresh ==
  ASSUME Fresh
  PROVE  BoxEarly'
<1>1. PICK c \in Calls : /\ calls'[c] = <<"readState", "write">>
                         /\ \A d \in Calls \ {c} : calls'[d] = <<>>
  BY FreshOK
<1>2. calls'[c] \in EarlyStacks
  BY <1>1 DEF EarlyStacks
<1>3. ~NextIn(c, {"load", "boxKey"})' /\ ~NextIn(c, {"boxKey"})'
  BY <1>1 DEF NextIn
<1>4. popup' = "none" /\ state' = "AWAITING_SETUP" /\ setupData' = "none"
  BY DEF Fresh
<1> QED BY <1>1, <1>2, <1>3, <1>4, SoleEarly

(* A call of a box without its setup never sets the flag of the committee. *)
LEMMA BoxEarlyContinue ==
  ASSUME TypeInv, BoxInv, role # "committee", state \in Early, NEW c \in Calls, Continue(c)
  PROVE  /\ ~keys'.committee /\ keys'.state # "INITIALIZING_ELECTION" /\ ~wiping'
         /\ state' \in Early => BoxEarly'
         /\ state' \in Late => SetUp'
<1>1. /\ ~keys.committee /\ keys.state # "INITIALIZING_ELECTION" /\ ~wiping /\ BoxEarly
      /\ keys \in KeysType /\ state \in CVStates /\ setupData \in Setups
  BY DEF BoxInv, TypeInv, TypeOK, KeysType
<1>2. calls[c] # <<>> /\ calls[c] \in EarlyStacks /\ \A d \in Calls \ {c} : calls[d] = <<>>
  BY <1>1, ContinueHead DEF BoxEarly, Alone
<1>3. popup = "none"
  BY <1>1, <1>2 DEF BoxEarly, TypeInv, TypeOK
<1>4. /\ setupData # "none" <=> Head(calls[c]) = "boxKey"
      /\ state = "INITIALIZING_ELECTION" <=> Head(calls[c]) \in {"load", "boxKey"}
  BY <1>1, <1>2 DEF BoxEarly, AtAny
<1>5. "AWAITING_SETUP" \notin Late /\ "INITIALIZING_ELECTION" \notin Late /\ "READY_TO_START_ELECTION" \notin Early
  BY DEF Late, Early
<1>6. /\ <<>> \in EarlyStacks /\ <<"write">> \in EarlyStacks /\ <<"readState", "write">> \in EarlyStacks
      /\ <<"boxKey", "write">> \in EarlyStacks
  BY DEF EarlyStacks
<1>7. <<"write">> # <<>> /\ Head(<<"write">>) = "write"
  OBVIOUS
<1>8. CASE Head(calls[c]) = "write"
  <2>1. WriteState(c) /\ Tail(calls[c]) = <<>>
    BY <1>2, <1>8, ContinueHead, EarlyKinds
  <2>2. calls'[c] = <<>> /\ \A d \in Calls \ {c} : calls'[d] = <<>>
    BY <1>2, <2>1, DoneOK DEF WriteState
  <2>3. /\ keys' = [keys EXCEPT !.state = state] /\ state' = state /\ setupData' = setupData
        /\ popup' = popup /\ wiping' = wiping
    BY <2>1 DEF WriteState, memory
  <2>4. state = "AWAITING_SETUP" /\ setupData = "none"
    BY <1>4, <1>8 DEF Early
  <2>5. keys'.committee = keys.committee /\ keys'.state = "AWAITING_SETUP"
    BY <1>1, <2>3, <2>4 DEF KeysType
  <2>6. BoxEarly'
    <3>1. ~NextIn(c, {"load", "boxKey"})' /\ ~NextIn(c, {"boxKey"})'
      BY <2>2 DEF NextIn
    <3> QED BY <1>3, <1>6, <2>2, <2>3, <2>4, <3>1, SoleEarly
  <2> QED BY <1>1, <1>5, <2>3, <2>4, <2>5, <2>6
<1>9. CASE Head(calls[c]) = "readState"
  <2>1. ReadState(c) /\ Tail(calls[c]) = <<"write">>
    BY <1>2, <1>9, ContinueHead, EarlyKinds
  <2>2. /\ \A d \in Calls \ {c} : calls'[d] = calls[d]
        /\ keys.state \in {"none", "AWAITING_SETUP"} => calls'[c] = Tail(calls[c])
        /\ keys.state \notin {"none", "AWAITING_SETUP"} =>
             calls'[c] = <<"restore", keys.state>> \o Tail(calls[c])
        /\ calls'[c] # <<>> /\ Head(calls'[c]) \in {"write", "restore"}
    BY <2>1, ReadStateOK
  <2>3. /\ keys' = keys /\ state' = state /\ setupData' = setupData
        /\ popup' = popup /\ wiping' = wiping
    BY <2>1 DEF ReadState, memory, disk
  <2>4. calls'[c] \in EarlyStacks
    <3>1. CASE keys.state \in {"none", "AWAITING_SETUP"}
      BY <1>6, <2>1, <2>2, <3>1
    <3>2. CASE keys.state \notin {"none", "AWAITING_SETUP"}
      <4> PICK x : x = keys.state
        OBVIOUS
      <4>1. x \in Late /\ x \in Labels /\ "restore" \in Labels /\ "write" \in Labels
        BY <1>1, <3>2 DEF KeysType, Late, Early, Labels
      <4>2. calls'[c] = <<"restore", x>> \o <<"write">>
        BY <2>1, <2>2, <3>2
      <4>3. calls'[c] = <<"restore", x, "write">>
        BY <4>1, <4>2, ConcatFew
      <4> QED BY <4>1, <4>3 DEF EarlyStacks
    <3> QED BY <3>1, <3>2
  <2>5. ~NextIn(c, {"load", "boxKey"})' /\ ~NextIn(c, {"boxKey"})'
    BY <2>2 DEF NextIn
  <2>6. state = "AWAITING_SETUP" /\ setupData = "none"
    BY <1>4, <1>9 DEF Early
  <2>7. BoxEarly'
    BY <1>2, <1>3, <2>2, <2>3, <2>4, <2>5, <2>6, SoleEarly
  <2> QED BY <1>1, <1>5, <2>3, <2>6, <2>7
<1>10. CASE Head(calls[c]) = "restore"
  <2>1. Restore(c) /\ Name(c) \in Late /\ Callers(c) = <<"write">>
    BY <1>2, <1>10, ContinueHead, EarlyKinds DEF Name, Callers
  <2>2. keys' = keys /\ popup' = popup /\ wiping' = wiping
    BY <2>1 DEF Restore
  <2>3. /\ \A d \in Calls \ {c} : calls'[d] = calls[d]
        /\ setupData' \in Setups
        /\ \/ /\ setupData' \in {"own", "box"} /\ state' = Name(c)
              /\ Joins(calls'[c], Entered(Name(c), setupData').todo, Callers(c))
           \/ calls'[c] = <<>> /\ state' = state /\ setupData' = setupData
    BY <2>1, RestoreOK
  <2>4. CASE calls'[c] = <<>> /\ state' = state /\ setupData' = setupData
    <3>1. ~NextIn(c, {"load", "boxKey"})' /\ ~NextIn(c, {"boxKey"})'
      BY <2>4 DEF NextIn
    <3>2. state = "AWAITING_SETUP" /\ setupData = "none"
      BY <1>4, <1>10 DEF Early
    <3>3. BoxEarly'
      BY <1>2, <1>3, <1>6, <2>2, <2>3, <2>4, <3>1, <3>2, SoleEarly
    <3> QED BY <1>1, <1>5, <2>2, <2>4, <3>2, <3>3
  <2>5. CASE /\ setupData' \in {"own", "box"} /\ state' = Name(c)
             /\ Joins(calls'[c], Entered(Name(c), setupData').todo, Callers(c))
    <3> PICK data : data = setupData'
      OBVIOUS
    <3>1. Range(Entered(Name(c), data).todo) \subseteq LateLabels
      BY <2>1, <2>3, <2>5, LateTodo
    <3>2. Range(calls'[c]) \subseteq LateLabels
      BY <2>1, <2>5, <3>1, RangeFew DEF Joins, LateLabels
    <3>3. \A d \in Calls \ {c} : Range(calls'[d]) \subseteq LateLabels
      BY <1>2, <2>3, RangeFew
    <3>4. SetUp'
      BY <1>3, <2>2, <2>5, <3>2, <3>3, LateStep DEF SetUp
    <3> QED BY <1>1, <2>1, <2>2, <2>5, <3>4 DEF Late
  <2> QED BY <2>3, <2>4, <2>5
<1>11. CASE Head(calls[c]) = "load"
  <2>1. LoadBallotBox(c) /\ Tail(calls[c]) = <<"write">>
    BY <1>2, <1>11, ContinueHead, EarlyKinds
  <2>2. keys' = keys /\ popup' = popup /\ wiping' = wiping
    BY <2>1 DEF LoadBallotBox
  <2>3. state = "INITIALIZING_ELECTION" /\ setupData = "none"
    BY <1>4, <1>11
  <2>4. /\ \A d \in Calls \ {c} : calls'[d] = calls[d]
        /\ \/ /\ Unpacked[Dir] \in {"own", "box"} /\ setupData' = Unpacked[Dir] /\ state' = state
              /\ calls'[c] = <<"boxKey">> \o Tail(calls[c])
           \/ state' = "AWAITING_SETUP" /\ setupData' = setupData /\ calls'[c] = <<"readState", "write">>
    BY <2>1, LoadOK
  <2>5. <<"boxKey">> \o <<"write">> = <<"boxKey", "write">>
    BY ConcatFew DEF Labels
  <2>6. BoxEarly'
    <3>1. CASE /\ Unpacked[Dir] \in {"own", "box"} /\ setupData' = Unpacked[Dir] /\ state' = state
               /\ calls'[c] = <<"boxKey">> \o Tail(calls[c])
      <4>1. calls'[c] = <<"boxKey", "write">>
        BY <2>1, <2>5, <3>1
      <4>2. NextIn(c, {"load", "boxKey"})' /\ NextIn(c, {"boxKey"})'
        BY <4>1 DEF NextIn
      <4> QED BY <1>2, <1>3, <1>6, <2>2, <2>3, <2>4, <3>1, <4>1, <4>2, SoleEarly
    <3>2. CASE state' = "AWAITING_SETUP" /\ setupData' = setupData /\ calls'[c] = <<"readState", "write">>
      <4>1. ~NextIn(c, {"load", "boxKey"})' /\ ~NextIn(c, {"boxKey"})'
        BY <3>2 DEF NextIn
      <4> QED BY <1>2, <1>3, <1>6, <2>2, <2>3, <2>4, <3>2, <4>1, SoleEarly
    <3> QED BY <2>4, <3>1, <3>2
  <2> QED BY <1>1, <1>5, <2>2, <2>3, <2>4, <2>6
<1>12. CASE Head(calls[c]) = "boxKey"
  <2>1. WriteBoxKey(c) /\ Tail(calls[c]) = <<"write">>
    BY <1>2, <1>12, ContinueHead, EarlyKinds
  <2>2. popup' = popup /\ wiping' = wiping
    BY <2>1 DEF WriteBoxKey
  <2>3. setupData # "none"
    BY <1>4, <1>12
  <2>4. /\ \A d \in Calls \ {c} : calls'[d] = calls[d]
        /\ state' = "READY_TO_START_ELECTION" /\ setupData' = setupData
        /\ Range(calls'[c]) = {"write"} \cup Range(Tail(calls[c]))
        /\ keys' = [keys EXCEPT !.boxKey = boxData]
    BY <2>1, BoxKeyOK
  <2>5. keys'.committee = keys.committee /\ keys'.state = keys.state
    BY <1>1, <2>4 DEF KeysType
  <2>6. Range(calls'[c]) \subseteq LateLabels
    <3>1. Range(<<"write">>) = {"write"}
      BY RangeFew
    <3>2. Range(Tail(calls[c])) = {"write"}
      BY <2>1, <3>1
    <3> QED BY <2>4, <3>2 DEF LateLabels
  <2>7. \A d \in Calls \ {c} : Range(calls'[d]) \subseteq LateLabels
    BY <1>2, <2>4, RangeFew
  <2>8. SetUp'
    BY <1>3, <2>2, <2>3, <2>4, <2>6, <2>7, LateStep DEF SetUp
  <2> QED BY <1>1, <1>5, <2>2, <2>4, <2>5, <2>8
<1> QED BY <1>2, <1>8, <1>9, <1>10, <1>11, <1>12, EarlyKinds

(* Calls of a setup that is there go on with the services and the button. *)
LEMMA LateContinue ==
  ASSUME TypeInv, SetUp, state \in Late, NEW c \in Calls, Continue(c)
  PROVE  /\ SetUp' /\ state' \in Late /\ ~(wiping' /\ ~wiping)
         /\ keys'.committee = keys.committee
         /\ keys'.state = keys.state \/ keys'.state \in Late
<1>1. /\ keys \in KeysType /\ setupData # "none" /\ popup # "load" /\ LabelsIn(LateLabels)
  BY DEF SetUp, TypeInv, TypeOK, KeysType
<1>2. /\ calls[c] # <<>> /\ calls[c] \in Seq(Labels)
      /\ Range(calls[c]) \subseteq LateLabels /\ Head(calls[c]) \in LateLabels
  <2>1. calls[c] # <<>> /\ calls[c] \in Seq(Labels) /\ Range(calls[c]) \subseteq LateLabels
    BY <1>1, ContinueHead DEF LabelsIn, TypeInv, TypeOK
  <2> QED BY <2>1, RangeTail
<1>3. ASSUME \A d \in Calls \ {c} : calls'[d] = calls[d], Range(calls'[c]) \subseteq LateLabels,
             setupData' = setupData, popup' \in {popup, "none"}
      PROVE  SetUp'
  <2>1. \A d \in Calls \ {c} : Range(calls'[d]) \subseteq LateLabels
    BY <1>1, <1>3 DEF LabelsIn
  <2>2. LabelsIn(LateLabels)'
    BY <1>3, <2>1, LateStep
  <2> QED BY <1>1, <1>3, <2>2 DEF SetUp
<1>4. "READY_TO_START_ELECTION" \in Late /\ "STARTING_ELECTION" \in Late /\ "ELECTION_STARTED" \in Late
  BY DEF Late, Early, CVStates
<1>5. CASE WriteState(c)
  <2>1. /\ \A d \in Calls \ {c} : calls'[d] = calls[d]
        /\ Range(calls'[c]) \subseteq LateLabels
    BY <1>2, <1>5, DoneOK DEF WriteState
  <2>2. keys'.state = state /\ keys'.committee = keys.committee
    BY <1>1, <1>5 DEF WriteState, KeysType
  <2> QED BY <1>3, <1>5, <2>1, <2>2 DEF WriteState, memory
<1>6. CASE FindSelf(c)
  <2>1. /\ \A d \in Calls \ {c} : calls'[d] = calls[d]
        /\ Range(calls'[c]) \subseteq LateLabels /\ setupData' = setupData
        /\ state' = state \/ state' = "READY_TO_START_ELECTION"
    BY <1>2, <1>6, FindSelfOK DEF LateLabels
  <2> QED BY <1>3, <1>4, <1>6, <2>1 DEF FindSelf, disk
<1>7. CASE StartCockroachNode(c)
  <2>1. /\ \A d \in Calls \ {c} : calls'[d] = calls[d]
        /\ Range(calls'[c]) \subseteq LateLabels
    BY <1>2, <1>7, DoneOK DEF StartCockroachNode
  <2>2. keys'.state = keys.state /\ keys'.committee = keys.committee
    BY <1>7, InitClusterOK DEF StartCockroachNode, TypeInv, TypeOK
  <2> QED BY <1>3, <1>7, <2>1, <2>2 DEF StartCockroachNode, memory
<1>8. CASE StartCampusVoteAPI(c)
  <2>1. /\ \A d \in Calls \ {c} : calls'[d] = calls[d]
        /\ Range(calls'[c]) \subseteq LateLabels
    BY <1>2, <1>8, DoneOK DEF StartCampusVoteAPI
  <2> QED BY <1>3, <1>8, <2>1 DEF StartCampusVoteAPI, memory, disk
<1>9. CASE RegisterClient(c)
  <2>1. /\ \A d \in Calls \ {c} : calls'[d] = calls[d]
        /\ Range(calls'[c]) \subseteq LateLabels /\ setupData' = setupData
        /\ state' = state \/ state' = "READY_TO_START_ELECTION"
    BY <1>2, <1>9, RegisterOK DEF LateLabels
  <2> QED BY <1>3, <1>4, <1>9, <2>1 DEF RegisterClient, disk
<1>10. CASE ToStarted(c)
  <2>1. /\ \A d \in Calls \ {c} : calls'[d] = calls[d]
        /\ Range(calls'[c]) \subseteq LateLabels /\ setupData' = setupData
        /\ state' = "ELECTION_STARTED"
    BY <1>1, <1>2, <1>10, ToStartedOK DEF LateLabels
  <2> QED BY <1>3, <1>4, <1>10, <2>1 DEF ToStarted, disk
<1>11. CASE StartElection(c)
  <2>1. Range(<<>>) = {}
    BY RangeFew
  <2>2. /\ \A d \in Calls \ {c} : calls'[d] = calls[d]
        /\ Range(calls'[c]) \subseteq LateLabels /\ setupData' = setupData
        /\ state' = state \/ state' = "STARTING_ELECTION"
    BY <1>1, <1>11, <2>1, StartElectionOK DEF LateLabels
  <2> QED BY <1>3, <1>4, <1>11, <2>2 DEF StartElection, disk
<1> QED BY <1>2, <1>5, <1>6, <1>7, <1>8, <1>9, <1>10, <1>11, ContinueHead
     DEF LateLabels, ServiceLabels

(* Buttons of a box. *)
LEMMA BoxButtons ==
  ASSUME TypeInv, BoxInv, role # "committee", "load" \notin Hasty, "box" \notin Deleters,
         \/ \E c \in Calls : PressAny(c)
         \/ \E dialog \in {"load", "start"} : OpenPopup(dialog)
         \/ ClosePopup
  PROVE  /\ keys' = keys /\ wiping' = wiping
         /\ state' \in Early => BoxEarly'
         /\ state' \in Late => SetUp'
<1>1. /\ keys \in KeysType /\ state \in CVStates /\ role = "box"
      /\ state \in Early => BoxEarly
      /\ state \in Late => SetUp
      /\ popup \in {"none", "load", "start"}
  BY UserAssumption DEF BoxInv, TypeInv, TypeOK, KeysType
<1>2. "AWAITING_SETUP" \in Early /\ Early \cap Late = {} /\ CVStates = Early \cup Late
  BY DEF Late, Early, CVStates
<1>3. ASSUME NEW c \in Calls, NEW data \in {"good", "bad"}, PressLoad(c, data)
      PROVE  /\ keys' = keys /\ wiping' = wiping
             /\ state' \in Early => BoxEarly'
             /\ state' \in Late => SetUp'
  <2>1. popup = "load" /\ popup' = "none" /\ keys' = keys /\ wiping' = wiping
    BY <1>3 DEF PressLoad, disk
  <2>2. BoxEarly /\ \A d \in Calls : calls[d] = <<>>
    BY <1>1, <1>2, <2>1 DEF BoxEarly, SetUp
  <2>3. setupData = "none"
    BY <2>2 DEF BoxEarly, AtAny
  <2>4. /\ calls'[c] = <<"load", "write">> /\ \A d \in Calls \ {c} : calls'[d] = <<>>
        /\ state' = "INITIALIZING_ELECTION" /\ setupData' = "none"
    BY <1>3, <2>2, <2>3, PressLoadOK
  <2>5. calls'[c] \in EarlyStacks /\ NextIn(c, {"load", "boxKey"})' /\ ~NextIn(c, {"boxKey"})'
    BY <2>4 DEF EarlyStacks, NextIn
  <2>6. BoxEarly'
    BY <2>1, <2>4, <2>5, SoleEarly
  <2>7. state' \notin Late
    BY <2>4 DEF Late, Early
  <2> QED BY <2>1, <2>6, <2>7
<1>4. ASSUME NEW c \in Calls, PressStart(c)
      PROVE  /\ keys' = keys /\ wiping' = wiping
             /\ state' \in Early => BoxEarly'
             /\ state' \in Late => SetUp'
  <2>1. /\ popup = "start" /\ popup' = popup /\ state' = state /\ setupData' = setupData
        /\ keys' = keys /\ wiping' = wiping /\ calls' = [calls EXCEPT ![c] = <<"pressed">>]
    BY <1>4 DEF PressStart, disk, memory
  <2>2. SetUp /\ state \in Late
    BY <1>1, <1>2, <2>1 DEF BoxEarly
  <2>3. Range(calls'[c]) \subseteq LateLabels /\ \A d \in Calls \ {c} : calls'[d] = calls[d]
    <3>1. calls'[c] = <<"pressed">> /\ \A d \in Calls \ {c} : calls'[d] = calls[d]
      BY <2>1, PushOK
    <3> QED BY <3>1, RangeFew DEF LateLabels
  <2>4. \A d \in Calls \ {c} : Range(calls'[d]) \subseteq LateLabels
    BY <2>2, <2>3 DEF SetUp, LabelsIn
  <2>5. SetUp'
    BY <2>1, <2>2, <2>3, <2>4, LateStep DEF SetUp
  <2> QED BY <1>2, <2>1, <2>2, <2>5
<1>5. ASSUME NEW c \in Calls
      PROVE  ~PressCreate(c) /\ ~PressDelete(c)
  BY <1>1 DEF PressCreate, PressDelete
<1>6. ASSUME NEW dialog \in {"load", "start"}, OpenPopup(dialog)
      PROVE  /\ keys' = keys /\ wiping' = wiping
             /\ state' \in Early => BoxEarly'
             /\ state' \in Late => SetUp'
  <2>1. /\ popup' = dialog /\ state' = state /\ setupData' = setupData /\ calls' = calls
        /\ keys' = keys /\ wiping' = wiping
    BY <1>6 DEF OpenPopup, disk
  <2>2. CASE dialog = "load"
    <3>1. state = "AWAITING_SETUP" /\ \A d \in Calls : calls[d] = <<>>
      BY <1>6, <2>2 DEF OpenPopup, Idle
    <3>2. BoxEarly'
      BY <1>1, <1>2, <2>1, <2>2, <3>1 DEF BoxEarly, AtAny, Alone
    <3> QED BY <1>2, <2>1, <3>1, <3>2
  <2>3. CASE dialog = "start"
    <3>1. state = "READY_TO_START_ELECTION" /\ state \in Late
      BY <1>6, <2>3 DEF OpenPopup, Late, Early, CVStates
    <3>2. SetUp'
      BY <1>1, <2>1, <2>3, <3>1 DEF SetUp, LabelsIn
    <3> QED BY <1>2, <2>1, <3>1, <3>2
  <2> QED BY <2>2, <2>3
<1>7. ASSUME ClosePopup
      PROVE  /\ keys' = keys /\ wiping' = wiping
             /\ state' \in Early => BoxEarly'
             /\ state' \in Late => SetUp'
  <2>1. /\ popup' = "none" /\ state' = state /\ setupData' = setupData /\ calls' = calls
        /\ keys' = keys /\ wiping' = wiping
    BY <1>7 DEF ClosePopup, disk
  <2>2. state \in Early => BoxEarly'
    BY <1>1, <2>1 DEF BoxEarly, AtAny, Alone
  <2>3. state \in Late => SetUp'
    BY <1>1, <2>1 DEF SetUp, LabelsIn
  <2> QED BY <2>1, <2>2, <2>3
<1> QED BY <1>3, <1>4, <1>5, <1>6, <1>7 DEF PressAny

(* Nor does any other step of a box. *)
LEMMA BoxNext ==
  ASSUME "load" \notin Hasty, "box" \notin Deleters
  PROVE  TypeInv /\ BoxInv /\ [Next]_vars => BoxInv'
<1> SUFFICES ASSUME TypeInv, BoxInv, [Next]_vars, role # "committee", role' = role
             PROVE  /\ ~keys'.committee /\ keys'.state # "INITIALIZING_ELECTION" /\ ~wiping'
                    /\ state' \in Early => BoxEarly'
                    /\ state' \in Late => SetUp'
  <2>1. ASSUME [Next]_vars PROVE role' = role
    BY <2>1, RoleStays
  <2> QED BY <2>1 DEF BoxInv
<1>1. /\ ~keys.committee /\ keys.state # "INITIALIZING_ELECTION" /\ ~wiping
      /\ state \in Early => BoxEarly
      /\ state \in Late => SetUp
      /\ state \in Early \cup Late
  BY DEF BoxInv, TypeInv, TypeOK, Late
<1>2. Early \cap Late = {} /\ "INITIALIZING_ELECTION" \notin Late /\ "AWAITING_SETUP" \notin Late
  BY DEF Late, Early
<1>3. ASSUME NEW c \in Calls, Continue(c)
      PROVE  /\ ~keys'.committee /\ keys'.state # "INITIALIZING_ELECTION" /\ ~wiping'
             /\ state' \in Early => BoxEarly'
             /\ state' \in Late => SetUp'
  <2>1. CASE state \in Early
    BY <1>3, <2>1, BoxEarlyContinue
  <2>2. CASE state \in Late
    BY <1>1, <1>2, <1>3, <2>2, LateContinue DEF Late
  <2> QED BY <1>1, <2>1, <2>2
<1>4. ASSUME calls' = calls, state' = state, setupData' = setupData, popup' = popup,
             keys'.committee = keys.committee, keys'.state = keys.state, wiping' = wiping
      PROVE  /\ ~keys'.committee /\ keys'.state # "INITIALIZING_ELECTION" /\ ~wiping'
             /\ state' \in Early => BoxEarly'
             /\ state' \in Late => SetUp'
  <2>1. state \in Early => BoxEarly'
    BY <1>1, <1>4 DEF BoxEarly, AtAny, Alone
  <2>2. state \in Late => SetUp'
    BY <1>1, <1>4 DEF SetUp, LabelsIn
  <2> QED BY <1>1, <1>4, <2>1, <2>2
<1>5. CASE \/ \E c \in Calls : PressAny(c)
           \/ \E dialog \in {"load", "start"} : OpenPopup(dialog)
           \/ ClosePopup
  BY <1>1, <1>5, BoxButtons
<1>6. CASE RetryCockroachNode
  <2>1. retries - 1 \in Nat
    BY <1>6 DEF RetryCockroachNode, TypeInv, TypeOK
  <2>2. keys'.state = keys.state /\ keys'.committee = keys.committee
    BY <1>6, <2>1, InitClusterOK DEF RetryCockroachNode
  <2> QED BY <1>4, <1>6, <2>2 DEF RetryCockroachNode, memory
<1>7. CASE Restart
  <2>1. BoxEarly'
    BY <1>7, BoxFresh DEF Restart
  <2> QED BY <1>1, <1>2, <1>7, <2>1 DEF Restart, Fresh
<1>8. CASE UNCHANGED vars
  BY <1>4, <1>8 DEF vars, memory, disk
<1>9. ~WipeFiles
  BY <1>1 DEF WipeFiles
<1> QED BY <1>3, <1>5, <1>6, <1>7, <1>8, <1>9 DEF Next

(* A node that is started for the first time is no committee. *)
LEMMA BoxInit == Init => BoxInv
<1> SUFFICES ASSUME Init PROVE BoxInv
  OBVIOUS
<1>1. /\ state = "AWAITING_SETUP" /\ setupData = "none" /\ popup = "none" /\ ~wiping
      /\ ~keys.committee /\ keys.state = "none"
  BY DEF Init, NoKeys
<1>2. Entered("AWAITING_SETUP", "none").todo = <<"readState", "write">>
  BY EnteredIs DEF CVStates, Setups
<1>3. PICK c \in Calls : calls = [d \in Calls |-> IF d = c THEN <<"readState", "write">> ELSE <<>>]
  BY <1>1, <1>2 DEF Init
<1>4. calls[c] = <<"readState", "write">> /\ \A d \in Calls \ {c} : calls[d] = <<>>
  BY <1>3
<1>5. \A d \in Calls : calls[d] \in EarlyStacks
  BY <1>4 DEF EarlyStacks
<1>6. \A d \in Calls : calls[d] # <<>> => Alone(d)
  BY <1>4 DEF Alone
<1>7. ~AtAny({"boxKey"}) /\ ~AtAny({"load", "boxKey"})
  <2>1. Head(<<"readState", "write">>) = "readState"
    OBVIOUS
  <2> QED BY <1>4, <2>1 DEF AtAny
<1>8. BoxEarly
  BY <1>1, <1>5, <1>6, <1>7 DEF BoxEarly
<1> QED BY <1>1, <1>8 DEF BoxInv, Late, Early

-----------------------------------------------------------------------------
(* What is stored can be restored *)

(* A box restores the setup of its file, with the password of that file. *)
LEMMA BoxRestores ==
  ASSUME files \in FilesType, ~keys.committee
  PROVE  /\ MayRestore <=> /\ files.box \in {"none", "own", "box"}
                           /\ keys.boxKey = "good" /\ files.boxFile = "good"
         /\ Restored.box = (IF files.box = "none" THEN "box" ELSE files.box)
         /\ Restored.boxFile = files.boxFile
<1>1. Dir = "box" /\ Restored = [files EXCEPT !.box = IF files.box = "none" THEN "box" ELSE files.box]
  BY DEF Dir, Restored, Unpacked
<1>2. /\ Restored.box = (IF files.box = "none" THEN "box" ELSE files.box)
      /\ Restored.boxFile = files.boxFile /\ Restored[Dir] = Restored.box
  BY <1>1 DEF FilesType
<1>3. files.box \in {"none", "own", "box", "partial"}
  BY DEF FilesType, Setups
<1> QED BY <1>2, <1>3 DEF MayRestore

(* The same after a step. *)
LEMMA BoxRestoresNext ==
  ASSUME files' \in FilesType, ~keys'.committee, files'.box \in {"none", "own", "box"},
         keys'.boxKey = "good", files'.boxFile = "good"
  PROVE  MayRestore'
<1>1. Dir' = "box"
  BY DEF Dir
<1>2. Restored' = [files' EXCEPT !.box = IF files'.box = "none" THEN "box" ELSE files'.box]
  BY <1>1 DEF Restored, Unpacked
<1>3. Restored'[Dir'] \in {"own", "box"}
  BY <1>1, <1>2 DEF FilesType, Setups
<1> QED BY <1>3 DEF MayRestore

(* A box that has its setup keeps it. *)
LEMMA LateFiles ==
  ASSUME TypeInv, SetUp, NEW c \in Calls, Continue(c)
  PROVE  files' = files /\ boxData' = boxData /\ keys'.boxKey = keys.boxKey
<1>1. keys \in KeysType
  BY DEF TypeInv, TypeOK, KeysType
<1>2. calls[c] # <<>> /\ Head(calls[c]) \in LateLabels
  <2>1. calls[c] # <<>> /\ calls[c] \in Seq(Labels) /\ Range(calls[c]) \subseteq LateLabels
    BY ContinueHead DEF SetUp, LabelsIn, TypeInv, TypeOK
  <2> QED BY <2>1, RangeTail
<1>3. CASE WriteState(c)
  BY <1>1, <1>3 DEF WriteState, KeysType, memory
<1>4. CASE StartCockroachNode(c)
  <2>1. keys'.boxKey = keys.boxKey
    BY <1>4, InitClusterOK DEF StartCockroachNode, TypeInv, TypeOK
  <2> QED BY <1>4, <2>1 DEF StartCockroachNode, memory
<1>5. CASE FindSelf(c) \/ StartCampusVoteAPI(c) \/ RegisterClient(c) \/ ToStarted(c) \/ StartElection(c)
  BY <1>5 DEF FindSelf, StartCampusVoteAPI, RegisterClient, ToStarted, StartElection, memory, disk
<1> QED BY <1>2, <1>3, <1>4, <1>5, ContinueHead DEF LateLabels, ServiceLabels

(* No file of a box is being loaded when its setup is there. *)
LEMMA NoBoxKey ==
  ASSUME TypeInv', SetUp'
  PROVE  ~AtAny({"boxKey"})'
<1>1. ASSUME NEW c \in Calls, calls'[c] # <<>>
      PROVE  Head(calls'[c]) \in LateLabels
  <2>1. calls'[c] \in Seq(Labels) /\ Range(calls'[c]) \subseteq LateLabels
    BY DEF SetUp, LabelsIn, TypeInv, TypeOK
  <2> QED BY <1>1, <2>1, RangeTail
<1> QED BY <1>1 DEF AtAny, LateLabels, ServiceLabels

(* A call of a box stores a state only when the setup is on the disk. *)
LEMMA LoadedContinue ==
  ASSUME TypeInv, BoxInv, LoadedInv, TypeInv', BoxInv', "restore" \notin Failures,
         role # "committee", role' = role, NEW c \in Calls, Continue(c)
  PROVE  LoadedInv'
<1>1. /\ ~keys.committee /\ keys \in KeysType /\ files \in FilesType /\ state \in Early \cup Late
      /\ state \in Early => BoxEarly
      /\ state \in Late => SetUp
  BY DEF BoxInv, TypeInv, TypeOK, KeysType, FilesType, Late
<1>2. /\ ~keys'.committee /\ files' \in FilesType
      /\ state' \in Late => SetUp'
  BY DEF BoxInv, TypeInv, TypeOK, FilesType, KeysType
<1>3. Early \cap Late = {} /\ "AWAITING_SETUP" \notin Late /\ "INITIALIZING_ELECTION" \notin Late
  BY DEF Late, Early
<1>4. /\ state \in Late \/ keys.state \in Late => MayRestore
      /\ state \in Early /\ keys.state \in Late => AtAny({"readState", "restore"})
  BY DEF LoadedInv
<1>5. MayRestore <=> /\ files.box \in {"none", "own", "box"}
                     /\ keys.boxKey = "good" /\ files.boxFile = "good"
  BY <1>1, BoxRestores
<1>6. ASSUME files'.box = files.box, files'.boxFile = files.boxFile, keys'.boxKey = keys.boxKey,
             MayRestore
      PROVE  MayRestore'
  BY <1>2, <1>5, <1>6, BoxRestoresNext
<1>7. calls[c] # <<>>
  BY ContinueHead
<1>8. CASE state \in Late
  <2>1. files' = files /\ keys'.boxKey = keys.boxKey /\ MayRestore
    BY <1>1, <1>4, <1>8, LateFiles
  <2>2. MayRestore' /\ state' \in Late /\ SetUp'
    BY <1>1, <1>2, <1>6, <1>8, <2>1, LateContinue
  <2>3. ~AtAny({"boxKey"})'
    BY <2>2, NoBoxKey
  <2> QED BY <1>3, <2>2, <2>3 DEF LoadedInv
<1>9. ASSUME state \in Early
      PROVE  /\ calls[c] \in EarlyStacks /\ \A d \in Calls \ {c} : calls[d] = <<>>
             /\ keys.state \in Late => Head(calls[c]) \in {"readState", "restore"}
  BY <1>1, <1>4, <1>7, <1>9 DEF BoxEarly, AtAny, Alone
<1>10. ASSUME state \in Early, keys'.state \notin Late, state' \notin Late,
              \A d \in Calls \ {c} : calls'[d] = calls[d],
              calls'[c] # <<>> => Head(calls'[c]) # "boxKey"
       PROVE  LoadedInv'
  <2>1. ~AtAny({"boxKey"})'
    BY <1>9, <1>10 DEF AtAny
  <2> QED BY <1>10, <2>1 DEF LoadedInv
<1>11. CASE state \in Early /\ Head(calls[c]) = "write"
  <2>1. WriteState(c) /\ Tail(calls[c]) = <<>>
    BY <1>9, <1>11, <1>7, ContinueHead, EarlyKinds
  <2>2. /\ calls'[c] = <<>> /\ \A d \in Calls \ {c} : calls'[d] = calls[d]
        /\ state' = state /\ keys'.state = state
    BY <1>1, <1>7, <2>1, DoneOK DEF WriteState, memory, KeysType
  <2> QED BY <1>3, <1>10, <1>11, <2>2
<1>12. CASE state \in Early /\ Head(calls[c]) = "readState"
  <2>1. ReadState(c)
    BY <1>9, <1>12, ContinueHead
  <2>2. /\ \A d \in Calls \ {c} : calls'[d] = calls[d]
        /\ calls'[c] # <<>> /\ Head(calls'[c]) \in {"write", "restore"}
        /\ keys.state \notin {"none", "AWAITING_SETUP"} => Head(calls'[c]) = "restore"
    BY <2>1, ReadStateOK
  <2>3. state' = state /\ keys' = keys /\ files' = files
    BY <2>1 DEF ReadState, memory, disk
  <2>4. CASE keys.state \in Late
    <3>1. MayRestore'
      BY <1>4, <1>6, <2>3, <2>4
    <3>2. AtAny({"readState", "restore"})'
      <4>1. keys.state \notin {"none", "AWAITING_SETUP"}
        BY <2>4 DEF Late, Early, CVStates
      <4> QED BY <2>2, <4>1 DEF AtAny
    <3>3. ~AtAny({"boxKey"})'
      BY <1>9, <1>12, <2>2 DEF AtAny
    <3> QED BY <3>1, <3>2, <3>3 DEF LoadedInv
  <2>5. CASE keys.state \notin Late
    BY <1>3, <1>10, <1>12, <2>2, <2>3, <2>5
  <2> QED BY <2>4, <2>5
<1>13. CASE state \in Early /\ Head(calls[c]) = "restore"
  <2>1. Restore(c) /\ Name(c) \in Late
    BY <1>7, <1>9, <1>13, ContinueHead, EarlyKinds DEF Name
  <2>2. /\ \A d \in Calls \ {c} : calls'[d] = calls[d]
        /\ \/ MayRestore /\ files' = Restored /\ state' = Name(c)
           \/ ~MayRestore /\ calls'[c] = <<>> /\ state' = state
    BY <2>1, RestoreOK
  <2>3. keys' = keys
    BY <2>1 DEF Restore
  <2>4. CASE MayRestore /\ files' = Restored /\ state' = Name(c)
    <3>1. files'.box \in {"none", "own", "box"} /\ files'.boxFile = "good" /\ keys'.boxKey = "good"
      <4>1. /\ Restored.box = (IF files.box = "none" THEN "box" ELSE files.box)
            /\ Restored.boxFile = files.boxFile
        BY <1>1, BoxRestores
      <4> QED BY <1>5, <2>3, <2>4, <4>1
    <3>2. MayRestore'
      BY <1>2, <3>1, BoxRestoresNext
    <3>3. ~AtAny({"boxKey"})'
      BY <1>2, <2>1, <2>4, NoBoxKey
    <3> QED BY <1>3, <2>1, <2>4, <3>2, <3>3 DEF LoadedInv
  <2>5. CASE ~MayRestore /\ calls'[c] = <<>> /\ state' = state
    BY <1>3, <1>4, <1>10, <1>13, <2>2, <2>3, <2>5
  <2> QED BY <2>2, <2>4, <2>5
<1>14. CASE state \in Early /\ Head(calls[c]) = "load"
  <2>1. LoadBallotBox(c) /\ keys.state \notin Late
    BY <1>9, <1>14, ContinueHead
  <2>2. keys' = keys /\ boxData' = boxData
    BY <2>1 DEF LoadBallotBox
  <2>3. /\ \A d \in Calls \ {c} : calls'[d] = calls[d]
        /\ \/ /\ boxData = "good" /\ Unpacked[Dir] \in {"own", "box"}
              /\ files' = [Unpacked EXCEPT !.boxFile = boxData] /\ state' = state
           \/ state' = "AWAITING_SETUP" /\ calls'[c] = <<"readState", "write">>
    BY <2>1, LoadOK
  <2>4. CASE state' = "AWAITING_SETUP" /\ calls'[c] = <<"readState", "write">>
    <3>1. Head(calls'[c]) = "readState"
      BY <2>4
    <3> QED BY <1>3, <1>10, <1>14, <2>1, <2>2, <2>3, <2>4, <3>1
  <2>5. CASE /\ boxData = "good" /\ Unpacked[Dir] \in {"own", "box"}
             /\ files' = [Unpacked EXCEPT !.boxFile = boxData] /\ state' = state
    <3>1. Dir = "box" /\ Unpacked \in FilesType
      BY <1>1, FilesOK DEF Dir
    <3>2. files'.box \in {"own", "box"} /\ files'.boxFile = "good"
      BY <2>5, <3>1 DEF FilesType
    <3> QED BY <1>3, <1>14, <2>1, <2>2, <2>5, <3>2 DEF LoadedInv
  <2> QED BY <2>3, <2>4, <2>5
<1>15. CASE state \in Early /\ Head(calls[c]) = "boxKey"
  <2>1. WriteBoxKey(c)
    BY <1>9, <1>15, ContinueHead
  <2>2. /\ files' = files /\ keys' = [keys EXCEPT !.boxKey = boxData]
        /\ state' = "READY_TO_START_ELECTION"
    BY <2>1, BoxKeyOK DEF WriteBoxKey
  <2>3. boxData = "good" /\ files.boxFile = "good" /\ files.box \in {"own", "box"}
    BY <1>7, <1>15 DEF LoadedInv, AtAny
  <2>4. keys'.boxKey = "good"
    BY <1>1, <2>2, <2>3 DEF KeysType
  <2>5. MayRestore'
    BY <1>2, <2>2, <2>3, <2>4, BoxRestoresNext
  <2>6. state' \in Late
    BY <2>2 DEF Late, Early, CVStates
  <2>7. ~AtAny({"boxKey"})'
    BY <1>2, <2>6, NoBoxKey
  <2> QED BY <1>3, <2>5, <2>6, <2>7 DEF LoadedInv
<1> QED BY <1>1, <1>7, <1>8, <1>9, <1>11, <1>12, <1>13, <1>14, <1>15, EarlyKinds

(* No other step of a box takes the setup away. *)
LEMMA LoadedNext ==
  ASSUME "load" \notin Hasty, "box" \notin Deleters, "restore" \notin Failures
  PROVE  TypeInv /\ BoxInv /\ LoadedInv /\ [Next]_vars => LoadedInv'
<1> SUFFICES ASSUME TypeInv, BoxInv, LoadedInv, [Next]_vars, role # "committee", role' = role
             PROVE  LoadedInv'
  <2>1. ASSUME [Next]_vars PROVE role' = role
    BY <2>1, RoleStays
  <2> QED BY <2>1 DEF LoadedInv
<1>1. TypeInv' /\ BoxInv'
  BY TypeNext, BoxNext
<1>2. /\ ~keys.committee /\ ~wiping /\ keys \in KeysType /\ files \in FilesType
      /\ state \in Early \cup Late /\ role = "box"
      /\ state \in Early => BoxEarly
      /\ state \in Late => SetUp
  BY UserAssumption DEF BoxInv, TypeInv, TypeOK, KeysType, FilesType, Late
<1>3. /\ ~keys'.committee /\ files' \in FilesType
      /\ state' \in Late => SetUp'
  BY <1>1 DEF BoxInv, TypeInv, TypeOK, FilesType
<1>4. Early \cap Late = {} /\ "AWAITING_SETUP" \notin Late /\ "INITIALIZING_ELECTION" \notin Late
  BY DEF Late, Early
<1>5. ASSUME files' = files, keys'.boxKey = keys.boxKey, MayRestore
      PROVE  MayRestore'
  <2>1. files.box \in {"none", "own", "box"} /\ keys.boxKey = "good" /\ files.boxFile = "good"
    BY <1>2, <1>5, BoxRestores
  <2> QED BY <1>3, <1>5, <2>1, BoxRestoresNext
<1>6. ASSUME calls' = calls, state' = state, boxData' = boxData, files' = files,
             keys'.boxKey = keys.boxKey, keys'.state = keys.state
      PROVE  LoadedInv'
  BY <1>5, <1>6 DEF LoadedInv, AtAny
<1>7. ASSUME NEW c \in Calls, Continue(c)
      PROVE  LoadedInv'
  BY <1>1, <1>7, LoadedContinue
<1>8. ASSUME NEW c \in Calls, NEW data \in {"good", "bad"}, PressLoad(c, data)
      PROVE  LoadedInv'
  <2>1. popup = "load" /\ keys' = keys
    BY <1>8 DEF PressLoad, disk
  <2>2. BoxEarly /\ state \in Early /\ \A d \in Calls : calls[d] = <<>>
    BY <1>2, <2>1 DEF BoxEarly, SetUp
  <2>3. setupData = "none" /\ keys.state \notin Late
    BY <2>2 DEF BoxEarly, AtAny, LoadedInv
  <2>4. /\ calls'[c] = <<"load", "write">> /\ \A d \in Calls \ {c} : calls'[d] = <<>>
        /\ state' = "INITIALIZING_ELECTION"
    BY <1>8, <2>2, <2>3, PressLoadOK
  <2>5. ~AtAny({"boxKey"})'
    <3>1. Head(<<"load", "write">>) = "load"
      OBVIOUS
    <3> QED BY <2>4, <3>1 DEF AtAny
  <2> QED BY <1>4, <2>1, <2>3, <2>4, <2>5 DEF LoadedInv
<1>9. ASSUME NEW c \in Calls, PressStart(c)
      PROVE  LoadedInv'
  <2>1. /\ popup = "start" /\ state' = state /\ keys' = keys /\ files' = files
    BY <1>9 DEF PressStart, disk, memory
  <2>2. state \in Late
    BY <1>2, <2>1 DEF BoxEarly
  <2>3. MayRestore'
    BY <1>5, <2>1, <2>2 DEF LoadedInv
  <2>4. ~AtAny({"boxKey"})'
    BY <1>1, <1>3, <2>1, <2>2, NoBoxKey
  <2> QED BY <1>4, <2>1, <2>2, <2>3, <2>4 DEF LoadedInv
<1>10. ASSUME NEW c \in Calls
       PROVE  ~PressCreate(c) /\ ~PressDelete(c)
  BY <1>2 DEF PressCreate, PressDelete
<1>11. CASE \/ \E dialog \in {"load", "start"} : OpenPopup(dialog)
            \/ ClosePopup \/ UNCHANGED vars
  BY <1>6, <1>11 DEF OpenPopup, ClosePopup, vars, memory, disk
<1>12. CASE RetryCockroachNode
  <2>1. retries - 1 \in Nat
    BY <1>12 DEF RetryCockroachNode, TypeInv, TypeOK
  <2>2. keys'.state = keys.state /\ keys'.boxKey = keys.boxKey
    BY <1>12, <2>1, InitClusterOK DEF RetryCockroachNode
  <2> QED BY <1>6, <1>12, <2>2 DEF RetryCockroachNode, memory
<1>13. CASE Restart
  <2>1. keys' = keys /\ state' = "AWAITING_SETUP"
    BY <1>13 DEF Restart, Fresh
  <2>2. PICK c \in Calls : /\ calls'[c] = <<"readState", "write">>
                           /\ \A d \in Calls \ {c} : calls'[d] = <<>>
    BY <1>13, FreshOK DEF Restart
  <2>3. calls'[c] # <<>> /\ Head(calls'[c]) = "readState"
    BY <2>2
  <2>4. AtAny({"readState", "restore"})' /\ ~AtAny({"boxKey"})'
    BY <2>2, <2>3 DEF AtAny
  <2>5. ASSUME keys.state \in Late
        PROVE  MayRestore'
    <3>1. ASSUME NEW d \in Calls
          PROVE  ~At(d, "create") /\ ~At(d, "load")
      <4>1. CASE state \in Early
        <5>1. calls[d] # <<>> => Head(calls[d]) \in {"readState", "restore"}
          BY <1>2, <2>5, <4>1 DEF LoadedInv, AtAny, BoxEarly, Alone
        <5> QED BY <5>1 DEF At
      <4>2. CASE state \in Late
        <5>1. calls[d] # <<>> => Head(calls[d]) \in LateLabels
          BY <1>2, <4>2, RangeTail DEF SetUp, LabelsIn, TypeInv, TypeOK
        <5> QED BY <5>1 DEF At, LateLabels, ServiceLabels
      <4> QED BY <1>2, <4>1, <4>2
    <3>2. files' = files
      BY <1>2, <1>13, <3>1 DEF Restart
    <3> QED BY <1>5, <2>1, <2>5, <3>2 DEF LoadedInv
  <2> QED BY <1>4, <2>1, <2>4, <2>5 DEF LoadedInv
<1>14. ~WipeFiles
  BY <1>2 DEF WipeFiles
<1> QED BY <1>7, <1>8, <1>9, <1>10, <1>11, <1>12, <1>13, <1>14 DEF Next, PressAny

(* The calls of the committee before its election is created. *)
LEMMA CreatorKinds ==
  ASSUME NEW s \in CreatorStacks, s # <<>>
  PROVE  /\ Head(s) \in {"write", "readState", "deleteAll", "flag", "create", "restore"}
         /\ Head(s) = "write" => Tail(s) = <<>>
         /\ Head(s) \in {"readState", "create"} => Tail(s) = <<"write">>
         /\ Head(s) = "deleteAll" => Tail(s) = <<"readState", "write">>
         /\ Head(s) = "flag" => Tail(s) = <<"create", "write">>
         /\ Head(s) = "restore" => s[2] \in Late /\ Tail(Tail(s)) = <<"write">>
<1>1. /\ {"write", "readState", "deleteAll", "flag", "create", "restore"} \subseteq Labels
      /\ Late \subseteq Labels
  BY DEF Labels, Late
<1>2. CASE s = <<"write">>
  <2>1. Head(s) = "write" /\ Tail(s) = <<>>
    BY <1>1, <1>2, TailFew
  <2> QED BY <2>1
<1>3. ASSUME NEW x \in {"readState", "create"}, s = <<x, "write">>
      PROVE  Head(s) = x /\ Tail(s) = <<"write">>
  BY <1>1, <1>3, TailFew
<1>4. ASSUME NEW new \in Late, s = <<"restore", new, "write">>
      PROVE  Head(s) = "restore" /\ s[2] \in Late /\ Tail(Tail(s)) = <<"write">>
  <2>1. /\ Head(s) = "restore" /\ s[2] = new /\ Tail(s) = <<new, "write">>
        /\ Tail(<<new, "write">>) = <<"write">>
    BY <1>1, <1>4, TailFew
  <2> QED BY <2>1
<1>5. CASE s = <<"deleteAll", "readState", "write">>
  <2>1. Head(s) = "deleteAll" /\ Tail(s) = <<"readState", "write">>
    BY <1>1, <1>5, TailFew
  <2> QED BY <2>1
<1>6. CASE s = <<"flag", "create", "write">>
  <2>1. Head(s) = "flag" /\ Tail(s) = <<"create", "write">>
    BY <1>1, <1>6, TailFew
  <2> QED BY <2>1
<1>7. \/ s = <<"write">> \/ s = <<"deleteAll", "readState", "write">>
      \/ s = <<"flag", "create", "write">>
      \/ \E x \in {"readState", "create"} : s = <<x, "write">>
      \/ \E new \in Late : s = <<"restore", new, "write">>
  BY DEF CreatorStacks
<1> QED BY <1>2, <1>3, <1>4, <1>5, <1>6, <1>7

(* A committee whose only call does next, if anything, is before its election. *)
LEMMA SoleCreator ==
  ASSUME NEW c \in Calls, \A d \in Calls \ {c} : calls'[d] = <<>>, calls'[c] \in CreatorStacks,
         NEW next, calls'[c] # <<>> => Head(calls'[c]) = next, calls'[c] = <<>> => next = "none",
         popup' = "none", ~client',
         state' = "INITIALIZING_ELECTION" <=> next \in {"flag", "create"},
         next \in {"flag", "create"} => setupData' # "none" /\ ~wiping',
         next = "create" => keys'.committee,
         next = "restore" => keys'.state \in Late,
         keys'.state \in Late =>
           next = "deleteAll" \/ (next \in {"readState", "restore"} /\ ~wiping' /\ Created')
  PROVE  CreatorEarly'
<1>1. <<>> \in CreatorStacks
  BY DEF CreatorStacks
<1>2. ASSUME NEW labels, "none" \notin labels
      PROVE  AtAny(labels)' <=> next \in labels
  BY <1>2 DEF AtAny
<1>3. /\ AtAny({"flag", "create"})' <=> next \in {"flag", "create"}
      /\ AtAny({"create"})' <=> next = "create"
      /\ AtAny({"restore"})' <=> next = "restore"
      /\ AtAny({"deleteAll"})' <=> next = "deleteAll"
      /\ AtAny({"readState", "restore"})' <=> next \in {"readState", "restore"}
  BY <1>2
<1>4. \A d \in Calls : calls'[d] \in CreatorStacks
  BY <1>1
<1>5. \A d \in Calls : calls'[d] # <<>> => Alone(d)'
  BY DEF Alone
<1> HIDE DEF AtAny, Created
<1> QED BY <1>3, <1>4, <1>5 DEF CreatorEarly

(* What starts an election without a client: its calls do not go on as if it had
   started, and nothing else does. *)
LEMMA AheadStep ==
  ASSUME NEW c \in Calls, \A d \in Calls \ {c} : calls'[d] = calls[d], state' = state,
         (client \/ AtAny(ServiceLabels)) /\ state # "ELECTION_STARTED" => \E d \in Calls : Ahead(d),
         client' => client \/ NextIn(c, ServiceLabels),
         NextIn(c, ServiceLabels)' => NextIn(c, ServiceLabels),
         Ahead(c) => Ahead(c)'
  PROVE  (client \/ AtAny(ServiceLabels))' /\ state' # "ELECTION_STARTED" =>
            \E d \in Calls : Ahead(d)'
<1>1. ASSUME AtAny(ServiceLabels)'
      PROVE  AtAny(ServiceLabels)
  <2>1. PICK d \in Calls : calls'[d] # <<>> /\ Head(calls'[d]) \in ServiceLabels
    BY <1>1 DEF AtAny
  <2>2. NextIn(d, ServiceLabels)
    <3>1. CASE d = c
      BY <2>1, <3>1 DEF NextIn
    <3>2. CASE d # c
      BY <2>1, <3>2 DEF NextIn
    <3> QED BY <3>1, <3>2
  <2> QED BY <2>2 DEF NextIn, AtAny
<1>2. NextIn(c, ServiceLabels) => AtAny(ServiceLabels)
  BY DEF NextIn, AtAny
<1>3. ASSUME NEW d \in Calls, Ahead(d)
      PROVE  \E e \in Calls : Ahead(e)'
  <2>1. d # c => Ahead(d)'
    BY <1>3 DEF Ahead
  <2> QED BY <1>3, <2>1
<1> HIDE DEF AtAny, NextIn, Ahead
<1> QED BY <1>1, <1>2, <1>3

(* As long as the deletion may be offered before the start, a call still shows the
   start. *)
LEMMA AheadContinue ==
  ASSUME TypeInv, SetUp, keys.committee, NEW c \in Calls, Continue(c),
         (client \/ AtAny(ServiceLabels)) /\ state # "ELECTION_STARTED" => \E d \in Calls : Ahead(d)
  PROVE  (client \/ AtAny(ServiceLabels))' /\ state' # "ELECTION_STARTED" =>
            \E d \in Calls : Ahead(d)'
<1> DEFINE Goal == (client \/ AtAny(ServiceLabels))' /\ state' # "ELECTION_STARTED" =>
                      \E d \in Calls : Ahead(d)'
<1>1. /\ calls[c] # <<>> /\ calls[c] \in Seq(Labels) /\ StackOK(calls[c])
      /\ Head(calls[c]) \in LateLabels /\ client \in BOOLEAN /\ setupData # "none"
  <2>1. /\ calls[c] # <<>> /\ calls[c] \in Seq(Labels) /\ Range(calls[c]) \subseteq LateLabels
        /\ StackOK(calls[c]) /\ client \in BOOLEAN /\ setupData # "none"
    BY ContinueHead DEF SetUp, LabelsIn, TypeInv, TypeOK, StacksOK
  <2> QED BY <2>1, RangeTail
<1>2. ASSUME Ahead(c)' PROVE Goal
  BY <1>2
<1>3. ASSUME \A d \in Calls \ {c} : calls'[d] = calls[d], state' = state,
             client' => client \/ Head(calls[c]) \in ServiceLabels,
             NextIn(c, ServiceLabels)' => Head(calls[c]) \in ServiceLabels,
             NEW label, label \notin {"toStarted", "again"},
             Range(calls[c]) = {label} \cup Range(calls'[c])
      PROVE  Goal
  <2>1. NextIn(c, ServiceLabels) <=> Head(calls[c]) \in ServiceLabels
    BY <1>1 DEF NextIn
  <2>2. Ahead(c) => Ahead(c)'
    BY <1>3 DEF Ahead
  <2> HIDE DEF Ahead
  <2> QED BY <1>3, <2>1, <2>2, AheadStep
<1>4. CASE Head(calls[c]) = "write"
  <2>1. WriteState(c) /\ Done(c)
    BY <1>4, ContinueHead DEF WriteState
  <2>2. /\ \A d \in Calls \ {c} : calls'[d] = calls[d]
        /\ Range(calls[c]) = {"write"} \cup Range(calls'[c])
        /\ calls'[c] # <<>> => Head(calls'[c]) \in Follow("write")
    BY <1>1, <1>4, <2>1, DoneOK
  <2>3. ~NextIn(c, ServiceLabels)'
    BY <2>2 DEF NextIn, Follow, ServiceLabels
  <2> QED BY <1>3, <2>1, <2>2, <2>3 DEF WriteState, memory
<1>5. CASE Head(calls[c]) = "self"
  <2>1. FindSelf(c)
    BY <1>5, ContinueHead
  <2>2. /\ \A d \in Calls \ {c} : calls'[d] = calls[d]
        /\ state' = state /\ Range(calls[c]) = {"self"} \cup Range(calls'[c])
    BY <2>1, FindSelfOK
  <2> QED BY <1>3, <1>5, <2>2 DEF ServiceLabels
<1>6. CASE Head(calls[c]) = "node"
  <2>1. StartCockroachNode(c) /\ Done(c)
    BY <1>6, ContinueHead DEF StartCockroachNode
  <2>2. /\ \A d \in Calls \ {c} : calls'[d] = calls[d]
        /\ Range(calls[c]) = {"node"} \cup Range(calls'[c])
    BY <1>1, <1>6, <2>1, DoneOK
  <2> QED BY <1>3, <1>6, <2>1, <2>2 DEF ServiceLabels, StartCockroachNode, memory
<1>7. CASE Head(calls[c]) = "api"
  <2>1. StartCampusVoteAPI(c) /\ Done(c)
    BY <1>7, ContinueHead DEF StartCampusVoteAPI
  <2>2. /\ \A d \in Calls \ {c} : calls'[d] = calls[d]
        /\ Range(calls[c]) = {"api"} \cup Range(calls'[c])
    BY <1>1, <1>7, <2>1, DoneOK
  <2> QED BY <1>3, <1>7, <2>1, <2>2 DEF ServiceLabels, StartCampusVoteAPI, memory
<1>8. CASE Head(calls[c]) = "client"
  <2>1. RegisterClient(c)
    BY <1>8, ContinueHead
  <2>2. /\ \A d \in Calls \ {c} : calls'[d] = calls[d]
        /\ \/ state' = state /\ Range(calls[c]) = {"client"} \cup Range(calls'[c])
           \/ "again" \in Range(calls'[c])
    BY <2>1, RegisterOK
  <2>3. CASE "again" \in Range(calls'[c])
    BY <1>2, <2>3 DEF Ahead
  <2>4. CASE state' = state /\ Range(calls[c]) = {"client"} \cup Range(calls'[c])
    BY <1>3, <1>8, <2>2, <2>4 DEF ServiceLabels
  <2> QED BY <2>2, <2>3, <2>4
<1>9. CASE Head(calls[c]) \in {"toStarted", "again"}
  <2>1. ToStarted(c)
    BY <1>9, ContinueHead
  <2>2. state' = "ELECTION_STARTED"
    BY <1>1, <2>1, ToStartedOK
  <2> QED BY <2>2
<1>10. CASE Head(calls[c]) = "pressed"
  <2>1. StartElection(c)
    BY <1>10, ContinueHead
  <2>2. /\ \A d \in Calls \ {c} : calls'[d] = calls[d]
        /\ \/ calls'[c] = <<>> /\ state' = state
           \/ "toStarted" \in Range(calls'[c])
    BY <1>1, <2>1, StartElectionOK
  <2>3. CASE "toStarted" \in Range(calls'[c])
    BY <1>2, <2>3 DEF Ahead
  <2>4. CASE calls'[c] = <<>> /\ state' = state
    <3>1. Tail(calls[c]) = <<>>
      BY <1>1, <1>10, TailOK
    <3>2. Range(calls[c]) = {"pressed"} \cup Range(calls'[c])
      BY <1>1, <1>10, <2>4, <3>1, RangeTail
    <3>3. ~NextIn(c, ServiceLabels)' /\ client' = client
      BY <2>1, <2>4 DEF NextIn, StartElection
    <3> QED BY <1>3, <2>2, <2>4, <3>2, <3>3
  <2> QED BY <2>2, <2>3, <2>4
<1> QED BY <1>1, <1>4, <1>5, <1>6, <1>7, <1>8, <1>9, <1>10 DEF LateLabels, ServiceLabels

(* A call of a committee without its election: it creates, restores or deletes it.
   *)
LEMMA CreatorEarlyContinue ==
  ASSUME TypeInv, CreatorInv, role = "committee", state \in Early, "restore" \notin Failures,
         NEW c \in Calls, Continue(c)
  PROVE  /\ keys'.state # "INITIALIZING_ELECTION"
         /\ state' \in Early => CreatorEarly'
         /\ state' \in Late => CreatorLate'
<1>1. /\ keys.state # "INITIALIZING_ELECTION" /\ CreatorEarly
      /\ keys \in KeysType /\ files \in FilesType /\ setupData \in Setups
  BY DEF CreatorInv, TypeInv, TypeOK, KeysType, FilesType
<1>2. calls[c] # <<>> /\ calls[c] \in CreatorStacks /\ \A d \in Calls \ {c} : calls[d] = <<>>
  BY <1>1, ContinueHead DEF CreatorEarly, Alone
<1> PICK head : head = Head(calls[c])
  OBVIOUS
<1>3. /\ popup = "none" /\ ~client
      /\ state = "INITIALIZING_ELECTION" <=> head \in {"flag", "create"}
      /\ head \in {"flag", "create"} => setupData # "none" /\ ~wiping
      /\ head = "create" => keys.committee
      /\ head = "restore" => keys.state \in Late
      /\ keys.state \in Late =>
           head = "deleteAll" \/ (head \in {"readState", "restore"} /\ ~wiping /\ Created)
  <2>1. ASSUME NEW labels
        PROVE  AtAny(labels) <=> head \in labels
    BY <1>2 DEF AtAny
  <2>2. /\ AtAny({"flag", "create"}) <=> head \in {"flag", "create"}
        /\ AtAny({"create"}) <=> head = "create"
        /\ AtAny({"restore"}) <=> head = "restore"
        /\ AtAny({"deleteAll"}) <=> head = "deleteAll"
        /\ AtAny({"readState", "restore"}) <=> head \in {"readState", "restore"}
    BY <2>1
  <2> HIDE DEF AtAny, Created
  <2> QED BY <1>1, <2>2 DEF CreatorEarly
<1>4. /\ "AWAITING_SETUP" \notin Late /\ "INITIALIZING_ELECTION" \notin Late /\ Early \cap Late = {}
      /\ "READY_TO_START_ELECTION" \in Late
  BY DEF Late, Early, CVStates
<1>5. /\ <<>> \in CreatorStacks /\ <<"write">> \in CreatorStacks
      /\ <<"readState", "write">> \in CreatorStacks /\ <<"create", "write">> \in CreatorStacks
      /\ \A new \in Late : <<"restore", new, "write">> \in CreatorStacks
  BY DEF CreatorStacks
<1>6. CASE head = "write"
  <2>1. WriteState(c) /\ Tail(calls[c]) = <<>>
    BY <1>2, <1>6, ContinueHead, CreatorKinds
  <2>2. /\ calls'[c] = <<>> /\ \A d \in Calls \ {c} : calls'[d] = <<>>
    BY <1>2, <2>1, DoneOK DEF WriteState
  <2>3. /\ state' = state /\ setupData' = setupData /\ client' = client /\ popup' = popup
        /\ keys'.state = state
    BY <1>1, <2>1 DEF WriteState, memory, KeysType
  <2>4. state = "AWAITING_SETUP"
    BY <1>3, <1>6 DEF Early
  <2>5. CreatorEarly'
    BY <1>3, <1>4, <1>5, <2>2, <2>3, <2>4, SoleCreator
  <2> QED BY <1>4, <2>3, <2>4, <2>5
<1>7. CASE head = "readState"
  <2>1. ReadState(c) /\ Tail(calls[c]) = <<"write">> /\ state = "AWAITING_SETUP"
    BY <1>2, <1>3, <1>7, ContinueHead, CreatorKinds DEF Early
  <2>2. /\ \A d \in Calls \ {c} : calls'[d] = <<>>
        /\ keys.state \in {"none", "AWAITING_SETUP"} => calls'[c] = Tail(calls[c])
        /\ keys.state \notin {"none", "AWAITING_SETUP"} =>
             calls'[c] = <<"restore", keys.state>> \o Tail(calls[c])
    BY <1>2, <2>1, ReadStateOK
  <2>3. /\ state' = state /\ setupData' = setupData /\ client' = client /\ popup' = popup
        /\ keys' = keys /\ files' = files /\ wiping' = wiping
    BY <2>1 DEF ReadState, memory, disk
  <2>4. Created' <=> Created
    BY <2>3 DEF Created
  <2>5. CASE keys.state \in {"none", "AWAITING_SETUP"}
    <3>1. calls'[c] = <<"write">> /\ calls'[c] # <<>> /\ Head(calls'[c]) = "write"
      <4>1. <<"write">> # <<>> /\ Head(<<"write">>) = "write"
        OBVIOUS
      <4>2. calls'[c] = <<"write">>
        BY <2>1, <2>2, <2>5
      <4> QED BY <4>1, <4>2
    <3>2. keys.state \notin Late
      BY <2>5 DEF Late, CVStates, Early
    <3>3. CreatorEarly'
      BY <1>3, <1>5, <2>1, <2>2, <2>3, <3>1, <3>2, SoleCreator
    <3> QED BY <1>1, <1>4, <2>1, <2>3, <3>3
  <2>6. CASE keys.state \notin {"none", "AWAITING_SETUP"}
    <3> PICK x : x = keys.state
      OBVIOUS
    <3>1. x \in Late /\ x \in Labels /\ "restore" \in Labels /\ "write" \in Labels
      BY <1>1, <2>6 DEF KeysType, Late, Early, Labels
    <3>2. calls'[c] = <<"restore", x, "write">>
      <4>1. calls'[c] = <<"restore", x>> \o <<"write">>
        BY <2>1, <2>2, <2>6
      <4> QED BY <3>1, <4>1, ConcatFew
    <3>3. calls'[c] \in CreatorStacks /\ calls'[c] # <<>> /\ Head(calls'[c]) = "restore"
      BY <1>5, <3>1, <3>2
    <3>4. ~wiping' /\ Created' /\ keys'.state \in Late
      BY <1>3, <1>7, <2>3, <2>4, <3>1
    <3>5. CreatorEarly'
      BY <1>3, <2>1, <2>2, <2>3, <3>3, <3>4, SoleCreator
    <3> QED BY <1>1, <1>4, <2>1, <2>3, <3>5
  <2> QED BY <2>5, <2>6
<1>8. CASE head = "deleteAll"
  <2>1. WipeKeys(c) /\ Tail(calls[c]) = <<"readState", "write">> /\ state = "AWAITING_SETUP"
    BY <1>2, <1>3, <1>8, ContinueHead, CreatorKinds DEF Early
  <2>2. /\ calls'[c] = <<"readState", "write">> /\ \A d \in Calls \ {c} : calls'[d] = <<>>
    BY <1>2, <2>1, DoneOK DEF WipeKeys
  <2>3. calls'[c] # <<>> /\ Head(calls'[c]) = "readState"
    BY <2>2
  <2>4. /\ state' = state /\ client' = client /\ popup' = popup /\ keys'.state = "none"
    BY <2>1 DEF WipeKeys, memory, NoKeys
  <2>5. "none" \notin Late
    BY DEF Late, CVStates
  <2>6. CreatorEarly'
    BY <1>3, <1>5, <2>1, <2>2, <2>3, <2>4, <2>5, SoleCreator
  <2> QED BY <1>4, <2>1, <2>4, <2>6
<1>9. CASE head = "flag"
  <2>1. /\ WriteFlag(c) /\ Tail(calls[c]) = <<"create", "write">> /\ keys.state \notin Late
        /\ state = "INITIALIZING_ELECTION"
    BY <1>2, <1>3, <1>9, ContinueHead, CreatorKinds
  <2>2. /\ calls'[c] = <<"create", "write">> /\ \A d \in Calls \ {c} : calls'[d] = <<>>
    BY <1>2, <2>1, DoneOK DEF WriteFlag
  <2>3. calls'[c] # <<>> /\ Head(calls'[c]) = "create"
    BY <2>2
  <2>4. /\ state' = state /\ client' = client /\ popup' = popup /\ setupData' = setupData
        /\ wiping' = wiping /\ keys'.state = keys.state /\ keys'.committee
    BY <1>1, <2>1 DEF WriteFlag, memory, KeysType
  <2>5. CreatorEarly'
    BY <1>3, <1>5, <1>9, <2>1, <2>2, <2>3, <2>4, SoleCreator
  <2> QED BY <1>1, <1>4, <2>1, <2>4, <2>5
<1>10. CASE head = "create"
  <2>1. /\ CreateElection(c) /\ Tail(calls[c]) = <<"write">> /\ keys.state \notin Late
        /\ keys.committee /\ setupData # "none" /\ ~wiping
    BY <1>2, <1>3, <1>10, ContinueHead, CreatorKinds
  <2>2. /\ \A d \in Calls \ {c} : calls'[d] = <<>>
        /\ setupData' = setupData
        /\ \/ /\ files' = [files EXCEPT !.committee = setupData]
              /\ state' = "READY_TO_START_ELECTION"
              /\ calls'[c] # <<>> /\ Head(calls'[c]) = "write"
              /\ Range(calls'[c]) = {"write"} \cup Range(Tail(calls[c]))
           \/ state' = "AWAITING_SETUP" /\ calls'[c] = <<"readState", "write">>
    BY <1>2, <2>1, CreateOK
  <2>3. keys' = keys /\ client' = client /\ popup' = popup /\ wiping' = wiping
    BY <2>1 DEF CreateElection
  <2>4. CASE state' = "AWAITING_SETUP" /\ calls'[c] = <<"readState", "write">>
    <3>1. calls'[c] # <<>> /\ Head(calls'[c]) = "readState"
      BY <2>4
    <3>2. CreatorEarly'
      BY <1>3, <1>5, <2>1, <2>2, <2>3, <2>4, <3>1, SoleCreator
    <3> QED BY <1>1, <1>4, <2>3, <2>4, <3>2
  <2>5. CASE /\ files' = [files EXCEPT !.committee = setupData]
             /\ state' = "READY_TO_START_ELECTION"
             /\ calls'[c] # <<>> /\ Head(calls'[c]) = "write"
             /\ Range(calls'[c]) = {"write"} \cup Range(Tail(calls[c]))
    <3>1. Created'
      <4>1. files'.committee = setupData
        BY <1>1, <2>5 DEF FilesType
      <4> QED BY <1>1, <2>1, <2>3, <4>1 DEF Created, Setups
    <3>2. SetUp'
      <4>1. Range(Tail(calls[c])) = {"write"}
        <5>1. Range(<<"write">>) = {"write"}
          BY RangeFew
        <5> QED BY <2>1, <5>1
      <4>2. Range(calls'[c]) \subseteq LateLabels
        BY <2>5, <4>1 DEF LateLabels
      <4>3. \A d \in Calls \ {c} : Range(calls'[d]) \subseteq LateLabels
        BY <2>2, RangeFew
      <4> QED BY <1>3, <2>1, <2>2, <2>3, <4>2, <4>3, LateStep DEF SetUp
    <3>3. ~AtAny(ServiceLabels)'
      BY <2>2, <2>5 DEF AtAny, ServiceLabels
    <3>4. CreatorLate'
      BY <1>3, <2>1, <2>3, <3>1, <3>2, <3>3 DEF CreatorLate
    <3> QED BY <1>1, <1>4, <2>3, <2>5, <3>4
  <2> QED BY <2>2, <2>4, <2>5
<1>11. CASE head = "restore"
  <2>1. /\ Restore(c) /\ Name(c) \in Late /\ Callers(c) = <<"write">>
        /\ ~wiping /\ Created /\ At(c, "restore")
    BY <1>2, <1>3, <1>11, ContinueHead, CreatorKinds DEF Name, Callers, At
  <2>2. keys' = keys /\ client' = client /\ popup' = popup /\ wiping' = wiping
    BY <2>1 DEF Restore
  <2>3. MayRestore /\ Restored = files
    BY <2>1 DEF Created, MayRestore, Restored, Dir
  <2>4. /\ \A d \in Calls \ {c} : calls'[d] = <<>>
        /\ files' = files /\ setupData' \in {"own", "box"} /\ state' = Name(c)
        /\ calls'[c] # <<>> /\ Head(calls'[c]) = Entered(Name(c), setupData').todo[1]
        /\ Joins(calls'[c], Entered(Name(c), setupData').todo, Callers(c))
    BY <1>2, <2>1, <2>3, RestoreOK
  <2> PICK data : data = setupData'
    OBVIOUS
  <2>5. data \in Setups /\ data # "none"
    BY <2>4 DEF Setups
  <2>6. Range(Callers(c)) = {"write"}
    <3>1. Range(<<"write">>) = {"write"}
      BY RangeFew
    <3> QED BY <2>1, <3>1
  <2>7. SetUp'
    <3>1. Range(calls'[c]) \subseteq LateLabels
      BY <2>1, <2>4, <2>5, <2>6, LateTodo DEF Joins, LateLabels
    <3>2. \A d \in Calls \ {c} : Range(calls'[d]) \subseteq LateLabels
      BY <2>4, RangeFew
    <3> QED BY <1>3, <2>2, <2>4, <3>1, <3>2, LateStep DEF SetUp
  <2>8. ASSUME state' # "ELECTION_STARTED", AtAny(ServiceLabels)'
        PROVE  Ahead(c)'
    <3>1. CASE Name(c) = "READY_TO_START_ELECTION"
      <4>1. Entered("READY_TO_START_ELECTION", data).todo = <<"write">> /\ <<"write">>[1] = "write"
        BY <2>5, EnteredIs DEF CVStates
      <4>2. Head(calls'[c]) = "write"
        BY <2>4, <3>1, <4>1
      <4> QED BY <2>4, <2>8, <4>2 DEF AtAny, ServiceLabels
    <3>2. CASE Name(c) = "STARTING_ELECTION"
      <4>1. Entered("STARTING_ELECTION", data).todo
              = StartServices \o <<"toStarted", "again", "write">>
        BY <2>5, EnteredIs DEF CVStates
      <4>2. "toStarted" \in Range(StartServices \o <<"toStarted", "again", "write">>)
        <5>1. /\ StartServices \in Seq(Labels) /\ <<"toStarted", "again", "write">> \in Seq(Labels)
              /\ Range(<<"toStarted", "again", "write">>) = {"toStarted", "again", "write"}
          BY RangeFew DEF StartServices, Labels
        <5>2. Range(StartServices \o <<"toStarted", "again", "write">>)
                = Range(StartServices) \cup Range(<<"toStarted", "again", "write">>)
          BY <5>1, RangeConcat
        <5> QED BY <5>1, <5>2
      <4> QED BY <2>4, <3>2, <4>1, <4>2 DEF Joins, Ahead
    <3> QED BY <2>1, <2>4, <2>8, <3>1, <3>2 DEF Late, Early, CVStates
  <2>9. CreatorLate'
    <3>1. Created' /\ ~wiping' /\ ~client'
      BY <1>3, <2>1, <2>2, <2>4 DEF Created
    <3>2. (client \/ AtAny(ServiceLabels))' /\ state' # "ELECTION_STARTED" =>
             \E d \in Calls : Ahead(d)'
      BY <2>8, <3>1
    <3> QED BY <2>7, <3>1, <3>2 DEF CreatorLate
  <2> QED BY <1>1, <1>4, <2>1, <2>2, <2>4, <2>9
<1> QED BY <1>2, <1>6, <1>7, <1>8, <1>9, <1>10, <1>11, CreatorKinds

(* A call of a committee that has its election keeps it, until the button deletes
   it. *)
LEMMA CreatorLateContinue ==
  ASSUME TypeInv, CreatorInv, role = "committee", state \in Late, NEW c \in Calls, Continue(c)
  PROVE  /\ keys'.state # "INITIALIZING_ELECTION"
         /\ state' \in Early => CreatorEarly'
         /\ state' \in Late => CreatorLate'
<1>1. keys.state # "INITIALIZING_ELECTION" /\ CreatorLate /\ ~wiping /\ Created
  BY DEF CreatorInv, CreatorLate
<1>2. /\ "INITIALIZING_ELECTION" \notin Late /\ "AWAITING_SETUP" \notin Late /\ Early \cap Late = {}
      /\ Late \subseteq CVStates
  BY DEF Late, Early
<1>3. CASE /\ SetUp
           /\ (client \/ AtAny(ServiceLabels)) /\ state # "ELECTION_STARTED" =>
                \E d \in Calls : Ahead(d)
  <2>1. /\ SetUp' /\ state' \in Late /\ ~wiping' /\ keys'.committee = keys.committee
        /\ keys'.state = keys.state \/ keys'.state \in Late
    BY <1>1, <1>3, LateContinue DEF TypeInv, TypeOK
  <2>2. Created'
    BY <1>1, <1>3, <2>1, LateFiles DEF Created
  <2>3. (client \/ AtAny(ServiceLabels))' /\ state' # "ELECTION_STARTED" =>
          \E d \in Calls : Ahead(d)'
    BY <1>1, <1>3, AheadContinue DEF Created
  <2>4. CreatorLate'
    BY <2>1, <2>2, <2>3 DEF CreatorLate
  <2> QED BY <1>1, <1>2, <2>1, <2>4
<1>4. CASE /\ state = "ELECTION_STARTED" /\ popup = "none" /\ ~client
           /\ \E d \in Calls : calls[d] = <<"wipe">> /\ Alone(d)
  <2>1. calls[c] = <<"wipe">> /\ \A d \in Calls \ {c} : calls[d] = <<>>
    BY <1>4, ContinueHead DEF Alone
  <2>2. Head(calls[c]) = "wipe"
    BY <2>1
  <2>3. Wipe(c)
    BY <2>2, ContinueHead
  <2>4. /\ calls'[c] = <<"deleteAll", "readState", "write">>
        /\ \A d \in Calls \ {c} : calls'[d] = <<>>
    BY <2>1, <2>3, WipeOK
  <2>5. calls'[c] # <<>> /\ Head(calls'[c]) = "deleteAll" /\ calls'[c] \in CreatorStacks
    BY <2>4 DEF CreatorStacks
  <2>6. state' = "AWAITING_SETUP" /\ client' = client /\ popup' = popup /\ keys' = keys
    BY <2>3 DEF Wipe
  <2>7. CreatorEarly'
    BY <1>4, <2>4, <2>5, <2>6, SoleCreator
  <2> QED BY <1>1, <1>2, <2>6, <2>7
<1> QED BY <1>1, <1>3, <1>4 DEF CreatorLate

(* Buttons of the committee. *)
LEMMA CreatorButtons ==
  ASSUME TypeInv, CreatorInv, role = "committee", Hasty \subseteq {"start"},
         \/ \E c \in Calls : PressAny(c)
         \/ \E dialog \in {"load", "start"} : OpenPopup(dialog)
         \/ ClosePopup
  PROVE  /\ keys'.state # "INITIALIZING_ELECTION"
         /\ state' \in Early => CreatorEarly'
         /\ state' \in Late => CreatorLate'
<1> DEFINE Goal == /\ keys'.state # "INITIALIZING_ELECTION"
                   /\ state' \in Early => CreatorEarly'
                   /\ state' \in Late => CreatorLate'
<1>1. /\ keys.state # "INITIALIZING_ELECTION" /\ state \in Early \cup Late
      /\ state \in Early => CreatorEarly
      /\ state \in Late => CreatorLate
      /\ \A c \in Calls : calls[c] \in Seq(Labels)
  BY DEF CreatorInv, TypeInv, TypeOK, Late
<1>2. /\ "INITIALIZING_ELECTION" \notin Late /\ "AWAITING_SETUP" \notin Late /\ Early \cap Late = {}
      /\ "READY_TO_START_ELECTION" \in Late /\ "INITIALIZING_ELECTION" \in Early
  BY DEF Late, Early, CVStates
<1>3. ASSUME NEW c \in Calls, PressCreate(c)
      PROVE  Goal
  <2>1. /\ popup = "none" /\ state = "AWAITING_SETUP" /\ Idle /\ popup' = popup /\ client' = client
        /\ keys' = keys /\ wiping' = wiping
    BY <1>3 DEF PressCreate, Press, disk
  <2>2. /\ \A d \in Calls : calls[d] = <<>>
        /\ ~wiping /\ ~client /\ keys.state \notin Late
    <3>1. CreatorEarly /\ ~wiping /\ \A d \in Calls : calls[d] = <<>>
      BY <1>1, <1>2, <2>1 DEF Idle, Late, CVStates
    <3> QED BY <3>1 DEF CreatorEarly, AtAny
  <2>3. /\ calls'[c] = <<"flag", "create", "write">> /\ \A d \in Calls \ {c} : calls'[d] = <<>>
        /\ state' = "INITIALIZING_ELECTION" /\ setupData' = "own"
    BY <1>3, <2>2, PressCreateOK
  <2>4. calls'[c] # <<>> /\ Head(calls'[c]) = "flag" /\ calls'[c] \in CreatorStacks
    BY <2>3 DEF CreatorStacks
  <2>5. CreatorEarly'
    BY <2>1, <2>2, <2>3, <2>4, SoleCreator
  <2> QED BY <1>1, <1>2, <2>1, <2>3, <2>5
<1>4. ASSUME popup = "load"
      PROVE  FALSE
  BY <1>1, <1>4 DEF CreatorEarly, CreatorLate, SetUp
<1>5. ASSUME popup # "none" \/ client \/ state = "READY_TO_START_ELECTION"
      PROVE  /\ state \in Late /\ ~wiping /\ Created /\ SetUp
             /\ (client \/ AtAny(ServiceLabels)) /\ state # "ELECTION_STARTED" =>
                  \E d \in Calls : Ahead(d)
  BY <1>1, <1>2, <1>5 DEF CreatorEarly, CreatorLate
<1>6. ASSUME NEW c \in Calls, PressStart(c)
      PROVE  Goal
  <2>1. /\ popup = "start" /\ popup' = popup /\ state' = state /\ setupData' = setupData
        /\ client' = client /\ keys' = keys /\ files' = files /\ wiping' = wiping
        /\ calls[c] = <<>> /\ calls' = [calls EXCEPT ![c] = <<"pressed">>]
    BY <1>6 DEF PressStart, Press, disk, memory
  <2>2. calls'[c] = <<"pressed">> /\ \A d \in Calls \ {c} : calls'[d] = calls[d]
    BY <2>1, PushOK
  <2>3. Range(calls'[c]) \subseteq LateLabels
    BY <2>2, RangeFew DEF LateLabels
  <2>4. \A d \in Calls \ {c} : Range(calls'[d]) \subseteq LateLabels
    BY <1>5, <2>1, <2>2 DEF SetUp, LabelsIn
  <2>5. SetUp' /\ Created' /\ state' \in Late
    BY <1>5, <2>1, <2>3, <2>4, LateStep DEF SetUp, Created
  <2>6. ~NextIn(c, ServiceLabels)'
    <3>1. Head(<<"pressed">>) = "pressed"
      OBVIOUS
    <3> QED BY <2>2, <3>1 DEF NextIn, ServiceLabels
  <2>7. ~Ahead(c)
    BY <2>1, RangeFew DEF Ahead
  <2>8. (client \/ AtAny(ServiceLabels))' /\ state' # "ELECTION_STARTED" =>
          \E d \in Calls : Ahead(d)'
    BY <1>5, <2>1, <2>2, <2>6, <2>7, AheadStep
  <2>9. CreatorLate'
    BY <1>5, <2>1, <2>5, <2>8 DEF CreatorLate
  <2> QED BY <1>1, <1>2, <2>1, <2>5, <2>9
<1>7. ASSUME NEW c \in Calls, PressDelete(c)
      PROVE  Goal
  <2>1. /\ popup = "none" /\ client /\ Idle /\ ~client' /\ state' = state /\ popup' = popup
        /\ keys' = keys /\ files' = files /\ wiping' = wiping
        /\ calls' = [calls EXCEPT ![c] = <<"wipe">>]
    BY <1>7 DEF PressDelete, Press, disk
  <2>2. \A d \in Calls : calls[d] = <<>> /\ ~Ahead(d)
    BY <2>1, RangeFew DEF Idle, Ahead
  <2>3. state = "ELECTION_STARTED" /\ state \in Late /\ ~wiping /\ Created
    BY <1>5, <2>1, <2>2
  <2>4. calls'[c] = <<"wipe">> /\ \A d \in Calls \ {c} : calls'[d] = <<>>
    BY <2>1, <2>2, PushOK
  <2>5. CreatorLate'
    BY <2>1, <2>3, <2>4 DEF CreatorLate, Created, Alone
  <2> QED BY <1>1, <1>2, <2>1, <2>3, <2>5
<1>8. ASSUME \/ \E dialog \in {"load", "start"} : OpenPopup(dialog)
             \/ ClosePopup
      PROVE  Goal
  <2>1. /\ popup # "none" \/ state = "READY_TO_START_ELECTION"
        /\ popup' \in {"none", "start"}
    <3>1. ~OpenPopup("load")
      BY DEF OpenPopup
    <3> QED BY <1>8, <3>1 DEF OpenPopup, ClosePopup
  <2>2. /\ state' = state /\ setupData' = setupData /\ calls' = calls /\ client' = client
        /\ keys' = keys /\ files' = files /\ wiping' = wiping
    BY <1>8 DEF OpenPopup, ClosePopup, disk
  <2>3. /\ state \in Late /\ ~wiping /\ Created /\ SetUp
        /\ (client \/ AtAny(ServiceLabels)) /\ state # "ELECTION_STARTED" =>
             \E d \in Calls : Ahead(d)
    BY <1>5, <2>1
  <2>4. SetUp' /\ Created'
    BY <2>1, <2>2, <2>3 DEF SetUp, Created, LabelsIn
  <2>5. (client \/ AtAny(ServiceLabels))' /\ state' # "ELECTION_STARTED" =>
          \E d \in Calls : Ahead(d)'
    BY <2>2, <2>3 DEF AtAny, Ahead
  <2>6. CreatorLate'
    BY <2>2, <2>3, <2>4, <2>5 DEF CreatorLate
  <2> QED BY <1>1, <1>2, <2>2, <2>3, <2>6
<1>9. ASSUME NEW c \in Calls, NEW data
      PROVE  ~PressLoad(c, data)
  BY <1>4 DEF PressLoad
<1> QED BY <1>3, <1>6, <1>7, <1>8, <1>9 DEF PressAny

(* No other step of a committee takes its election away from a stored state. *)
LEMMA CreatorNext ==
  ASSUME Hasty \subseteq {"start"}, {"restore", "wipe"} \cap Failures = {}
  PROVE  TypeInv /\ CreatorInv /\ [Next]_vars => CreatorInv'
<1> SUFFICES ASSUME TypeInv, CreatorInv, [Next]_vars, role = "committee"
             PROVE  /\ keys'.state # "INITIALIZING_ELECTION"
                    /\ state' \in Early => CreatorEarly'
                    /\ state' \in Late => CreatorLate'
  <2>1. ASSUME [Next]_vars PROVE role' = role
    BY <2>1, RoleStays
  <2> QED BY <2>1 DEF CreatorInv
<1>1. /\ keys.state # "INITIALIZING_ELECTION" /\ state \in Early \cup Late
      /\ state \in Early => CreatorEarly
      /\ state \in Late => CreatorLate
      /\ keys \in KeysType
  BY DEF CreatorInv, TypeInv, TypeOK, Late, KeysType
<1>2. /\ "INITIALIZING_ELECTION" \notin Late /\ "AWAITING_SETUP" \notin Late /\ Early \cap Late = {}
  BY DEF Late, Early
<1>3. ASSUME NEW c \in Calls, Continue(c)
      PROVE  /\ keys'.state # "INITIALIZING_ELECTION"
             /\ state' \in Early => CreatorEarly'
             /\ state' \in Late => CreatorLate'
  BY <1>1, <1>3, CreatorEarlyContinue, CreatorLateContinue
<1>4. ASSUME calls' = calls, state' = state, setupData' = setupData, popup' = popup, client' = client,
             keys'.committee = keys.committee, keys'.state = keys.state, files' = files,
             wiping' = wiping
      PROVE  /\ keys'.state # "INITIALIZING_ELECTION"
             /\ state' \in Early => CreatorEarly'
             /\ state' \in Late => CreatorLate'
  <2>1. Created' <=> Created
    BY <1>4 DEF Created
  <2>2. CreatorEarly => CreatorEarly'
    <3> HIDE DEF Created
    <3> QED BY <1>4, <2>1 DEF CreatorEarly, AtAny, Alone
  <2>3. SetUp => SetUp'
    BY <1>4 DEF SetUp, LabelsIn
  <2>4. CreatorLate => CreatorLate'
    <3>1. /\ AtAny(ServiceLabels)' <=> AtAny(ServiceLabels)
          /\ \A d \in Calls : (Ahead(d)' <=> Ahead(d)) /\ (Alone(d)' <=> Alone(d))
      BY <1>4 DEF AtAny, Ahead, Alone
    <3> HIDE DEF Created, SetUp, AtAny, Ahead, Alone
    <3> QED BY <1>4, <2>1, <2>3, <3>1 DEF CreatorLate
  <2> QED BY <1>1, <1>4, <2>2, <2>4
<1>5. CASE \/ \E c \in Calls : PressAny(c)
           \/ \E dialog \in {"load", "start"} : OpenPopup(dialog)
           \/ ClosePopup
  BY <1>5, CreatorButtons
<1>6. CASE RetryCockroachNode
  <2>1. retries - 1 \in Nat
    BY <1>6 DEF RetryCockroachNode, TypeInv, TypeOK
  <2>2. keys'.state = keys.state /\ keys'.committee = keys.committee
    BY <1>6, <2>1, InitClusterOK DEF RetryCockroachNode
  <2> QED BY <1>4, <1>6, <2>2 DEF RetryCockroachNode, memory
<1>7. CASE WipeFiles
  <2>1. /\ wiping /\ ~wiping' /\ keys' = keys /\ calls' = calls /\ state' = state
        /\ setupData' = setupData /\ popup' = popup /\ client' = client
    BY <1>7 DEF WipeFiles, memory
  <2>2. CreatorEarly /\ state \in Early
    BY <1>1, <2>1 DEF CreatorLate
  <2>3. keys.state \in Late => AtAny({"deleteAll"})
    BY <2>1, <2>2 DEF CreatorEarly
  <2>4. CreatorEarly'
    BY <2>1, <2>2, <2>3 DEF CreatorEarly, AtAny, Alone
  <2> QED BY <1>1, <1>2, <2>1, <2>2, <2>4
<1>8. CASE Restart
  <2>1. /\ keys' = keys /\ ~wiping' /\ state' = "AWAITING_SETUP" /\ popup' = "none" /\ ~client'
        /\ ~Deleting
    BY <1>8 DEF Restart, Fresh
  <2>2. PICK c \in Calls : /\ calls'[c] = <<"readState", "write">>
                           /\ \A d \in Calls \ {c} : calls'[d] = <<>>
    BY <1>8, FreshOK DEF Restart
  <2>3. calls'[c] # <<>> /\ Head(calls'[c]) = "readState" /\ calls'[c] \in CreatorStacks
    BY <2>2 DEF CreatorStacks
  <2>4. ASSUME keys.state \in Late
        PROVE  Created'
    <3>1. Created /\ \A d \in Calls : ~At(d, "create") /\ ~At(d, "load")
      <4>1. CASE state \in Early
        <5>1. CreatorEarly /\ ~AtAny({"deleteAll"})
          BY <1>1, <2>1, <4>1 DEF Deleting, AtAny, At
        <5>2. Created /\ AtAny({"readState", "restore"})
          BY <2>4, <5>1 DEF CreatorEarly
        <5>3. \A d \in Calls : calls[d] # <<>> => Head(calls[d]) \in {"readState", "restore"}
          BY <5>1, <5>2 DEF CreatorEarly, AtAny, Alone
        <5> QED BY <5>2, <5>3 DEF At
      <4>2. CASE state \in Late
        <5>1. Created /\ \A d \in Calls : calls[d] # <<>> => Head(calls[d]) \in LateLabels \cup {"wipe"}
          <6>1. CASE SetUp
            BY <1>1, <4>2, <6>1, RangeTail DEF CreatorLate, SetUp, LabelsIn, TypeInv, TypeOK
          <6>2. CASE \E d \in Calls : calls[d] = <<"wipe">> /\ Alone(d)
            <7>1. Head(<<"wipe">>) = "wipe"
              OBVIOUS
            <7> QED BY <1>1, <4>2, <6>2, <7>1 DEF CreatorLate, Alone
          <6> QED BY <1>1, <4>2, <6>1, <6>2 DEF CreatorLate
        <5> QED BY <5>1 DEF At, LateLabels, ServiceLabels
      <4> QED BY <1>1, <4>1, <4>2
    <3>2. files' = files
      BY <1>8, <2>1, <3>1 DEF Restart, Deleting
    <3> QED BY <2>1, <3>1, <3>2 DEF Created
  <2>5. CreatorEarly'
    BY <2>1, <2>2, <2>3, <2>4, SoleCreator
  <2> QED BY <1>1, <1>2, <2>1, <2>5
<1>9. CASE UNCHANGED vars
  BY <1>4, <1>9 DEF vars, memory, disk
<1> QED BY <1>3, <1>5, <1>6, <1>7, <1>8, <1>9 DEF Next

(* The program starts by reading the stored state, and has stored none. *)
LEMMA InitReads ==
  ASSUME Init
  PROVE  /\ state = "AWAITING_SETUP" /\ popup = "none" /\ ~client /\ ~wiping
         /\ keys = NoKeys
         /\ \A c \in Calls : calls[c] \in {<<>>, <<"readState", "write">>}
         /\ \A c \in Calls : calls[c] # <<>> => Alone(c)
         /\ \A labels : "readState" \notin labels => ~AtAny(labels)
<1>1. /\ state = "AWAITING_SETUP" /\ popup = "none" /\ ~client /\ ~wiping
      /\ keys = NoKeys
  BY DEF Init
<1>2. Entered("AWAITING_SETUP", "none").todo = <<"readState", "write">>
  BY EnteredIs DEF CVStates, Setups
<1>3. PICK c \in Calls : calls = [d \in Calls |-> IF d = c THEN <<"readState", "write">> ELSE <<>>]
  BY <1>1, <1>2 DEF Init
<1>4. calls[c] = <<"readState", "write">> /\ \A d \in Calls \ {c} : calls[d] = <<>>
  BY <1>3
<1>5. \A d \in Calls : calls[d] # <<>> => Alone(d)
  BY <1>4 DEF Alone
<1>6. Head(<<"readState", "write">>) = "readState"
  OBVIOUS
<1>7. \A labels : "readState" \notin labels => ~AtAny(labels)
  BY <1>4, <1>6 DEF AtAny
<1>8. \A d \in Calls : calls[d] \in {<<>>, <<"readState", "write">>}
  BY <1>4
<1> QED BY <1>1, <1>5, <1>7, <1>8

(* A box that is started for the first time has stored no state. *)
LEMMA LoadedInit == Init => LoadedInv
<1> SUFFICES ASSUME Init PROVE LoadedInv
  OBVIOUS
<1>1. state = "AWAITING_SETUP" /\ keys.state = "none" /\ ~AtAny({"boxKey"})
  BY InitReads DEF NoKeys
<1>2. "AWAITING_SETUP" \notin Late /\ "none" \notin Late
  BY DEF Late, Early, CVStates
<1> QED BY <1>1, <1>2 DEF LoadedInv

(* Nor has a committee. *)
LEMMA CreatorInit == Init => CreatorInv
<1> SUFFICES ASSUME Init PROVE CreatorInv
  OBVIOUS
<1>1. /\ state = "AWAITING_SETUP" /\ popup = "none" /\ ~client
      /\ keys.state = "none"
  BY InitReads DEF NoKeys
<1>2. "AWAITING_SETUP" \notin Late /\ "none" \notin Late
  BY DEF Late, Early, CVStates
<1>3. \A c \in Calls : calls[c] \in CreatorStacks
  BY InitReads DEF CreatorStacks
<1>4. ~AtAny({"flag", "create"}) /\ ~AtAny({"create"}) /\ ~AtAny({"restore"})
  BY InitReads
<1>5. \A c \in Calls : calls[c] # <<>> => Alone(c)
  BY InitReads
<1>6. CreatorEarly
  BY <1>1, <1>2, <1>3, <1>4, <1>5 DEF CreatorEarly
<1> QED BY <1>1, <1>2, <1>6 DEF CreatorInv

(* Unless its setup is being deleted, a committee that stored a state has created
   the election of that state. *)
LEMMA CreatorRestores ==
  ASSUME TypeInv, CreatorInv, role = "committee", ~Deleting, keys.state \in Late
  PROVE  MayRestore
<1>1. ~AtAny({"deleteAll"})
  BY DEF Deleting, AtAny, At
<1>2. Created
  <2>1. state \in Early \cup Late
    BY DEF TypeInv, TypeOK, Late
  <2> QED BY <1>1, <2>1 DEF CreatorInv, CreatorEarly, CreatorLate
<1>3. Restored[Dir] = files.committee
  BY <1>2 DEF Created, Restored, Dir
<1> QED BY <1>2, <1>3 DEF Created, MayRestore

(* A node that stored a state of its election finds on its disk and in its keyring
   the setup of that election, wherever the program stops: at any await of the calls
   of the controller (state_controller.dart:79, setup_services.dart:176).  Assumed:
   no dialog but the one that starts the election is used while an earlier call
   still runs, a box does not press the button that deletes its setup, and neither
   the restoring nor the deletion of a setup fails halfway. *)
THEOREM StoredRestores ==
  ASSUME Hasty \subseteq {"start"}, "box" \notin Deleters,
         {"restore", "wipe"} \cap Failures = {}
  PROVE  Spec => []StoredIsRestorable
<1>1. TypeInv /\ BoxInv /\ LoadedInv /\ CreatorInv => StoredIsRestorable
  <2> SUFFICES ASSUME TypeInv, BoxInv, LoadedInv, CreatorInv,
                      ~Deleting, keys.state \notin {"none", "AWAITING_SETUP"}
               PROVE  MayRestore
    BY DEF StoredIsRestorable
  <2>1. keys.state \in CVStates /\ keys.state # "INITIALIZING_ELECTION"
    BY DEF TypeInv, TypeOK, BoxInv, CreatorInv
  <2>2. keys.state \in Late
    BY <2>1 DEF Late, Early
  <2>3. CASE role = "committee"
    BY <2>2, <2>3, CreatorRestores
  <2>4. CASE role # "committee"
    BY <2>2, <2>4 DEF LoadedInv
  <2> QED BY <2>3, <2>4
<1>2. TypeInv /\ BoxInv /\ [Next]_vars => BoxInv'
  BY BoxNext
<1>3. TypeInv /\ BoxInv /\ LoadedInv /\ [Next]_vars => LoadedInv'
  BY LoadedNext
<1>4. TypeInv /\ CreatorInv /\ [Next]_vars => CreatorInv'
  BY CreatorNext
<1> QED BY <1>1, <1>2, <1>3, <1>4, BoxInit, LoadedInit, CreatorInit, TypeAlways, PTL DEF Spec

=============================================================================
