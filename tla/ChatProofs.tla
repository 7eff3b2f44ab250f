----------------------------- MODULE ChatProofs -----------------------------
(***************************************************************************)
(* What the chat keeps, for every number of nodes, messages and calls      *)
(* under way: a message that was written stays readable.                   *)
(***************************************************************************)
EXTENDS Chat, FiniteSetTheorems, WellFoundedInduction, TLAPS

-----------------------------------------------------------------------------
(* Sorting.  A claim about all finite sets is shown of a smallest set for     *)
(* which it would fail.                                                       *)

\* Messages that chatMessageSlice.Less can put in an order.
Dated(S) ==
  /\ \A m \in S : m.at \in Nat
  /\ \A l, m \in S : l.at = m.at => l = m

InOrder(f, S) ==
  /\ f \in [1..Cardinality(S) -> S]
  /\ \A i, j \in 1..Cardinality(S) : i < j => Less(f[i], f[j])

(* Among the subsets of a finite set there are smallest ones. *)
LEMMA SmallestSubset ==
  ASSUME NEW S, IsFiniteSet(S), NEW T, T \subseteq SUBSET S, T # {}
  PROVE  \E x \in T : \A y \in T : y \subseteq x => y = x
<1>1. IsWellFoundedOn(StrictSubsetOrdering(S), SUBSET S)
  BY FS_StrictSubsetOrderingWellFounded, FS_FiniteSubsetsOfFinite
<1>2. PICK x \in T : \A y \in T : ~(<<y, x>> \in StrictSubsetOrdering(S))
  BY <1>1, WFMin
<1>3. ASSUME NEW y \in T, y \subseteq x, y # x PROVE FALSE
  <2>1. <<y, x>> \in StrictSubsetOrdering(S)
    BY <1>3 DEF StrictSubsetOrdering
  <2> QED BY <1>2, <2>1
<1> QED BY <1>3

(* Among messages with a time there is an earliest one. *)
LEMMA EarliestMessage ==
  ASSUME NEW S, IsFiniteSet(S), S # {}, \A m \in S : m.at \in Nat
  PROVE  \E m \in S : \A l \in S : m.at <= l.at
<1> DEFINE Before(m) == {l \in S : l.at < m.at}
           All == {Before(m) : m \in S}
<1>1. PICK x \in All : \A y \in All : y \subseteq x => y = x
  <2>1. All \subseteq SUBSET S /\ All # {}
    OBVIOUS
  <2> HIDE DEF All
  <2> QED BY <2>1, SmallestSubset
<1>2. PICK m \in S : x = Before(m)
  BY <1>1
<1>3. ASSUME NEW l \in S, l.at < m.at PROVE FALSE
  <2>1. Before(l) \in All /\ Before(l) \subseteq x /\ l \in x
    BY <1>2, <1>3
  <2>2. l \notin Before(l)
    BY <1>3
  <2> QED BY <1>1, <2>1, <2>2
<1> QED BY <1>3

(* Dated messages can be put in order. *)
LEMMA OrderExists ==
  ASSUME NEW S, IsFiniteSet(S), Dated(S)
  PROVE  \E f : InOrder(f, S)
<1> DEFINE Bad == {T \in SUBSET S : ~\E f : InOrder(f, T)}
<1> SUFFICES ASSUME Bad # {} PROVE FALSE
  BY DEF Bad
<1>1. PICK T \in Bad : \A y \in Bad : y \subseteq T => y = T
  <2>1. Bad \subseteq SUBSET S
    OBVIOUS
  <2> HIDE DEF Bad
  <2> QED BY <2>1, SmallestSubset
<1>2. T \in SUBSET S /\ ~\E f : InOrder(f, T)
  BY <1>1
<1>3. IsFiniteSet(T)
  BY <1>2, FS_Subset
<1>4. CASE T = {}
  <2>1. Cardinality(T) = 0
    BY <1>4, FS_EmptySet
  <2>2. PICK f : f = [i \in 1..0 |-> 0]
    OBVIOUS
  <2>3. InOrder(f, T)
    BY <2>1, <2>2 DEF InOrder
  <2> QED BY <1>2, <2>3
<1>5. CASE T # {}
  <2>1. \A m \in T : m.at \in Nat
    BY <1>2 DEF Dated
  <2>2. PICK m \in T : \A l \in T : m.at <= l.at
    BY <1>3, <1>5, <2>1, EarliestMessage
  <2>3. PICK t : t = T \ {m}
    OBVIOUS
  <2>4. t \in SUBSET S /\ t \subseteq T /\ t # T
    BY <1>2, <2>2, <2>3
  <2>5. PICK g : InOrder(g, t)
    BY <1>1, <2>4
  <2>6. PICK n \in Nat : n = Cardinality(t) /\ Cardinality(T) = n + 1
    <3>1. IsFiniteSet(t) /\ Cardinality(t) = Cardinality(T) - 1 /\ Cardinality(T) \in Nat
      BY <1>3, <2>2, <2>3, FS_RemoveElement, FS_CardinalityType
    <3>2. Cardinality(t) \in Nat
      BY <3>1, FS_CardinalityType
    <3> QED BY <3>1, <3>2
  <2>7. g \in [1..n -> t] /\ \A i, j \in 1..n : i < j => Less(g[i], g[j])
    BY <2>5, <2>6 DEF InOrder
  <2>8. PICK f : f = [i \in 1..(n + 1) |-> IF i = 1 THEN m ELSE g[i - 1]]
    OBVIOUS
  <2>9. f \in [1..(n + 1) -> T]
    BY <2>2, <2>4, <2>7, <2>8
  <2>10. ASSUME NEW l \in t PROVE Less(m, l)
    <3>1. l \in T /\ l # m /\ l \in S /\ m \in S
      BY <1>2, <2>2, <2>3, <2>10
    <3>2. m.at <= l.at /\ m.at # l.at /\ m.at \in Nat /\ l.at \in Nat
      BY <2>2, <3>1 DEF Dated
    <3> QED BY <3>2 DEF Less
  <2>11. ASSUME NEW i \in 1..(n + 1), NEW j \in 1..(n + 1), i < j PROVE Less(f[i], f[j])
    <3>1. j # 1 /\ j - 1 \in 1..n /\ f[j] = g[j - 1]
      BY <2>8, <2>11
    <3>2. CASE i = 1
      <4>1. f[i] = m /\ g[j - 1] \in t
        BY <2>7, <2>8, <3>1, <3>2
      <4> QED BY <2>10, <3>1, <4>1
    <3>3. CASE i # 1
      <4>1. i - 1 \in 1..n /\ i - 1 < j - 1 /\ f[i] = g[i - 1]
        BY <2>8, <2>11, <3>3
      <4> QED BY <2>7, <3>1, <4>1
    <3> QED BY <3>2, <3>3
  <2>12. InOrder(f, T)
    BY <2>6, <2>9, <2>11 DEF InOrder
  <2> QED BY <1>2, <2>12
<1> QED BY <1>4, <1>5

(* sort.Sort loses no message and makes none up. *)
LEMMA SortedHolds ==
  ASSUME NEW S, IsFiniteSet(S), Dated(S)
  PROVE  /\ Sorted(S) \in [1..Cardinality(S) -> S]
         /\ Cardinality(S) \in Nat
         /\ \A m \in S : \E i \in 1..Cardinality(S) : Sorted(S)[i] = m
<1>1. PICK n \in Nat : n = Cardinality(S)
  BY FS_CardinalityType
<1>2. PICK f : f = Sorted(S)
  OBVIOUS
<1>3. f \in [1..n -> S] /\ \A i, j \in 1..n : i < j => Less(f[i], f[j])
  <2>1. \E g : InOrder(g, S)
    BY OrderExists
  <2>2. \E g \in [1..n -> S] : \A i, j \in 1..n : i < j => Less(g[i], g[j])
    BY <1>1, <2>1 DEF InOrder
  <2> QED BY <1>1, <1>2, <2>2 DEF Sorted
<1>4. ASSUME NEW i \in 1..n, NEW j \in 1..n, f[i] = f[j], i # j PROVE FALSE
  <2>1. i < j \/ j < i
    BY <1>4
  <2>2. Less(f[i], f[i])
    BY <1>3, <1>4, <2>1
  <2>3. f[i].at \in Nat
    BY <1>3 DEF Dated
  <2> QED BY <2>2, <2>3 DEF Less
<1>5. f \in Injection(1..n, S)
  BY <1>3, <1>4 DEF Injection, IsInjective
<1>6. IsFiniteSet(1..n) /\ Cardinality(1..n) = n
  <2>1. 1 \in Int /\ n \in Int
    OBVIOUS
  <2>2. IsFiniteSet(1..n) /\ Cardinality(1..n) = IF 1 > n THEN 0 ELSE n - 1 + 1
    BY <2>1, FS_Interval
  <2> QED BY <2>2
<1>7. f \in Surjection(1..n, S)
  BY <1>1, <1>5, <1>6, FS_Injection
<1> QED BY <1>1, <1>2, <1>3, <1>7 DEF Surjection

-----------------------------------------------------------------------------
(* The history *)

\* What a row shows to a node with this password, beside the empty message.
Entry(t, key) ==
  IF Decrypts(rows[t], key) THEN Message(t, rows[t].sender, rows[t].text)
  ELSE Message(t, "", "Message failed to decrypt")

AllEntries(key) == UNION {Entries(rows[t], t, key) : t \in Stored}

(* ReadChat sorts one entry of each row, all of different times. *)
LEMMA EntriesOf ==
  ASSUME NEW key
  PROVE  /\ {m \in UNION {Entries(rows[t], t, key) : t \in Stored} : m.at # 0}
              = {Entry(t, key) : t \in Stored}
         /\ Dated({Entry(t, key) : t \in Stored})
<1>1. \A t \in Stored : t \in Nat /\ t # 0
  BY ChatAssumption DEF Stored
<1>2. \A t \in Stored : Entry(t, key).at = t
  BY DEF Entry, Message
<1>3. ASSUME NEW t \in Stored
      PROVE  {m \in Entries(rows[t], t, key) : m.at # 0} = {Entry(t, key)}
  <2>1. PICK x, y, z : /\ x = Message(t, rows[t].sender, rows[t].text)
                       /\ y = Message(t, "", "Message failed to decrypt")
                       /\ z = Message(0, "", "")
    OBVIOUS
  <2>2. x.at # 0 /\ y.at # 0 /\ z.at = 0
    BY <1>1, <2>1 DEF Message
  <2>3. CASE Decrypts(rows[t], key)
    BY <2>1, <2>2, <2>3 DEF Entries, Entry
  <2>4. CASE ~Decrypts(rows[t], key)
    <3>1. Entries(rows[t], t, key) = {y, z} /\ Entry(t, key) = y
      BY <2>1, <2>4 DEF Entries, Entry
    <3> QED BY <2>2, <3>1
  <2> QED BY <2>3, <2>4
<1>4. {m \in UNION {Entries(rows[t], t, key) : t \in Stored} : m.at # 0}
         = {Entry(t, key) : t \in Stored}
  BY <1>3
<1> QED BY <1>1, <1>2, <1>4 DEF Dated

(* ReadChat returns entries of the stored rows, and the message of each row that
   decrypts, whatever the other rows are. *)
LEMMA HistoryIs ==
  ASSUME IsFiniteSet(Stored), NEW key
  PROVE  /\ ReadChat(key) \in Seq(AllEntries(key))
         /\ \A t \in Stored : rows[t].key = key =>
              Contains(ReadChat(key), Message(t, rows[t].sender, rows[t].text))
<1> DEFINE R == {Entry(t, key) : t \in Stored}
           broken == {t \in Stored : ~Decrypts(rows[t], key)}
<1>0. /\ \A t \in Stored : Entry(t, key) \in AllEntries(key)
      /\ \A t \in broken : Message(0, "", "") \in AllEntries(key)
  <2>1. \A t \in Stored : Entry(t, key) \in Entries(rows[t], t, key)
    BY DEF Entries, Entry
  <2>2. \A t \in broken : Message(0, "", "") \in Entries(rows[t], t, key)
    BY DEF Entries
  <2>3. \A t \in Stored : Entries(rows[t], t, key) \subseteq AllEntries(key)
    BY DEF AllEntries
  <2> QED BY <2>1, <2>2, <2>3
<1>1. IsFiniteSet(R)
  <2>1. PICK e : e = [t \in Stored |-> Entry(t, key)]
    OBVIOUS
  <2>2. e \in Surjection(Stored, R)
    BY <2>1 DEF Surjection
  <2> QED BY <2>2, FS_Surjection
<1>2. Cardinality(broken) \in Nat /\ IsFiniteSet(broken)
  BY FS_Subset, FS_CardinalityType
<1>3. PICK k \in Nat, n \in Nat : k = Cardinality(broken) /\ n = Cardinality(R)
  BY <1>1, <1>2, FS_CardinalityType
<1>4. PICK f : f = Sorted(R)
  OBVIOUS
<1>5. f \in [1..n -> R] /\ \A m \in R : \E i \in 1..n : f[i] = m
  <2>1. Dated(R)
    BY EntriesOf
  <2> HIDE DEF R
  <2> QED BY <1>1, <1>3, <1>4, <2>1, SortedHolds
<1>6. PICK g : g = [i \in 1..k |-> Message(0, "", "")]
  OBVIOUS
<1>7. ReadChat(key) = g \o f
  BY <1>3, <1>6, <1>4, EntriesOf DEF ReadChat
<1>8. g \in Seq(AllEntries(key)) /\ Len(g) = k
  <2>1. CASE k = 0
    BY <1>6, <2>1
  <2>2. CASE k # 0
    <3>1. broken # {}
      BY <1>2, <1>3, <2>2, FS_EmptySet
    <3>2. Message(0, "", "") \in AllEntries(key)
      BY <1>0, <3>1
    <3>3. PICK e, A : e = Message(0, "", "") /\ A = AllEntries(key)
      OBVIOUS
    <3>4. g = [i \in 1..k |-> e] /\ e \in A
      BY <1>6, <3>2, <3>3
    <3>5. g \in Seq(A) /\ Len(g) = k
      BY <3>4
    <3> QED BY <3>3, <3>5
  <2> QED BY <2>1, <2>2
<1>9. f \in Seq(AllEntries(key)) /\ Len(f) = n
  <2>1. R \subseteq AllEntries(key)
    BY <1>0
  <2>2. PICK A : A = AllEntries(key)
    OBVIOUS
  <2>3. f \in [1..n -> A]
    BY <1>5, <2>1, <2>2
  <2>4. f \in Seq(A) /\ Len(f) = n
    BY <2>3
  <2> QED BY <2>2, <2>4
<1>10. ReadChat(key) \in Seq(AllEntries(key)) /\ Len(ReadChat(key)) = k + n
  <2>1. PICK A : A = AllEntries(key)
    OBVIOUS
  <2>2. g \in Seq(A) /\ f \in Seq(A)
    BY <1>8, <1>9, <2>1
  <2>3. g \o f \in Seq(A) /\ Len(g \o f) = Len(g) + Len(f)
    BY <2>2
  <2> QED BY <1>7, <1>8, <1>9, <2>1, <2>3
<1>11. ASSUME NEW t \in Stored, rows[t].key = key
       PROVE  Contains(ReadChat(key), Message(t, rows[t].sender, rows[t].text))
  <2>1. Entry(t, key) = Message(t, rows[t].sender, rows[t].text) /\ Entry(t, key) \in R
    BY <1>11 DEF Entry, Decrypts
  <2>2. PICK i \in 1..n : f[i] = Entry(t, key)
    BY <1>5, <2>1
  <2>3. k + i \in 1..(k + n) /\ ReadChat(key)[k + i] = f[i]
    BY <1>7, <1>8, <1>9
  <2> QED BY <1>10, <2>1, <2>2, <2>3 DEF Contains
<1> QED BY <1>10, <1>11

-----------------------------------------------------------------------------
(* The invariant *)

\* What was written is stored, and stays.
StoreInv ==
  /\ rows \in [Times -> Rows]
  /\ IsFiniteSet(Stored)
  /\ \A a \in written : a.at \in Stored /\ rows[a.at] = a.row

CountInv ==
  /\ writes \in 0..MaxWrites /\ events \in 0..MaxEvents
  /\ total \in 0..writes

PageInv ==
  /\ page \in [Nodes -> Pages]
  /\ shown = [n \in Nodes |-> shown[n]]
  /\ dash \in [Nodes -> Dashboards]
  /\ \A n \in Nodes : page[n] # "chat" => shown[n] = Blank
  /\ \A n \in Nodes : page[n] # "dashboard" => dash[n] = NewDashboard

\* Only the dashboard has a call for a build, and gets numbers as answers.
CallOK(call) ==
  call # Idle =>
    /\ call.node \in Nodes
    /\ call.do \in {"read", "arrive", "stamp", "insert"}
    /\ call.do \in {"read", "arrive"} =>
         /\ page[call.node] # "other"
         /\ call.build \in BOOLEAN
         /\ call.build => page[call.node] = "dashboard"
    /\ call.do = "read" => call = ReadCall(call.node, call.build)
    /\ call.do = "arrive" =>
         /\ call = [do |-> "arrive", node |-> call.node, build |-> call.build, answer |-> call.answer]
         /\ page[call.node] = "dashboard" => call.answer \in 0..MaxWrites
    /\ call.do \in {"stamp", "insert"} => call.text \in Texts
    /\ call.do = "insert" => call.at \in Times

CallInv ==
  /\ calls = [c \in Calls |-> calls[c]]
  /\ \A c \in Calls : CallOK(calls[c])

Inv == StoreInv /\ CountInv /\ PageInv /\ CallInv

(* The bounds are numbers. *)
LEMMA Bounds ==
  Inv => /\ MaxWrites \in Nat /\ MaxEvents \in Nat
         /\ writes \in Nat /\ events \in Nat
         /\ writes <= MaxWrites /\ events <= MaxEvents
<1> SUFFICES ASSUME Inv
             PROVE  /\ MaxWrites \in Nat /\ MaxEvents \in Nat
                    /\ writes \in Nat /\ events \in Nat
                    /\ writes <= MaxWrites /\ events <= MaxEvents
  OBVIOUS
<1>1. MaxWrites \in Nat /\ MaxEvents \in Nat
  BY ChatAssumption
<1>2. writes \in 0..MaxWrites /\ events \in 0..MaxEvents
  BY DEF Inv, CountInv
<1> QED BY <1>1, <1>2

(* A call that a step leaves alone is as good as before. *)
LEMMA CallKept ==
  ASSUME NEW call, call # Idle => page'[call.node] = page[call.node], CallOK(call)
  PROVE  CallOK(call)'
<1>1. CASE call = Idle
  BY <1>1 DEF CallOK
<1>2. CASE call # Idle
  BY <1>2 DEF CallOK
<1> QED BY <1>1, <1>2

(* A row, a certificate and a page: nothing is there in the beginning. *)
LEMMA InitInv == Init => Inv
<1> SUFFICES ASSUME Init PROVE Inv
  OBVIOUS
<1>1. Stored = {}
  BY DEF Init, Stored
<1>2. IsFiniteSet(Stored)
  BY <1>1, FS_EmptySet
<1>3. StoreInv
  BY <1>1, <1>2 DEF Init, StoreInv, Rows
<1>4. CountInv
  <2>1. MaxWrites \in Nat /\ MaxEvents \in Nat
    BY ChatAssumption
  <2>2. writes = 0 /\ events = 0 /\ total = 0
    BY DEF Init
  <2> QED BY <2>1, <2>2 DEF CountInv
<1>5. PageInv
  BY DEF Init, PageInv, Dashboards, NewDashboard
<1>6. CallInv
  BY DEF Init, CallInv, CallOK
<1> QED BY <1>3, <1>4, <1>5, <1>6 DEF Inv

-----------------------------------------------------------------------------
(* Steps *)

(* The calls and the dashboards change, and no other page, row or number. *)
LEMMA CallsMove ==
  ASSUME Inv, UNCHANGED <<page, rows, total, shown, history>>,
         calls' = [c \in Calls |-> calls'[c]],
         \A c \in Calls : calls'[c] = calls[c] \/ \E x : calls'[c] = x /\ CallOK(x)',
         dash' \in [Nodes -> Dashboards],
         \A n \in Nodes : page[n] # "dashboard" => dash'[n] = dash[n],
         \/ UNCHANGED <<writes, events>>
         \/ writes < MaxWrites /\ writes' = writes + 1 /\ UNCHANGED events
         \/ events < MaxEvents /\ events' = events + 1 /\ UNCHANGED writes
  PROVE  Inv'
<1>1. StoreInv'
  BY DEF Inv, StoreInv, Stored, history
<1>2. CountInv'
  <2>1. total \in 0..writes /\ total' = total
    BY DEF Inv, CountInv
  <2> QED BY <2>1, Bounds DEF CountInv
<1>3. PageInv'
  BY DEF Inv, PageInv
<1>4. CallInv'
  <2>1. ASSUME NEW c \in Calls PROVE CallOK(calls[c])'
    <3>1. PICK x : calls'[c] = x /\ CallOK(x)'
      <4>1. PICK call : call = calls[c]
        OBVIOUS
      <4>2. CallOK(call)'
        BY <4>1, CallKept DEF Inv, CallInv
      <4> QED BY <4>1, <4>2
    <3> QED BY <3>1 DEF CallOK
  <2> QED BY <2>1 DEF CallInv
<1> QED BY <1>1, <1>2, <1>3, <1>4 DEF Inv

(* A page that polls makes a call that is in order. *)
LEMMA ReadCallOK ==
  ASSUME NEW n \in Nodes, NEW build \in BOOLEAN, page' = page, page[n] # "other",
         build => page[n] = "dashboard", NEW x, x = ReadCall(n, build)
  PROVE  CallOK(x)'
<1>1. x # Idle /\ x.do = "read" /\ x.node = n /\ x.build = build
  BY DEF ReadCall, Idle
<1> QED BY <1>1 DEF CallOK

(* The timer of the page, and a message that is sent. *)
LEMMA PagesCall ==
  ASSUME Inv, NEW n \in Nodes, Poll(n) \/ \E text \in Texts : Send(n, text)
  PROVE  Inv'
<1>1. PICK y : y = ReadCall(n, FALSE)
  OBVIOUS
<1>2. page' = page /\ dash' = dash /\ page[n] # "other"
  BY DEF Poll, Send, widgets
<1>3. CallOK(y)'
  BY <1>1, <1>2, ReadCallOK
<1>4. dash \in [Nodes -> Dashboards]
  BY DEF Inv, PageInv
<1>5. CASE Poll(n)
  <2>1. PICK c \in Calls : calls' = [calls EXCEPT ![c] = y]
    BY <1>1, <1>5 DEF Poll
  <2>2. calls' = [d \in Calls |-> calls'[d]] /\ \A d \in Calls : calls'[d] = calls[d] \/ calls'[d] = y
    BY <2>1 DEF Inv, CallInv
  <2>3. UNCHANGED <<page, rows, total, shown, history, writes, events>>
    BY <1>5 DEF Poll, widgets
  <2> QED BY <1>2, <1>3, <1>4, <2>2, <2>3, CallsMove
<1>6. ASSUME NEW text \in Texts, Send(n, text) PROVE Inv'
  <2>1. PICK x : x = [do |-> "stamp", node |-> n, text |-> text]
    OBVIOUS
  <2>2. PICK c \in Calls, d \in Calls : calls' = [calls EXCEPT ![c] = x, ![d] = y]
    BY <1>1, <1>6, <2>1 DEF Send
  <2>3. x # Idle /\ x.do = "stamp" /\ x.node = n /\ x.text = text
    BY <2>1 DEF Idle
  <2>4. CallOK(x)'
    BY <2>3 DEF CallOK
  <2>5. /\ calls' = [e \in Calls |-> calls'[e]]
        /\ \A e \in Calls : calls'[e] = calls[e] \/ calls'[e] = x \/ calls'[e] = y
    BY <2>2 DEF Inv, CallInv
  <2>6. /\ UNCHANGED <<page, rows, total, shown, history, events>>
        /\ writes < MaxWrites /\ writes' = writes + 1
    BY <1>6 DEF Send, widgets
  <2> QED BY <1>2, <1>3, <1>4, <2>4, <2>5, <2>6, CallsMove
<1> QED BY <1>5, <1>6

(* A build takes the place of an earlier one: its call is the only one that the
   FutureBuilder waits for. *)
LEMMA BuildInv ==
  ASSUME Inv, NEW n \in Nodes, Build(n)
  PROVE  Inv'
<1>1. /\ page[n] = "dashboard"
      /\ UNCHANGED <<page, rows, total, shown, history, writes, events>>
      /\ page' = page
  BY DEF Build
<1>2. PICK c \in Calls :
        calls' = [d \in Calls |-> IF d = c THEN ReadCall(n, TRUE)
                                  ELSE IF Polling(d, n) THEN [calls[d] EXCEPT !.build = FALSE]
                                  ELSE calls[d]]
  BY DEF Build
<1>3. PICK x : x = ReadCall(n, TRUE)
  OBVIOUS
<1>4. CallOK(x)'
  BY <1>1, <1>3, ReadCallOK
<1>5. ASSUME NEW d \in Calls, Polling(d, n), NEW y, y = [calls[d] EXCEPT !.build = FALSE]
      PROVE  CallOK(y)'
  <2>1. PICK call : call = calls[d] /\ y = [call EXCEPT !.build = FALSE]
    BY <1>5
  <2>5. PICK no : no = FALSE /\ y = [call EXCEPT !.build = no]
    BY <2>1
  <2>2. CallOK(call) /\ call # Idle /\ call.node = n /\ call.do \in {"read", "arrive"}
    BY <1>5, <2>1 DEF Inv, CallInv, Polling
  <2> PICK b : b = call.build
    OBVIOUS
  <2>3. CASE call.do = "read"
    <3>1. call = [do |-> "read", node |-> n, build |-> b]
      BY <2>2, <2>3 DEF CallOK, ReadCall
    <3>2. y = [do |-> "read", node |-> n, build |-> no]
      BY <2>5, <3>1
    <3>3. y = ReadCall(n, FALSE)
      BY <2>5, <3>2 DEF ReadCall
    <3> QED BY <1>1, <3>3, ReadCallOK
  <2>4. CASE call.do = "arrive"
    <3>1. PICK answer : answer = call.answer
      OBVIOUS
    <3>2. call = [do |-> "arrive", node |-> n, build |-> b, answer |-> answer]
      BY <2>2, <2>4, <3>1 DEF CallOK
    <3>3. y = [do |-> "arrive", node |-> n, build |-> no, answer |-> answer]
      BY <2>5, <3>2
    <3>4. answer \in 0..MaxWrites
      BY <1>1, <2>2, <2>4, <3>1 DEF CallOK
    <3>5. y # Idle /\ y.do = "arrive" /\ y.node = n /\ y.build = no /\ y.answer = answer
      BY <3>3 DEF Idle
    <3>6. y.build \in BOOLEAN /\ page'[n] # "other" /\ page'[n] = "dashboard"
      BY <1>1, <2>5, <3>5
    <3> QED BY <3>3, <3>4, <3>5, <3>6 DEF CallOK
  <2> QED BY <2>2, <2>3, <2>4
<1>6. ASSUME NEW d \in Calls PROVE calls'[d] = calls[d] \/ \E y : calls'[d] = y /\ CallOK(y)'
  <2>1. CASE d = c
    BY <1>2, <1>3, <1>4, <2>1
  <2>2. CASE d # c /\ Polling(d, n)
    <3>1. PICK y : y = [calls[d] EXCEPT !.build = FALSE]
      OBVIOUS
    <3>2. CallOK(y)' /\ calls'[d] = y
      BY <1>2, <1>5, <2>2, <3>1
    <3> QED BY <3>2
  <2>3. CASE d # c /\ ~Polling(d, n)
    BY <1>2, <2>3
  <2> QED BY <2>1, <2>2, <2>3
<1>7. calls' = [d \in Calls |-> calls'[d]]
  BY <1>2
<1>8. PICK r : /\ dash' = [dash EXCEPT ![n] = r]
               /\ r = [stats |-> dash[n].stats, dirty |-> FALSE,
                       view |-> IF dash[n].view = "error" THEN "error" ELSE "spinner"]
  BY DEF Build
<1>9. r \in Dashboards
  <2>1. dash[n].stats \in 0..MaxWrites \cup {NoStats}
    BY DEF Inv, PageInv, Dashboards
  <2> QED BY <1>8, <2>1 DEF Dashboards
<1>10. dash' \in [Nodes -> Dashboards] /\ \A m \in Nodes : page[m] # "dashboard" => dash'[m] = dash[m]
  BY <1>1, <1>8, <1>9 DEF Inv, PageInv
<1> QED BY <1>1, <1>6, <1>7, <1>10, CallsMove

(* The calls of a process that ends, end; that of a build leaves an error. *)
LEMMA CrashInv ==
  ASSUME Inv, NEW n \in Nodes, Crash(n)
  PROVE  Inv'
<1>1. /\ UNCHANGED <<page, rows, total, shown, history, writes>>
      /\ events < MaxEvents /\ events' = events + 1
  BY DEF Crash
<1>2. /\ calls' = [c \in Calls |-> calls'[c]]
      /\ \A c \in Calls : calls'[c] = calls[c] \/ calls'[c] = Idle
  BY DEF Crash, Inv, CallInv
<1>3. CallOK(Idle)'
  BY DEF CallOK
<1>4. /\ dash' \in [Nodes -> Dashboards]
      /\ \A m \in Nodes : page[m] # "dashboard" => dash'[m] = dash[m]
  <2>1. dash \in [Nodes -> Dashboards]
    BY DEF Inv, PageInv
  <2>2. CASE dash' = dash
    BY <2>1, <2>2
  <2>3. CASE dash' # dash
    <3>1. PICK c \in Calls : /\ calls[c] # Idle /\ calls[c].node = n
                             /\ calls[c].do = "read" /\ calls[c].build
      BY <2>3 DEF Crash
    <3>2. page[n] = "dashboard"
      BY <3>1 DEF Inv, CallInv, CallOK
    <3>3. dash' = [dash EXCEPT ![n].view = "error"]
      BY <2>3 DEF Crash
    <3>4. dash'[n] = [dash[n] EXCEPT !.view = "error"]
      BY <2>1, <3>3
    <3>5. dash'[n] \in Dashboards
      BY <2>1, <3>4 DEF Dashboards
    <3> QED BY <2>1, <3>2, <3>3, <3>5
  <2> QED BY <2>2, <2>3
<1> QED BY <1>1, <1>2, <1>3, <1>4, CallsMove

(* A call is answered with what is stored; when a SELECT fails, with zeros or
   with an error. *)
LEMMA ReadInv ==
  ASSUME Inv, NEW c \in Calls, Read(c) \/ ReadFails(c)
  PROVE  Inv'
<1>1. PICK n, build : n = calls[c].node /\ build = calls[c].build
  OBVIOUS
<1>2. n \in Nodes /\ page[n] # "other" /\ build \in BOOLEAN /\ (build => page[n] = "dashboard")
  <2>1. calls[c] # Idle /\ calls[c].do = "read"
    BY DEF Read, ReadFails, Idle
  <2> QED BY <1>1, <2>1 DEF Inv, CallInv, CallOK
<1>3. /\ UNCHANGED <<page, rows, total, shown, history>> /\ page' = page /\ dash' = dash
      /\ \/ UNCHANGED <<writes, events>>
         \/ events < MaxEvents /\ events' = events + 1 /\ UNCHANGED writes
  BY DEF Read, ReadFails, widgets
<1>4. dash \in [Nodes -> Dashboards]
  BY DEF Inv, PageInv
<1>5. ASSUME NEW answer, page[n] = "dashboard" => answer \in 0..MaxWrites,
             calls' = [calls EXCEPT ![c] = Answered(c, answer)]
      PROVE  Inv'
  <2>1. PICK x : x = [do |-> "arrive", node |-> n, build |-> build, answer |-> answer]
    OBVIOUS
  <2>2. x # Idle /\ x.do = "arrive" /\ x.node = n /\ x.build = build /\ x.answer = answer
    BY <2>1 DEF Idle
  <2>3. CallOK(x)'
    BY <1>2, <1>3, <1>5, <2>1, <2>2 DEF CallOK
  <2>4. calls' = [d \in Calls |-> calls'[d]] /\ \A d \in Calls : calls'[d] = calls[d] \/ calls'[d] = x
    BY <1>1, <1>5, <2>1 DEF Inv, CallInv, Answered
  <2> QED BY <1>3, <1>4, <2>3, <2>4, CallsMove
<1>6. CASE Read(c)
  <2>1. PICK answer : answer = Answer(n)
    OBVIOUS
  <2>2. page[n] = "dashboard" => answer \in 0..MaxWrites
    <3>1. total \in 0..MaxWrites
      BY Bounds DEF Inv, CountInv
    <3> QED BY <2>1, <3>1 DEF Answer
  <2> QED BY <1>1, <1>5, <1>6, <2>1, <2>2 DEF Read
<1>7. CASE ReadFails(c) /\ page[n] # "chat"
  <2>1. 0 \in 0..MaxWrites
    BY Bounds
  <2>2. calls' = [calls EXCEPT ![c] = Answered(c, 0)]
    BY <1>1, <1>7 DEF ReadFails
  <2> QED BY <1>5, <2>1, <2>2
<1>8. CASE ReadFails(c) /\ page[n] = "chat"
  <2>1. calls' = [d \in Calls |-> calls'[d]] /\ \A d \in Calls : calls'[d] = calls[d] \/ calls'[d] = Idle
    BY <1>1, <1>8 DEF ReadFails, Inv, CallInv
  <2>2. CallOK(Idle)'
    BY DEF CallOK
  <2> QED BY <1>3, <1>4, <2>1, <2>2, CallsMove
<1> QED BY <1>6, <1>7, <1>8

(* The time is taken before the row is written. *)
LEMMA StampInv ==
  ASSUME Inv, NEW c \in Calls, Stamp(c)
  PROVE  Inv'
<1>1. PICK n, text : n = calls[c].node /\ text = calls[c].text
  OBVIOUS
<1>2. n \in Nodes /\ text \in Texts
  <2>1. calls[c] # Idle /\ calls[c].do = "stamp"
    BY DEF Stamp, Idle
  <2> QED BY <1>1, <2>1 DEF Inv, CallInv, CallOK
<1>3. PICK t \in Times :
        calls' = [calls EXCEPT ![c] = [do |-> "insert", node |-> n, text |-> text, at |-> t]]
  BY <1>1 DEF Stamp
<1>4. PICK x : x = [do |-> "insert", node |-> n, text |-> text, at |-> t]
  OBVIOUS
<1>5. calls' = [calls EXCEPT ![c] = x]
  BY <1>3, <1>4
<1>6. x # Idle /\ x.do = "insert" /\ x.node = n /\ x.text = text /\ x.at = t
  BY <1>4 DEF Idle
<1>7. CallOK(x)'
  BY <1>2, <1>3, <1>6 DEF CallOK
<1>8. calls' = [d \in Calls |-> calls'[d]] /\ \A d \in Calls : calls'[d] = calls[d] \/ calls'[d] = x
  BY <1>5 DEF Inv, CallInv
<1>9. UNCHANGED <<page, rows, total, shown, history, writes, events>> /\ dash' = dash
  BY DEF Stamp, widgets
<1> QED BY <1>7, <1>8, <1>9, CallsMove DEF Inv, PageInv

(* The page is built anew, and forgets the answers that are under way. *)
LEMMA ShowInv ==
  ASSUME Inv, NEW n \in Nodes, NEW p \in Pages, Show(n, p)
  PROVE  Inv'
<1>1. /\ UNCHANGED <<rows, total, accepted, written, writes>>
      /\ events < MaxEvents /\ events' = events + 1
      /\ page' = [page EXCEPT ![n] = p] /\ shown' = [shown EXCEPT ![n] = Blank]
      /\ dash' = [dash EXCEPT ![n] = NewDashboard]
  BY DEF Show, history
<1>2. StoreInv'
  BY <1>1 DEF Inv, StoreInv, Stored
<1>3. CountInv'
  <2>1. total \in 0..writes
    BY DEF Inv, CountInv
  <2> QED BY <1>1, <2>1, Bounds DEF CountInv
<1>4. /\ page'[n] = p
      /\ \A m \in Nodes \ {n} : page'[m] = page[m] /\ shown'[m] = shown[m] /\ dash'[m] = dash[m]
      /\ page' \in [Nodes -> Pages]
  BY <1>1 DEF Inv, PageInv
<1>5. PageInv'
  <2>1. NewDashboard \in Dashboards
    BY DEF NewDashboard, Dashboards
  <2>2. dash' \in [Nodes -> Dashboards] /\ dash'[n] = NewDashboard
    BY <1>1, <2>1 DEF Inv, PageInv
  <2>3. shown' = [m \in Nodes |-> shown'[m]] /\ shown'[n] = Blank
    BY <1>1 DEF Inv, PageInv
  <2> QED BY <1>4, <2>2, <2>3 DEF Inv, PageInv
<1>6. CallInv'
  <2>1. calls' = [c \in Calls |-> calls'[c]]
    BY DEF Show
  <2>2. ASSUME NEW c \in Calls PROVE CallOK(calls[c])'
    <3>1. PICK call : call = calls[c]
      OBVIOUS
    <3>2. CallOK(call)
      BY <3>1 DEF Inv, CallInv
    <3>3. calls'[c] = IF call # Idle /\ call.node = n /\ call.do \in {"read", "arrive"}
                      THEN Idle ELSE call
      BY <3>1 DEF Show, Polling
    <3>4. CASE calls'[c] = Idle
      BY <3>4 DEF CallOK
    <3>5. CASE calls'[c] = call /\ call # Idle /\ call.node # n
      <4>1. page'[call.node] = page[call.node]
        BY <1>4, <3>2, <3>5 DEF CallOK
      <4>2. CallOK(call)'
        BY <3>2, <4>1, CallKept
      <4> QED BY <3>5, <4>2 DEF CallOK
    <3>6. CASE calls'[c] = call /\ call # Idle /\ call.do \in {"stamp", "insert"}
      <4>1. CallOK(call)'
        BY <3>2, <3>6 DEF CallOK
      <4> QED BY <3>6, <4>1 DEF CallOK
    <3> QED BY <3>2, <3>3, <3>4, <3>5, <3>6 DEF CallOK
  <2> QED BY <2>1, <2>2 DEF CallInv
<1> QED BY <1>2, <1>3, <1>5, <1>6 DEF Inv

(* The call of a page is over, and nothing else of the calls changes. *)
LEMMA CallEnds ==
  ASSUME CallInv, NEW c \in Calls, page' = page, calls' = [calls EXCEPT ![c] = Idle]
  PROVE  CallInv'
<1>1. calls' = [d \in Calls |-> calls'[d]] /\ \A d \in Calls : calls'[d] = calls[d] \/ calls'[d] = Idle
  BY DEF CallInv
<1>2. ASSUME NEW d \in Calls PROVE CallOK(calls[d])'
  <2>1. CASE calls'[d] = Idle
    BY <2>1 DEF CallOK
  <2>2. CASE calls'[d] = calls[d]
    <3>1. PICK call : call = calls[d]
      OBVIOUS
    <3>2. CallOK(call)'
      BY <3>1, CallKept DEF CallInv
    <3> QED BY <2>2, <3>1, <3>2 DEF CallOK
  <2> QED BY <1>1, <2>1, <2>2
<1> QED BY <1>1, <1>2 DEF CallInv

(* The page takes the answer that came last, however old it is. *)
LEMMA ArriveInv ==
  ASSUME Inv, NEW c \in Calls, Arrive(c)
  PROVE  Inv'
<1>1. PICK n, answer : n = calls[c].node /\ answer = calls[c].answer
  OBVIOUS
<1>2. /\ n \in Nodes /\ page[n] # "other"
      /\ page[n] = "dashboard" => answer \in 0..MaxWrites
      /\ calls[c].build \in BOOLEAN
  <2>1. calls[c] # Idle /\ calls[c].do = "arrive"
    BY DEF Arrive, Idle
  <2> QED BY <1>1, <2>1 DEF Inv, CallInv, CallOK
<1>3. /\ UNCHANGED <<page, rows, total, history, writes, events>>
      /\ page' = page /\ calls' = [calls EXCEPT ![c] = Idle]
  BY DEF Arrive
<1>4. StoreInv' /\ CountInv'
  BY <1>3 DEF Inv, StoreInv, CountInv, Stored, history
<1>5. PageInv'
  <2>1. CASE page[n] = "chat"
    <3>1. shown' = [shown EXCEPT ![n] = answer] /\ dash' = dash
      BY <1>1, <2>1 DEF Arrive
    <3> QED BY <1>3, <2>1, <3>1 DEF Inv, PageInv
  <2>2. CASE page[n] = "dashboard"
    <3>1. PICK r : /\ dash' = [dash EXCEPT ![n] = r]
                   /\ r = [stats |-> answer,
                           dirty |-> dash[n].dirty \/ dash[n].stats # answer,
                           view |-> IF calls[c].build THEN "stats" ELSE dash[n].view]
      BY <1>1, <2>2 DEF Arrive
    <3>2. shown' = shown
      BY <1>1, <2>2 DEF Arrive
    <3>3. r \in Dashboards
      <4>1. dash[n].dirty \in BOOLEAN /\ dash[n].view \in {"spinner", "stats", "error"}
        BY <1>2 DEF Inv, PageInv, Dashboards
      <4>2. (dash[n].dirty \/ dash[n].stats # answer) \in BOOLEAN
        BY <4>1
      <4> QED BY <1>2, <2>2, <3>1, <4>1, <4>2 DEF Dashboards
    <3> QED BY <1>3, <2>2, <3>1, <3>2, <3>3 DEF Inv, PageInv
  <2> QED BY <1>1, <2>1, <2>2 DEF Arrive
<1>6. CallInv'
  BY <1>3, CallEnds DEF Inv
<1> QED BY <1>4, <1>5, <1>6 DEF Inv

(* Statistics that are saved, by a request or from a stale copy. *)
LEMMA CountStep ==
  ASSUME Inv, Count
  PROVE  Inv'
<1>1. /\ UNCHANGED <<page, rows, shown, dash, calls, accepted, written, events>>
      /\ writes < MaxWrites /\ writes' = writes + 1 /\ total' \in 1..(total + 1)
  BY DEF Count, widgets, history
<1>2. StoreInv' /\ PageInv'
  BY <1>1 DEF Inv, StoreInv, PageInv, Stored
<1>3. CountInv'
  <2>1. total \in 0..writes
    BY DEF Inv, CountInv
  <2> QED BY <1>1, <2>1, Bounds DEF CountInv
<1>4. CallInv'
  BY <1>1 DEF Inv, CallInv, CallOK
<1> QED BY <1>2, <1>3, <1>4 DEF Inv

(* A row is written where there is none, or not at all. *)
LEMMA InsertInv ==
  ASSUME Inv, NEW c \in Calls, Insert(c)
  PROVE  Inv'
<1>1. PICK n, text, t, row, key : /\ n = calls[c].node /\ text = calls[c].text /\ t = calls[c].at
                                  /\ key = password[n] /\ row = Row(c)
  OBVIOUS
<1>2. n \in Nodes /\ text \in Texts /\ t \in Times /\ key \in Passwords
  <2>1. calls[c] # Idle /\ calls[c].do = "insert"
    BY DEF Insert, Idle
  <2> QED BY <1>1, <2>1, ChatAssumption DEF Inv, CallInv, CallOK
<1>3. row \in Rows /\ row # NoRow
  <2>1. row = [sender |-> n, text |-> text, key |-> key] /\ n # ""
    BY <1>1, <1>2, ChatAssumption DEF Row
  <2> QED BY <1>2, <2>1 DEF Rows, NoRow
<1>4. /\ UNCHANGED <<page, total, shown, dash, writes, events>>
      /\ calls' = [calls EXCEPT ![c] = Idle]
  BY <1>1 DEF Insert, widgets
<1>5. StoreInv'
  <2>1. CASE UNCHANGED <<rows, written>>
    BY <1>4, <2>1 DEF Inv, StoreInv, Stored
  <2>2. ASSUME rows[t] = NoRow, rows' = [rows EXCEPT ![t] = row],
               written' = written \cup {[at |-> t, row |-> row]}
        PROVE  StoreInv'
    <3>1. /\ rows' \in [Times -> Rows] /\ rows'[t] = row
          /\ \A u \in Times \ {t} : rows'[u] = rows[u]
      BY <1>2, <1>3, <2>2 DEF Inv, StoreInv
    <3>2. Stored' = Stored \cup {t} /\ \A u \in Stored : rows'[u] = rows[u]
      BY <1>2, <1>3, <2>2, <3>1 DEF Stored
    <3>3. IsFiniteSet(Stored')
      BY <3>2, FS_AddElement DEF Inv, StoreInv
    <3>4. \A a \in written' : a.at \in Stored' /\ rows'[a.at] = a.row
      BY <2>2, <3>1, <3>2 DEF Inv, StoreInv
    <3> QED BY <1>4, <3>1, <3>3, <3>4 DEF Inv, StoreInv
  <2> QED BY <1>1, <2>1, <2>2 DEF Insert
<1>6. CountInv' /\ PageInv'
  BY <1>4 DEF Inv, CountInv, PageInv
<1>7. CallInv'
  BY <1>4, CallEnds DEF Inv
<1> QED BY <1>5, <1>6, <1>7 DEF Inv

(* Every step keeps what is stored, shown and under way in order. *)
LEMMA InvInductive == Inv /\ [Next]_vars => Inv'
<1> SUFFICES ASSUME Inv, [Next]_vars PROVE Inv'
  OBVIOUS
<1>1. CASE UNCHANGED vars
  <2>1. calls' = [c \in Calls |-> calls'[c]]
    BY <1>1 DEF vars, Inv, CallInv
  <2>2. dash' = dash /\ dash \in [Nodes -> Dashboards]
    BY <1>1 DEF vars, widgets, Inv, PageInv
  <2> QED BY <1>1, <2>1, <2>2, CallsMove DEF vars, widgets
<1>2. ASSUME NEW c \in Calls, Serve(c) \/ ReadFails(c) PROVE Inv'
  BY <1>2, ReadInv, StampInv, InsertInv, ArriveInv DEF Serve
<1> QED BY <1>1, <1>2, PagesCall, BuildInv, ShowInv, CrashInv, CountStep DEF Next

-----------------------------------------------------------------------------
(* Theorems *)

(* The invariant holds of every behaviour. *)
LEMMA InvAlways == Spec => []Inv
  BY InitInv, InvInductive, PTL DEF Spec

(* Pages, calls, rows and counters have their types; a page that shows nothing
   awaits nothing, and only the open page holds anything. *)
THEOREM ChatTypeCorrect == Spec => []TypeOK
<1>1. Inv => TypeOK
  BY DEF Inv, StoreInv, CountInv, PageInv, CallInv, CallOK, TypeOK
<1> QED BY <1>1, InvAlways, PTL

(* Whatever is stored with other passwords, and whatever is sent later with the
   same time, a message whose INSERT succeeded is read by every node with the
   password of its sender (ReadChat).  Of a message whose INSERT fails it says
   nothing: its sender is told OK all the same. *)
THEOREM WrittenStaysReadable == Spec => []WrittenIsReadable
<1>1. Inv => WrittenIsReadable
  <2> SUFFICES ASSUME Inv, NEW a \in written, NEW n \in Nodes, password[n] = a.row.key
               PROVE  Contains(ReadChat(password[n]), Message(a.at, a.row.sender, a.row.text))
    BY DEF WrittenIsReadable
  <2>1. PICK t, key : t = a.at /\ key = password[n]
    OBVIOUS
  <2>2. t \in Stored /\ a.row = rows[t]
    BY <2>1 DEF Inv, StoreInv
  <2>3. Contains(ReadChat(key), Message(t, rows[t].sender, rows[t].text))
    BY <2>1, <2>2, HistoryIs, ChatAssumption DEF Inv, StoreInv
  <2> QED BY <2>1, <2>2, <2>3
<1> QED BY <1>1, InvAlways, PTL
=============================================================================
